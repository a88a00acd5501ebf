------------------------------ MODULE AuthKeys ------------------------------
(***************************************************************************)
(* The API gateway's part in the auth service.  A DID's key lets it call   *)
(* the gateway: POST /did creates the keys of the DIDs it has stored, once *)
(* all are stored, and PATCH /did/:did disables the key of the DID it has  *)
(* revoked.  The gateway and the tables know nothing of each other, and    *)
(* AuthRegistration's calls go on meanwhile.                               *)
(***************************************************************************)
EXTENDS AuthRegistration

VARIABLES
    keys,     \* [DIDs -> KeyStatus], the key whose value is the DID
    stored,   \* [Calls -> SUBSET DIDs], DIDs stored by the call that have no key yet
    keyStep   \* [Calls -> KeyStep], what a call does after its last command

keyVars == <<keys, stored, keyStep>>

KeyStatus == {"none", "enabled", "disabled"}
KeyStep == {"none", "creating", "disabling"}

KeyInit ==
    /\ Init
    /\ keys = [d \in DIDs |-> "none"]
    /\ stored = [c \in Calls |-> {}]
    /\ keyStep = [c \in Calls |-> "none"]

\* The command may be carried out and its answer lost: the DID is not among those
\* that get a key.
StoreDID(c) ==
    /\ RegisterDID(c)
    /\ stored' \in {stored, [stored EXCEPT ![c] = @ \cup (dids[c] \ dids'[c])]}
    /\ UNCHANGED <<keys, keyStep>>

\* A mutant: a key is created for every DID that was asked for.
AllDIDsStored(c) ==
    /\ pc[c] = "registering"
    /\ Goto(c, "answered")
    /\ keyStep' = [keyStep EXCEPT ![c] = "creating"]
    /\ stored' = [stored EXCEPT ![c] = @ \cup dids[c]]
    /\ UNCHANGED <<codeVars, didVars, callVars, verified, keys>>

\* Without a new DID the call is refused.
DIDsStored(c) ==
    /\ DIDsRegistered(c)
    /\ keyStep' = [keyStep EXCEPT ![c] = IF stored[c] = {} THEN "none" ELSE "creating"]
    /\ UNCHANGED <<keys, stored>>

DIDRevoked(c) ==
    /\ RevokeDID(c)
    /\ keyStep' = [keyStep EXCEPT ![c] = IF pc'[c] = "answered" THEN "disabling" ELSE "none"]
    /\ UNCHANGED <<keys, stored>>

\* A value that has a key already makes the gateway refuse.
CreateApiKey(c) ==
    /\ keyStep[c] = "creating"
    /\ \E d \in stored[c] :
         /\ keys[d] = "none"
         /\ keys' = [keys EXCEPT ![d] = "enabled"]
         /\ stored' = [stored EXCEPT ![c] = @ \ {d}]
    /\ UNCHANGED <<vars, keyStep>>

DisableApiKey(c) ==
    /\ keyStep[c] = "disabling"
    /\ keys' = [d \in DIDs |->
                  IF d \in dids[c] /\ keys[d] = "enabled" THEN "disabled" ELSE keys[d]]
    /\ keyStep' = [keyStep EXCEPT ![c] = "none"]
    /\ UNCHANGED <<vars, stored>>

\* All keys are created, or the gateway fails: those that are left are never
\* created, an error while disabling is only logged, and so is a search that does
\* not find the key.
KeysEnd(c) ==
    /\ keyStep[c] # "none"
    /\ keyStep' = [keyStep EXCEPT ![c] = "none"]
    /\ stored' = [stored EXCEPT ![c] = {}]
    /\ UNCHANGED <<vars, keys>>

\* The commands that have nothing to do with keys.
OtherCommand(c) ==
    \/ Verification(c) \/ Authorization(c) \/ Refuse(c) \/ SkipDID(c)
    \/ Registration(c) /\ pc[c] \notin {"registering", "revoking"}

KeyNext ==
    \E c \in Calls :
        \/ OtherCommand(c) /\ UNCHANGED keyVars
        \/ StoreDID(c) \/ DIDsStored(c) \/ DIDRevoked(c)
        \/ CreateApiKey(c) \/ DisableApiKey(c) \/ KeysEnd(c)

KeySpec == KeyInit /\ [][KeyNext]_<<vars, keyVars>>

-----------------------------------------------------------------------------

\* The gateway lets nobody in whose DID is not in the table, and disables no key of
\* a DID that is not revoked, although DIDs are stored, skipped and revoked by other
\* calls between the commands of one and answers are lost.
KeysFollowDIDs ==
    \A d \in DIDs :
        /\ keys[d] # "none" => didStatus[d] # "none"
        /\ keys[d] = "disabled" => didStatus[d] = "Revoked"
=============================================================================
