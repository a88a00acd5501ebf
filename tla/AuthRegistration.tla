-------------------------- MODULE AuthRegistration --------------------------
(***************************************************************************)
(* The auth service (auth/): a user has a verification code sent to an     *)
(* email address, registers DIDs with it, and may revoke them with another *)
(* one; every later request of a DID carries a nonce that is accepted      *)
(* once.  Each HTTP request is a call of a lambda of its own; calls share  *)
(* the DynamoDB tables, where nothing is a transaction: one action is one  *)
(* command with its condition.  The conditions of writes see the latest    *)
(* item; reads are eventually consistent and may show an older one.        *)
(***************************************************************************)
EXTENDS FiniteSets

CONSTANTS
    Calls,       \* HTTP requests
    Emails,
    NoEmail,
    Codes,       \* the codes generateOTP may ever make, each once
    NoCode,
    DIDs,
    Nonces,      \* nonces a DID may send, other than INITIAL_NONCE
    Containing   \* [Emails -> SUBSET Emails], those with this one as a substring

ASSUME EmailsAssumption ==
    NoEmail \notin Emails /\ Containing \in [Emails -> SUBSET Emails]
ASSUME CodesAssumption == NoCode \notin Codes

VARIABLES
    codeStatus,          \* [Codes -> CodeStatus], curr_status of the OTP item
    codeEmail,           \* [Codes -> Emails \cup {NoEmail}], its key
    didStatus,           \* [DIDs -> DIDStatus], of the item with INITIAL_NONCE
    didEmail,            \* [DIDs -> Emails \cup {NoEmail}]
    usedNonces,          \* [DIDs -> SUBSET Nonces], the DID's other items
    pc,                  \* [Calls -> CallStep]
    email, dids, nonce,  \* arguments of a call; dids are those left to register
    code,                \* another argument, or the code the call has made
    found, left,         \* [Calls -> SUBSET Codes], active codes found, and left to expire
    verified             \* calls whose code was right

codeVars == <<codeStatus, codeEmail>>
didVars == <<didStatus, didEmail, usedNonces>>
callVars == <<email, dids, nonce, code, found, left>>
vars == <<codeVars, didVars, pc, callVars, verified>>

CodeStatus == {"none", "Active", "Expired", "Used"}
DIDStatus == {"none", "Active", "Revoked"}
CallStep == {"new", "expiring", "checkingToRegister", "checkingToRevoke",
             "registering", "revoking", "addingNonce", "answered", "refused"}

Init ==
    /\ codeStatus = [k \in Codes |-> "none"]
    /\ codeEmail = [k \in Codes |-> NoEmail]
    /\ didStatus = [d \in DIDs |-> "none"]
    /\ didEmail = [d \in DIDs |-> NoEmail]
    /\ usedNonces = [d \in DIDs |-> {}]
    /\ pc = [c \in Calls |-> "new"]
    /\ email = [c \in Calls |-> NoEmail]
    /\ dids = [c \in Calls |-> {}]
    /\ nonce = [c \in Calls |-> {}]
    /\ code = [c \in Calls |-> NoCode]
    /\ found = [c \in Calls |-> {}] /\ left = [c \in Calls |-> {}]
    /\ verified = {}

Goto(c, step) == pc' = [pc EXCEPT ![c] = step]

\* After the last command: its answer may be lost although it was carried out.
Finish(c) == \E step \in {"answered", "refused"} : Goto(c, step)

-----------------------------------------------------------------------------
(* POST /verification: createEmailVerificationCode.                        *)

\* Every code of the email was active once; the query may show it so, or not know it.
FindActiveCodes(c, e) ==
    /\ pc[c] = "new"
    /\ \E active \in SUBSET {k \in Codes : codeEmail[k] = e} :
         found' = [found EXCEPT ![c] = active] /\ left' = [left EXCEPT ![c] = active]
    /\ email' = [email EXCEPT ![c] = e]
    /\ Goto(c, "expiring")
    /\ UNCHANGED <<codeVars, didVars, dids, nonce, code, verified>>

\* The condition is that it is not Expired yet: a code used in the meantime becomes
\* Expired, one that another call has expired ends this call with an error.
ExpireCode(c) ==
    /\ pc[c] = "expiring"
    /\ \E k \in left[c] :
         /\ codeStatus[k] # "Expired"
         /\ codeStatus' = [codeStatus EXCEPT ![k] = "Expired"]
         /\ left' = [left EXCEPT ![c] = @ \ {k}]
    /\ UNCHANGED <<codeEmail, didVars, pc, email, dids, nonce, code,
                   found, verified>>

MakeCode(c) ==
    /\ \E k \in Codes :
         /\ codeStatus[k] = "none"
         /\ codeStatus' = [codeStatus EXCEPT ![k] = "Active"]
         /\ codeEmail' = [codeEmail EXCEPT ![k] = email[c]]
         /\ code' = [code EXCEPT ![c] = k]
    /\ Finish(c)
    /\ UNCHANGED <<didVars, email, dids, nonce, found, left, verified>>

\* A mutant: the updates that expire the older codes are not waited for.
AddCodeAtOnce(c) == pc[c] = "expiring" /\ MakeCode(c)

AddCode(c) == pc[c] = "expiring" /\ left[c] = {} /\ MakeCode(c)

-----------------------------------------------------------------------------
(* POST /did and PATCH /did/:did.                                          *)

\* The administrator gives no code.  Anyone else is refused while the config item,
\* which an administrator may change at any time, says that registration is closed.
Register(c, e, k, D) ==
    /\ pc[c] = "new"
    /\ email' = [email EXCEPT ![c] = e]
    /\ code' = [code EXCEPT ![c] = k]
    /\ dids' = [dids EXCEPT ![c] = D]
    /\ IF k = NoCode
       THEN Goto(c, "registering")
       ELSE Goto(c, "checkingToRegister") \/ Goto(c, "refused")
    /\ UNCHANGED <<codeVars, didVars, nonce, found, left, verified>>

Revoke(c, e, k, d) ==
    /\ pc[c] = "new"
    /\ email' = [email EXCEPT ![c] = e]
    /\ code' = [code EXCEPT ![c] = k]
    /\ dids' = [dids EXCEPT ![c] = {d}]
    /\ Goto(c, "checkingToRevoke")
    /\ UNCHANGED <<codeVars, didVars, nonce, found, left, verified>>

Accept(c) ==
    /\ Goto(c, IF pc[c] = "checkingToRegister" THEN "registering" ELSE "revoking")
    /\ verified' = verified \cup {c}
    /\ UNCHANGED <<codeEmail, didVars, callVars>>

\* A mutant: the condition is that the item exists, whatever its status.
CheckCodeExists(c) ==
    /\ pc[c] \in {"checkingToRegister", "checkingToRevoke"}
    /\ codeStatus[code[c]] # "none" /\ codeEmail[code[c]] = email[c]
    /\ codeStatus' = [codeStatus EXCEPT ![code[c]] = "Used"]
    /\ Accept(c)

\* _checkCorrectOTP: one conditional update uses the code up, and the call is refused
\* if the item that it returns is past expires_at_unix.
CheckCode(c) ==
    /\ pc[c] \in {"checkingToRegister", "checkingToRevoke"}
    /\ codeStatus[code[c]] = "Active" /\ codeEmail[code[c]] = email[c]
    /\ codeStatus' = [codeStatus EXCEPT ![code[c]] = "Used"]
    /\ \/ Accept(c)
       \/ /\ Goto(c, "refused")
          /\ UNCHANGED <<codeEmail, didVars, callVars, verified>>

Put(c, d) ==
    /\ didStatus' = [didStatus EXCEPT ![d] = "Active"]
    /\ didEmail' = [didEmail EXCEPT ![d] = email[c]]
    /\ dids' = [dids EXCEPT ![c] = @ \ {d}]
    /\ UNCHANGED <<codeVars, usedNonces, pc, email, nonce, code,
                   found, left, verified>>

\* A mutant: the item is put whether or not there is one.
PutDID(c) == pc[c] = "registering" /\ \E d \in dids[c] : Put(c, d)

RegisterDID(c) ==
    /\ pc[c] = "registering"
    /\ \E d \in dids[c] : didStatus[d] = "none" /\ Put(c, d)

\* A DID with an item, or one whose command fails, is left out of the results.
SkipDID(c) ==
    /\ pc[c] = "registering"
    /\ \E d \in dids[c] : dids' = [dids EXCEPT ![c] = @ \ {d}]
    /\ UNCHANGED <<codeVars, didVars, pc, email, nonce, code, found,
                   left, verified>>

DIDsRegistered(c) ==
    /\ pc[c] = "registering"
    /\ dids[c] = {}
    /\ Goto(c, "answered")
    /\ UNCHANGED <<codeVars, didVars, callVars, verified>>

SetRevoked(c, D) ==
    /\ pc[c] = "revoking"
    /\ \E d \in D :
         didStatus[d] # "Revoked" /\ didStatus' = [didStatus EXCEPT ![d] = "Revoked"]
    /\ Finish(c)
    /\ UNCHANGED <<codeVars, didEmail, usedNonces, callVars, verified>>

\* A mutant: the update does not look at the item's email, and creates one.
RevokeAnyDID(c) == SetRevoked(c, dids[c])

RevokeDID(c) ==
    SetRevoked(c, {d \in dids[c] :
                     didStatus[d] # "none" /\ didEmail[d] \in Containing[email[c]]})

-----------------------------------------------------------------------------
(* The authorizer: addNonce.                                               *)

\* Every DID with an item was active once.
CheckDID(c, d, n) ==
    /\ pc[c] = "new"
    /\ dids' = [dids EXCEPT ![c] = {d}]
    /\ nonce' = [nonce EXCEPT ![c] = {n}]
    /\ \/ didStatus[d] # "none" /\ Goto(c, "addingNonce")
       \/ Goto(c, "refused")
    /\ UNCHANGED <<codeVars, didVars, email, code, found, left, verified>>

\* A mutant: the nonce is put whether or not there is an item.
PutNonce(c) ==
    /\ pc[c] = "addingNonce"
    /\ usedNonces' = [d \in DIDs |->
                        usedNonces[d] \cup (IF d \in dids[c] THEN nonce[c] ELSE {})]
    /\ Finish(c)
    /\ UNCHANGED <<codeVars, didStatus, didEmail, callVars, verified>>

AddNonce(c) ==
    /\ pc[c] = "addingNonce"
    /\ \A d \in dids[c] : nonce[c] \cap usedNonces[d] = {}
    /\ usedNonces' = [d \in DIDs |->
                        usedNonces[d] \cup (IF d \in dids[c] THEN nonce[c] ELSE {})]
    /\ Finish(c)
    /\ UNCHANGED <<codeVars, didStatus, didEmail, callVars, verified>>

-----------------------------------------------------------------------------

\* The condition of a command does not hold, or the command fails; so may an invalid
\* DID among those to register, after the code was used up.
Refuse(c) ==
    /\ pc[c] \notin {"new", "answered", "refused"}
    /\ Goto(c, "refused")
    /\ UNCHANGED <<codeVars, didVars, callVars, verified>>

Verification(c) ==
    (\E e \in Emails : FindActiveCodes(c, e)) \/ ExpireCode(c) \/ AddCode(c)

Registration(c) ==
    \/ \E e \in Emails, k \in Codes \cup {NoCode}, D \in SUBSET DIDs : Register(c, e, k, D)
    \/ \E e \in Emails, k \in Codes, d \in DIDs : Revoke(c, e, k, d)
    \/ CheckCode(c) \/ RegisterDID(c) \/ SkipDID(c) \/ DIDsRegistered(c) \/ RevokeDID(c)

Authorization(c) ==
    (\E d \in DIDs, n \in Nonces : CheckDID(c, d, n)) \/ AddNonce(c)

Next ==
    \E c \in Calls :
        Verification(c) \/ Registration(c) \/ Authorization(c) \/ Refuse(c)

Spec == Init /\ [][Next]_vars

-----------------------------------------------------------------------------
(* Properties.                                                             *)

\* Every variable stays in its domain, and an item of a DID has an email: no update
\* creates an item.
TypeOK ==
    /\ codeStatus \in [Codes -> CodeStatus]
    /\ codeEmail \in [Codes -> Emails \cup {NoEmail}]
    /\ didStatus \in [DIDs -> DIDStatus]
    /\ didEmail \in [DIDs -> Emails \cup {NoEmail}]
    /\ \A d \in DIDs : didStatus[d] = "none" <=> didEmail[d] = NoEmail
    /\ usedNonces \in [DIDs -> SUBSET Nonces]
    /\ pc \in [Calls -> CallStep]
    /\ email \in [Calls -> Emails \cup {NoEmail}]
    /\ dids \in [Calls -> SUBSET DIDs]
    /\ nonce \in [Calls -> SUBSET Nonces]
    /\ code \in [Calls -> Codes \cup {NoCode}]
    /\ found \in [Calls -> SUBSET Codes]
    /\ left \in [Calls -> SUBSET Codes]
    /\ verified \subseteq Calls

\* A code lets one call through, however many present it at once, whether they
\* register or revoke, and whatever later codes do to it.
CodesWorkOnce ==
    \A c, d \in verified : code[c] = code[d] => c = d

\* When a call has made a new code, none of those it found active works any more,
\* used or expired by whichever call came first.
OlderCodesAreDead ==
    \A c \in Calls : pc[c] = "answered" => \A k \in found[c] : codeStatus[k] # "Active"

\* A DID belongs to the email that registered it first, and once revoked it is not
\* active again, whatever calls overlap.
RegistrationIsFinal ==
    [][\A d \in DIDs :
         /\ didEmail[d] # NoEmail => didEmail'[d] = didEmail[d]
         /\ didStatus[d] = "Revoked" => didStatus'[d] = "Revoked"]_didVars

\* A nonce of a DID is accepted from one call, however many present it at once.
NoncesWorkOnce ==
    \A c, d \in Calls :
        /\ pc[c] = "answered" /\ pc[d] = "answered"
        /\ nonce[c] = nonce[d] /\ nonce[c] # {} /\ dids[c] = dids[d]
        => c = d
=============================================================================
