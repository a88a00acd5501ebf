----------------------------- MODULE AuthProofs -----------------------------
(***************************************************************************)
(* Proofs about AuthRegistration and AuthKeys for any number of calls,     *)
(* emails, codes, DIDs and nonces: first what the tables promise, then     *)
(* that the gateway's keys follow the DIDs of the table.                   *)
(***************************************************************************)
EXTENDS AuthKeys, TLAPS

-----------------------------------------------------------------------------
(* AuthRegistration.                                                       *)

\* The inductive part of the type invariant: a call that may write an email or a
\* code has one.
ArgumentsGiven ==
    \A c \in Calls :
        /\ pc[c] \in {"expiring", "registering", "checkingToRegister", "checkingToRevoke"}
             => email[c] \in Emails
        /\ pc[c] \in {"checkingToRegister", "checkingToRevoke"} => code[c] \in Codes

TypeInv == TypeOK /\ ArgumentsGiven

LEMMA TypeInvInit == Init => TypeInv
  BY DEF Init, TypeInv, TypeOK, ArgumentsGiven, CodeStatus, DIDStatus, CallStep

LEMMA TypeInvStep ==
  ASSUME TypeInv, [Next]_vars
  PROVE  TypeInv'
  <1> USE EmailsAssumption, CodesAssumption
      DEF TypeInv, TypeOK, ArgumentsGiven, CodeStatus, DIDStatus, CallStep, Goto, Finish,
          codeVars, didVars, callVars
  <1>1. ASSUME NEW c \in Calls, Verification(c) PROVE TypeInv'
    <2>1. CASE \E e \in Emails : FindActiveCodes(c, e)
      BY <2>1 DEF FindActiveCodes
    <2>2. CASE ExpireCode(c)
      BY <2>2 DEF ExpireCode
    <2>3. CASE AddCode(c)
      BY <2>3 DEF AddCode, MakeCode
    <2> QED
      BY <1>1, <2>1, <2>2, <2>3 DEF Verification
  <1>2. ASSUME NEW c \in Calls, Registration(c) PROVE TypeInv'
    <2>1. CASE \E e \in Emails, k \in Codes \cup {NoCode}, D \in SUBSET DIDs : Register(c, e, k, D)
      BY <2>1 DEF Register
    <2>2. CASE \E e \in Emails, k \in Codes, d \in DIDs : Revoke(c, e, k, d)
      BY <2>2 DEF Revoke
    <2>3. CASE CheckCode(c)
      BY <2>3 DEF CheckCode, Accept
    <2>4. CASE RegisterDID(c)
      BY <2>4 DEF RegisterDID, Put
    <2>5. CASE SkipDID(c) \/ DIDsRegistered(c)
      BY <2>5 DEF SkipDID, DIDsRegistered
    <2>6. CASE RevokeDID(c)
      BY <2>6 DEF RevokeDID, SetRevoked
    <2> QED
      BY <1>2, <2>1, <2>2, <2>3, <2>4, <2>5, <2>6 DEF Registration
  <1>3. ASSUME NEW c \in Calls, Authorization(c) PROVE TypeInv'
    BY <1>3 DEF Authorization, CheckDID, AddNonce
  <1>4. ASSUME NEW c \in Calls, Refuse(c) PROVE TypeInv'
    BY <1>4 DEF Refuse
  <1>5. CASE UNCHANGED vars
    BY <1>5 DEF vars
  <1> QED
    BY <1>1, <1>2, <1>3, <1>4, <1>5 DEF Next

\* Every variable stays in its domain, and every item of a DID has an email.
THEOREM TypeCorrect == Spec => []TypeOK
  <1>1. TypeInv => TypeOK
    BY DEF TypeInv
  <1> QED
    BY <1>1, TypeInvInit, TypeInvStep, PTL DEF Spec

-----------------------------------------------------------------------------
(* Codes.                                                                  *)

Dead(k) == codeStatus[k] \in {"Expired", "Used"}

\* No step brings a dead code back, and only a new code has no item.
LEMMA DeadCodesStayDead ==
  ASSUME TypeInv, [Next]_vars, NEW k \in Codes
  PROVE  /\ Dead(k) => Dead(k)'
         /\ codeStatus[k] # "none" => codeStatus'[k] # "none"
  <1> USE DEF TypeInv, TypeOK, ArgumentsGiven, Dead, codeVars
  <1>1. ASSUME NEW c \in Calls, Verification(c)
        PROVE  (Dead(k) => Dead(k)') /\ (codeStatus[k] # "none" => codeStatus'[k] # "none")
    BY <1>1 DEF Verification, FindActiveCodes, ExpireCode, AddCode, MakeCode
  <1>2. ASSUME NEW c \in Calls, Registration(c)
        PROVE  (Dead(k) => Dead(k)') /\ (codeStatus[k] # "none" => codeStatus'[k] # "none")
    BY <1>2
    DEF Registration, Register, Revoke, CheckCode, Accept, RegisterDID, Put, SkipDID,
        DIDsRegistered, RevokeDID, SetRevoked
  <1>3. ASSUME NEW c \in Calls, Authorization(c) \/ Refuse(c)
        PROVE  codeStatus' = codeStatus
    BY <1>3 DEF Authorization, CheckDID, AddNonce, Refuse
  <1>4. CASE UNCHANGED vars
    BY <1>4 DEF vars
  <1> QED
    BY <1>1, <1>2, <1>3, <1>4 DEF Next

\* The inductive invariant of CodesWorkOnce: the code of a call that was let through is
\* dead, and the call takes no other code any more.
VerifiedInv ==
    /\ \A c \in verified :
         /\ code[c] \in Codes /\ Dead(code[c])
         /\ pc[c] \in {"registering", "revoking", "answered", "refused"}
    /\ CodesWorkOnce

LEMMA VerifiedInvStep ==
  ASSUME TypeInv, VerifiedInv, [Next]_vars
  PROVE  VerifiedInv'
  <1> USE DEF VerifiedInv, CodesWorkOnce, TypeInv, TypeOK, ArgumentsGiven, Goto, Finish,
              callVars
  <1>1. \A k \in Codes : Dead(k) => Dead(k)'
    BY DeadCodesStayDead
  <1>2. ASSUME NEW c \in Calls, CheckCode(c) PROVE VerifiedInv'
    <2>1. code[c] \in Codes /\ codeStatus[code[c]] = "Active" /\ codeStatus'[code[c]] = "Used"
      BY <1>2 DEF CheckCode
    <2>2. code' = code /\ (verified' = verified \/ verified' = verified \cup {c})
      BY <1>2 DEF CheckCode, Accept
    <2>3. \A d \in verified : code[d] # code[c]
      BY <2>1 DEF Dead
    <2>4. /\ pc'[c] \in {"registering", "revoking", "refused"}
          /\ \A d \in Calls \ {c} : pc'[d] = pc[d]
      BY <1>2 DEF CheckCode, Accept
    <2>5. ASSUME NEW d \in verified'
          PROVE  /\ code'[d] \in Codes /\ Dead(code[d])'
                 /\ pc'[d] \in {"registering", "revoking", "answered", "refused"}
      <3>1. CASE d = c
        BY <2>1, <2>2, <2>4, <3>1 DEF Dead
      <3>2. CASE d # c
        BY <1>1, <2>2, <2>4, <2>5, <3>2 DEF Dead
      <3> QED
        BY <3>1, <3>2
    <2>6. ASSUME NEW a \in verified', NEW b \in verified', code'[a] = code'[b]
          PROVE  a = b
      BY <2>2, <2>3, <2>6
    <2>7. \A d \in verified' : /\ code'[d] \in Codes /\ Dead(code[d])'
                              /\ pc'[d] \in {"registering", "revoking", "answered", "refused"}
      BY <2>5
    <2> HIDE DEF TypeInv, TypeOK, ArgumentsGiven
    <2> QED
      BY <2>6, <2>7
  <1>3. ASSUME verified' = verified,
               \A c \in verified : code'[c] = code[c]
                  /\ pc'[c] \in {"registering", "revoking", "answered", "refused"}
        PROVE  VerifiedInv'
    BY <1>1, <1>3 DEF Dead
  <1>4. ASSUME NEW c \in Calls, Verification(c) PROVE VerifiedInv'
    <2>1. verified' = verified /\ c \notin verified
      BY <1>4 DEF Verification, FindActiveCodes, ExpireCode, AddCode, MakeCode
    <2>2. \A d \in Calls \ {c} : code'[d] = code[d] /\ pc'[d] = pc[d]
      BY <1>4 DEF Verification, FindActiveCodes, ExpireCode, AddCode, MakeCode
    <2> QED
      BY <1>3, <2>1, <2>2
  <1>5. ASSUME NEW c \in Calls, Registration(c), ~CheckCode(c) PROVE VerifiedInv'
    BY <1>3, <1>5
    DEF Registration, Register, Revoke, RegisterDID, Put, SkipDID, DIDsRegistered,
        RevokeDID, SetRevoked
  <1>6. ASSUME NEW c \in Calls, Authorization(c) \/ Refuse(c) PROVE VerifiedInv'
    BY <1>3, <1>6 DEF Authorization, CheckDID, AddNonce, Refuse
  <1>7. CASE UNCHANGED vars
    BY <1>3, <1>7 DEF vars
  <1> QED
    BY <1>2, <1>4, <1>5, <1>6, <1>7 DEF Next

\* A code lets one call through.
THEOREM OneCallPerCode == Spec => []CodesWorkOnce
  <1>1. Init => VerifiedInv
    BY DEF Init, VerifiedInv, CodesWorkOnce
  <1>2. VerifiedInv => CodesWorkOnce
    BY DEF VerifiedInv
  <1> QED
    BY <1>1, <1>2, TypeInvInit, TypeInvStep, VerifiedInvStep, PTL DEF Spec

\* The inductive invariant of OlderCodesAreDead: a call has dealt with the codes it
\* found and that are not left, and codes it found were made before.
FoundInv ==
    \A c \in Calls :
        /\ pc[c] \notin {"expiring", "answered", "refused"} => found[c] = {}
        /\ pc[c] = "expiring" => \A k \in found[c] \ left[c] : Dead(k)
        /\ pc[c] = "answered" => \A k \in found[c] : Dead(k)

LEMMA FoundInvStep ==
  ASSUME TypeInv, FoundInv, [Next]_vars
  PROVE  FoundInv'
  <1> USE DEF FoundInv, TypeInv, TypeOK, Goto, Finish, callVars
  <1>1. \A k \in Codes : Dead(k) => Dead(k)'
    BY DeadCodesStayDead
  <1>2. ASSUME NEW c \in Calls, Verification(c) PROVE FoundInv'
    <2>1. CASE \E e \in Emails : FindActiveCodes(c, e)
      BY <1>1, <2>1 DEF FindActiveCodes
    <2>2. CASE ExpireCode(c)
      <3>1. \A k \in left[c] \ left'[c] : k \in Codes => Dead(k)'
        BY <2>2 DEF ExpireCode, Dead
      <3>2. UNCHANGED <<pc, found>> /\ \A d \in Calls \ {c} : left'[d] = left[d]
        BY <2>2 DEF ExpireCode
      <3> QED
        BY <1>1, <3>1, <3>2
    <2>3. CASE AddCode(c)
      BY <1>1, <2>3 DEF AddCode, MakeCode
    <2> QED
      BY <1>2, <2>1, <2>2, <2>3 DEF Verification
  <1>3. ASSUME UNCHANGED <<found, left>>, NEW c \in Calls, NEW step,
               pc' = [pc EXCEPT ![c] = step], step # "expiring",
               pc[c] # "expiring" \/ step = "refused",
               pc[c] \notin {"answered", "refused"}
        PROVE  FoundInv'
    BY <1>1, <1>3
  <1>4. ASSUME NEW c \in Calls, Registration(c) PROVE FoundInv'
    <2>1. CASE RegisterDID(c) \/ SkipDID(c)
      BY <1>1, <2>1 DEF RegisterDID, Put, SkipDID
    <2> QED
      BY <1>3, <1>4, <2>1
      DEF Registration, Register, Revoke, CheckCode, Accept, DIDsRegistered, RevokeDID,
          SetRevoked
  <1>5. ASSUME NEW c \in Calls, Authorization(c) \/ Refuse(c) PROVE FoundInv'
    BY <1>3, <1>5 DEF Authorization, CheckDID, AddNonce, Refuse
  <1>6. CASE UNCHANGED vars
    BY <1>1, <1>6 DEF vars
  <1> QED
    BY <1>2, <1>4, <1>5, <1>6 DEF Next

\* When a call has made a new code, those it found active are dead.
THEOREM NewCodesSupersede == Spec => []OlderCodesAreDead
  <1>1. Init => FoundInv
    BY DEF Init, FoundInv
  <1>2. FoundInv => OlderCodesAreDead
    BY DEF FoundInv, OlderCodesAreDead, Dead
  <1> QED
    BY <1>1, <1>2, TypeInvInit, TypeInvStep, FoundInvStep, PTL DEF Spec

-----------------------------------------------------------------------------
(* DIDs and nonces.                                                        *)

\* An item of a DID keeps its email, and a revoked one its status: RegisterDID only
\* writes where there is none.
THEOREM RegistrationsAreFinal == Spec => RegistrationIsFinal
  <1> DEFINE Final == \A d \in DIDs :
                        /\ didEmail[d] # NoEmail => didEmail'[d] = didEmail[d]
                        /\ didStatus[d] = "Revoked" => didStatus'[d] = "Revoked"
  <1>1. ASSUME TypeInv, [Next]_vars PROVE [Final]_didVars
    <2> USE <1>1 DEF TypeInv, TypeOK, codeVars, callVars, didVars
    <2>1. ASSUME NEW c \in Calls, Registration(c) PROVE [Final]_didVars
      <3>1. CASE RegisterDID(c)
        BY <3>1 DEF RegisterDID, Put
      <3>2. CASE RevokeDID(c)
        BY <3>2 DEF RevokeDID, SetRevoked
      <3>3. CASE UNCHANGED didVars
        BY <3>3
      <3> QED
        BY <2>1, <3>1, <3>2, <3>3
        DEF Registration, Register, Revoke, CheckCode, Accept, SkipDID, DIDsRegistered
    <2>2. ASSUME NEW c \in Calls, Verification(c) \/ Refuse(c) PROVE UNCHANGED didVars
      BY <2>2 DEF Verification, FindActiveCodes, ExpireCode, AddCode, MakeCode, Refuse
    <2>3. ASSUME NEW c \in Calls, Authorization(c) PROVE UNCHANGED <<didStatus, didEmail>>
      BY <2>3 DEF Authorization, CheckDID, AddNonce
    <2>4. CASE UNCHANGED vars
      BY <2>4 DEF vars
    <2> QED
      BY <2>1, <2>2, <2>3, <2>4 DEF Next
  <1> QED
    BY <1>1, TypeInvInit, TypeInvStep, PTL DEF Spec, RegistrationIsFinal

\* The inductive invariant of NoncesWorkOnce: a call that has a nonce has one, of one
\* DID, and the nonce of an answered call is among those of the DID.
NonceInv ==
    /\ \A c \in Calls : nonce[c] # {} =>
         /\ \E d \in DIDs, n \in Nonces : dids[c] = {d} /\ nonce[c] = {n}
         /\ pc[c] \in {"addingNonce", "answered", "refused"}
         /\ pc[c] = "answered" => \A d \in dids[c] : nonce[c] \subseteq usedNonces[d]
    /\ NoncesWorkOnce

LEMMA NonceInvStep ==
  ASSUME TypeInv, NonceInv, [Next]_vars
  PROVE  NonceInv'
  <1> USE DEF TypeInv, TypeOK
  <1> DEFINE Given == {c \in Calls : nonce[c] # {}}
  <1>1. \A d \in DIDs : usedNonces[d] \subseteq usedNonces'[d]
    BY DEF Next, Verification, FindActiveCodes, ExpireCode, AddCode, MakeCode, Registration,
           Register, Revoke, CheckCode, Accept, RegisterDID, Put, SkipDID, DIDsRegistered,
           RevokeDID, SetRevoked, Authorization, CheckDID, AddNonce, Refuse,
           vars, callVars, didVars
  <1>2. ASSUME nonce' = nonce,
               \A c \in Given : /\ dids'[c] = dids[c]
                                /\ pc'[c] \in {pc[c], "refused"}
        PROVE  NonceInv'
    <2>1. ASSUME NEW c \in Calls, nonce[c] # {}
          PROVE  /\ \E d \in DIDs, n \in Nonces : dids'[c] = {d} /\ nonce'[c] = {n}
                 /\ pc'[c] \in {"addingNonce", "answered", "refused"}
                 /\ pc'[c] = "answered" => pc[c] = "answered"
                 /\ pc'[c] = "answered" => \A d \in dids'[c] : nonce'[c] \subseteq usedNonces'[d]
      BY <1>1, <1>2, <2>1 DEF NonceInv
    <2>2. NoncesWorkOnce'
      BY <1>2, <2>1 DEF NoncesWorkOnce, NonceInv
    <2> QED
      BY <1>2, <2>1, <2>2 DEF NonceInv
  <1>3. ASSUME NEW c \in Calls, NEW d \in DIDs, NEW n \in Nonces, CheckDID(c, d, n)
        PROVE  NonceInv'
    <2>1. /\ nonce'[c] = {n} /\ dids'[c] = {d} /\ pc'[c] \in {"addingNonce", "refused"}
          /\ \A b \in Calls \ {c} : nonce'[b] = nonce[b] /\ dids'[b] = dids[b] /\ pc'[b] = pc[b]
      BY <1>3 DEF CheckDID, Goto
    <2>2. NoncesWorkOnce'
      BY <2>1 DEF NoncesWorkOnce, NonceInv
    <2> QED
      BY <1>1, <2>1, <2>2 DEF NonceInv
  <1>4. ASSUME NEW c \in Calls, AddNonce(c) PROVE NonceInv'
    <2>1. /\ \A b \in Calls : nonce'[b] = nonce[b] /\ dids'[b] = dids[b]
          /\ \A b \in Calls \ {c} : pc'[b] = pc[b]
          /\ pc'[c] \in {"answered", "refused"} /\ pc[c] = "addingNonce"
      BY <1>4 DEF AddNonce, Finish, Goto, callVars
    <2>2. \A d \in dids[c] : nonce[c] \cap usedNonces[d] = {} /\ nonce[c] \subseteq usedNonces'[d]
      BY <1>4 DEF AddNonce
    <2>3. ASSUME NEW b \in Calls, b # c, pc[b] = "answered", nonce[b] # {},
                 nonce[b] = nonce[c], dids[b] = dids[c]
          PROVE  FALSE
      BY <2>2, <2>3 DEF NonceInv
    <2>4. NoncesWorkOnce'
      BY <2>1, <2>3 DEF NoncesWorkOnce, NonceInv
    <2> QED
      BY <1>1, <2>1, <2>2, <2>4 DEF NonceInv
  <1>5. ASSUME NEW c \in Calls, Verification(c) \/ Registration(c) \/ Refuse(c)
        PROVE  NonceInv'
    <2>1. nonce' = nonce
      BY <1>5
      DEF Verification, FindActiveCodes, ExpireCode, AddCode, MakeCode, Registration, Register,
          Revoke, CheckCode, Accept, RegisterDID, Put, SkipDID, DIDsRegistered, RevokeDID,
          SetRevoked, Refuse, callVars
    <2>2. \A b \in Calls \ {c} : dids'[b] = dids[b] /\ pc'[b] = pc[b]
      BY <1>5
      DEF Verification, FindActiveCodes, ExpireCode, AddCode, MakeCode, Registration, Register,
          Revoke, CheckCode, Accept, RegisterDID, Put, SkipDID, DIDsRegistered, RevokeDID,
          SetRevoked, Refuse, Finish, Goto, callVars
    <2>3. ~Refuse(c) => nonce[c] = {}
      <3>1. pc[c] \in {"addingNonce", "answered", "refused"} => Refuse(c)
        BY <1>5
        DEF Verification, FindActiveCodes, ExpireCode, AddCode, Registration, Register,
            Revoke, CheckCode, RegisterDID, SkipDID, DIDsRegistered, RevokeDID, SetRevoked
      <3> QED
        BY <3>1 DEF NonceInv
    <2>4. Refuse(c) => dids' = dids /\ pc'[c] = "refused"
      BY DEF Refuse, Goto, callVars
    <2> QED
      BY <1>2, <2>1, <2>2, <2>3, <2>4
  <1>6. CASE UNCHANGED vars
    BY <1>2, <1>6 DEF vars, callVars
  <1> QED
    BY <1>3, <1>4, <1>5, <1>6 DEF Next, Authorization

\* A nonce of a DID is accepted from one call.
THEOREM OneCallPerNonce == Spec => []NoncesWorkOnce
  <1>1. Init => NonceInv
    BY DEF Init, NonceInv, NoncesWorkOnce
  <1>2. NonceInv => NoncesWorkOnce
    BY DEF NonceInv
  <1> QED
    BY <1>1, <1>2, TypeInvInit, TypeInvStep, NonceInvStep, PTL DEF Spec

-----------------------------------------------------------------------------
(* AuthKeys.                                                               *)

\* A command on keys is a stutter of AuthRegistration.
LEMMA KeyStepIsStep == [KeyNext]_<<vars, keyVars>> => [Next]_vars
  BY DEF KeyNext, OtherCommand, StoreDID, DIDsStored, DIDRevoked, CreateApiKey,
         DisableApiKey, KeysEnd, Registration, Next

\* An item stays, and a revoked one stays revoked.
LEMMA StatusesAdvance ==
  ASSUME TypeInv, [Next]_vars, NEW d \in DIDs
  PROVE  /\ didStatus[d] # "none" => didStatus'[d] # "none"
         /\ didStatus[d] = "Revoked" => didStatus'[d] = "Revoked"
  <1> USE DEF TypeInv, TypeOK, didVars
  <1>1. ASSUME NEW c \in Calls, Registration(c)
        PROVE  /\ didStatus[d] # "none" => didStatus'[d] # "none"
               /\ didStatus[d] = "Revoked" => didStatus'[d] = "Revoked"
    BY <1>1
    DEF Registration, Register, Revoke, CheckCode, Accept, RegisterDID, Put, SkipDID,
        DIDsRegistered, RevokeDID, SetRevoked
  <1>2. ASSUME NEW c \in Calls, Verification(c) \/ Authorization(c) \/ Refuse(c)
        PROVE  didStatus' = didStatus
    BY <1>2
    DEF Verification, FindActiveCodes, ExpireCode, AddCode, MakeCode, Authorization,
        CheckDID, AddNonce, Refuse
  <1>3. CASE UNCHANGED vars
    BY <1>3 DEF vars
  <1> QED
    BY <1>1, <1>2, <1>3 DEF Next

\* A call that is answered has given its last command.
LEMMA AnsweredIsOver ==
  ASSUME TypeInv, [Next]_vars, NEW c \in Calls, pc[c] = "answered"
  PROVE  pc'[c] = "answered" /\ dids'[c] = dids[c]
  <1> USE DEF TypeInv, TypeOK, Goto, Finish, callVars
  <1>1. ASSUME NEW b \in Calls, Verification(b) PROVE pc'[c] = "answered" /\ dids'[c] = dids[c]
    BY <1>1 DEF Verification, FindActiveCodes, ExpireCode, AddCode, MakeCode
  <1>2. ASSUME NEW b \in Calls, Registration(b) PROVE pc'[c] = "answered" /\ dids'[c] = dids[c]
    BY <1>2
    DEF Registration, Register, Revoke, CheckCode, Accept, RegisterDID, Put, SkipDID,
        DIDsRegistered, RevokeDID, SetRevoked
  <1>3. ASSUME NEW b \in Calls, Authorization(b) \/ Refuse(b)
        PROVE  pc'[c] = "answered" /\ dids'[c] = dids[c]
    BY <1>3 DEF Authorization, CheckDID, AddNonce, Refuse
  <1>4. CASE UNCHANGED vars
    BY <1>4 DEF vars
  <1> QED
    BY <1>1, <1>2, <1>3, <1>4 DEF Next

\* A call that revokes has one DID.
RevokesOne(c) == pc[c] \in {"checkingToRevoke", "revoking"} => \E d \in DIDs : dids[c] = {d}

LEMMA RevokesOneStep ==
  ASSUME TypeInv, [Next]_vars, NEW c \in Calls, RevokesOne(c)
  PROVE  RevokesOne(c)'
  <1> USE DEF TypeInv, TypeOK, Goto, Finish, callVars, RevokesOne
  <1>1. ASSUME NEW b \in Calls, Verification(b) PROVE RevokesOne(c)'
    BY <1>1 DEF Verification, FindActiveCodes, ExpireCode, AddCode, MakeCode
  <1>2. ASSUME NEW b \in Calls, NEW e \in Emails, NEW k \in Codes, NEW d \in DIDs,
               Revoke(b, e, k, d)
        PROVE  RevokesOne(c)'
    BY <1>2 DEF Revoke
  <1>3. ASSUME NEW b \in Calls, NEW e \in Emails, NEW k \in Codes \cup {NoCode},
               NEW D \in SUBSET DIDs, Register(b, e, k, D)
        PROVE  RevokesOne(c)'
    BY <1>3 DEF Register
  <1>4. ASSUME NEW b \in Calls, CheckCode(b) \/ RevokeDID(b) PROVE RevokesOne(c)'
    BY <1>4 DEF CheckCode, Accept, RevokeDID, SetRevoked
  <1>5. ASSUME NEW b \in Calls, RegisterDID(b) \/ SkipDID(b) \/ DIDsRegistered(b)
        PROVE  RevokesOne(c)'
    BY <1>5 DEF RegisterDID, Put, SkipDID, DIDsRegistered
  <1>6. ASSUME NEW b \in Calls, Authorization(b) \/ Refuse(b) PROVE RevokesOne(c)'
    BY <1>6 DEF Authorization, CheckDID, AddNonce, Refuse
  <1>7. CASE UNCHANGED vars
    BY <1>7 DEF vars
  <1> QED
    BY <1>1, <1>2, <1>4, <1>5, <1>6, <1>7, <1>3 DEF Next, Registration

\* The keys refine the tables: they read what the table commands leave and never hold
\* one up or add one, so all that is proved of the tables holds with the keys.
THEOREM KeysImplementTables == KeySpec => Spec
  BY KeyStepIsStep, PTL DEF KeySpec, KeyInit, Spec

-----------------------------------------------------------------------------

\* The inductive invariant: the DIDs a call is going to create keys for are in the
\* table, and the one it is going to disable a key of is revoked.
KeyInv ==
    /\ keys \in [DIDs -> KeyStatus]
    /\ stored \in [Calls -> SUBSET DIDs]
    /\ keyStep \in [Calls -> KeyStep]
    /\ \A c \in Calls : RevokesOne(c)
    /\ \A c \in Calls : \A d \in stored[c] : didStatus[d] # "none"
    /\ \A c \in Calls : keyStep[c] = "disabling" =>
         /\ pc[c] = "answered"
         /\ \A d \in dids[c] : didStatus[d] = "Revoked"
    /\ KeysFollowDIDs

LEMMA KeyInvInit == KeyInit => KeyInv
  BY DEF KeyInit, Init, KeyInv, RevokesOne, KeysFollowDIDs, KeyStatus, KeyStep

LEMMA KeyInvStep ==
  ASSUME TypeInv, KeyInv, [KeyNext]_<<vars, keyVars>>
  PROVE  KeyInv'
  <1> USE DEF KeyInv, KeyStatus, KeyStep
  <1>1. [Next]_vars
    BY KeyStepIsStep
  <1>2. \A d \in DIDs : /\ didStatus[d] # "none" => didStatus'[d] # "none"
                        /\ didStatus[d] = "Revoked" => didStatus'[d] = "Revoked"
    BY <1>1, StatusesAdvance
  <1>3. \A c \in Calls : pc[c] = "answered" => pc'[c] = "answered" /\ dids'[c] = dids[c]
    BY <1>1, AnsweredIsOver
  <1>4. dids \in [Calls -> SUBSET DIDs]
    BY DEF TypeInv, TypeOK
  <1>5. \A c \in Calls : RevokesOne(c)'
    BY <1>1, RevokesOneStep
  <1>6. CASE UNCHANGED keyVars
    BY <1>2, <1>3, <1>4, <1>5, <1>6 DEF keyVars, KeysFollowDIDs
  <1>7. ASSUME NEW c \in Calls, StoreDID(c) PROVE KeyInv'
    <2>1. \A d \in dids[c] \ dids'[c] : d \in DIDs /\ didStatus'[d] # "none"
      BY <1>4, <1>7 DEF StoreDID, RegisterDID, Put, TypeInv, TypeOK
    <2> QED
      BY <1>2, <1>3, <1>4, <1>5, <1>7, <2>1 DEF StoreDID, KeysFollowDIDs
  <1>8. ASSUME NEW c \in Calls, DIDsStored(c) PROVE KeyInv'
    BY <1>2, <1>3, <1>4, <1>5, <1>8 DEF DIDsStored, KeysFollowDIDs
  <1>9. ASSUME NEW c \in Calls, DIDRevoked(c) PROVE KeyInv'
    <2>1. pc'[c] = "answered" => \A d \in dids'[c] : didStatus'[d] = "Revoked"
      BY <1>4, <1>9
      DEF RevokesOne, DIDRevoked, RevokeDID, SetRevoked, Finish, Goto, callVars, TypeInv, TypeOK
    <2> QED
      BY <1>2, <1>3, <1>4, <1>5, <1>9, <2>1 DEF DIDRevoked, KeysFollowDIDs
  <1>10. ASSUME NEW c \in Calls, CreateApiKey(c) PROVE KeyInv'
    BY <1>2, <1>3, <1>4, <1>5, <1>10 DEF CreateApiKey, KeysFollowDIDs
  <1>11. ASSUME NEW c \in Calls, DisableApiKey(c) PROVE KeyInv'
    BY <1>2, <1>3, <1>4, <1>5, <1>11 DEF DisableApiKey, KeysFollowDIDs
  <1>12. ASSUME NEW c \in Calls, KeysEnd(c) PROVE KeyInv'
    BY <1>2, <1>3, <1>4, <1>5, <1>12 DEF KeysEnd, KeysFollowDIDs
  <1> QED
    BY <1>6, <1>7, <1>8, <1>9, <1>10, <1>11, <1>12 DEF KeyNext, keyVars

\* Only DIDs of the table have keys, and only those of revoked DIDs are disabled.
THEOREM KeysAreBacked == KeySpec => []KeysFollowDIDs
  <1>1. KeyInit => TypeInv
    BY TypeInvInit DEF KeyInit
  <1>2. KeyInv => KeysFollowDIDs
    BY DEF KeyInv
  <1>3. TypeInv /\ [KeyNext]_<<vars, keyVars>> => TypeInv'
    BY KeyStepIsStep, TypeInvStep
  <1> QED
    BY <1>1, <1>2, <1>3, KeyInvInit, KeyInvStep, PTL DEF KeySpec
=============================================================================
