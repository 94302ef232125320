---------------------------- MODULE WebAdminProofs ---------------------------
(***************************************************************************)
(* Proofs about WebAuth, WebService and WsBridge.  For any number of       *)
(* concurrent requests, sockets, challenges and families and any attempt   *)
(* limit, registrations and assert challenges are spent once.  For any     *)
(* locations and values of PATH, a register that reports success has taken *)
(* hold, and a stopped supervisor stays down on launchd.  For any number   *)
(* of messages and events, one WebSocket attach is faithful to both sides. *)
(***************************************************************************)
EXTENDS MCWebAdmin, WebAttach, Sequences, FiniteSetTheorems, TLAPS

-----------------------------------------------------------------------------
(* The invariant.                                                          *)

ReqType == [pc : {"idle", "verify", "consume", "assert", "notify"}, chal : Nat]

AuthTypeOK ==
  /\ reg \in [st : {"live", "expired", "burned", "used"}, wrong : Nat]
  /\ issued \in Nat
  /\ challenges \subseteq [id : 1..issued, purpose : {"assert", "register"}]
  /\ credential \in {"none", "live", "tombstoned"}
  /\ req \in [Requests -> ReqType]
  /\ guesses \in Nat

\* Families are numbered, and each has the challenge that stands behind it.
Numbered ==
  /\ \E n \in 0..MaxFamilies : DOMAIN families = 1..n
  /\ DOMAIN mintedBy = DOMAIN families

\* The attempts the registration counts are all there were, and one is left while
\* it can be tried; it is consumed only after its credential was stored.
RegistrationInv ==
  /\ reg.st = "live" => guesses = reg.wrong /\ guesses < CodeLimit
  /\ reg.st = "burned" => guesses = CodeLimit
  /\ guesses <= CodeLimit
  /\ reg.st = "used" => credential # "none"
  /\ \A r \in Requests : req[r].pc = "consume" => credential # "none"

\* Where an assert challenge is: live in pending.json, taken by one request, or
\* behind one family; never in two of these places.
ChallengeInv ==
  /\ \A c, d \in challenges : c.id = d.id => c = d
  /\ \A r \in Requests : req[r].pc = "assert" =>
       /\ req[r].chal <= issued
       /\ \A c \in challenges : c.id # req[r].chal
  /\ \A r, q \in Requests :
       req[r].pc = "assert" /\ req[q].pc = "assert" /\ req[r].chal = req[q].chal => r = q
  /\ \A i \in DOMAIN mintedBy : mintedBy[i].by = "assert" =>
       /\ mintedBy[i].id <= issued
       /\ mintedBy[i].id \in Nat
       /\ \A c \in challenges : c.id # mintedBy[i].id
       /\ \A r \in Requests : req[r].pc = "assert" => req[r].chal # mintedBy[i].id
  /\ \A i, j \in DOMAIN mintedBy : mintedBy[i] = mintedBy[j] /\ mintedBy[i].by = "assert" => i = j

AuthInv == AuthTypeOK /\ Numbered /\ RegistrationInv /\ ChallengeInv

-----------------------------------------------------------------------------
(* Operators.                                                              *)

\* What a request in progress may be.
LEMMA ReqTypes ==
  /\ IdleReq \in ReqType /\ IdleReq.pc = "idle"
  /\ \A p \in {"verify", "assert", "notify"}, c \in Nat :
       Waiting(p, c) \in ReqType /\ Waiting(p, c).pc = p /\ Waiting(p, c).chal = c
BY DEF IdleReq, Waiting, ReqType

\* A mint adds one family under the next number, and the challenge behind it.
LEMMA Minted ==
  ASSUME Numbered, NEW c, Mint(c)
  PROVE  \E n \in 0..(MaxFamilies - 1) :
           /\ DOMAIN mintedBy = 1..n
           /\ DOMAIN families' = 1..(n + 1) /\ DOMAIN mintedBy' = 1..(n + 1)
           /\ \A i \in 1..n : mintedBy'[i] = mintedBy[i]
           /\ mintedBy'[n + 1] = c
<1> USE BoundsAssumption
<1>1. PICK n \in 0..MaxFamilies : DOMAIN families = 1..n
  BY DEF Numbered
<1>2. Cardinality(Ids) = n
  <2>1. Cardinality(1..n) = IF 1 > n THEN 0 ELSE n - 1 + 1
    BY <1>1, FS_Interval
  <2> QED BY <1>1, <2>1 DEF Ids
<1> QED BY <1>1, <1>2 DEF Mint, Ids, Numbered

-----------------------------------------------------------------------------
(* Steps.                                                                  *)

\* Every step keeps the types.
LEMMA TypeStep ==
  ASSUME AuthTypeOK, Numbered, Next
  PROVE  AuthTypeOK'
<1> USE BoundsAssumption, ReqTypes DEF AuthTypeOK, pending, auth
<1>1. ASSUME NEW r \in Requests, NEW p \in {"assert", "register"}, Challenge(r, p) PROVE AuthTypeOK'
  BY <1>1 DEF Challenge, LiveCredential
<1>2. ASSUME NEW r \in Requests, RegisterDenied(r) PROVE AuthTypeOK'
  BY <1>2 DEF RegisterDenied, WrongCode, Step
<1>3. ASSUME NEW r \in Requests, NEW c \in challenges, RegisterAccepted(r, c) PROVE AuthTypeOK'
  BY <1>3 DEF RegisterAccepted, LiveChallenge, Step
<1>4. ASSUME NEW r \in Requests, NEW c \in challenges, AssertConsume(r, c) PROVE AuthTypeOK'
  BY <1>4 DEF AssertConsume, LiveChallenge, Step, ConsumeChallenge
<1>5. ASSUME NEW r \in Requests, NEW i \in Ids, NEW g \in 0..MaxRotations, Refresh(r, i, g) PROVE AuthTypeOK'
  <2>1. i \in Nat
    BY DEF Numbered, Ids
  <2> QED BY <1>5, <2>1 DEF Refresh, Classify, Step
<1>6. ASSUME NEW r \in Requests, RegisterUnverified(r) PROVE AuthTypeOK'
  BY <1>6 DEF RegisterUnverified, Step
<1>7. ASSUME NEW r \in Requests, RegisterStore(r) PROVE AuthTypeOK'
  BY <1>7 DEF RegisterStore, Step, InsertCredential, ReqType
<1>8. ASSUME NEW r \in Requests, RegisterConsume(r) PROVE AuthTypeOK'
  BY <1>8 DEF RegisterConsume, Step, FreshRegistration, ConsumeChallenge
<1>9. ASSUME NEW r \in Requests, AssertMint(r) PROVE AuthTypeOK'
  BY <1>9 DEF AssertMint, Step
<1>10. ASSUME NEW r \in Requests, AssertDenied(r) PROVE AuthTypeOK'
  BY <1>10 DEF AssertDenied, Step
<1>11. ASSUME NEW r \in Requests, Notify(r) PROVE AuthTypeOK'
  BY <1>11 DEF Notify, Step
<1>18. ASSUME NEW r \in Requests, Abandoned(r) PROVE AuthTypeOK'
  BY <1>18 DEF Abandoned, Step
<1>12. CASE ChallengeExpires
  BY <1>12 DEF ChallengeExpires
<1>13. CASE RegistrationExpires
  BY <1>13 DEF RegistrationExpires, FreshRegistration
<1>14. CASE RevokeSub
  BY <1>14 DEF RevokeSub, TombstoneSub, Ids
<1>15. CASE \E i \in Ids : SessionRemove(i)
  BY <1>15 DEF SessionRemove
<1>16. CASE Restart
  BY <1>16 DEF Restart
<1>17. CASE \E s \in Sockets : Socket(s) \/ SocketOpen(s) \/ SocketWatch(s)
  BY <1>17 DEF Socket, SocketRequest, SocketExtendFails, SocketEnds, SocketOpen, SocketWatch
<1> QED
  BY <1>1, <1>2, <1>3, <1>4, <1>5, <1>6, <1>7, <1>8, <1>9,
     <1>10, <1>11, <1>12, <1>13, <1>14, <1>15, <1>16, <1>17, <1>18 DEF Next, Request, Progress

\* Every step leaves the families numbered.
LEMMA NumberedStep ==
  ASSUME AuthTypeOK, Numbered, Next
  PROVE  Numbered'
<1> USE BoundsAssumption, ReqTypes DEF Numbered, pending, auth
<1>1. ASSUME NEW r \in Requests, NEW p \in {"assert", "register"}, Challenge(r, p) PROVE Numbered'
  BY <1>1 DEF Challenge, LiveCredential
<1>2. ASSUME NEW r \in Requests, RegisterDenied(r) PROVE Numbered'
  BY <1>2 DEF RegisterDenied, WrongCode, Step
<1>3. ASSUME NEW r \in Requests, NEW c \in challenges, RegisterAccepted(r, c) PROVE Numbered'
  BY <1>3 DEF RegisterAccepted, LiveChallenge, Step
<1>4. ASSUME NEW r \in Requests, NEW c \in challenges, AssertConsume(r, c) PROVE Numbered'
  BY <1>4 DEF AssertConsume, LiveChallenge, Step, ConsumeChallenge
<1>5. ASSUME NEW r \in Requests, NEW i \in Ids, NEW g \in 0..MaxRotations, Refresh(r, i, g) PROVE Numbered'
  BY <1>5 DEF Refresh, Classify, Step
<1>6. ASSUME NEW r \in Requests, RegisterUnverified(r) PROVE Numbered'
  BY <1>6 DEF RegisterUnverified, Step
<1>7. ASSUME NEW r \in Requests, RegisterStore(r) PROVE Numbered'
  <2>1. PICK n \in 0..(MaxFamilies - 1) :
          /\ DOMAIN mintedBy = 1..n
          /\ DOMAIN families' = 1..(n + 1) /\ DOMAIN mintedBy' = 1..(n + 1)
          /\ \A i \in 1..n : mintedBy'[i] = mintedBy[i]
          /\ mintedBy'[n + 1] = [id |-> req[r].chal, by |-> req[r].pc]
    BY <1>7, Minted DEF RegisterStore
  <2> QED BY <1>7, <2>1 DEF RegisterStore, Step, InsertCredential
<1>8. ASSUME NEW r \in Requests, RegisterConsume(r) PROVE Numbered'
  BY <1>8 DEF RegisterConsume, Step, FreshRegistration, ConsumeChallenge
<1>9. ASSUME NEW r \in Requests, AssertMint(r) PROVE Numbered'
  <2>1. PICK n \in 0..(MaxFamilies - 1) :
          /\ DOMAIN mintedBy = 1..n
          /\ DOMAIN families' = 1..(n + 1) /\ DOMAIN mintedBy' = 1..(n + 1)
          /\ \A i \in 1..n : mintedBy'[i] = mintedBy[i]
          /\ mintedBy'[n + 1] = [id |-> req[r].chal, by |-> req[r].pc]
    BY <1>9, Minted, ZenonT(60) DEF AssertMint
  <2> QED BY <1>9, <2>1 DEF AssertMint, Step
<1>10. ASSUME NEW r \in Requests, AssertDenied(r) PROVE Numbered'
  BY <1>10 DEF AssertDenied, Step
<1>11. ASSUME NEW r \in Requests, Notify(r) PROVE Numbered'
  BY <1>11 DEF Notify, Step
<1>18. ASSUME NEW r \in Requests, Abandoned(r) PROVE Numbered'
  BY <1>18 DEF Abandoned, Step
<1>12. CASE ChallengeExpires
  BY <1>12 DEF ChallengeExpires
<1>13. CASE RegistrationExpires
  BY <1>13 DEF RegistrationExpires, FreshRegistration
<1>14. CASE RevokeSub
  BY <1>14 DEF RevokeSub, TombstoneSub, Ids
<1>15. CASE \E i \in Ids : SessionRemove(i)
  BY <1>15 DEF SessionRemove
<1>16. CASE Restart
  BY <1>16 DEF Restart
<1>17. CASE \E s \in Sockets : Socket(s) \/ SocketOpen(s) \/ SocketWatch(s)
  BY <1>17 DEF Socket, SocketRequest, SocketExtendFails, SocketEnds, SocketOpen, SocketWatch
<1> QED
  BY <1>1, <1>2, <1>3, <1>4, <1>5, <1>6, <1>7, <1>8, <1>9,
     <1>10, <1>11, <1>12, <1>13, <1>14, <1>15, <1>16, <1>17, <1>18 DEF Next, Request, Progress

\* Every step keeps the account of the registration.
LEMMA RegistrationStep ==
  ASSUME AuthTypeOK, Numbered, RegistrationInv, Next
  PROVE  RegistrationInv'
<1> USE BoundsAssumption, ReqTypes DEF AuthTypeOK, RegistrationInv, pending, auth
<1>1. ASSUME NEW r \in Requests, NEW p \in {"assert", "register"}, Challenge(r, p) PROVE RegistrationInv'
  BY <1>1 DEF Challenge, LiveCredential
<1>2. ASSUME NEW r \in Requests, RegisterDenied(r) PROVE RegistrationInv'
  BY <1>2 DEF RegisterDenied, WrongCode, Step
<1>3. ASSUME NEW r \in Requests, NEW c \in challenges, RegisterAccepted(r, c) PROVE RegistrationInv'
  BY <1>3 DEF RegisterAccepted, LiveChallenge, Step
<1>4. ASSUME NEW r \in Requests, NEW c \in challenges, AssertConsume(r, c) PROVE RegistrationInv'
  BY <1>4 DEF AssertConsume, LiveChallenge, Step, ConsumeChallenge
<1>5. ASSUME NEW r \in Requests, NEW i \in Ids, NEW g \in 0..MaxRotations, Refresh(r, i, g) PROVE RegistrationInv'
  <2>1. i \in Nat
    BY DEF Numbered, Ids
  <2> QED BY <1>5, <2>1 DEF Refresh, Classify, Step
<1>6. ASSUME NEW r \in Requests, RegisterUnverified(r) PROVE RegistrationInv'
  BY <1>6 DEF RegisterUnverified, Step
<1>7. ASSUME NEW r \in Requests, RegisterStore(r) PROVE RegistrationInv'
  BY <1>7 DEF RegisterStore, Step, InsertCredential, ReqType
<1>8. ASSUME NEW r \in Requests, RegisterConsume(r) PROVE RegistrationInv'
  BY <1>8 DEF RegisterConsume, Step, FreshRegistration, ConsumeChallenge
<1>9. ASSUME NEW r \in Requests, AssertMint(r) PROVE RegistrationInv'
  BY <1>9 DEF AssertMint, Step
<1>10. ASSUME NEW r \in Requests, AssertDenied(r) PROVE RegistrationInv'
  BY <1>10 DEF AssertDenied, Step
<1>11. ASSUME NEW r \in Requests, Notify(r) PROVE RegistrationInv'
  BY <1>11 DEF Notify, Step
<1>18. ASSUME NEW r \in Requests, Abandoned(r) PROVE RegistrationInv'
  BY <1>18 DEF Abandoned, Step
<1>12. CASE ChallengeExpires
  BY <1>12 DEF ChallengeExpires
<1>13. CASE RegistrationExpires
  BY <1>13 DEF RegistrationExpires, FreshRegistration
<1>14. CASE RevokeSub
  BY <1>14 DEF RevokeSub, TombstoneSub, Ids
<1>15. CASE \E i \in Ids : SessionRemove(i)
  BY <1>15 DEF SessionRemove
<1>16. CASE Restart
  BY <1>16 DEF Restart
<1>17. CASE \E s \in Sockets : Socket(s) \/ SocketOpen(s) \/ SocketWatch(s)
  BY <1>17 DEF Socket, SocketRequest, SocketExtendFails, SocketEnds, SocketOpen, SocketWatch
<1> QED
  BY <1>1, <1>2, <1>3, <1>4, <1>5, <1>6, <1>7, <1>8, <1>9,
     <1>10, <1>11, <1>12, <1>13, <1>14, <1>15, <1>16, <1>17, <1>18 DEF Next, Request, Progress

\* Every step leaves a challenge in one place.
LEMMA ChallengeStep ==
  ASSUME AuthTypeOK, Numbered, AuthTypeOK', ChallengeInv, Next
  PROVE  ChallengeInv'
<1> USE BoundsAssumption, ReqTypes DEF AuthTypeOK, ChallengeInv, pending, auth
<1>1. ASSUME NEW r \in Requests, NEW p \in {"assert", "register"}, Challenge(r, p) PROVE ChallengeInv'
  <2>1. \A c \in challenges : c.id \in Nat /\ c.id <= issued
    OBVIOUS
  <2>2. /\ challenges' = challenges \cup {[id |-> issued + 1, purpose |-> p]}
        /\ issued' = issued + 1 /\ UNCHANGED <<req, mintedBy>>
    BY <1>1 DEF Challenge
  <2>3. \A c \in challenges' : c \in challenges \/ (c.id = issued + 1 /\ c.purpose = p)
    BY <2>2
  <2>4. \A r1 \in Requests : req[r1].chal \in Nat
    BY DEF ReqType
  <2>5. \A c, d \in challenges' : c.id = d.id => c = d
    BY <2>1, <2>2, <2>3
  <2> QED BY <2>1, <2>2, <2>3, <2>4, <2>5
<1>2. ASSUME NEW r \in Requests, RegisterDenied(r) PROVE ChallengeInv'
  BY <1>2 DEF RegisterDenied, WrongCode, Step
<1>3. ASSUME NEW r \in Requests, NEW c \in challenges, RegisterAccepted(r, c) PROVE ChallengeInv'
  BY <1>3 DEF RegisterAccepted, LiveChallenge, Step
<1>4. ASSUME NEW r \in Requests, NEW c \in challenges, AssertConsume(r, c) PROVE ChallengeInv'
  BY <1>4 DEF AssertConsume, LiveChallenge, Step, ConsumeChallenge
<1>5. ASSUME NEW r \in Requests, NEW i \in Ids, NEW g \in 0..MaxRotations, Refresh(r, i, g) PROVE ChallengeInv'
  <2>1. i \in Nat
    BY DEF Numbered, Ids
  <2> QED BY <1>5, <2>1 DEF Refresh, Classify, Step
<1>6. ASSUME NEW r \in Requests, RegisterUnverified(r) PROVE ChallengeInv'
  BY <1>6 DEF RegisterUnverified, Step
<1>7. ASSUME NEW r \in Requests, RegisterStore(r) PROVE ChallengeInv'
  <2>1. PICK n \in 0..(MaxFamilies - 1) :
          /\ DOMAIN mintedBy = 1..n
          /\ DOMAIN families' = 1..(n + 1) /\ DOMAIN mintedBy' = 1..(n + 1)
          /\ \A i \in 1..n : mintedBy'[i] = mintedBy[i]
          /\ mintedBy'[n + 1] = [id |-> req[r].chal, by |-> req[r].pc]
    BY <1>7, Minted DEF RegisterStore
  <2>2. /\ req' = [req EXCEPT ![r] = [req[r] EXCEPT !.pc = "consume"]] /\ req[r].pc = "verify"
        /\ UNCHANGED <<challenges, issued>>
    BY <1>7 DEF RegisterStore, Step
  <2>3. \A q \in Requests : req'[q].pc = "assert" => q # r /\ req'[q] = req[q]
    BY <2>2 DEF ReqType
  <2>4. mintedBy'[n + 1].by = "verify"
    BY <2>1, <2>2
  <2>5. \A i \in DOMAIN mintedBy' : i \in DOMAIN mintedBy \/ i = n + 1
    BY <2>1
  <2>6. \A i \in DOMAIN mintedBy' :
          mintedBy'[i].by = "assert" => i \in DOMAIN mintedBy /\ mintedBy'[i] = mintedBy[i]
    BY <2>1, <2>4, <2>5
  <2>7. \A q \in Requests : req'[q].pc = "assert" => req[q].pc = "assert" /\ req'[q].chal = req[q].chal
    BY <2>3
  <2> HIDE DEF AuthTypeOK
  <2> QED BY <2>2, <2>3, <2>6, <2>7
<1>8. ASSUME NEW r \in Requests, RegisterConsume(r) PROVE ChallengeInv'
  BY <1>8 DEF RegisterConsume, Step, FreshRegistration, ConsumeChallenge
<1>9. ASSUME NEW r \in Requests, AssertMint(r) PROVE ChallengeInv'
  <2>1. PICK n \in 0..(MaxFamilies - 1) :
          /\ DOMAIN mintedBy = 1..n
          /\ DOMAIN families' = 1..(n + 1) /\ DOMAIN mintedBy' = 1..(n + 1)
          /\ \A i \in 1..n : mintedBy'[i] = mintedBy[i]
          /\ mintedBy'[n + 1] = [id |-> req[r].chal, by |-> req[r].pc]
    BY <1>9, Minted DEF AssertMint
  <2>2. /\ req' = [req EXCEPT ![r] = IdleReq] /\ req[r].pc = "assert"
        /\ UNCHANGED <<challenges, issued>>
    BY <1>9 DEF AssertMint, Step
  <2>3. \A q \in Requests : req'[q].pc = "assert" => q # r /\ req'[q] = req[q]
    BY <2>2
  <2>4. mintedBy'[n + 1].by = "assert" /\ mintedBy'[n + 1].id = req[r].chal /\ req[r].chal \in Nat
    BY <2>1, <2>2 DEF ReqType
  <2>5. \A i \in DOMAIN mintedBy' :
          (i \in DOMAIN mintedBy /\ mintedBy'[i] = mintedBy[i]) \/ i = n + 1
    BY <2>1
  <2>6. \A q \in Requests : req'[q].pc = "assert" => req[q].pc = "assert" /\ req'[q].chal = req[q].chal
    BY <2>3
  <2> HIDE DEF AuthTypeOK
  <2>7. \A i \in DOMAIN mintedBy : mintedBy[i].by = "assert" => mintedBy[i].id # req[r].chal
    BY <2>2
  <2>8. \A i, j \in DOMAIN mintedBy' :
          mintedBy'[i] = mintedBy'[j] /\ mintedBy'[i].by = "assert" => i = j
    BY <2>4, <2>5, <2>7
  <2>9. \A i \in DOMAIN mintedBy' : mintedBy'[i].by = "assert" =>
          /\ mintedBy'[i].id <= issued' /\ mintedBy'[i].id \in Nat
          /\ \A c \in challenges' : c.id # mintedBy'[i].id
          /\ \A q \in Requests : req'[q].pc = "assert" => req'[q].chal # mintedBy'[i].id
    BY <2>2, <2>3, <2>4, <2>5, <2>6
  <2> QED BY <2>2, <2>6, <2>8, <2>9
<1>10. ASSUME NEW r \in Requests, AssertDenied(r) PROVE ChallengeInv'
  BY <1>10 DEF AssertDenied, Step
<1>11. ASSUME NEW r \in Requests, Notify(r) PROVE ChallengeInv'
  BY <1>11 DEF Notify, Step
<1>18. ASSUME NEW r \in Requests, Abandoned(r) PROVE ChallengeInv'
  BY <1>18 DEF Abandoned, Step
<1>12. CASE ChallengeExpires
  BY <1>12 DEF ChallengeExpires
<1>13. CASE RegistrationExpires
  BY <1>13 DEF RegistrationExpires, FreshRegistration
<1>14. CASE RevokeSub
  BY <1>14 DEF RevokeSub, TombstoneSub, Ids
<1>15. CASE \E i \in Ids : SessionRemove(i)
  BY <1>15 DEF SessionRemove
<1>16. CASE Restart
  BY <1>16 DEF Restart
<1>17. CASE \E s \in Sockets : Socket(s) \/ SocketOpen(s) \/ SocketWatch(s)
  BY <1>17 DEF Socket, SocketRequest, SocketExtendFails, SocketEnds, SocketOpen, SocketWatch
<1> QED
  BY <1>1, <1>2, <1>3, <1>4, <1>5, <1>6, <1>7, <1>8, <1>9,
     <1>10, <1>11, <1>12, <1>13, <1>14, <1>15, <1>16, <1>17, <1>18 DEF Next, Request, Progress

\* The invariant holds throughout.
LEMMA AuthInvHolds == Spec => []AuthInv
<1>1. Init => AuthInv
  <2> SUFFICES ASSUME Init PROVE AuthInv
    OBVIOUS
  <2>1. DOMAIN families = 1..0 /\ DOMAIN mintedBy = DOMAIN families
    BY DEF Init
  <2> QED BY <2>1, BoundsAssumption
          DEF Init, AuthInv, AuthTypeOK, Numbered, RegistrationInv, ChallengeInv, FreshRegistration, IdleReq, ReqType
<1>2. ASSUME AuthInv, [Next]_vars PROVE AuthInv'
  <2>1. CASE Next
    BY <1>2, <2>1, TypeStep, NumberedStep, RegistrationStep, ChallengeStep DEF AuthInv
  <2>2. CASE UNCHANGED vars
    BY <1>2, <2>2 DEF vars, pending, auth, AuthInv, AuthTypeOK, Numbered, RegistrationInv, ChallengeInv
  <2> QED BY <1>2, <2>1, <2>2
<1> QED BY <1>1, <1>2, PTL DEF Spec

\* However many requests run at once and wherever the gateway is restarted, a
\* registration is spent for a reason, at most CodeLimit wrong codes are compared,
\* and an assert challenge mints one family at most.
THEOREM SpentOnce == Spec => []SecretsSpentOnce
<1>1. AuthInv => SecretsSpentOnce
  BY DEF AuthInv, RegistrationInv, ChallengeInv, SecretsSpentOnce
<1> QED BY <1>1, AuthInvHolds, PTL

-----------------------------------------------------------------------------
(* The service.                                                            *)

\* The steps of the commands, by manager; a start on launchd is the end of a restart.
LaunchdInstall == <<"try-bootout", "write", "try-enable", "bootstrap">>
LaunchdRemove == <<"try-bootout", "remove", "try-enable">>
LaunchdStop == <<"bootout", "try-disable">>
LaunchdRestart == <<"need-file", "stop-ignored", "need-file", "try-enable", "bootstrap-or-kick">>
SystemdInstall == <<"write", "reload", "enable", "restart">>
SystemdRemove == <<"try-disable-now", "remove">>
SystemdPurge == <<"try-disable-now", "remove", "reload">>
SystemdStart == <<"start">>
SystemdStop == <<"stop">>
SystemdRestart == <<"need-file", "restart">>

\* What is left of a plan after its first steps.
Second(p) == Tail(p)
Third(p) == Tail(Tail(p))
Fourth(p) == Tail(Tail(Tail(p)))
Fifth(p) == Tail(Tail(Tail(Tail(p))))

\* What may be left to do of a command, by manager and verb.
Rest(m, v) ==
  IF m = "launchd" THEN
    IF v = "register" THEN {LaunchdInstall, Second(LaunchdInstall), Third(LaunchdInstall), Fourth(LaunchdInstall)}
    ELSE IF v = "unregister" THEN {LaunchdRemove, Second(LaunchdRemove), Third(LaunchdRemove)}
    ELSE IF v = "stop" THEN {LaunchdStop, Second(LaunchdStop)}
    ELSE IF v \in {"start", "restart"} THEN
      {LaunchdRestart, Second(LaunchdRestart), Third(LaunchdRestart), Fourth(LaunchdRestart), Fifth(LaunchdRestart)}
    ELSE {}
  ELSE
    IF v = "register" THEN {SystemdInstall, Second(SystemdInstall), Third(SystemdInstall), Fourth(SystemdInstall)}
    ELSE IF v = "unregister" THEN
      {SystemdRemove, Second(SystemdRemove)}
        \cup {SystemdPurge, Second(SystemdPurge), Third(SystemdPurge)}
    ELSE IF v = "start" THEN {SystemdStart}
    ELSE IF v = "stop" THEN {SystemdStop}
    ELSE IF v = "restart" THEN {SystemdRestart, Second(SystemdRestart)}
    ELSE {}

Managed == {"launchd", "systemd"}
Asked == {"register", "unregister", "start", "stop", "restart"}
Begun == UNION {Rest(x[1], x[2]) : x \in Managed \X Asked}
Left == Begun \cup {<<>>}

Commanded == cmd # Service!NoCommand

CommandOK ==
  /\ manager \in {"launchd", "systemd"}
  /\ Commanded => /\ session /\ cmd.todo \in Rest(manager, cmd.verb)
                  /\ cmd.verb = "register" => cmd.def \in Service!Defs
  /\ cmd \in [verb : {"none", "register", "unregister", "start", "stop", "restart"},
              def : Service!Defs \cup {Service!NoDef}, force : BOOLEAN, todo : Left, err : BOOLEAN]

\* launchd: a job is that of the file and enabled, unless launchd refused to let it go; a file
\* is written or removed only without a job; a stop disables what is down.
LaunchdOK ==
  manager = "launchd" =>
    /\ loaded # Service!NoDef /\ ~stale => loaded = file /\ ~disabled
    /\ Commanded /\ Head(cmd.todo) \in {"write", "remove"} => loaded = Service!NoDef \/ stale
    /\ Commanded /\ Head(cmd.todo) = "try-disable" => loaded = Service!NoDef /\ running = Service!NoDef
    /\ cmd.verb = "register" /\ Head(cmd.todo) \in {"try-enable", "bootstrap"} => file = cmd.def

\* systemd: what each step of a register finds of the steps before it.
SystemdOK ==
  manager = "systemd" /\ cmd.verb = "register" =>
    /\ Head(cmd.todo) # "write" => file = cmd.def
    /\ Head(cmd.todo) \in {"enable", "restart"} => loaded \in {Service!NoDef, file}
    /\ Head(cmd.todo) = "restart" => ~disabled

\* After a stop the job stays disabled and down, and after a register nothing is under way.
ReportOK ==
  /\ kept => /\ manager = "launchd" /\ disabled /\ cmd.verb \in {"none", "stop"}
             /\ loaded = Service!NoDef /\ running = Service!NoDef
  /\ report.verb = "register" /\ report.ok => session /\ ~Commanded /\ report.def \in Service!Defs
  /\ Service!RegisterTakesHold

FlagsOK ==
  disabled \in BOOLEAN /\ session \in BOOLEAN /\ stale \in BOOLEAN /\ kept \in BOOLEAN /\ report.ok \in BOOLEAN

ServiceInv == CommandOK /\ FlagsOK /\ LaunchdOK /\ SystemdOK /\ ReportOK

\* Each is the tail of the one before.
LEMMA Chain ==
  \A p : /\ Tail(p) = Second(p) /\ Tail(Second(p)) = Third(p)
        /\ Tail(Third(p)) = Fourth(p) /\ Tail(Fourth(p)) = Fifth(p)
BY DEF Second, Third, Fourth, Fifth

\* A sequence of n steps that begins with h.
Is(t, h, n) == Head(t) = h /\ Len(t) = n

\* What is left of a register on launchd, step by step.
LEMMA LaunchdInstallIs ==
  /\ Is(LaunchdInstall, "try-bootout", 4)
  /\ Is(Second(LaunchdInstall), "write", 3)
  /\ Is(Third(LaunchdInstall), "try-enable", 2)
  /\ Is(Fourth(LaunchdInstall), "bootstrap", 1)
BY DEF Is, Second, Third, Fourth, Fifth, LaunchdInstall

\* What is left of an unregister on launchd, step by step.
LEMMA LaunchdRemoveIs ==
  /\ Is(LaunchdRemove, "try-bootout", 3)
  /\ Is(Second(LaunchdRemove), "remove", 2)
  /\ Is(Third(LaunchdRemove), "try-enable", 1)
BY DEF Is, Second, Third, Fourth, Fifth, LaunchdRemove

\* What is left of a stop on launchd, step by step.
LEMMA LaunchdStopIs ==
  /\ Is(LaunchdStop, "bootout", 2)
  /\ Is(Second(LaunchdStop), "try-disable", 1)
BY DEF Is, Second, Third, Fourth, Fifth, LaunchdStop

\* What is left of a restart on launchd, which ends as a start does, step by step.
LEMMA LaunchdRestartIs ==
  /\ Is(LaunchdRestart, "need-file", 5)
  /\ Is(Second(LaunchdRestart), "stop-ignored", 4)
  /\ Is(Third(LaunchdRestart), "need-file", 3)
  /\ Is(Fourth(LaunchdRestart), "try-enable", 2)
  /\ Is(Fifth(LaunchdRestart), "bootstrap-or-kick", 1)
BY DEF Is, Second, Third, Fourth, Fifth, LaunchdRestart

\* What is left of a register on systemd, step by step.
LEMMA SystemdInstallIs ==
  /\ Is(SystemdInstall, "write", 4)
  /\ Is(Second(SystemdInstall), "reload", 3)
  /\ Is(Third(SystemdInstall), "enable", 2)
  /\ Is(Fourth(SystemdInstall), "restart", 1)
BY DEF Is, Second, Third, Fourth, Fifth, SystemdInstall

\* What is left of an unregister on systemd without a unit file, step by step.
LEMMA SystemdRemoveIs ==
  /\ Is(SystemdRemove, "try-disable-now", 2)
  /\ Is(Second(SystemdRemove), "remove", 1)
BY DEF Is, Second, Third, Fourth, Fifth, SystemdRemove

\* What is left of an unregister on systemd, step by step.
LEMMA SystemdPurgeIs ==
  /\ Is(SystemdPurge, "try-disable-now", 3)
  /\ Is(Second(SystemdPurge), "remove", 2)
  /\ Is(Third(SystemdPurge), "reload", 1)
BY DEF Is, Second, Third, Fourth, Fifth, SystemdPurge

\* What is left of a start on systemd, step by step.
LEMMA SystemdStartIs ==
  /\ Is(SystemdStart, "start", 1)
BY DEF Is, Second, Third, Fourth, Fifth, SystemdStart

\* What is left of a stop on systemd, step by step.
LEMMA SystemdStopIs ==
  /\ Is(SystemdStop, "stop", 1)
BY DEF Is, Second, Third, Fourth, Fifth, SystemdStop

\* What is left of a restart on systemd, step by step.
LEMMA SystemdRestartIs ==
  /\ Is(SystemdRestart, "need-file", 2)
  /\ Is(Second(SystemdRestart), "restart", 1)
BY DEF Is, Second, Third, Fourth, Fifth, SystemdRestart

\* The calls the commands make.
LaunchdCalls ==
  {"try-bootout", "write", "try-enable", "bootstrap", "remove", "bootout", "try-disable",
   "need-file", "stop-ignored", "bootstrap-or-kick"}
SystemdCalls ==
  {"write", "reload", "enable", "restart", "try-disable-now", "remove", "start", "stop", "need-file"}

\* What comes before and after a step of a command.
LaunchdAt(v, t) ==
  /\ Head(t) \in LaunchdCalls
  /\ Head(t) \in {"bootout", "try-disable"} <=> v = "stop"
  /\ v = "register" => Head(t) \in {"try-bootout", "write", "try-enable", "bootstrap"}
  /\ v = "register" /\ Len(t) = 1 => Head(t) = "bootstrap"
  /\ Len(t) # 1 =>
       /\ Head(Tail(t)) \in {"write", "remove"} => Head(t) = "try-bootout"
       /\ Head(Tail(t)) = "try-disable" => Head(t) = "bootout"
       /\ v = "register" /\ Head(Tail(t)) = "try-enable" => Head(t) = "write"
       /\ v = "register" /\ Head(Tail(t)) = "bootstrap" => Head(t) = "try-enable"

SystemdAt(v, t) ==
  /\ Head(t) \in SystemdCalls
  /\ v = "register" => Head(t) \in {"write", "reload", "enable", "restart"}
  /\ v = "register" /\ Len(t) = 1 => Head(t) = "restart"
  /\ Len(t) # 1 /\ v = "register" =>
       /\ Head(Tail(t)) # "write"
       /\ Head(Tail(t)) = "reload" => Head(t) = "write"
       /\ Head(Tail(t)) = "enable" => Head(t) = "reload"
       /\ Head(Tail(t)) = "restart" => Head(t) = "enable"

\* Where a command stands, whatever is left of it.
LEMMA Onward ==
  ASSUME NEW m \in Managed, NEW v, NEW t \in Rest(m, v)
  PROVE  /\ Len(t) # 1 => Tail(t) \in Rest(m, v)
         /\ m = "launchd" => LaunchdAt(v, t)
         /\ m = "systemd" => SystemdAt(v, t)
<1>1. CASE m = "launchd" /\ v = "register"
  <2>1. Rest(m, v) = {LaunchdInstall, Second(LaunchdInstall), Third(LaunchdInstall), Fourth(LaunchdInstall)}
    BY <1>1 DEF Rest
  <2>2. Len(t) # 1 => Tail(t) \in Rest(m, v)
    BY <2>1, Chain, LaunchdInstallIs DEF Is
  <2>3. Len(t) = 1 => Head(t) = "bootstrap"
    BY <2>1, LaunchdInstallIs DEF Is
  <2>4. Len(t) # 1 => \/ Head(t) = "try-bootout" /\ Head(Tail(t)) = "write"
                      \/ Head(t) = "write" /\ Head(Tail(t)) = "try-enable"
                      \/ Head(t) = "try-enable" /\ Head(Tail(t)) = "bootstrap"
    BY <2>1, Chain, LaunchdInstallIs DEF Is
  <2> QED BY <1>1, <2>2, <2>3, <2>4 DEF LaunchdCalls, LaunchdAt
<1>2. CASE m = "launchd" /\ v = "unregister"
  <2>1. Rest(m, v) = {LaunchdRemove, Second(LaunchdRemove), Third(LaunchdRemove)}
    BY <1>2 DEF Rest
  <2>2. Len(t) # 1 => Tail(t) \in Rest(m, v)
    BY <2>1, Chain, LaunchdRemoveIs DEF Is
  <2>3. Len(t) = 1 => Head(t) = "try-enable"
    BY <2>1, LaunchdRemoveIs DEF Is
  <2>4. Len(t) # 1 => \/ Head(t) = "try-bootout" /\ Head(Tail(t)) = "remove"
                      \/ Head(t) = "remove" /\ Head(Tail(t)) = "try-enable"
    BY <2>1, Chain, LaunchdRemoveIs DEF Is
  <2> QED BY <1>2, <2>2, <2>3, <2>4 DEF LaunchdCalls, LaunchdAt
<1>3. CASE m = "launchd" /\ v = "stop"
  <2>1. Rest(m, v) = {LaunchdStop, Second(LaunchdStop)}
    BY <1>3 DEF Rest
  <2>2. Len(t) # 1 => Tail(t) \in Rest(m, v)
    BY <2>1, Chain, LaunchdStopIs DEF Is
  <2>3. Len(t) = 1 => Head(t) = "try-disable"
    BY <2>1, LaunchdStopIs DEF Is
  <2>4. Len(t) # 1 => Head(t) = "bootout" /\ Head(Tail(t)) = "try-disable"
    BY <2>1, Chain, LaunchdStopIs DEF Is
  <2> QED BY <1>3, <2>2, <2>3, <2>4 DEF LaunchdCalls, LaunchdAt
<1>4. CASE m = "launchd" /\ v \in {"start", "restart"}
  <2> DEFINE p == LaunchdRestart
  <2>1. Rest(m, v) = {p, Second(p), Third(p), Fourth(p), Fifth(p)}
    BY <1>4 DEF Rest
  <2>2. Len(t) # 1 => Tail(t) \in Rest(m, v)
    BY <2>1, Chain, LaunchdRestartIs DEF Is
  <2>3. Len(t) = 1 => Head(t) = "bootstrap-or-kick"
    BY <2>1, LaunchdRestartIs DEF Is
  <2>4. Len(t) # 1 => \/ Head(t) = "need-file" /\ Head(Tail(t)) \in {"stop-ignored", "try-enable"}
                      \/ Head(t) = "stop-ignored" /\ Head(Tail(t)) = "need-file"
                      \/ Head(t) = "try-enable" /\ Head(Tail(t)) = "bootstrap-or-kick"
    BY <2>1, Chain, LaunchdRestartIs DEF Is
  <2> QED BY <1>4, <2>2, <2>3, <2>4 DEF LaunchdCalls, LaunchdAt
<1>5. CASE m = "systemd" /\ v = "register"
  <2>1. Rest(m, v) = {SystemdInstall, Second(SystemdInstall), Third(SystemdInstall), Fourth(SystemdInstall)}
    BY <1>5 DEF Rest
  <2>2. Len(t) # 1 => Tail(t) \in Rest(m, v)
    BY <2>1, Chain, SystemdInstallIs DEF Is
  <2>3. Len(t) = 1 => Head(t) = "restart"
    BY <2>1, SystemdInstallIs DEF Is
  <2>4. Len(t) # 1 => \/ Head(t) = "write" /\ Head(Tail(t)) = "reload"
                      \/ Head(t) = "reload" /\ Head(Tail(t)) = "enable"
                      \/ Head(t) = "enable" /\ Head(Tail(t)) = "restart"
    BY <2>1, Chain, SystemdInstallIs DEF Is
  <2> QED BY <1>5, <2>2, <2>3, <2>4 DEF SystemdCalls, SystemdAt
<1>6. CASE m = "systemd" /\ v = "unregister"
  <2>1. Rest(m, v) = {SystemdRemove, Second(SystemdRemove)}
                       \cup {SystemdPurge, Second(SystemdPurge), Third(SystemdPurge)}
    BY <1>6 DEF Rest
  <2>2. Len(t) # 1 => Tail(t) \in Rest(m, v)
    BY <2>1, Chain, SystemdRemoveIs, SystemdPurgeIs DEF Is
  <2>3. Head(t) \in {"try-disable-now", "remove", "reload"}
    BY <2>1, SystemdRemoveIs, SystemdPurgeIs DEF Is
  <2> QED BY <1>6, <2>2, <2>3 DEF SystemdCalls, SystemdAt
<1>7. CASE m = "systemd" /\ v \in {"start", "stop", "restart"}
  <2>1. \/ t = SystemdStart \/ t = SystemdStop
        \/ Rest(m, v) = {SystemdRestart, Second(SystemdRestart)}
    BY <1>7 DEF Rest
  <2>2. Len(t) # 1 => Tail(t) \in Rest(m, v)
    BY <2>1, Chain, SystemdStartIs, SystemdStopIs, SystemdRestartIs DEF Is
  <2>3. Head(t) \in {"start", "stop", "need-file", "restart"}
    BY <2>1, SystemdStartIs, SystemdStopIs, SystemdRestartIs DEF Is
  <2> QED BY <1>7, <2>2, <2>3 DEF SystemdCalls, SystemdAt
<1> QED BY <1>1, <1>2, <1>3, <1>4, <1>5, <1>6, <1>7 DEF Rest, Managed

\* What the head of a command in progress is, and where the command stands after it.
LEMMA Standing ==
  ASSUME CommandOK, Commanded
  PROVE  /\ manager \in Managed /\ cmd.verb \in Asked /\ cmd.todo \in Rest(manager, cmd.verb)
         /\ Len(cmd.todo) # 1 => Tail(cmd.todo) \in Rest(manager, cmd.verb) /\ Tail(cmd.todo) \in Left
         /\ manager = "launchd" => LaunchdAt(cmd.verb, cmd.todo)
         /\ manager = "systemd" => SystemdAt(cmd.verb, cmd.todo)
<1>1. manager \in Managed /\ cmd.todo \in Rest(manager, cmd.verb)
  BY DEF CommandOK, Managed
<1>2. cmd.verb \in Asked
  BY <1>1 DEF Rest, Asked
<1>3. Rest(manager, cmd.verb) \subseteq Left
  <2>1. <<manager, cmd.verb>> \in Managed \X Asked
    BY <1>1, <1>2
  <2> QED BY <2>1 DEF Left, Begun
<1>4. /\ Len(cmd.todo) # 1 => Tail(cmd.todo) \in Rest(manager, cmd.verb)
      /\ manager = "launchd" => LaunchdAt(cmd.verb, cmd.todo)
      /\ manager = "systemd" => SystemdAt(cmd.verb, cmd.todo)
  BY <1>1, Onward
<1> QED BY <1>1, <1>2, <1>3, <1>4

\* No shell pins the locations that stand for the absence of a definition.
LEMMA Pinned == Service!NoDef \notin Service!Defs
BY LocationsAssumption DEF Service!NoDef, Service!Defs

\* A command ends, or goes on to its next step.
Ended == cmd' = Service!NoCommand
Went ==
  /\ Len(cmd.todo) # 1 /\ Commanded'
  /\ cmd'.verb = cmd.verb /\ cmd'.def = cmd.def /\ cmd'.todo = Tail(cmd.todo)

\* No command has a verb of its own.
LEMMA NoCommandIs == Service!NoCommand.verb = "none"
BY DEF Service!NoCommand

\* The state of a command is kept by a step that ends it or goes on.
LEMMA StepTypes ==
  ASSUME CommandOK, Commanded, UNCHANGED <<manager, session>>,
         \/ Ended
         \/ Len(cmd.todo) # 1 /\ \E e \in BOOLEAN : cmd' = [cmd EXCEPT !.todo = Tail(@), !.err = e]
         \/ Len(cmd.todo) # 1 /\ cmd' = [cmd EXCEPT !.todo = Tail(@)]
  PROVE  CommandOK' /\ (Ended \/ Went)
<1>1. Service!NoCommand \in [verb : {"none"}, def : {Service!NoDef}, force : BOOLEAN, todo : {<<>>}, err : BOOLEAN]
  BY DEF Service!NoCommand
<1>2. <<>> \in Left
  BY DEF Left
<1>3. CASE Ended
  BY <1>1, <1>2, <1>3 DEF CommandOK, Ended, Commanded
<1>4. CASE ~Ended
  <2> DEFINE Type == [verb : {"none", "register", "unregister", "start", "stop", "restart"},
              def : Service!Defs \cup {Service!NoDef}, force : BOOLEAN, todo : Left, err : BOOLEAN]
  <2>1. cmd \in Type /\ Len(cmd.todo) # 1
    BY <1>4 DEF CommandOK
  <2>2. Tail(cmd.todo) \in Rest(manager, cmd.verb) /\ Tail(cmd.todo) \in Left
    BY <2>1, Standing
  <2>3. /\ cmd' \in Type
        /\ cmd'.verb = cmd.verb /\ cmd'.def = cmd.def /\ cmd'.todo = Tail(cmd.todo)
    BY <1>4, <2>1, <2>2
  <2> QED BY <1>4, <2>1, <2>2, <2>3 DEF CommandOK, Went, Commanded, Ended
<1> QED BY <1>3, <1>4

\* A call that succeeds.
LEMMA SucceedKeeps ==
  ASSUME ServiceInv, Service!Succeed
  PROVE  ServiceInv'
<1> DEFINE h == Head(cmd.todo)
           n == Head(Tail(cmd.todo))
           None == Service!NoDef
<1>1. CommandOK /\ FlagsOK /\ Commanded /\ Service!Effect(h) /\ UNCHANGED <<manager, session>>
  BY DEF Service!Succeed, ServiceInv, Commanded
<1>2. Len(cmd.todo) = 1 =>
        /\ Ended
        /\ report'.verb = cmd.verb /\ report'.def = cmd.def /\ report'.ok \in BOOLEAN
  BY DEF Service!Succeed, Service!Ends, Service!NoReport, Ended
<1>3. Len(cmd.todo) # 1 => cmd' = [cmd EXCEPT !.todo = Tail(@)] /\ report' = report
  BY DEF Service!Succeed
<1>4. CommandOK' /\ (Ended \/ Went) /\ (Ended => Len(cmd.todo) = 1)
  <2>1. CASE Len(cmd.todo) = 1
    BY <1>1, <1>2, <2>1, StepTypes
  <2>2. CASE Len(cmd.todo) # 1
    <3>1. CommandOK' /\ (Ended \/ Went)
      BY <1>1, <1>3, <2>2, StepTypes
    <3>2. cmd'.verb = cmd.verb /\ cmd.verb # "none"
      BY <1>1, <1>3, <2>2, Standing DEF CommandOK, Asked
    <3> QED BY <3>1, <3>2, NoCommandIs DEF Ended
  <2> QED BY <2>1, <2>2
<1>5. kept' = (kept \/ (manager = "launchd" /\ h = "try-disable"))
  BY DEF Service!Succeed
<1>6. CASE manager = "launchd"
  <2>1. LaunchdAt(cmd.verb, cmd.todo) /\ h \in LaunchdCalls
    BY <1>1, <1>6, Standing DEF LaunchdAt
  <2>2. \/ /\ h \in {"bootout", "try-bootout", "stop-ignored"}
           /\ loaded # None /\ loaded' = None /\ running' = None /\ stale' = FALSE /\ file' = file
           /\ disabled' = disabled \/ (h = "stop-ignored" /\ disabled' = TRUE)
        \/ h = "write" /\ file' = cmd.def /\ UNCHANGED <<loaded, running, stale, disabled>>
        \/ h = "remove" /\ file' = None /\ UNCHANGED <<loaded, running, stale, disabled>>
        \/ h = "try-enable" /\ disabled' = FALSE /\ UNCHANGED <<loaded, running, stale, file>>
        \/ h = "try-disable" /\ disabled' = TRUE /\ UNCHANGED <<loaded, running, stale, file>>
        \/ /\ h \in {"bootstrap", "bootstrap-or-kick"} /\ ~disabled
           /\ loaded' = file /\ running' = file /\ stale' = FALSE /\ UNCHANGED <<file, disabled>>
        \/ h = "bootstrap-or-kick" /\ loaded # None /\ running' = loaded /\ UNCHANGED <<file, disabled, loaded, stale>>
        \/ h = "need-file" /\ UNCHANGED <<loaded, running, stale, file, disabled>>
    <3>1. CASE h \in {"bootout", "try-bootout", "stop-ignored"}
      BY <1>1, <3>1 DEF Service!Effect, Service!Unload
    <3>2. CASE h \in {"write", "remove", "try-enable", "try-disable", "need-file"}
      BY <1>1, <1>6, <3>2 DEF Service!Effect, Service!Same
    <3>3. CASE h \in {"bootstrap", "bootstrap-or-kick"}
      BY <1>1, <3>3 DEF Service!Effect, Service!CanBootstrap, Service!Load
    <3> QED BY <2>1, <3>1, <3>2, <3>3 DEF LaunchdCalls
  <2> HIDE DEF h, n, None
  <2>3. LaunchdOK'
    BY <1>1, <1>4, <1>6, <2>1, <2>2, NoCommandIs DEF ServiceInv, LaunchdAt, LaunchdOK, Went, Ended, Commanded, h, n, None
  <2>4. kept' => /\ disabled' /\ cmd'.verb \in {"none", "stop"}
                 /\ loaded' = None /\ running' = None
    <3> SUFFICES ASSUME kept' PROVE disabled' /\ cmd'.verb \in {"none", "stop"} /\ loaded' = None /\ running' = None
      OBVIOUS
    <3>1. CASE h = "try-disable"
      <4>1. cmd.verb = "stop" /\ loaded = None /\ running = None
        BY <1>1, <1>6, <2>1, <3>1 DEF ServiceInv, LaunchdOK, LaunchdAt, h, None
      <4> QED BY <1>4, <2>2, <3>1, <4>1, NoCommandIs DEF Went, Ended
    <3>2. CASE h # "try-disable"
      <4>1. kept /\ loaded = None /\ cmd.verb \in {"none", "stop"}
        BY <1>1, <1>5, <3>2 DEF ServiceInv, FlagsOK, ReportOK, None
      <4>2. h = "bootout"
        BY <1>1, <2>1, <3>2, <4>1, Standing DEF LaunchdAt, Asked, h
      <4> QED BY <2>2, <4>1, <4>2
    <3> QED BY <3>1, <3>2
  <2>5. ASSUME report'.verb = "register", report'.ok
        PROVE  /\ session' /\ ~Commanded' /\ report'.def \in Service!Defs
               /\ Service!RegisterTakesHold'
    <3>1. Ended
      BY <1>1, <1>3, <1>4, <2>5 DEF ServiceInv, ReportOK, Went
    <3>2. cmd.verb = "register" /\ h = "bootstrap" /\ report'.def = cmd.def
      BY <1>2, <1>4, <2>1, <2>5, <3>1 DEF LaunchdAt, h
    <3>3. file' = cmd.def /\ loaded' = file' /\ ~disabled'
      BY <1>1, <1>6, <2>2, <3>2 DEF ServiceInv, LaunchdOK, h
    <3> QED BY <1>1, <1>6, <3>1, <3>2, <3>3 DEF CommandOK, Service!RegisterTakesHold, Ended, Commanded
  <2>6. ReportOK'
    BY <1>1, <1>6, <2>4, <2>5 DEF ReportOK, Service!RegisterTakesHold, None
  <2> QED BY <1>1, <1>2, <1>3, <1>4, <1>5, <1>6, <2>2, <2>3, <2>6 DEF ServiceInv, SystemdOK, FlagsOK
<1>7. CASE manager = "systemd"
  <2>1. SystemdAt(cmd.verb, cmd.todo) /\ h \in SystemdCalls
    BY <1>1, <1>7, Standing DEF SystemdAt
  <2>2. \/ h = "write" /\ file' = cmd.def /\ UNCHANGED <<loaded, running, stale, disabled>>
        \/ h = "remove" /\ file' = None /\ UNCHANGED <<loaded, running, stale, disabled>>
        \/ h = "enable" /\ disabled' = FALSE /\ UNCHANGED <<loaded, running, stale, file>>
        \/ h = "reload" /\ loaded' = file /\ UNCHANGED <<running, stale, file, disabled>>
        \/ /\ h \in {"restart", "start"} /\ loaded' = (IF loaded = None THEN file ELSE loaded)
           /\ h = "restart" => running' = loaded'
           /\ UNCHANGED <<file, disabled, stale>>
        \/ h = "stop" /\ running' = None /\ UNCHANGED <<file, disabled, loaded, stale>>
        \/ h = "try-disable-now" /\ running' = None /\ disabled' = TRUE /\ UNCHANGED <<file, loaded, stale>>
        \/ h = "need-file" /\ UNCHANGED <<loaded, running, stale, file, disabled>>
    <3>1. CASE h \in {"write", "remove", "enable", "need-file"}
      BY <1>1, <3>1 DEF Service!Effect, Service!Same
    <3>2. CASE h \in {"reload", "stop", "try-disable-now"}
      BY <1>1, <3>2 DEF Service!Effect
    <3>3. CASE h \in {"restart", "start"}
      BY <1>1, <3>3 DEF Service!Effect
    <3> QED BY <2>1, <3>1, <3>2, <3>3 DEF SystemdCalls
  <2> HIDE DEF h, n, None
  <2>3. SystemdOK'
    BY <1>1, <1>4, <1>7, <2>1, <2>2, NoCommandIs DEF ServiceInv, SystemdAt, SystemdOK, Went, Ended, h, n, None
  <2>4. ~kept'
    BY <1>5, <1>7 DEF ServiceInv, ReportOK, FlagsOK
  <2>5. ASSUME report'.verb = "register", report'.ok
        PROVE  /\ session' /\ ~Commanded' /\ report'.def \in Service!Defs
               /\ Service!RegisterTakesHold'
    <3>1. Ended
      BY <1>1, <1>3, <1>4, <2>5 DEF ServiceInv, ReportOK, Went
    <3>2. cmd.verb = "register" /\ h = "restart" /\ report'.def = cmd.def
      BY <1>2, <1>4, <2>1, <2>5, <3>1 DEF SystemdAt, h
    <3>3. file' = cmd.def /\ loaded' = file' /\ running' = file' /\ ~disabled'
      BY <1>1, <1>7, <2>2, <3>2 DEF ServiceInv, SystemdOK, h, None
    <3> QED BY <1>1, <1>7, <3>1, <3>2, <3>3 DEF CommandOK, Service!RegisterTakesHold, Ended, Commanded
  <2>6. ReportOK'
    BY <1>1, <1>7, <2>4, <2>5 DEF ReportOK, Service!RegisterTakesHold
  <2> QED BY <1>1, <1>2, <1>3, <1>4, <1>5, <1>7, <2>2, <2>3, <2>6 DEF ServiceInv, LaunchdOK, FlagsOK
<1> QED BY <1>1, <1>6, <1>7 DEF CommandOK

\* A call that fails.
LEMMA FailKeeps ==
  ASSUME ServiceInv, Service!Fail
  PROVE  ServiceInv'
<1> DEFINE h == Head(cmd.todo)
           n == Head(Tail(cmd.todo))
           Over(ok) == Service!Ends(ok)
<1>1. /\ CommandOK /\ FlagsOK /\ Commanded
      /\ UNCHANGED <<manager, session, file, loaded, running, disabled, kept>>
      /\ stale' = (stale \/ (h \in {"try-bootout", "stop-ignored"} /\ loaded # Service!NoDef))
  BY DEF Service!Fail, ServiceInv, Commanded
<1>2. \/ Over(FALSE)
      \/ h \in Service!Ignored \cup {"remove"} /\ Len(cmd.todo) = 1 /\ Over(TRUE)
      \/ /\ h \in Service!Ignored \cup {"remove"} /\ Len(cmd.todo) # 1 /\ report' = report
         /\ cmd' = [cmd EXCEPT !.todo = Tail(@), !.err = @ \/ h \notin Service!Ignored]
  BY DEF Service!Fail
<1>3. ASSUME NEW ok \in BOOLEAN, Over(ok)
      PROVE  /\ Ended /\ report'.verb = cmd.verb /\ report'.def = cmd.def /\ report'.ok \in BOOLEAN
             /\ report'.ok => ok
  BY <1>3 DEF Service!Ends, Service!NoReport, Ended
<1>4. CommandOK' /\ (Ended \/ Went)
  <2>1. cmd.err \in BOOLEAN /\ (cmd.err \/ h \notin Service!Ignored) \in BOOLEAN
    BY <1>1 DEF CommandOK
  <2> HIDE DEF h
  <2> QED BY <1>1, <1>2, <1>3, <2>1, StepTypes
<1>5. ~Ended => /\ h \in {"try-bootout", "try-enable", "try-disable", "try-disable-now", "stop-ignored", "remove"}
                /\ report' = report
  BY <1>2, <1>3 DEF Service!Ignored
<1>6. report'.ok \in BOOLEAN /\ stale' \in BOOLEAN
  BY <1>1, <1>2, <1>3 DEF FlagsOK
<1>7. report'.verb = "register" => ~report'.ok
  <2>1. CASE ~Ended
    BY <1>1, <1>4, <1>5, <2>1 DEF ServiceInv, ReportOK
  <2>2. CASE Ended /\ cmd.verb = "register" /\ Len(cmd.todo) = 1
    <3>1. h \in {"bootstrap", "restart"}
      BY <1>1, <2>2, Standing DEF LaunchdAt, SystemdAt, Managed
    <3> QED BY <1>2, <1>3, <2>2, <3>1 DEF Service!Ignored
  <2>3. CASE Ended /\ ~(cmd.verb = "register" /\ Len(cmd.todo) = 1)
    <3>1. Over(FALSE) \/ (Over(TRUE) /\ Len(cmd.todo) = 1)
      <4>1. cmd'.verb = cmd.verb => FALSE
        BY <1>1, <2>3, Standing, NoCommandIs DEF Ended, Asked
      <4>2. Len(cmd.todo) # 1 /\ cmd' = [cmd EXCEPT !.todo = Tail(@), !.err = @ \/ h \notin Service!Ignored]
              => cmd'.verb = cmd.verb
        BY <1>1 DEF CommandOK
      <4> QED BY <1>2, <4>1, <4>2
    <3> QED BY <1>3, <2>3, <3>1
  <2> QED BY <2>1, <2>2, <2>3
<1> HIDE DEF h, n
<1>8. CASE manager = "launchd"
  <2>1. LaunchdAt(cmd.verb, cmd.todo)
    BY <1>1, <1>8, Standing
  <2>2. LaunchdOK'
    BY <1>1, <1>4, <1>5, <1>8, <2>1, NoCommandIs DEF ServiceInv, LaunchdAt, LaunchdOK, Went, Ended, Commanded, h, n
  <2>3. ReportOK'
    BY <1>1, <1>4, <1>7, NoCommandIs DEF ServiceInv, ReportOK, Service!RegisterTakesHold, Went, Ended
  <2> QED BY <1>1, <1>4, <1>6, <1>8, <2>2, <2>3 DEF ServiceInv, SystemdOK, FlagsOK
<1>9. CASE manager = "systemd"
  <2>1. SystemdAt(cmd.verb, cmd.todo)
    BY <1>1, <1>9, Standing
  <2>2. SystemdOK'
    BY <1>1, <1>4, <1>5, <1>9, <2>1, NoCommandIs DEF ServiceInv, SystemdAt, SystemdOK, Went, Ended, h, n
  <2>3. ReportOK'
    BY <1>1, <1>4, <1>7, NoCommandIs DEF ServiceInv, ReportOK, Service!RegisterTakesHold, Went, Ended
  <2> QED BY <1>1, <1>4, <1>6, <1>9, <2>2, <2>3 DEF ServiceInv, LaunchdOK, FlagsOK
<1> QED BY <1>1, <1>8, <1>9 DEF CommandOK

\* Plans that the code puts together.
LEMMA Joined ==
  /\ <<"need-file", "stop-ignored">> \o <<"need-file", "try-enable", "bootstrap-or-kick">> = LaunchdRestart
  /\ <<"try-disable-now", "remove">> \o <<>> = SystemdRemove
  /\ <<"try-disable-now", "remove">> \o <<"reload">> = SystemdPurge
<1> DEFINE C == LaunchdCalls \cup SystemdCalls
<1>1. \A x, y \in Seq(C) : x \o y \in Seq(C) /\ Len(x \o y) = Len(x) + Len(y)
                            /\ (\A i \in 1..Len(x) : (x \o y)[i] = x[i])
                            /\ (\A i \in 1..Len(y) : (x \o y)[Len(x) + i] = y[i])
  OBVIOUS
<1>2. \A x, y \in Seq(C) : Len(x) = Len(y) /\ (\A i \in 1..Len(x) : x[i] = y[i]) => x = y
  OBVIOUS
<1>3. {"need-file", "stop-ignored", "try-enable", "bootstrap-or-kick", "try-disable-now", "remove", "reload"}
        \subseteq C
  BY DEF LaunchdCalls, SystemdCalls
<1> HIDE DEF C
<1>4. ASSUME NEW a \in C, NEW b \in C, NEW c \in C
      PROVE  <<a, b>> \o <<c>> = <<a, b, c>>
  <2> DEFINE x == <<a, b>>
             y == <<c>>
             z == <<a, b, c>>
  <2>1. /\ x \in Seq(C) /\ Len(x) = 2 /\ x[1] = a /\ x[2] = b
        /\ y \in Seq(C) /\ Len(y) = 1 /\ y[1] = c
        /\ z \in Seq(C) /\ Len(z) = 3 /\ z[1] = a /\ z[2] = b /\ z[3] = c
    OBVIOUS
  <2> HIDE DEF x, y, z
  <2>2. /\ x \o y \in Seq(C) /\ Len(x \o y) = Len(x) + Len(y)
        /\ \A i \in 1..Len(x) : (x \o y)[i] = x[i]
        /\ \A i \in 1..Len(y) : (x \o y)[Len(x) + i] = y[i]
    BY <1>1, <2>1, Zenon
  <2> DEFINE w == x \o y
  <2> HIDE DEF w
  <2>3. /\ w \in Seq(C) /\ Len(w) = 3
        /\ \A i \in 1..2 : w[i] = x[i]
        /\ \A i \in 1..1 : w[2 + i] = y[i]
    BY <2>1, <2>2 DEF w
  <2>4. w[1] = a /\ w[2] = b /\ w[3] = c
    BY <2>1, <2>3
  <2>5. w = z
    BY <1>2, <2>1, <2>3, <2>4
  <2> QED BY <2>5 DEF w, x, y, z
<1>5. ASSUME NEW a \in C, NEW b \in C, NEW c \in C, NEW d \in C, NEW e \in C
      PROVE  <<a, b>> \o <<c, d, e>> = <<a, b, c, d, e>>
  <2> DEFINE x == <<a, b>>
             y == <<c, d, e>>
             z == <<a, b, c, d, e>>
  <2>1. /\ x \in Seq(C) /\ Len(x) = 2 /\ x[1] = a /\ x[2] = b
        /\ y \in Seq(C) /\ Len(y) = 3 /\ y[1] = c /\ y[2] = d /\ y[3] = e
        /\ z \in Seq(C) /\ Len(z) = 5 /\ z[1] = a /\ z[2] = b /\ z[3] = c /\ z[4] = d /\ z[5] = e
    OBVIOUS
  <2> HIDE DEF x, y, z
  <2>2. /\ x \o y \in Seq(C) /\ Len(x \o y) = Len(x) + Len(y)
        /\ \A i \in 1..Len(x) : (x \o y)[i] = x[i]
        /\ \A i \in 1..Len(y) : (x \o y)[Len(x) + i] = y[i]
    BY <1>1, <2>1, Zenon
  <2> DEFINE w == x \o y
  <2> HIDE DEF w
  <2>3. /\ w \in Seq(C) /\ Len(w) = 5
        /\ \A i \in 1..2 : w[i] = x[i]
        /\ \A i \in 1..3 : w[2 + i] = y[i]
    BY <2>1, <2>2 DEF w
  <2>4. w[1] = a /\ w[2] = b /\ w[3] = c /\ w[4] = d /\ w[5] = e
    BY <2>1, <2>3
  <2>5. \A i \in 1..5 : w[i] = z[i]
    <3>1. \A i \in 1..5 : i = 1 \/ i = 2 \/ i = 3 \/ i = 4 \/ i = 5
      OBVIOUS
    <3> QED BY <2>1, <2>4, <3>1, Zenon
  <2>6. w = z
    BY <1>2, <2>1, <2>3, <2>5, Zenon
  <2> QED BY <2>6 DEF w, x, y, z
<1>6. <<"try-disable-now", "remove">> \o <<>> = <<"try-disable-now", "remove">>
  OBVIOUS
<1>7. <<"try-disable-now", "remove">> \o <<"reload">> = <<"try-disable-now", "remove", "reload">>
  BY <1>3, <1>4, Zenon
<1>8. <<"need-file", "stop-ignored">> \o <<"need-file", "try-enable", "bootstrap-or-kick">>
        = <<"need-file", "stop-ignored", "need-file", "try-enable", "bootstrap-or-kick">>
  BY <1>3, <1>5
<1> QED BY <1>6, <1>7, <1>8, Zenon DEF LaunchdRestart, SystemdRemove, SystemdPurge

\* A command that begins, or ends without a step.
LEMMA BeginKeeps ==
  ASSUME ServiceInv,
         \/ \E def \in Service!Defs, force \in BOOLEAN : Service!Register(def, force)
         \/ \E loc \in Locations : Service!Status(loc)
         \/ Service!Command("unregister", Service!UnregisterSteps)
         \/ Service!Command("start", Service!StartSteps)
         \/ Service!Command("stop", Service!StopSteps)
         \/ Service!Command("restart", Service!RestartSteps)
  PROVE  ServiceInv'
<1>1. /\ session /\ ~Commanded /\ UNCHANGED <<manager, session, file, loaded, running, disabled, stale>>
      /\ CommandOK /\ FlagsOK /\ manager \in Managed
  BY DEF Service!Register, Service!Status, Service!Command, Service!system, ServiceInv, CommandOK, Commanded, Managed
<1>2. ASSUME NEW loc \in Locations, Service!Status(loc) PROVE ServiceInv'
  <2>1. report'.verb = "status" /\ report'.ok \in BOOLEAN /\ UNCHANGED <<cmd, kept>>
    BY <1>2 DEF Service!Status, Service!NoReport
  <2> QED BY <1>1, <2>1 DEF ServiceInv, CommandOK, FlagsOK, LaunchdOK, SystemdOK, ReportOK, Commanded,
                            Service!RegisterTakesHold
<1>3. ASSUME NEW v \in Asked, NEW d \in Service!Defs \cup {Service!NoDef}, NEW f \in BOOLEAN, NEW t \in Rest(manager, v),
             v = "register" => d \in Service!Defs,
             Service!Begin(v, d, f, t), report' = Service!NoReport,
             kept' \in BOOLEAN, kept' => kept /\ v = "stop",
             Head(t) \notin {"remove", "try-disable"},
             v = "register" => Head(t) = IF manager = "launchd" THEN "try-bootout" ELSE "write",
             v # "register" => Head(t) # "write"
      PROVE  ServiceInv'
  <2>1. /\ cmd'.verb = v /\ cmd'.def = d /\ cmd'.todo = t /\ cmd'.force = f /\ cmd'.err = FALSE
        /\ cmd' = [verb |-> v, def |-> d, force |-> f, todo |-> t, err |-> FALSE]
    BY <1>3 DEF Service!Begin
  <2>2. t \in Left
    <3>1. <<manager, v>> \in Managed \X Asked
      BY <1>1
    <3> QED BY <3>1 DEF Left, Begun
  <2>3. CommandOK'
    BY <1>1, <1>3, <2>1, <2>2 DEF CommandOK, Asked
  <2>4. report'.verb = "none" /\ report'.ok = FALSE
    BY <1>3 DEF Service!NoReport
  <2>5. LaunchdOK' /\ SystemdOK'
    BY <1>1, <1>3, <2>1 DEF ServiceInv, LaunchdOK, SystemdOK
  <2>6. ReportOK'
    BY <1>1, <1>3, <2>1, <2>4 DEF ServiceInv, ReportOK, Service!RegisterTakesHold
  <2> QED BY <1>1, <1>3, <2>3, <2>4, <2>5, <2>6 DEF ServiceInv, FlagsOK
<1>4. CASE Service!Command("unregister", Service!UnregisterSteps)
  <2> DEFINE t == Service!UnregisterSteps
  <2>1. t = IF manager = "launchd" THEN LaunchdRemove ELSE IF file = Service!NoDef THEN SystemdRemove ELSE SystemdPurge
    BY Joined DEF Service!UnregisterSteps, LaunchdRemove
  <2>2. /\ Service!Begin("unregister", Service!NoDef, FALSE, t) /\ report' = Service!NoReport
        /\ kept' = (kept /\ "unregister" = "stop")
    BY <1>4 DEF Service!Command
  <2> HIDE DEF t
  <2>3. t \in Rest(manager, "unregister") /\ Head(t) \in {"try-bootout", "try-disable-now"}
    BY <1>1, <2>1, LaunchdRemoveIs, SystemdRemoveIs, SystemdPurgeIs DEF Rest, Is, Managed
  <2> QED BY <1>1, <1>3, <2>2, <2>3 DEF Asked, FlagsOK
<1>5. CASE Service!Command("start", Service!StartSteps)
  <2> DEFINE t == Service!StartSteps
  <2>1. t = IF manager = "launchd" THEN Third(LaunchdRestart) ELSE SystemdStart
    BY DEF Service!StartSteps, LaunchdRestart, SystemdStart, Third
  <2>2. /\ Service!Begin("start", Service!NoDef, FALSE, t) /\ report' = Service!NoReport
        /\ kept' = (kept /\ "start" = "stop")
    BY <1>5 DEF Service!Command
  <2> HIDE DEF t
  <2>3. t \in Rest(manager, "start") /\ Head(t) \in {"need-file", "start"}
    BY <1>1, <2>1, LaunchdRestartIs, SystemdStartIs DEF Rest, Is, Managed
  <2> QED BY <1>1, <1>3, <2>2, <2>3 DEF Asked, FlagsOK
<1>6. CASE Service!Command("stop", Service!StopSteps)
  <2> DEFINE t == Service!StopSteps
  <2>1. t = IF manager = "launchd" THEN LaunchdStop ELSE SystemdStop
    BY DEF Service!StopSteps, LaunchdStop, SystemdStop
  <2>2. /\ Service!Begin("stop", Service!NoDef, FALSE, t) /\ report' = Service!NoReport
        /\ kept' = (kept /\ "stop" = "stop")
    BY <1>6 DEF Service!Command
  <2> HIDE DEF t
  <2>3. t \in Rest(manager, "stop") /\ Head(t) \in {"bootout", "stop"}
    BY <1>1, <2>1, LaunchdStopIs, SystemdStopIs DEF Rest, Is, Managed
  <2> QED BY <1>1, <1>3, <2>2, <2>3 DEF Asked, FlagsOK
<1>7. CASE Service!Command("restart", Service!RestartSteps)
  <2> DEFINE t == Service!RestartSteps
  <2>1. t = IF manager = "launchd" THEN LaunchdRestart ELSE SystemdRestart
    BY <1>1, Joined DEF Service!RestartSteps, Service!StartSteps, SystemdRestart
  <2>2. /\ Service!Begin("restart", Service!NoDef, FALSE, t) /\ report' = Service!NoReport
        /\ kept' = (kept /\ "restart" = "stop")
    BY <1>7 DEF Service!Command
  <2> HIDE DEF t
  <2>3. t \in Rest(manager, "restart") /\ Head(t) = "need-file"
    BY <1>1, <2>1, LaunchdRestartIs, SystemdRestartIs DEF Rest, Is, Managed
  <2> QED BY <1>1, <1>3, <2>2, <2>3 DEF Asked, FlagsOK
<1>8. ASSUME NEW def \in Service!Defs, NEW force \in BOOLEAN, Service!Register(def, force) PROVE ServiceInv'
  <2>1. CASE report' = [Service!NoReport EXCEPT !.verb = "register", !.def = def] /\ UNCHANGED <<cmd, kept>>
    <3>1. ~report'.ok /\ report'.ok \in BOOLEAN
      BY <2>1 DEF Service!NoReport
    <3> QED BY <1>1, <2>1, <3>1 DEF ServiceInv, CommandOK, FlagsOK, LaunchdOK, SystemdOK, ReportOK, Commanded,
                                    Service!RegisterTakesHold
  <2>2. CASE /\ Service!AlreadyThere(def) /\ UNCHANGED <<cmd, kept>>
             /\ report' = [Service!NoReport EXCEPT !.verb = "register", !.ok = TRUE, !.def = def]
    <3>1. report'.ok \in BOOLEAN /\ report'.def = def /\ report'.changed = FALSE
      BY <2>2 DEF Service!NoReport
    <3>2. file = def /\ (manager = "launchd" => loaded # Service!NoDef)
      BY <2>2 DEF Service!AlreadyThere, Service!IsLoaded
    <3>3. Service!RegisterTakesHold'
      BY <1>1, <3>1, <3>2 DEF ServiceInv, LaunchdOK, Service!RegisterTakesHold
    <3> QED BY <1>1, <2>2, <3>1, <3>3 DEF ServiceInv, CommandOK, FlagsOK, LaunchdOK, SystemdOK, ReportOK, Commanded
  <2>3. CASE /\ Service!Begin("register", def, force, Service!InstallSteps)
             /\ report' = Service!NoReport /\ kept' = FALSE
    <3> DEFINE t == Service!InstallSteps
    <3>1. t = IF manager = "launchd" THEN LaunchdInstall ELSE SystemdInstall
      BY DEF Service!InstallSteps, LaunchdInstall, SystemdInstall
    <3>2. Service!Begin("register", def, force, t)
      BY <2>3
    <3> HIDE DEF t
    <3>3. t \in Rest(manager, "register") /\ Head(t) = IF manager = "launchd" THEN "try-bootout" ELSE "write"
      BY <1>1, <3>1, LaunchdInstallIs, SystemdInstallIs DEF Rest, Is, Managed
    <3> QED BY <1>1, <1>3, <2>3, <3>2, <3>3 DEF Asked
  <2> QED BY <1>8, <2>1, <2>2, <2>3 DEF Service!Register, Service!Refused
<1> QED BY <1>2, <1>4, <1>5, <1>6, <1>7, <1>8

\* A command killed between two calls, and what the manager does on its own.
LEMMA ManagerKeeps ==
  ASSUME ServiceInv, Service!Killed \/ Service!KeepAlive \/ Service!Collect \/ Service!Logout \/ Service!Login
  PROVE  ServiceInv'
<1>1. /\ Service!NoCommand \in [verb : {"none"}, def : {Service!NoDef}, force : BOOLEAN, todo : {<<>>}, err : BOOLEAN]
      /\ <<>> \in Left
  BY DEF Service!NoCommand, Left
<1>2. Service!NoReport.verb = "none" /\ Service!NoReport.ok = FALSE
  BY DEF Service!NoReport
<1>3. CASE Service!Killed
  <2>1. /\ cmd' = Service!NoCommand /\ report' = Service!NoReport
        /\ UNCHANGED <<manager, session, file, loaded, running, disabled, stale, kept>>
    BY <1>3 DEF Service!Killed, Service!system
  <2>2. CommandOK' /\ FlagsOK'
    BY <1>1, <1>2, <2>1 DEF ServiceInv, CommandOK, FlagsOK, Commanded
  <2>3. LaunchdOK' /\ SystemdOK'
    BY <2>1, NoCommandIs DEF ServiceInv, LaunchdOK, SystemdOK, Commanded
  <2>4. ReportOK'
    BY <1>2, <2>1, NoCommandIs DEF ServiceInv, ReportOK, Service!RegisterTakesHold
  <2> QED BY <2>2, <2>3, <2>4 DEF ServiceInv
<1>4. CASE Service!KeepAlive
  <2>1. /\ running # loaded /\ loaded # Service!NoDef /\ running' = loaded
        /\ UNCHANGED <<manager, session, file, loaded, disabled, cmd, report, stale, kept>>
    BY <1>4 DEF Service!KeepAlive
  <2>2. CommandOK' /\ FlagsOK' /\ LaunchdOK' /\ SystemdOK'
    BY <2>1 DEF ServiceInv, CommandOK, FlagsOK, LaunchdOK, SystemdOK, Commanded
  <2>3. ReportOK'
    BY <2>1 DEF ServiceInv, ReportOK, Service!RegisterTakesHold, Commanded
  <2> QED BY <2>2, <2>3 DEF ServiceInv
<1>5. CASE Service!Collect
  <2>1. /\ manager = "systemd" /\ running = Service!NoDef /\ loaded' = Service!NoDef
        /\ UNCHANGED <<manager, session, file, running, disabled, cmd, report, stale, kept>>
    BY <1>5 DEF Service!Collect
  <2>2. CommandOK' /\ FlagsOK' /\ LaunchdOK' /\ SystemdOK'
    BY <2>1 DEF ServiceInv, CommandOK, FlagsOK, LaunchdOK, SystemdOK, Commanded
  <2>3. ~(report.verb = "register" /\ report.ok /\ report.changed)
    BY <2>1, Pinned DEF ServiceInv, ReportOK, Service!RegisterTakesHold
  <2>4. ReportOK'
    BY <2>1, <2>3 DEF ServiceInv, ReportOK, Service!RegisterTakesHold, Commanded
  <2> QED BY <2>2, <2>4 DEF ServiceInv
<1>6. CASE Service!Logout
  <2>1. /\ session' = FALSE /\ loaded' = Service!NoDef /\ running' = Service!NoDef /\ stale' = FALSE
        /\ cmd' = Service!NoCommand /\ report' = Service!NoReport
        /\ UNCHANGED <<manager, file, disabled, kept>>
    BY <1>6 DEF Service!Logout
  <2>2. CommandOK' /\ FlagsOK'
    BY <1>1, <1>2, <2>1 DEF ServiceInv, CommandOK, FlagsOK, Commanded
  <2>3. LaunchdOK' /\ SystemdOK'
    BY <2>1, NoCommandIs DEF LaunchdOK, SystemdOK, Commanded
  <2>4. ReportOK'
    BY <1>2, <2>1, NoCommandIs DEF ServiceInv, ReportOK, Service!RegisterTakesHold
  <2> QED BY <2>2, <2>3, <2>4 DEF ServiceInv
<1>7. CASE Service!Login
  <2>1. /\ ~session /\ session' = TRUE
        /\ UNCHANGED <<manager, file, disabled, cmd, report, stale, kept>>
        /\ \/ (disabled \/ file = Service!NoDef) /\ UNCHANGED <<loaded, running>>
           \/ ~disabled /\ loaded' = file /\ running' = file
    BY <1>7 DEF Service!Login
  <2>2. ~Commanded /\ cmd.verb = "none" /\ ~(report.verb = "register" /\ report.ok)
    BY <2>1, NoCommandIs DEF ServiceInv, CommandOK, ReportOK, Commanded
  <2>3. CommandOK' /\ FlagsOK'
    BY <2>1, <2>2 DEF ServiceInv, CommandOK, FlagsOK, Commanded
  <2>4. LaunchdOK' /\ SystemdOK'
    BY <2>1, <2>2 DEF ServiceInv, LaunchdOK, SystemdOK, Commanded
  <2>5. ReportOK'
    BY <2>1, <2>2 DEF ServiceInv, ReportOK, Service!RegisterTakesHold
  <2> QED BY <2>3, <2>4, <2>5 DEF ServiceInv
<1> QED BY <1>3, <1>4, <1>5, <1>6, <1>7

\* Every step of the service keeps the invariant.
LEMMA ServiceStep ==
  ASSUME ServiceInv, Service!Next
  PROVE  ServiceInv'
BY BeginKeeps, SucceedKeeps, FailKeeps, ManagerKeeps DEF Service!Next

\* The initial states satisfy it: nothing is installed, and nothing runs.
LEMMA ServiceStart ==
  ASSUME Service!Init
  PROVE  ServiceInv
<1>1. /\ Service!NoCommand \in [verb : {"none"}, def : {Service!NoDef}, force : BOOLEAN, todo : {<<>>}, err : BOOLEAN]
      /\ <<>> \in Left
  BY DEF Service!NoCommand, Left
<1>2. Service!NoReport.verb = "none" /\ Service!NoReport.ok = FALSE
  BY DEF Service!NoReport
<1>3. /\ manager \in {"launchd", "systemd"} /\ session = TRUE /\ stale = FALSE /\ kept = FALSE
      /\ disabled \in BOOLEAN /\ loaded = Service!NoDef
      /\ cmd = Service!NoCommand /\ report = Service!NoReport
  BY DEF Service!Init, Managers
<1>4. CommandOK /\ FlagsOK
  BY <1>1, <1>2, <1>3 DEF CommandOK, FlagsOK, Commanded
<1>5. LaunchdOK /\ SystemdOK /\ ReportOK
  BY <1>2, <1>3, NoCommandIs DEF LaunchdOK, SystemdOK, ReportOK, Commanded, Service!RegisterTakesHold
<1> QED BY <1>4, <1>5 DEF ServiceInv

\* Whichever call fails, wherever a command is killed and whenever the user logs
\* out and in, a register that reports success has taken hold, and after a complete
\* stop launchd does not bring the supervisor back.
THEOREM ServiceHolds == MCSpec => []ServiceObeys
<1>1. MCInit => ServiceInv
  BY ServiceStart DEF MCInit
<1>2. ASSUME ServiceInv, [MCNext]_<<part, vars, serviceVars>> PROVE ServiceInv'
  <2>1. CASE Service!Next
    BY <1>2, <2>1, ServiceStep
  <2>2. CASE UNCHANGED serviceVars
    BY <2>2, <1>2 DEF serviceVars, ServiceInv, CommandOK, FlagsOK, LaunchdOK, SystemdOK, ReportOK, Commanded,
                      Service!RegisterTakesHold
  <2> QED BY <1>2, <2>1, <2>2 DEF MCNext
<1>3. ServiceInv => ServiceObeys
  BY DEF ServiceInv, ReportOK, ServiceObeys, Service!StopHolds
<1> QED BY <1>1, <1>2, <1>3, PTL DEF MCSpec

-----------------------------------------------------------------------------
(* The inductive invariant of WsBridge.                                    *)

Cmd == [kind : {"bytes", "resize", "leader", "shutdown"}, n : Nat]
Control == [kind : {"resize", "leader"}, n : Nat]
Up == [kind : {"bytes"}, n : Seq(Nat)] \cup [kind : {"resize", "query", "leader"}, n : Nat]
Down == [kind : {"ack", "error", "status", "notify", "out"}, n : Nat]
Told == [n : Nat, ok : BOOLEAN, from : {"controls", "resize", "lead"}]

BridgeTypeOK ==
  /\ got \in Nat /\ keys \in Seq(Nat) /\ typed \in Seq(Nat) /\ batch \in Seq(Nat)
  /\ reader \in {"run", "ended"} /\ wake \in BOOLEAN /\ shut \in BOOLEAN
  /\ cmds \in Seq(Cmd) /\ ctl \in Seq(Control) /\ answers \in Seq(Told)
  /\ up \in Seq(Up) /\ down \in Seq(Down) /\ pend \in Seq(Down)
  /\ lead \in BOOLEAN /\ leader \in BOOLEAN /\ gone \in BOOLEAN
  /\ shown \in {0, 1, 2} /\ attach_stale \in BOOLEAN /\ swallowed \in BOOLEAN /\ outs \in Nat
  /\ pc \in {"connect", "poll", "wake", "drain", "ack", "controls", "resize", "lead", "done"}

Has(q, kind) == \E i \in DOMAIN q : q[i].kind = kind
Once(q, kind) == \A i, j \in DOMAIN q : q[i].kind = kind /\ q[j].kind = kind => i = j

\* The numbers of a sequence of commands or answers that stand for a message, in order.
InOrder(q) == \A i, j \in DOMAIN q : i < j => q[i].n < q[j].n

\* A Shutdown is the last command; the others are in the order of their messages.
CommandsOK ==
  /\ \A i, j \in DOMAIN cmds : i < j => cmds[i].kind # "shutdown"
  /\ \A i, j \in DOMAIN cmds : i < j /\ cmds[j].kind # "shutdown" => cmds[i].n < cmds[j].n
  /\ \A i \in DOMAIN cmds : cmds[i].kind # "shutdown" => cmds[i].n <= got
  /\ Has(cmds, "shutdown") => reader = "ended"
  /\ shut => cmds = <<>> /\ reader = "ended"
  /\ \A i, j \in DOMAIN keys : i < j => keys[i] < keys[j]
  /\ \A i \in DOMAIN keys : keys[i] <= got

\* The keys are those the daemon has, then w, then those of the commands.
KeysAre(t, w, ks, cs) ==
  /\ Len(t) + Len(w) <= Len(ks)
  /\ \A i \in 1..Len(t) : t[i] = ks[i]
  /\ \A i \in 1..Len(w) : w[i] = ks[Len(t) + i]
  /\ \A i \in DOMAIN cs : cs[i].kind = "bytes" =>
       \E j \in Len(t)+Len(w)+1..Len(ks) : ks[j] = cs[i].n
  /\ \A j \in Len(t)+Len(w)+1..Len(ks) :
       \E i \in DOMAIN cs : cs[i].kind = "bytes" /\ cs[i].n = ks[j]

\* What is on its way is in one frame or, in the middle of a turn, in the batch.
BytesOK ==
  /\ pc # "drain" => batch = <<>>
  /\ pc \notin {"ack", "done"} => ~Has(up, "bytes")
  /\ Once(up, "bytes")
  /\ Has(up, "bytes") => \A i \in DOMAIN up : up[i].kind = "bytes" => KeysAre(typed, up[i].n, keys, cmds)
  /\ ~Has(up, "bytes") => KeysAre(typed, batch, keys, cmds)
  /\ pc # "done" => /\ Has(down, "ack") => pc = "ack" /\ ~Has(up, "bytes") /\ Once(down, "ack")
                    /\ ~Has(pend, "ack")

\* The requests are answered in their order.
RequestsOK ==
  /\ InOrder(answers) /\ InOrder(ctl)
  /\ \A i \in DOMAIN answers : \A j \in DOMAIN ctl : answers[i].n < ctl[j].n
  /\ \A j \in DOMAIN cmds : cmds[j].kind # "shutdown" =>
       /\ \A i \in DOMAIN answers : answers[i].n < cmds[j].n
       /\ \A i \in DOMAIN ctl : ctl[i].n < cmds[j].n
  /\ \A i \in DOMAIN answers : answers[i].n <= got
  /\ \A i \in DOMAIN ctl : ctl[i].n <= got
  /\ pc \in {"resize", "lead"} => ctl # <<>>
  /\ ~attach_stale => \A i \in DOMAIN answers :
                 answers[i].ok /\ answers[i].from = "resize" => answers[i].n \in applied

\* Neither a resize nor an answer to one is on its way in u and d.
Clear(u, d) == ~Has(u, "resize") /\ ~Has(u, "query") /\ ~Has(d, "status") /\ ~Has(d, "error")

\* A resize that is awaited, number g: the query is behind it, the status behind an error.
ExchangeOK(u, d, a, g) ==
  /\ Once(u, "resize") /\ Once(u, "query") /\ Once(d, "status") /\ Once(d, "error")
  /\ \A i \in DOMAIN u : u[i].kind = "resize" =>
       /\ u[i].n = g /\ ~Has(d, "error")
       /\ \E j \in DOMAIN u : i < j /\ u[j].kind = "query"
  /\ IF Has(u, "query") THEN ~Has(d, "status") ELSE Has(d, "status")
  /\ \A i, j \in DOMAIN d : d[i].kind = "error" /\ d[j].kind = "status" => i < j
  /\ Has(u, "resize") \/ g \in a \/ Has(d, "error")

\* Without a failed exchange no answer is left over.
AwaitedOK ==
  ~attach_stale /\ pc # "done" =>
    /\ ~Has(pend, "status") /\ ~Has(pend, "error")
    /\ IF pc = "resize" THEN ExchangeOK(up, down, applied, ctl[1].n) ELSE Clear(up, down)

\* The last notification of q says v.
Tells(q, v) ==
  \A i \in DOMAIN q :
    q[i].kind = "notify" /\ (\A j \in DOMAIN q : i < j => q[j].kind # "notify") => q[i].n = v

\* The browser, shown s, will be shown v once d and then p have been read.
Shows(d, p, s, v) ==
  IF Has(d, "notify") THEN Tells(d, v) ELSE IF Has(p, "notify") THEN Tells(p, v) ELSE s = v

\* Who leads is shown or on its way, unless a notification was skipped.
NotifiedOK ==
  /\ \A i \in DOMAIN pend : pend[i].kind = "notify" => pend[i].n \in {0, 1}
  /\ \A i \in DOMAIN down : down[i].kind = "notify" => down[i].n \in {0, 1}
  /\ pc = "connect" => up = <<>> /\ down = <<>> /\ pend = <<>>
  /\ ~swallowed /\ pc \notin {"connect", "done"} => Shows(down, pend, shown, Attach!Flag(leader))

BridgeInv ==
  BridgeTypeOK /\ CommandsOK /\ BytesOK /\ RequestsOK /\ AwaitedOK /\ NotifiedOK

-----------------------------------------------------------------------------
(* Sequences of frames: what is put at the end and taken from the front.    *)

\* What an Append leaves in its place.
LEMMA Appended ==
  ASSUME NEW S, NEW q \in Seq(S), NEW x \in S
  PROVE  /\ Append(q, x) \in Seq(S) /\ Len(q) + 1 \in DOMAIN Append(q, x)
         /\ Append(q, x)[Len(q) + 1] = x
         /\ \A i \in DOMAIN q : /\ i \in DOMAIN Append(q, x) /\ Append(q, x)[i] = q[i]
                              /\ i \in Nat /\ i < Len(q) + 1
         /\ \A i \in DOMAIN Append(q, x) : i \in DOMAIN q \/ i = Len(q) + 1
<1>1. /\ Len(q) \in Nat /\ DOMAIN q = 1..Len(q) /\ DOMAIN Append(q, x) = 1..Len(q)+1
      /\ \A i \in 1..Len(q) : Append(q, x)[i] = q[i]
      /\ Append(q, x)[Len(q) + 1] = x /\ Append(q, x) \in Seq(S)
  OBVIOUS
<1>2. ASSUME NEW l \in Nat
      PROVE  /\ \A i \in 1..l : i \in 1..l+1 /\ i \in Nat /\ i < l + 1
             /\ \A i \in 1..l+1 : i \in 1..l \/ i = l + 1
             /\ l + 1 \in 1..l+1
  OBVIOUS
<1> QED BY <1>1, <1>2

\* What moves forward when the front is taken.
LEMMA Taken ==
  ASSUME NEW S, NEW q \in Seq(S), q # <<>>
  PROVE  /\ Tail(q) \in Seq(S) /\ Head(q) \in S /\ Head(q) = q[1] /\ 1 \in DOMAIN q
         /\ \A i \in DOMAIN Tail(q) : /\ i + 1 \in DOMAIN q /\ Tail(q)[i] = q[i + 1]
                                     /\ i \in Nat /\ 1 < i + 1
         /\ \A i \in DOMAIN q : i # 1 => /\ i - 1 \in DOMAIN Tail(q) /\ Tail(q)[i - 1] = q[i]
                                        /\ i \in Nat /\ 1 < i
<1>1. /\ Len(q) \in Nat \ {0} /\ DOMAIN q = 1..Len(q) /\ DOMAIN Tail(q) = 1..Len(q)-1
      /\ \A i \in 1..Len(q)-1 : Tail(q)[i] = q[i + 1]
      /\ Head(q) = q[1] /\ Head(q) \in S /\ Tail(q) \in Seq(S)
  OBVIOUS
<1>2. ASSUME NEW l \in Nat \ {0}
      PROVE  /\ \A i \in 1..l-1 : i + 1 \in 1..l /\ i \in Nat /\ 1 < i + 1
             /\ \A i \in 1..l : i # 1 => i - 1 \in 1..l-1 /\ (i - 1) + 1 = i /\ i \in Nat /\ 1 < i
             /\ 1 \in 1..l
  OBVIOUS
<1>3. \A i \in 1..Len(q)-1 : i + 1 \in 1..Len(q) /\ i \in Nat /\ 1 < i + 1
  BY <1>1, <1>2
<1>4. \A i \in 1..Len(q) : i # 1 => i - 1 \in 1..Len(q)-1 /\ (i - 1) + 1 = i /\ i \in Nat /\ 1 < i
  BY <1>1, <1>2
<1>5. 1 \in 1..Len(q)
  BY <1>1, <1>2
<1> QED BY <1>1, <1>3, <1>4, <1>5

\* Kinds after an Append.
LEMMA KindAppended ==
  ASSUME NEW S, NEW q \in Seq(S), NEW x \in S, NEW k
  PROVE  /\ Append(q, x) \in Seq(S)
         /\ Has(Append(q, x), k) <=> Has(q, k) \/ x.kind = k
         /\ Once(q, k) /\ (~Has(q, k) \/ x.kind # k) => Once(Append(q, x), k)
<1> DEFINE p == Append(q, x)
<1>1. /\ p \in Seq(S) /\ Len(q) \in Nat /\ DOMAIN q = 1..Len(q) /\ DOMAIN p = 1..Len(q)+1
      /\ \A i \in 1..Len(q) : p[i] = q[i]
      /\ p[Len(q) + 1] = x
  OBVIOUS
<1> HIDE DEF p
<1>2. \A i \in DOMAIN p : i \in DOMAIN q \/ i = Len(q) + 1
  BY <1>1
<1>3. \A i \in DOMAIN q : i \in DOMAIN p /\ p[i] = q[i]
  BY <1>1
<1>4. Len(q) + 1 \in DOMAIN p
  BY <1>1
<1>5. Has(p, k) <=> Has(q, k) \/ x.kind = k
  BY <1>1, <1>2, <1>3, <1>4 DEF Has
<1>6. Once(q, k) /\ (~Has(q, k) \/ x.kind # k) => Once(p, k)
  BY <1>1, <1>2, <1>3 DEF Once, Has
<1> QED BY <1>1, <1>5, <1>6 DEF p

\* Kinds of what is left behind the front.
LEMMA KindTaken ==
  ASSUME NEW S, NEW q \in Seq(S), q # <<>>, NEW k
  PROVE  /\ Head(q) \in S /\ Tail(q) \in Seq(S)
         /\ Has(q, k) <=> Head(q).kind = k \/ Has(Tail(q), k)
         /\ Once(q, k) => Once(Tail(q), k) /\ (Head(q).kind = k => ~Has(Tail(q), k))
<1> DEFINE p == Tail(q)
           x == Head(q)
<1>1. /\ p \in Seq(S) /\ Len(q) \in Nat \ {0} /\ DOMAIN q = 1..Len(q) /\ DOMAIN p = 1..Len(q)-1
      /\ \A i \in 1..Len(q)-1 : p[i] = q[i + 1]
      /\ x = q[1] /\ x \in S
  OBVIOUS
<1> HIDE DEF p, x
<1>2. ASSUME NEW i \in DOMAIN p
      PROVE  i + 1 \in DOMAIN q /\ p[i] = q[i + 1] /\ i + 1 # 1 /\ i \in Nat
  <2>1. i \in 1..Len(q)-1
    BY <1>1
  <2>2. i + 1 \in 1..Len(q) /\ i + 1 # 1 /\ i \in Nat
    BY <1>1, <2>1
  <2> QED BY <1>1, <2>1, <2>2
<1>3. ASSUME NEW i \in DOMAIN q, i # 1
      PROVE  i - 1 \in DOMAIN p /\ p[i - 1] = q[i]
  <2>1. i - 1 \in 1..Len(q)-1 /\ (i - 1) + 1 = i
    BY <1>1, <1>3
  <2> QED BY <1>1, <2>1
<1>4. 1 \in DOMAIN q
  BY <1>1
<1>5. Has(q, k) <=> x.kind = k \/ Has(p, k)
  BY <1>1, <1>2, <1>3, <1>4 DEF Has
<1>6. ASSUME Once(q, k)
      PROVE  Once(p, k) /\ (x.kind = k => ~Has(p, k))
  <2>1. Once(p, k)
    <3> SUFFICES ASSUME NEW i \in DOMAIN p, NEW j \in DOMAIN p, p[i].kind = k, p[j].kind = k
                 PROVE  i = j
      BY DEF Once
    <3>1. i + 1 = j + 1
      BY <1>2, <1>6 DEF Once
    <3> QED BY <1>2, <3>1
  <2>2. x.kind = k => ~Has(p, k)
    BY <1>1, <1>2, <1>4, <1>6 DEF Once, Has
  <2> QED BY <2>1, <2>2
<1> QED BY <1>1, <1>5, <1>6 DEF p, x

\* The last notification after an Append.
LEMMA TellsAppended ==
  ASSUME NEW S, NEW q \in Seq(S), NEW x \in S, NEW v
  PROVE  /\ x.kind # "notify" => (Tells(q, v) => Tells(Append(q, x), v))
         /\ x.kind = "notify" /\ x.n = v => Tells(Append(q, x), v)
<1> DEFINE p == Append(q, x)
<1>1. /\ p \in Seq(S) /\ Len(q) \in Nat /\ DOMAIN q = 1..Len(q) /\ DOMAIN p = 1..Len(q)+1
      /\ \A i \in 1..Len(q) : p[i] = q[i]
      /\ p[Len(q) + 1] = x
  OBVIOUS
<1> HIDE DEF p
<1>2. \A i \in DOMAIN p : i \in DOMAIN q \/ i = Len(q) + 1
  BY <1>1
<1>3. \A i \in DOMAIN q : i \in DOMAIN p /\ p[i] = q[i] /\ i < Len(q) + 1
  BY <1>1
<1>4. Len(q) + 1 \in DOMAIN p
  BY <1>1
<1>5. x.kind # "notify" /\ Tells(q, v) => Tells(p, v)
  BY <1>1, <1>2, <1>3 DEF Tells
<1>6. x.kind = "notify" /\ x.n = v => Tells(p, v)
  BY <1>1, <1>2, <1>3, <1>4 DEF Tells
<1> QED BY <1>5, <1>6 DEF p

\* The last notification when the front is taken.
LEMMA TellsTaken ==
  ASSUME NEW S, NEW q \in Seq(S), q # <<>>, NEW v, Tells(q, v)
  PROVE  /\ Tells(Tail(q), v)
         /\ Head(q).kind = "notify" /\ ~Has(Tail(q), "notify") => Head(q).n = v
<1> DEFINE p == Tail(q)
           x == Head(q)
<1>1. /\ p \in Seq(S) /\ Len(q) \in Nat \ {0} /\ DOMAIN q = 1..Len(q) /\ DOMAIN p = 1..Len(q)-1
      /\ \A i \in 1..Len(q)-1 : p[i] = q[i + 1]
      /\ x = q[1]
  OBVIOUS
<1> HIDE DEF p, x
<1>2. ASSUME NEW i \in DOMAIN p
      PROVE  i + 1 \in DOMAIN q /\ p[i] = q[i + 1] /\ i \in Nat
  <2>1. i \in 1..Len(q)-1
    BY <1>1
  <2>2. i + 1 \in 1..Len(q) /\ i \in Nat
    BY <1>1, <2>1
  <2> QED BY <1>1, <2>1, <2>2
<1>3. ASSUME NEW i \in DOMAIN q, i # 1
      PROVE  i - 1 \in DOMAIN p /\ p[i - 1] = q[i] /\ i \in Nat
  <2>1. i - 1 \in 1..Len(q)-1 /\ (i - 1) + 1 = i
    BY <1>1, <1>3
  <2> QED BY <1>1, <2>1
<1>4. 1 \in DOMAIN q
  BY <1>1
<1>5. Tells(p, v)
  <2> SUFFICES ASSUME NEW i \in DOMAIN p, p[i].kind = "notify",
                      \A j \in DOMAIN p : i < j => p[j].kind # "notify"
               PROVE  p[i].n = v
    BY DEF Tells
  <2>1. ASSUME NEW j \in DOMAIN q, i + 1 < j
        PROVE  q[j].kind # "notify"
    <3>1. j # 1 /\ j \in Nat
      BY <1>1, <1>2, <2>1
    <3>2. i < j - 1
      BY <1>2, <2>1, <3>1
    <3> QED BY <1>3, <3>1, <3>2
  <2> QED BY <1>2, <2>1 DEF Tells
<1>6. ASSUME x.kind = "notify", ~Has(p, "notify")
      PROVE  x.n = v
  <2>1. \A j \in DOMAIN q : 1 < j => q[j].kind # "notify"
    BY <1>3, <1>6 DEF Has
  <2> QED BY <1>1, <1>4, <1>6, <2>1 DEF Tells
<1> QED BY <1>5, <1>6 DEF p, x

-----------------------------------------------------------------------------
(* What is typed.                                                          *)

\* A byte message is read from the browser.
LEMMA KeyRead ==
  ASSUME NEW t \in Seq(Nat), NEW w \in Seq(Nat), NEW ks \in Seq(Nat), NEW cs \in Seq(Cmd),
         NEW c \in Cmd, c.kind = "bytes", KeysAre(t, w, ks, cs)
  PROVE  KeysAre(t, w, Append(ks, c.n), Append(cs, c))
<1> DEFINE k2 == Append(ks, c.n)
           c2 == Append(cs, c)
           a == Len(t) + Len(w)
<1>1. /\ k2 \in Seq(Nat) /\ Len(ks) \in Nat /\ Len(k2) = Len(ks) + 1
      /\ \A i \in 1..Len(ks) : k2[i] = ks[i]
      /\ k2[Len(ks) + 1] = c.n
  BY DEF Cmd
<1>2. /\ Len(cs) \in Nat /\ DOMAIN cs = 1..Len(cs) /\ DOMAIN c2 = 1..Len(cs)+1
      /\ \A i \in 1..Len(cs) : c2[i] = cs[i]
      /\ c2[Len(cs) + 1] = c
  OBVIOUS
<1>3. Len(t) \in Nat /\ Len(w) \in Nat /\ a \in Nat /\ a <= Len(ks)
  BY DEF KeysAre
<1> HIDE DEF k2, c2, a
<1>4. /\ \A i \in 1..Len(t) : t[i] = ks[i] /\ i \in 1..Len(ks)
      /\ \A i \in 1..Len(w) : w[i] = ks[Len(t) + i] /\ Len(t) + i \in 1..Len(ks)
  <2>1. /\ \A i \in 1..Len(t) : t[i] = ks[i]
        /\ \A i \in 1..Len(w) : w[i] = ks[Len(t) + i]
    BY DEF KeysAre
  <2>2. ASSUME NEW n \in Nat, NEW m \in Nat, NEW l \in Nat, n + m <= l
        PROVE  /\ \A i \in 1..n : i \in 1..l
               /\ \A i \in 1..m : n + i \in 1..l
    BY <2>2
  <2>3. Len(t) + Len(w) <= Len(ks)
    BY DEF KeysAre
  <2> QED BY <1>1, <1>3, <2>1, <2>2, <2>3
<1>5. ASSUME NEW i \in DOMAIN c2, c2[i].kind = "bytes"
      PROVE  \E j \in a+1..Len(k2) : k2[j] = c2[i].n
  <2>1. CASE i \in DOMAIN cs
    <3>1. PICK j \in a+1..Len(ks) : ks[j] = cs[i].n
      BY <1>2, <1>5, <2>1 DEF KeysAre, a
    <3>2. j \in a+1..Len(k2) /\ j \in 1..Len(ks)
      BY <1>1, <1>3, <3>1
    <3> QED BY <1>1, <1>2, <2>1, <3>1, <3>2
  <2>2. CASE i = Len(cs) + 1
    <3>1. Len(ks) + 1 \in a+1..Len(k2)
      BY <1>1, <1>3
    <3> QED BY <1>1, <1>2, <2>2, <3>1
  <2> QED BY <1>2, <2>1, <2>2
<1>6. ASSUME NEW j \in a+1..Len(k2)
      PROVE  \E i \in DOMAIN c2 : c2[i].kind = "bytes" /\ c2[i].n = k2[j]
  <2>1. CASE j \in a+1..Len(ks)
    <3>1. PICK i \in DOMAIN cs : cs[i].kind = "bytes" /\ cs[i].n = ks[j]
      BY <2>1 DEF KeysAre, a
    <3>2. j \in 1..Len(ks) /\ i \in DOMAIN c2
      BY <1>2, <1>3, <2>1, <3>1
    <3> QED BY <1>1, <1>2, <3>1, <3>2
  <2>2. CASE j = Len(ks) + 1
    <3>1. Len(cs) + 1 \in DOMAIN c2
      BY <1>2
    <3> QED BY <1>1, <1>2, <2>2, <3>1
  <2> QED BY <1>1, <1>3, <2>1, <2>2
<1>7. \A i \in 1..Len(t) : t[i] = k2[i]
  BY <1>1, <1>4
<1>8. \A i \in 1..Len(w) : w[i] = k2[Len(t) + i]
  BY <1>1, <1>4
<1>9. Len(t) + Len(w) <= Len(k2)
  BY <1>1, <1>3 DEF a
<1> QED BY <1>5, <1>6, <1>7, <1>8, <1>9 DEF KeysAre, a, k2, c2

\* Another command is queued.
LEMMA OtherQueued ==
  ASSUME NEW t, NEW w, NEW ks, NEW cs \in Seq(Cmd),
         NEW c \in Cmd, c.kind # "bytes", KeysAre(t, w, ks, cs)
  PROVE  KeysAre(t, w, ks, Append(cs, c))
<1> DEFINE c2 == Append(cs, c)
<1>1. /\ Len(cs) \in Nat /\ DOMAIN cs = 1..Len(cs) /\ DOMAIN c2 = 1..Len(cs)+1
      /\ \A i \in 1..Len(cs) : c2[i] = cs[i]
      /\ c2[Len(cs) + 1] = c
  OBVIOUS
<1> HIDE DEF c2
<1>2. \A i \in DOMAIN c2 : c2[i].kind = "bytes" => i \in DOMAIN cs /\ c2[i] = cs[i]
  BY <1>1
<1>3. \A i \in DOMAIN cs : i \in DOMAIN c2 /\ c2[i] = cs[i]
  BY <1>1
<1>4. ASSUME NEW i \in DOMAIN c2, c2[i].kind = "bytes"
      PROVE  \E j \in Len(t)+Len(w)+1..Len(ks) : ks[j] = c2[i].n
  <2>1. i \in DOMAIN cs /\ c2[i] = cs[i]
    BY <1>2, <1>4
  <2> QED BY <1>4, <2>1 DEF KeysAre
<1>5. ASSUME NEW j \in Len(t)+Len(w)+1..Len(ks)
      PROVE  \E i \in DOMAIN c2 : c2[i].kind = "bytes" /\ c2[i].n = ks[j]
  <2>1. PICK i \in DOMAIN cs : cs[i].kind = "bytes" /\ cs[i].n = ks[j]
    BY DEF KeysAre
  <2> QED BY <1>3, <2>1
<1> QED BY <1>4, <1>5 DEF KeysAre, c2

\* A byte message is drained: it is the next key, because the commands are in order.
LEMMA KeyTaken ==
  ASSUME NEW t \in Seq(Nat), NEW w \in Seq(Nat), NEW ks \in Seq(Nat), NEW cs \in Seq(Cmd),
         cs # <<>>, Head(cs).kind = "bytes", KeysAre(t, w, ks, cs),
         \A i, j \in DOMAIN ks : i < j => ks[i] < ks[j],
         \A i, j \in DOMAIN cs : i < j /\ cs[j].kind # "shutdown" => cs[i].n < cs[j].n
  PROVE  KeysAre(t, Append(w, Head(cs).n), ks, Tail(cs))
<1> DEFINE c == Head(cs)
           w2 == Append(w, c.n)
           c2 == Tail(cs)
           a == Len(t) + Len(w)
<1>1. /\ Len(cs) \in Nat \ {0} /\ DOMAIN cs = 1..Len(cs) /\ DOMAIN c2 = 1..Len(cs)-1
      /\ \A i \in 1..Len(cs)-1 : c2[i] = cs[i + 1]
      /\ c = cs[1] /\ c \in Cmd
  OBVIOUS
<1>2. c.n \in Nat /\ \A i \in DOMAIN cs : cs[i].n \in Nat
  <2>1. \A i \in DOMAIN cs : cs[i] \in Cmd
    OBVIOUS
  <2> QED BY <1>1, <2>1 DEF Cmd
<1>3. /\ Len(w) \in Nat /\ Len(w2) = Len(w) + 1 /\ \A i \in 1..Len(w) : w2[i] = w[i]
      /\ w2[Len(w) + 1] = c.n
  BY <1>2
<1>4. /\ Len(t) \in Nat /\ a \in Nat /\ a <= Len(ks) /\ Len(ks) \in Nat /\ DOMAIN ks = 1..Len(ks)
      /\ \A i \in DOMAIN ks : ks[i] \in Nat
  <2>1. Len(t) \in Nat /\ Len(ks) \in Nat /\ DOMAIN ks = 1..Len(ks)
    OBVIOUS
  <2>2. \A i \in DOMAIN ks : ks[i] \in Nat
    OBVIOUS
  <2>3. Len(t) + Len(w) <= Len(ks)
    BY DEF KeysAre
  <2> QED BY <1>3, <2>1, <2>2, <2>3
<1> HIDE DEF c, w2, c2, a
<1>5. ASSUME NEW i \in DOMAIN c2
      PROVE  i + 1 \in DOMAIN cs /\ c2[i] = cs[i + 1] /\ 1 < i + 1 /\ 1 \in DOMAIN cs
  <2>1. i \in 1..Len(cs)-1
    BY <1>1
  <2>2. i + 1 \in 1..Len(cs) /\ 1 < i + 1 /\ 1 \in 1..Len(cs)
    BY <1>1, <2>1
  <2> QED BY <1>1, <2>1, <2>2
<1>6. ASSUME NEW i \in DOMAIN cs, i # 1
      PROVE  i - 1 \in DOMAIN c2 /\ c2[i - 1] = cs[i] /\ 1 < i
  <2>1. i \in 1..Len(cs) /\ Len(cs) \in Nat
    BY <1>1
  <2>2. ASSUME NEW l \in Nat, NEW m \in 1..l, m # 1
        PROVE  m - 1 \in 1..l-1 /\ (m - 1) + 1 = m /\ 1 < m
    BY <2>2
  <2>3. i - 1 \in 1..Len(cs)-1 /\ (i - 1) + 1 = i /\ 1 < i
    BY <1>6, <2>1, <2>2
  <2> QED BY <1>1, <2>3
<1>7. 1 \in DOMAIN cs
  <2>1. Len(cs) \in Nat \ {0}
    BY <1>1
  <2>2. 1 \in 1..Len(cs)
    BY <2>1
  <2> QED BY <1>1, <2>2
<1>8. PICK j \in a+1..Len(ks) : ks[j] = c.n
  <2>1. cs[1].kind = "bytes" /\ cs[1] = c
    BY <1>1 DEF c
  <2> QED BY <1>7, <2>1 DEF KeysAre, a
<1>9. a + 1 \in a+1..Len(ks) /\ a + 1 \in DOMAIN ks /\ j \in DOMAIN ks
  BY <1>4, <1>8
<1>10. PICK i \in DOMAIN cs : cs[i].kind = "bytes" /\ cs[i].n = ks[a + 1]
  BY <1>9 DEF KeysAre, a
<1>11. j = a + 1
  <2> SUFFICES ASSUME j # a + 1 PROVE FALSE
    OBVIOUS
  <2>1. a + 1 < j
    BY <1>4, <1>8
  <2>2. ks[a + 1] < c.n
    BY <1>8, <1>9, <2>1
  <2>3. i # 1
    BY <1>1, <1>2, <1>4, <1>9, <1>10, <2>2
  <2>4. c.n < cs[i].n
    BY <1>1, <1>6, <1>7, <1>10, <2>3
  <2> QED BY <1>2, <1>10, <2>2, <2>4
<1>12. ks[a + 1] = c.n
  BY <1>8, <1>11
<1>13. ASSUME NEW m \in DOMAIN c2, c2[m].kind = "bytes"
       PROVE  \E k \in a+2..Len(ks) : ks[k] = c2[m].n
  <2>1. PICK k \in a+1..Len(ks) : ks[k] = cs[m + 1].n
    BY <1>5, <1>13 DEF KeysAre, a
  <2>2. c.n < cs[m + 1].n
    BY <1>1, <1>5, <1>7, <1>13
  <2>3. k # a + 1
    BY <1>2, <1>5, <1>12, <2>1, <2>2
  <2>4. k \in a+2..Len(ks)
    BY <1>4, <2>1, <2>3
  <2> QED BY <1>5, <2>1, <2>4
<1>14. ASSUME NEW k \in a+2..Len(ks)
       PROVE  \E m \in DOMAIN c2 : c2[m].kind = "bytes" /\ c2[m].n = ks[k]
  <2>1. k \in a+1..Len(ks) /\ k \in DOMAIN ks /\ a + 1 < k
    BY <1>4
  <2>2. PICK m \in DOMAIN cs : cs[m].kind = "bytes" /\ cs[m].n = ks[k]
    BY <2>1 DEF KeysAre, a
  <2>3. ks[a + 1] < ks[k]
    BY <1>9, <2>1
  <2>4. m # 1
    BY <1>1, <1>2, <1>12, <2>2, <2>3
  <2> QED BY <1>6, <2>2, <2>4
<1>15. Len(t) + Len(w2) = a + 1 /\ (a + 1) + 1 = a + 2 /\ a + 1 <= Len(ks)
  BY <1>3, <1>4, <1>9 DEF a
<1>16. \A m \in 1..Len(w2) : w2[m] = ks[Len(t) + m]
  <2> SUFFICES ASSUME NEW m \in 1..Len(w2) PROVE w2[m] = ks[Len(t) + m]
    OBVIOUS
  <2>1. CASE m \in 1..Len(w)
    BY <1>3, <2>1 DEF KeysAre
  <2>2. CASE m = Len(w) + 1
    <3>1. Len(t) + m = a + 1
      BY <1>3, <1>4, <2>2 DEF a
    <3> QED BY <1>3, <1>12, <2>2, <3>1
  <2> QED BY <1>3, <2>1, <2>2
<1>17. \A m \in 1..Len(t) : t[m] = ks[m]
  BY DEF KeysAre
<1>18. KeysAre(t, w2, ks, c2)
  <2>1. Len(t) + Len(w2) + 1 = a + 2
    BY <1>4, <1>15
  <2>2. Len(t) + Len(w2) <= Len(ks)
    BY <1>15
  <2> QED BY <1>13, <1>14, <1>16, <1>17, <2>1, <2>2 DEF KeysAre
<1> QED BY <1>18 DEF w2, c2, c

\* Another command is drained.
LEMMA OtherTaken ==
  ASSUME NEW t, NEW w, NEW ks, NEW cs \in Seq(Cmd), cs # <<>>, Head(cs).kind # "bytes",
         KeysAre(t, w, ks, cs)
  PROVE  KeysAre(t, w, ks, Tail(cs))
<1> DEFINE c2 == Tail(cs)
<1>1. /\ Len(cs) \in Nat \ {0} /\ DOMAIN cs = 1..Len(cs) /\ DOMAIN c2 = 1..Len(cs)-1
      /\ \A i \in 1..Len(cs)-1 : c2[i] = cs[i + 1]
      /\ Head(cs) = cs[1]
  OBVIOUS
<1> HIDE DEF c2
<1>2. ASSUME NEW i \in DOMAIN c2
      PROVE  i + 1 \in DOMAIN cs /\ c2[i] = cs[i + 1]
  <2>1. i \in 1..Len(cs)-1
    BY <1>1
  <2>2. i + 1 \in 1..Len(cs)
    BY <1>1, <2>1
  <2> QED BY <1>1, <2>1, <2>2
<1>3. ASSUME NEW i \in DOMAIN cs, cs[i].kind = "bytes"
      PROVE  i - 1 \in DOMAIN c2 /\ c2[i - 1] = cs[i]
  <2>1. i # 1
    BY <1>1, <1>3
  <2>2. i - 1 \in 1..Len(cs)-1 /\ (i - 1) + 1 = i
    BY <1>1, <2>1
  <2> QED BY <1>1, <2>2
<1>4. \A i \in DOMAIN c2 : c2[i].kind = "bytes" =>
        \E j \in Len(t)+Len(w)+1..Len(ks) : ks[j] = c2[i].n
  BY <1>2 DEF KeysAre
<1>5. ASSUME NEW j \in Len(t)+Len(w)+1..Len(ks)
      PROVE  \E i \in DOMAIN c2 : c2[i].kind = "bytes" /\ c2[i].n = ks[j]
  <2>1. PICK i \in DOMAIN cs : cs[i].kind = "bytes" /\ cs[i].n = ks[j]
    BY DEF KeysAre
  <2> QED BY <1>3, <2>1
<1> QED BY <1>4, <1>5 DEF KeysAre, c2

\* The daemon receives what was on its way.
LEMMA KeysReceived ==
  ASSUME NEW t \in Seq(Nat), NEW w \in Seq(Nat), NEW ks, NEW cs, KeysAre(t, w, ks, cs)
  PROVE  t \o w \in Seq(Nat) /\ KeysAre(t \o w, <<>>, ks, cs)
<1> DEFINE u == t \o w
<1>1. /\ u \in Seq(Nat) /\ Len(u) = Len(t) + Len(w) /\ Len(t) \in Nat /\ Len(w) \in Nat
      /\ \A i \in 1..Len(t) : u[i] = t[i]
      /\ \A i \in Len(t)+1..Len(t)+Len(w) : u[i] = w[i - Len(t)]
  OBVIOUS
<1> HIDE DEF u
<1>2. ASSUME NEW i \in 1..Len(u)
      PROVE  u[i] = ks[i]
  <2>1. CASE i \in 1..Len(t)
    BY <1>1, <2>1 DEF KeysAre
  <2>2. CASE i \in Len(t)+1..Len(t)+Len(w)
    <3>1. i - Len(t) \in 1..Len(w) /\ Len(t) + (i - Len(t)) = i
      BY <1>1, <2>2
    <3> QED BY <1>1, <2>2, <3>1 DEF KeysAre
  <2> QED BY <1>1, <2>1, <2>2
<1>3. Len(<<>>) = 0 /\ Len(u) + 0 = Len(t) + Len(w)
  BY <1>1
<1> QED BY <1>1, <1>2, <1>3 DEF KeysAre, u

-----------------------------------------------------------------------------
(* What is answered.                                                       *)

\* A later number is put at the end.
LEMMA OrderAppended ==
  ASSUME NEW S, NEW q \in Seq(S), NEW x \in S, InOrder(q), \A i \in DOMAIN q : q[i].n < x.n
  PROVE  InOrder(Append(q, x))
<1> DEFINE p == Append(q, x)
<1>1. /\ p[Len(q) + 1] = x
      /\ \A i \in DOMAIN q : p[i] = q[i] /\ i \in Nat /\ i < Len(q) + 1
      /\ \A i \in DOMAIN p : i \in DOMAIN q \/ i = Len(q) + 1
      /\ Len(q) \in Nat
  BY Appended
<1> HIDE DEF p
<1> SUFFICES ASSUME NEW i \in DOMAIN p, NEW j \in DOMAIN p, i < j
             PROVE  p[i].n < p[j].n
  BY DEF InOrder, p
<1>2. i \in DOMAIN q
  <2> SUFFICES ASSUME i = Len(q) + 1 PROVE FALSE
    BY <1>1
  <2>1. CASE j \in DOMAIN q
    BY <1>1, <2>1
  <2>2. CASE j = Len(q) + 1
    BY <1>1, <2>2
  <2> QED BY <1>1, <2>1, <2>2
<1>3. CASE j \in DOMAIN q
  BY <1>1, <1>2, <1>3 DEF InOrder
<1>4. CASE j = Len(q) + 1
  BY <1>1, <1>2, <1>4
<1> QED BY <1>1, <1>3, <1>4

\* The smallest number is taken from the front.
LEMMA OrderTaken ==
  ASSUME NEW S, NEW q \in Seq(S), q # <<>>, InOrder(q)
  PROVE  InOrder(Tail(q)) /\ \A i \in DOMAIN Tail(q) : Head(q).n < Tail(q)[i].n
<1> DEFINE p == Tail(q)
           x == Head(q)
<1>1. /\ x = q[1] /\ 1 \in DOMAIN q
      /\ \A i \in DOMAIN p : i + 1 \in DOMAIN q /\ p[i] = q[i + 1] /\ i \in Nat /\ 1 < i + 1
  BY Taken
<1> HIDE DEF p, x
<1>2. ASSUME NEW i \in DOMAIN p, NEW j \in DOMAIN p, i < j
      PROVE  p[i].n < p[j].n
  <2>1. i + 1 < j + 1
    BY <1>1, <1>2
  <2> QED BY <1>1, <2>1 DEF InOrder
<1>3. \A i \in DOMAIN p : x.n < p[i].n
  BY <1>1 DEF InOrder
<1> QED BY <1>2, <1>3 DEF InOrder, p, x

-----------------------------------------------------------------------------
(* Who leads.                                                              *)

\* A frame of the daemon is read and passed on.
LEMMA ShowsRead ==
  ASSUME NEW S, NEW d \in Seq(S), NEW p \in Seq(S), NEW s, NEW v, NEW x, NEW z,
         Shows(d, p, s, v), z = IF x.kind = "notify" THEN x.n ELSE s
  PROVE  /\ p # <<>> /\ x = Head(p) => Shows(d, Tail(p), z, v)
         /\ p = <<>> /\ d # <<>> /\ x = Head(d) => Shows(Tail(d), p, z, v)
<1>1. ASSUME p # <<>>, x = Head(p)
      PROVE  Shows(d, Tail(p), z, v)
  <2>1. Has(p, "notify") <=> x.kind = "notify" \/ Has(Tail(p), "notify")
    BY <1>1, KindTaken
  <2>2. Tells(p, v) => Tells(Tail(p), v) /\ (x.kind = "notify" /\ ~Has(Tail(p), "notify") => x.n = v)
    BY <1>1, TellsTaken
  <2> QED BY <2>1, <2>2 DEF Shows
<1>2. ASSUME p = <<>>, d # <<>>, x = Head(d)
      PROVE  Shows(Tail(d), p, z, v)
  <2>1. Has(d, "notify") <=> x.kind = "notify" \/ Has(Tail(d), "notify")
    BY <1>2, KindTaken
  <2>2. Tells(d, v) => Tells(Tail(d), v) /\ (x.kind = "notify" /\ ~Has(Tail(d), "notify") => x.n = v)
    BY <1>2, TellsTaken
  <2>3. ~Has(p, "notify")
    BY <1>2 DEF Has
  <2> QED BY <2>1, <2>2, <2>3 DEF Shows
<1> QED BY <1>1, <1>2

\* A frame of the daemon is put aside, or dropped when it is not a notification.
LEMMA ShowsAside ==
  ASSUME NEW S, NEW d \in Seq(S), NEW p \in Seq(S), NEW s, NEW v, Shows(d, p, s, v), d # <<>>
  PROVE  /\ Shows(Tail(d), Append(p, Head(d)), s, v)
         /\ Head(d).kind # "notify" => Shows(Tail(d), p, s, v)
<1> DEFINE x == Head(d)
<1>1. Has(d, "notify") <=> x.kind = "notify" \/ Has(Tail(d), "notify")
  BY KindTaken
<1>2. Tells(d, v) => Tells(Tail(d), v) /\ (x.kind = "notify" /\ ~Has(Tail(d), "notify") => x.n = v)
  BY TellsTaken
<1>3. x \in S
  OBVIOUS
<1> HIDE DEF x
<1>4. Has(Append(p, x), "notify") <=> Has(p, "notify") \/ x.kind = "notify"
  BY <1>3, KindAppended
<1>5. /\ x.kind # "notify" => (Tells(p, v) => Tells(Append(p, x), v))
      /\ x.kind = "notify" /\ x.n = v => Tells(Append(p, x), v)
  BY <1>3, TellsAppended
<1>6. Shows(Tail(d), Append(p, x), s, v)
  BY <1>1, <1>2, <1>4, <1>5 DEF Shows
<1>7. x.kind # "notify" => Shows(Tail(d), p, s, v)
  BY <1>1, <1>2 DEF Shows
<1> QED BY <1>6, <1>7 DEF x

\* The daemon sends a frame: another kind, or a notification of what is now so.
LEMMA ShowsSent ==
  ASSUME NEW S, NEW d \in Seq(S), NEW p, NEW s, NEW v, NEW x \in S
  PROVE  /\ x.kind # "notify" /\ Shows(d, p, s, v) => Shows(Append(d, x), p, s, v)
         /\ x.kind = "notify" /\ x.n = v => Shows(Append(d, x), p, s, v)
<1>1. Has(Append(d, x), "notify") <=> Has(d, "notify") \/ x.kind = "notify"
  BY KindAppended
<1>2. /\ x.kind # "notify" => (Tells(d, v) => Tells(Append(d, x), v))
      /\ x.kind = "notify" /\ x.n = v => Tells(Append(d, x), v)
  BY TellsAppended
<1> QED BY <1>1, <1>2 DEF Shows

-----------------------------------------------------------------------------
(* What is awaited.                                                        *)

\* A pair of frames is two frames.
LEMMA Pair ==
  ASSUME NEW S, NEW q \in Seq(S), NEW x \in S, NEW y \in S
  PROVE  q \o <<x, y>> = Append(Append(q, x), y)
OBVIOUS

\* The exchange begins.
LEMMA ExchangeBegun ==
  ASSUME NEW u \in Seq(Up), NEW d \in Seq(Down), NEW a, NEW g \in Nat, Clear(u, d)
  PROVE  u \o Attach!Exchange(g) \in Seq(Up) /\ ExchangeOK(u \o Attach!Exchange(g), d, a, g)
<1> DEFINE x == Attach!Frame("resize", g)
           y == Attach!Frame("query", 0)
           u1 == Append(u, x)
           u2 == Append(u1, y)
<1>1. x \in Up /\ y \in Up /\ x.kind = "resize" /\ x.n = g /\ y.kind = "query"
  BY DEF Up, Attach!Frame
<1>2. u \o Attach!Exchange(g) = u2
  BY <1>1, Pair DEF Attach!Exchange
<1> HIDE DEF x, y
<1>3. u1 \in Seq(Up) /\ u2 \in Seq(Up)
  BY <1>1
<1>4. /\ Has(u1, "resize") /\ ~Has(u1, "query") /\ Once(u1, "resize") /\ Once(u1, "query")
  <2>1. Once(u, "resize") /\ Once(u, "query")
    BY DEF Clear, Has, Once
  <2> QED BY <1>1, <2>1, KindAppended DEF Clear
<1>5. Has(u2, "query") /\ Once(u2, "resize") /\ Once(u2, "query") /\ Has(u2, "resize")
  BY <1>1, <1>3, <1>4, KindAppended
<1>6. ASSUME NEW i \in DOMAIN u2, u2[i].kind = "resize"
      PROVE  u2[i].n = g /\ \E j \in DOMAIN u2 : i < j /\ u2[j].kind = "query"
  <2>1. /\ \A k \in DOMAIN u2 : k \in DOMAIN u1 \/ k = Len(u1) + 1
        /\ u2[Len(u1) + 1] = y /\ Len(u1) + 1 \in DOMAIN u2
        /\ \A k \in DOMAIN u1 : u2[k] = u1[k] /\ k < Len(u1) + 1
    BY <1>1, <1>3, Appended
  <2>2. /\ \A k \in DOMAIN u1 : k \in DOMAIN u \/ k = Len(u) + 1
        /\ u1[Len(u) + 1] = x
        /\ \A k \in DOMAIN u : u1[k] = u[k]
    BY <1>1, Appended
  <2> HIDE DEF u1, u2
  <2>3. i \in DOMAIN u1 /\ u1[i].kind = "resize" /\ i < Len(u1) + 1
    BY <1>1, <1>6, <2>1
  <2>4. u1[i] = x
    BY <2>2, <2>3 DEF Clear, Has
  <2> QED BY <1>1, <2>1, <2>3, <2>4
<1>7. /\ Once(d, "status") /\ Once(d, "error") /\ ~Has(d, "status") /\ ~Has(d, "error")
      /\ \A i, j \in DOMAIN d : d[i].kind = "error" /\ d[j].kind = "status" => i < j
  BY DEF Clear, Has, Once
<1>8. ExchangeOK(u2, d, a, g)
  BY <1>5, <1>6, <1>7 DEF ExchangeOK
<1> QED BY <1>2, <1>3, <1>8

\* The daemon sends something else.
LEMMA ExchangeSent ==
  ASSUME NEW u, NEW d \in Seq(Down), NEW a, NEW g, NEW x \in Down, x.kind \notin {"status", "error"}
  PROVE  /\ ExchangeOK(u, d, a, g) => ExchangeOK(u, Append(d, x), a, g)
         /\ Clear(u, d) => Clear(u, Append(d, x))
<1> DEFINE e == Append(d, x)
<1>1. /\ Has(e, "status") <=> Has(d, "status")
      /\ Has(e, "error") <=> Has(d, "error")
      /\ Once(d, "status") => Once(e, "status")
      /\ Once(d, "error") => Once(e, "error")
  BY KindAppended
<1>2. /\ \A i \in DOMAIN e : i \in DOMAIN d \/ i = Len(d) + 1
      /\ e[Len(d) + 1] = x
      /\ \A i \in DOMAIN d : e[i] = d[i]
  BY Appended
<1> HIDE DEF e
<1>3. ASSUME ExchangeOK(u, d, a, g)
      PROVE  \A i, j \in DOMAIN e : e[i].kind = "error" /\ e[j].kind = "status" => i < j
  BY <1>2, <1>3 DEF ExchangeOK
<1>4. ASSUME ExchangeOK(u, d, a, g)
      PROVE  ExchangeOK(u, e, a, g)
  BY <1>1, <1>3, <1>4 DEF ExchangeOK
<1>5. Clear(u, d) => Clear(u, e)
  BY <1>1 DEF Clear
<1> QED BY <1>4, <1>5 DEF e

\* The bridge reads something else.
LEMMA ExchangeSkipped ==
  ASSUME NEW u, NEW d \in Seq(Down), NEW a, NEW g, d # <<>>
  PROVE  /\ ExchangeOK(u, d, a, g) /\ Head(d).kind \notin {"status", "error"}
              => ExchangeOK(u, Tail(d), a, g)
         /\ Clear(u, d) => Clear(u, Tail(d))
<1> DEFINE e == Tail(d)
           x == Head(d)
<1>1. /\ Has(d, "status") <=> x.kind = "status" \/ Has(e, "status")
      /\ Has(d, "error") <=> x.kind = "error" \/ Has(e, "error")
      /\ Once(d, "status") => Once(e, "status")
      /\ Once(d, "error") => Once(e, "error")
  BY KindTaken
<1>2. \A i \in DOMAIN e : i + 1 \in DOMAIN d /\ e[i] = d[i + 1] /\ i \in Nat
  BY Taken
<1> HIDE DEF e, x
<1>3. ASSUME ExchangeOK(u, d, a, g), x.kind \notin {"status", "error"}
      PROVE  ExchangeOK(u, e, a, g)
  <2>1. ASSUME NEW i \in DOMAIN e, NEW j \in DOMAIN e, e[i].kind = "error", e[j].kind = "status"
        PROVE  i < j
    <3>1. i + 1 < j + 1
      BY <1>2, <1>3, <2>1 DEF ExchangeOK
    <3> QED BY <1>2, <3>1
  <2> QED BY <1>1, <1>3, <2>1 DEF ExchangeOK
<1>4. Clear(u, d) => Clear(u, e)
  BY <1>1 DEF Clear
<1> QED BY <1>3, <1>4 DEF e, x

\* The status is read: the exchange is over, and without an error before it the
\* resize was applied.
LEMMA ExchangeEnded ==
  ASSUME NEW u, NEW d \in Seq(Down), NEW a, NEW g, d # <<>>,
         ExchangeOK(u, d, a, g), Head(d).kind = "status"
  PROVE  Clear(u, Tail(d)) /\ g \in a
<1> DEFINE e == Tail(d)
           x == Head(d)
<1>1. /\ Has(d, "status") <=> x.kind = "status" \/ Has(e, "status")
      /\ Has(d, "error") <=> x.kind = "error" \/ Has(e, "error")
      /\ Once(d, "status") => (x.kind = "status" => ~Has(e, "status"))
  BY KindTaken
<1>2. /\ x = d[1] /\ 1 \in DOMAIN d
      /\ \A i \in DOMAIN d : i # 1 => i \in Nat /\ 1 < i
  BY Taken
<1> HIDE DEF e, x
<1>3. ~Has(d, "error")
  <2> SUFFICES ASSUME NEW i \in DOMAIN d, d[i].kind = "error" PROVE FALSE
    BY DEF Has
  <2>1. i < 1
    BY <1>2 DEF ExchangeOK, x
  <2> QED BY <1>2, <2>1
<1>4. ~Has(u, "query") /\ ~Has(e, "status")
  BY <1>1 DEF ExchangeOK, x
<1>5. ~Has(u, "resize")
  BY <1>4 DEF ExchangeOK, Has
<1>6. g \in a
  BY <1>3, <1>5 DEF ExchangeOK
<1> QED BY <1>1, <1>3, <1>4, <1>5, <1>6 DEF Clear, e

\* The daemon reads what the bridge sent: the resize, the query, or something else.
LEMMA ExchangeRead ==
  ASSUME NEW u \in Seq(Up), u # <<>>, NEW d \in Seq(Down), NEW a, NEW g, ExchangeOK(u, d, a, g)
  PROVE  /\ Head(u).kind = "resize" => ExchangeOK(Tail(u), d, a \cup {Head(u).n}, g)
         /\ Head(u).kind = "resize" => ExchangeOK(Tail(u), Append(d, Attach!Frame("error", 0)), a, g)
         /\ Head(u).kind = "query" => ExchangeOK(Tail(u), Append(d, Attach!Frame("status", 0)), a, g)
         /\ Head(u).kind \notin {"resize", "query"} => ExchangeOK(Tail(u), d, a, g)
<1> DEFINE x == Head(u)
           w == Tail(u)
           er == Attach!Frame("error", 0)
           st == Attach!Frame("status", 0)
           de == Append(d, er)
           ds == Append(d, st)
<1>1. /\ Has(u, "resize") <=> x.kind = "resize" \/ Has(w, "resize")
      /\ Has(u, "query") <=> x.kind = "query" \/ Has(w, "query")
      /\ Once(w, "resize") /\ Once(w, "query")
      /\ x.kind = "resize" => ~Has(w, "resize")
      /\ x.kind = "query" => ~Has(w, "query")
  BY KindTaken DEF ExchangeOK
<1>2. /\ x = u[1] /\ 1 \in DOMAIN u
      /\ \A i \in DOMAIN w : i + 1 \in DOMAIN u /\ w[i] = u[i + 1] /\ i \in Nat /\ 1 < i + 1
      /\ \A i \in DOMAIN u : i # 1 => i - 1 \in DOMAIN w /\ w[i - 1] = u[i] /\ i \in Nat /\ 1 < i
  BY Taken
<1>3. er \in Down /\ st \in Down /\ er.kind = "error" /\ st.kind = "status"
  BY DEF Down, Attach!Frame
<1> HIDE DEF x, w, er, st
<1>4. /\ Has(de, "error") /\ (Has(de, "status") <=> Has(d, "status"))
      /\ Once(de, "status") /\ (~Has(d, "error") => Once(de, "error"))
      /\ Has(ds, "status") /\ (Has(ds, "error") <=> Has(d, "error"))
      /\ Once(ds, "error") /\ (~Has(d, "status") => Once(ds, "status"))
  BY <1>3, KindAppended DEF ExchangeOK
<1>5. /\ \A i \in DOMAIN ds : i \in DOMAIN d \/ i = Len(d) + 1
      /\ ds[Len(d) + 1] = st
      /\ \A i \in DOMAIN d : ds[i] = d[i] /\ i < Len(d) + 1
  BY <1>3, Appended
<1> HIDE DEF de, ds
<1>6. ASSUME x.kind = "resize"
      PROVE  x.n = g /\ ~Has(d, "error") /\ Has(w, "query") /\ ~Has(w, "resize") /\ ~Has(d, "status")
  <2>1. x.n = g /\ ~Has(d, "error") /\ Has(u, "query")
    BY <1>2, <1>6 DEF ExchangeOK, Has
  <2> QED BY <1>1, <1>6, <2>1 DEF ExchangeOK
<1>7. ASSUME x.kind = "resize"
      PROVE  ExchangeOK(w, d, a \cup {x.n}, g) /\ ExchangeOK(w, de, a, g)
  <2>1. \A i \in DOMAIN w : w[i].kind # "resize"
    BY <1>6, <1>7 DEF Has
  <2>2. \A i \in DOMAIN de : de[i].kind # "status"
    BY <1>4, <1>6, <1>7 DEF Has
  <2>3. ExchangeOK(w, d, a \cup {x.n}, g)
    BY <1>1, <1>6, <1>7, <2>1 DEF ExchangeOK
  <2>4. ExchangeOK(w, de, a, g)
    BY <1>1, <1>4, <1>6, <1>7, <2>1, <2>2 DEF ExchangeOK
  <2> QED BY <2>3, <2>4
<1>8. ASSUME x.kind = "query"
      PROVE  ExchangeOK(w, ds, a, g)
  <2>1. ~Has(d, "status")
    BY <1>1, <1>8 DEF ExchangeOK
  <2>2. ~Has(u, "resize")
    <3> SUFFICES ASSUME NEW i \in DOMAIN u, u[i].kind = "resize" PROVE FALSE
      BY DEF Has
    <3>1. PICK j \in DOMAIN u : i < j /\ u[j].kind = "query"
      BY DEF ExchangeOK
    <3>2. j = 1
      BY <1>2, <1>8, <3>1 DEF ExchangeOK, Once
    <3>3. i # 1
      BY <1>2, <1>8
    <3> QED BY <1>2, <3>1, <3>2, <3>3
  <2>3. ~Has(w, "resize") /\ (g \in a \/ Has(d, "error")) /\ ~Has(w, "query")
    BY <1>1, <1>8, <2>2 DEF ExchangeOK
  <2>4. ASSUME NEW i \in DOMAIN ds, NEW j \in DOMAIN ds, ds[i].kind = "error", ds[j].kind = "status"
        PROVE  i < j
    <3>1. i \in DOMAIN d
      BY <1>3, <1>5, <2>4
    <3>2. j = Len(d) + 1
      BY <1>5, <2>1, <2>4 DEF Has
    <3> QED BY <1>5, <3>1, <3>2
  <2>5. \A i \in DOMAIN w : w[i].kind # "resize"
    BY <2>3 DEF Has
  <2> QED BY <1>1, <1>4, <1>8, <2>1, <2>3, <2>4, <2>5 DEF ExchangeOK
<1>9. ASSUME x.kind \notin {"resize", "query"}
      PROVE  ExchangeOK(w, d, a, g)
  <2>1. ASSUME NEW i \in DOMAIN w, w[i].kind = "resize"
        PROVE  /\ w[i].n = g /\ ~Has(d, "error")
               /\ \E j \in DOMAIN w : i < j /\ w[j].kind = "query"
    <3>1. PICK j \in DOMAIN u : i + 1 < j /\ u[j].kind = "query"
      BY <1>2, <2>1 DEF ExchangeOK
    <3>2. j # 1
      BY <1>2, <1>9, <3>1
    <3>3. j - 1 \in DOMAIN w /\ w[j - 1].kind = "query"
      BY <1>2, <3>1, <3>2
    <3>4. i < j - 1
      BY <1>2, <3>1, <3>2
    <3> QED BY <1>2, <2>1, <3>3, <3>4 DEF ExchangeOK
  <2> QED BY <1>1, <1>9, <2>1 DEF ExchangeOK
<1> QED BY <1>7, <1>8, <1>9 DEF x, w, er, st, de, ds

\* The daemon reads something else while nothing is awaited.
LEMMA ClearRead ==
  ASSUME NEW u \in Seq(Up), u # <<>>, NEW d, Clear(u, d)
  PROVE  Clear(Tail(u), d) /\ Head(u).kind \notin {"resize", "query"}
BY KindTaken DEF Clear

-----------------------------------------------------------------------------
(* The parts of the invariant under steps that leave most of them alone.   *)

\* recv_frame takes the front of what was put aside, else of the socket.
LEMMA ReceivedFacts ==
  ASSUME pend \in Seq(Down), down \in Seq(Down), Attach!Incoming # <<>>, Attach!Received
  PROVE  /\ Head(Attach!Incoming) \in Down /\ pend' \in Seq(Down) /\ down' \in Seq(Down)
         /\ \/ /\ pend # <<>> /\ Head(Attach!Incoming) = Head(pend)
               /\ pend' = Tail(pend) /\ down' = down
            \/ /\ pend = <<>> /\ down # <<>> /\ Head(Attach!Incoming) = Head(down)
               /\ down' = Tail(down) /\ pend' = pend
<1>1. CASE pend # <<>>
  <2>1. Head(Attach!Incoming) = Head(pend) /\ Head(pend) \in Down
    BY <1>1 DEF Attach!Incoming
  <2>2. pend' = Tail(pend) /\ down' = down
    BY <1>1 DEF Attach!Received
  <2> QED BY <1>1, <2>1, <2>2
<1>2. CASE pend = <<>>
  <2>1. Attach!Incoming = down
    BY <1>2 DEF Attach!Incoming
  <2>2. down' = Tail(down) /\ pend' = pend
    BY <1>2 DEF Attach!Received
  <2> QED BY <1>2, <2>1, <2>2
<1> QED BY <1>1, <1>2

\* Taking a frame brings no kind that was not there.
LEMMA ReceivedKinds ==
  ASSUME pend \in Seq(Down), down \in Seq(Down), Attach!Incoming # <<>>, Attach!Received, NEW k
  PROVE  /\ ~Has(pend, k) => ~Has(pend', k)
         /\ ~Has(down, k) => ~Has(down', k)
<1>1. CASE pend # <<>> /\ pend' = Tail(pend) /\ down' = down
  <2>1. Has(pend, k) <=> Head(pend).kind = k \/ Has(Tail(pend), k)
    BY <1>1, KindTaken
  <2> QED BY <1>1, <2>1
<1>2. CASE down # <<>> /\ down' = Tail(down) /\ pend' = pend
  <2>1. Has(down, k) <=> Head(down).kind = k \/ Has(Tail(down), k)
    BY <1>2, KindTaken
  <2> QED BY <1>2, <2>1
<1> QED BY <1>1, <1>2, ReceivedFacts

\* No command is read or taken.
LEMMA CommandsKept ==
  ASSUME CommandsOK, UNCHANGED <<cmds, got, shut, keys>>, reader' \in {reader, "ended"}
  PROVE  CommandsOK'
BY DEF CommandsOK, Has

\* No bytes move.
LEMMA BytesKept ==
  ASSUME BytesOK, UNCHANGED <<pc, batch, up, typed, keys, cmds, pend>>,
         Has(down', "ack") <=> Has(down, "ack"), Once(down, "ack") => Once(down', "ack")
  PROVE  BytesOK'
BY DEF BytesOK

\* The bridge does something else than sending bytes.
LEMMA BytesMoved ==
  ASSUME BytesOK, UNCHANGED <<batch, typed, keys, cmds>>, pc \notin {"drain", "ack", "done"},
         ~Has(up, "bytes") => ~Has(up', "bytes"),
         ~Has(down, "ack") => ~Has(down', "ack"),
         ~Has(pend, "ack") => ~Has(pend', "ack")
  PROVE  BytesOK'
<1>1. /\ ~Has(up, "bytes") /\ ~Has(down, "ack") /\ ~Has(pend, "ack")
      /\ batch = <<>> /\ KeysAre(typed, batch, keys, cmds)
  BY DEF BytesOK
<1>2. ~Has(up', "bytes") /\ ~Has(down', "ack") /\ ~Has(pend', "ack")
  BY <1>1
<1>3. Once(up', "bytes")
  BY <1>2 DEF Has, Once
<1> QED BY <1>1, <1>2, <1>3 DEF BytesOK

\* No request is answered.
LEMMA RequestsKept ==
  ASSUME RequestsOK, UNCHANGED <<answers, ctl, cmds, got>>, applied \subseteq applied',
         ~attach_stale' => ~attach_stale, pc' \in {"resize", "lead"} => ctl # <<>>
  PROVE  RequestsOK'
<1>1. ~attach_stale' => \A i \in DOMAIN answers :
                   answers[i].ok /\ answers[i].from = "resize" => answers[i].n \in applied'
  BY DEF RequestsOK
<1> QED BY <1>1 DEF RequestsOK, InOrder

\* No frame that answers a resize moves.
LEMMA AwaitedKept ==
  ASSUME AwaitedOK, UNCHANGED <<attach_stale, pc, pend, up, ctl, applied>>,
         down' = down \/ /\ down \in Seq(Down)
                         /\ \E x \in Down : /\ x.kind \notin {"status", "error"}
                                            /\ down' = Append(down, x)
  PROVE  AwaitedOK'
<1>1. CASE down' = down
  BY <1>1 DEF AwaitedOK
<1>2. CASE down' # down
  <2>1. PICK x \in Down : x.kind \notin {"status", "error"} /\ down' = Append(down, x)
    BY <1>2
  <2>2. /\ \A g : ExchangeOK(up, down, applied, g) => ExchangeOK(up, down', applied, g)
        /\ Clear(up, down) => Clear(up, down')
    BY <1>2, <2>1, ExchangeSent
  <2> QED BY <2>2 DEF AwaitedOK
<1> QED BY <1>1, <1>2

\* Nothing is awaited, before or after.
LEMMA AwaitedMoved ==
  ASSUME AwaitedOK, pc \notin {"resize", "done"}, pc' # "resize", ~attach_stale' => ~attach_stale,
         Clear(up, down) => Clear(up', down'),
         \A k \in {"status", "error"} : ~Has(pend, k) => ~Has(pend', k)
  PROVE  AwaitedOK'
BY DEF AwaitedOK

\* No frame of the daemon moves.
LEMMA NotifiedMoved ==
  ASSUME NotifiedOK, UNCHANGED <<pend, down, shown, leader>>, swallowed' = swallowed,
         pc \notin {"connect", "done"}, pc' # "connect"
  PROVE  NotifiedOK'
BY DEF NotifiedOK, Shows

\* Not even the bridge moves.
LEMMA NotifiedKept ==
  ASSUME NotifiedOK, UNCHANGED <<pc, up, pend, down, shown, leader, swallowed>>
  PROVE  NotifiedOK'
BY DEF NotifiedOK, Shows

\* The bridge reads a frame and shows a notification, or has skipped one.
LEMMA NotifiedRead ==
  ASSUME pend \in Seq(Down), down \in Seq(Down), NotifiedOK, Attach!Incoming # <<>>, Attach!Received,
         leader' = leader, pc \notin {"connect", "done"}, pc' # "connect",
         ~swallowed' => /\ ~swallowed
                        /\ shown' = IF Head(Attach!Incoming).kind = "notify"
                                    THEN Head(Attach!Incoming).n ELSE shown
  PROVE  NotifiedOK'
<1>1. /\ \A i \in DOMAIN pend' : pend'[i].kind = "notify" => pend'[i].n \in {0, 1}
      /\ \A i \in DOMAIN down' : down'[i].kind = "notify" => down'[i].n \in {0, 1}
  <2>1. CASE pend # <<>> /\ pend' = Tail(pend) /\ down' = down
    <3>1. \A i \in DOMAIN Tail(pend) : i + 1 \in DOMAIN pend /\ Tail(pend)[i] = pend[i + 1]
      BY <2>1, Taken
    <3> QED BY <2>1, <3>1 DEF NotifiedOK
  <2>2. CASE down # <<>> /\ down' = Tail(down) /\ pend' = pend
    <3>1. \A i \in DOMAIN Tail(down) : i + 1 \in DOMAIN down /\ Tail(down)[i] = down[i + 1]
      BY <2>2, Taken
    <3> QED BY <2>2, <3>1 DEF NotifiedOK
  <2> QED BY <2>1, <2>2, ReceivedFacts
<1>2. ASSUME ~swallowed'
      PROVE  Shows(down', pend', shown', Attach!Flag(leader'))
  <2>1. Shows(down, pend, shown, Attach!Flag(leader))
    BY <1>2 DEF NotifiedOK
  <2>2. PICK x \in Down : x = Head(Attach!Incoming)
    BY ReceivedFacts
  <2>3. PICK v : v = Attach!Flag(leader)
    OBVIOUS
  <2>4. PICK z : z = IF x.kind = "notify" THEN x.n ELSE shown
    OBVIOUS
  <2>5. shown' = z /\ Attach!Flag(leader') = v
    BY <1>2, <2>2, <2>3, <2>4 DEF Attach!Flag
  <2>6. CASE pend # <<>> /\ x = Head(pend) /\ pend' = Tail(pend) /\ down' = down
    <3>1. Shows(down, Tail(pend), z, v)
      BY <2>1, <2>3, <2>4, <2>6, ShowsRead
    <3> QED BY <2>5, <2>6, <3>1
  <2>7. CASE pend = <<>> /\ down # <<>> /\ x = Head(down) /\ down' = Tail(down) /\ pend' = pend
    <3>1. Shows(Tail(down), pend, z, v)
      BY <2>1, <2>3, <2>4, <2>7, ShowsRead
    <3> QED BY <2>5, <2>7, <3>1
  <2> QED BY <2>2, <2>6, <2>7, ReceivedFacts
<1> QED BY <1>1, <1>2 DEF NotifiedOK

-----------------------------------------------------------------------------
(* The steps of the daemon.                                                *)

\* Output of the child goes to the bridge behind everything else.
LEMMA ChildOutputStep ==
  ASSUME BridgeInv, Attach!ChildOutput
  PROVE  BridgeInv'
<1> DEFINE x == Attach!Frame("out", outs + 1)
<1>1. x \in Down /\ x.kind = "out"
  BY DEF BridgeInv, BridgeTypeOK, Down, Attach!Frame
<1>2. /\ down' = Append(down, x) /\ down \in Seq(Down) /\ outs' = outs + 1
      /\ UNCHANGED <<got, keys, reader, cmds, wake, pc, batch, ctl, shut, lead, pend, up, leader,
                     typed, applied, gone, answers, shown, attach_stale, swallowed>>
  BY DEF BridgeInv, BridgeTypeOK, Attach!ChildOutput, Attach!browser, Attach!turn, Attach!view, Attach!told,
     Attach!marks
<1> HIDE DEF x
<1>3. BridgeTypeOK'
  <2>1. down' \in Seq(Down) /\ outs' \in Nat
    BY <1>1, <1>2 DEF BridgeInv, BridgeTypeOK
  <2> QED BY <1>2, <2>1 DEF BridgeInv, BridgeTypeOK
<1>4. CommandsOK'
  BY <1>2, CommandsKept DEF BridgeInv
<1>5. BytesOK'
  <2>1. (Has(down', "ack") <=> Has(down, "ack")) /\ (Once(down, "ack") => Once(down', "ack"))
    BY <1>1, <1>2, KindAppended
  <2> QED BY <1>2, <2>1, BytesKept DEF BridgeInv
<1>6. RequestsOK'
  BY <1>2, RequestsKept DEF BridgeInv, RequestsOK
<1>7. AwaitedOK'
  BY <1>1, <1>2, AwaitedKept DEF BridgeInv
<1>8. NotifiedOK'
  <2>1. \A i \in DOMAIN down' : down'[i].kind = "notify" => down'[i].n \in {0, 1}
    <3>1. /\ \A i \in DOMAIN down' : i \in DOMAIN down \/ i = Len(down) + 1
          /\ down'[Len(down) + 1] = x
          /\ \A i \in DOMAIN down : down'[i] = down[i]
      BY <1>1, <1>2, Appended
    <3> QED BY <1>1, <3>1 DEF BridgeInv, NotifiedOK
  <2>2. pc # "connect"
    BY DEF Attach!ChildOutput, Attach!Connected
  <2>3. \A v : Shows(down, pend, shown, v) => Shows(down', pend, shown, v)
    BY <1>1, <1>2, ShowsSent
  <2> QED BY <1>2, <2>1, <2>2, <2>3 DEF BridgeInv, NotifiedOK
<1> QED BY <1>3, <1>4, <1>5, <1>6, <1>7, <1>8 DEF BridgeInv

\* Another client takes the role: the notification says so.
LEMMA LeaderTakenStep ==
  ASSUME BridgeInv, Attach!LeaderTaken
  PROVE  BridgeInv'
<1> DEFINE x == Attach!Frame("notify", 0)
<1>1. x \in Down /\ x.kind = "notify" /\ x.n = 0
  BY DEF Down, Attach!Frame
<1>2. /\ down' = Append(down, x) /\ down \in Seq(Down) /\ leader' = FALSE
      /\ UNCHANGED <<got, keys, reader, cmds, wake, pc, batch, ctl, shut, lead, pend, up, outs,
                     typed, applied, gone, answers, shown, attach_stale, swallowed>>
  BY DEF BridgeInv, BridgeTypeOK, Attach!LeaderTaken, Attach!browser, Attach!turn, Attach!view, Attach!told,
     Attach!marks
<1> HIDE DEF x
<1>3. BridgeTypeOK'
  <2>1. down' \in Seq(Down)
    BY <1>1, <1>2
  <2>2. leader' \in BOOLEAN
    BY <1>2
  <2> QED BY <1>2, <2>1, <2>2 DEF BridgeInv, BridgeTypeOK
<1>4. CommandsOK'
  BY <1>2, CommandsKept DEF BridgeInv
<1>5. BytesOK'
  <2>1. (Has(down', "ack") <=> Has(down, "ack")) /\ (Once(down, "ack") => Once(down', "ack"))
    BY <1>1, <1>2, KindAppended
  <2> QED BY <1>2, <2>1, BytesKept DEF BridgeInv
<1>6. RequestsOK'
  BY <1>2, RequestsKept DEF BridgeInv, RequestsOK
<1>7. AwaitedOK'
  BY <1>1, <1>2, AwaitedKept DEF BridgeInv
<1>8. NotifiedOK'
  <2>1. \A i \in DOMAIN down' : down'[i].kind = "notify" => down'[i].n \in {0, 1}
    <3>1. /\ \A i \in DOMAIN down' : i \in DOMAIN down \/ i = Len(down) + 1
          /\ down'[Len(down) + 1] = x
          /\ \A i \in DOMAIN down : down'[i] = down[i]
      BY <1>1, <1>2, Appended
    <3> QED BY <1>1, <3>1 DEF BridgeInv, NotifiedOK
  <2>2. pc # "connect"
    BY DEF Attach!LeaderTaken, Attach!Connected
  <2>3. Shows(down', pend, shown, 0)
    BY <1>1, <1>2, ShowsSent
  <2>4. Shows(down', pend', shown', Attach!Flag(leader'))
    BY <1>2, <2>3 DEF Attach!Flag
  <2> QED BY <1>2, <2>1, <2>2, <2>4 DEF BridgeInv, NotifiedOK
<1> QED BY <1>3, <1>4, <1>5, <1>6, <1>7, <1>8 DEF BridgeInv

\* The daemon hangs up.
LEMMA DaemonClosesStep ==
  ASSUME BridgeInv, Attach!DaemonCloses
  PROVE  BridgeInv'
<1>1. /\ gone' = TRUE
      /\ UNCHANGED <<got, keys, reader, cmds, wake, pc, batch, ctl, shut, lead, pend, up, down,
                     leader, outs, typed, applied, answers, shown, attach_stale, swallowed>>
  BY DEF Attach!DaemonCloses, Attach!browser, Attach!turn, Attach!view, Attach!told, Attach!marks
<1>2. BridgeTypeOK'
  BY <1>1 DEF BridgeInv, BridgeTypeOK
<1>3. CommandsOK' /\ BytesOK'
  BY <1>1, CommandsKept, BytesKept DEF BridgeInv
<1>4. RequestsOK' /\ AwaitedOK' /\ NotifiedOK'
  BY <1>1, RequestsKept, AwaitedKept, NotifiedKept DEF BridgeInv, RequestsOK
<1> QED BY <1>2, <1>3, <1>4 DEF BridgeInv

\* The daemon reads bytes: they are typed, and acked.
LEMMA BytesRead ==
  ASSUME BridgeInv, Attach!DaemonReads, Head(up).kind = "bytes"
  PROVE  BytesOK'
<1> DEFINE m == Head(up)
           x == Attach!Frame("ack", 0)
<1>1. x \in Down /\ x.kind = "ack"
  BY DEF Down, Attach!Frame
<1>2. /\ up # <<>> /\ up' = Tail(up) /\ typed' = typed \o m.n
      /\ UNCHANGED <<keys, cmds, pc, batch, pend>>
  BY DEF Attach!DaemonReads, Attach!browser, Attach!turn
<1>3. down' = down \o <<x>>
  BY DEF Attach!DaemonReads, Attach!Answer
<1>4. down' = Append(down, x) /\ down \in Seq(Down) /\ up \in Seq(Up)
  BY <1>1, <1>3 DEF BridgeInv, BridgeTypeOK
<1>5. /\ Has(up, "bytes") /\ Once(up, "bytes")
      /\ ~Has(Tail(up), "bytes") /\ Once(Tail(up), "bytes")
      /\ m = up[1] /\ 1 \in DOMAIN up
  BY <1>2, <1>4, KindTaken, Taken DEF BridgeInv, BytesOK
<1>6. pc \in {"ack", "done"} /\ batch = <<>>
  BY <1>5 DEF BridgeInv, BytesOK
<1>7. m.n \in Seq(Nat) /\ KeysAre(typed, m.n, keys, cmds)
  <2>1. KeysAre(typed, m.n, keys, cmds)
    BY <1>5 DEF BridgeInv, BytesOK
  <2>2. m \in Up
    BY <1>2, <1>4
  <2>3. m.n \in Seq(Nat)
    BY <2>2 DEF Up
  <2> QED BY <2>1, <2>3
<1> HIDE DEF m, x
<1>8. KeysAre(typed', <<>>, keys, cmds)
  BY <1>2, <1>7, KeysReceived DEF BridgeInv, BridgeTypeOK
<1>9. pc # "done" => ~Has(down, "ack") /\ ~Has(pend, "ack")
  BY <1>5 DEF BridgeInv, BytesOK
<1>10. ~Has(down, "ack") => Once(down', "ack")
  <2>1. ~Has(down, "ack") => Once(down, "ack")
    BY DEF Has, Once
  <2> QED BY <1>1, <1>4, <2>1, KindAppended
<1> QED BY <1>2, <1>5, <1>6, <1>8, <1>9, <1>10 DEF BytesOK

\* The daemon reads something else: the bytes on their way stay there.
LEMMA OtherRead ==
  ASSUME BridgeInv, Attach!DaemonReads, Head(up).kind # "bytes",
         NEW y \in {"none", "error", "status", "notify"}, NEW l,
         down' = IF y = "none" THEN down ELSE Append(down, Attach!Frame(y, l)), l \in Nat
  PROVE  BytesOK'
<1> DEFINE w == Tail(up)
<1>1. /\ up # <<>> /\ up' = w /\ typed' = typed
      /\ UNCHANGED <<keys, cmds, pc, batch, pend>>
  BY DEF Attach!DaemonReads, Attach!browser, Attach!turn
<1>2. down \in Seq(Down) /\ up \in Seq(Up)
  BY DEF BridgeInv, BridgeTypeOK
<1>3. (Has(down', "ack") <=> Has(down, "ack")) /\ (Once(down, "ack") => Once(down', "ack"))
  <2>1. CASE y = "none"
    BY <2>1
  <2>2. CASE y # "none"
    <3>1. Attach!Frame(y, l) \in Down /\ Attach!Frame(y, l).kind # "ack"
      BY <2>2 DEF Down, Attach!Frame
    <3> QED BY <1>2, <2>2, <3>1, KindAppended
  <2> QED BY <2>1, <2>2
<1>4. /\ Has(w, "bytes") <=> Has(up, "bytes")
      /\ Once(up, "bytes") => Once(w, "bytes")
  BY <1>1, <1>2, KindTaken
<1>5. \A i \in DOMAIN w : i + 1 \in DOMAIN up /\ w[i] = up[i + 1]
  BY <1>1, <1>2, Taken
<1> HIDE DEF w
<1>6. ASSUME Has(up, "bytes"), NEW i \in DOMAIN w, w[i].kind = "bytes"
      PROVE  KeysAre(typed, w[i].n, keys, cmds)
  BY <1>5, <1>6 DEF BridgeInv, BytesOK
<1> QED BY <1>1, <1>3, <1>4, <1>6 DEF BridgeInv, BytesOK

\* What the daemon makes of a frame.
LEMMA DaemonFacts ==
  ASSUME BridgeInv, Attach!DaemonReads
  PROVE  /\ up # <<>> /\ up \in Seq(Up) /\ down \in Seq(Down) /\ up' = Tail(up) /\ Head(up) \in Up
         /\ UNCHANGED <<got, keys, reader, cmds, wake, pc, batch, ctl, shut, lead, pend, outs,
                        gone, answers, shown, attach_stale, swallowed>>
         /\ \/ /\ Head(up).kind = "bytes" /\ leader' = leader /\ applied' = applied
               /\ down' = Append(down, Attach!Frame("ack", 0)) /\ typed' = typed \o Head(up).n
            \/ /\ Head(up).kind = "resize" /\ leader' = leader /\ typed' = typed
               /\ leader /\ down' = down /\ applied' = applied \cup {Head(up).n}
            \/ /\ Head(up).kind = "resize" /\ leader' = leader /\ typed' = typed
               /\ ~leader /\ down' = Append(down, Attach!Frame("error", 0)) /\ applied' = applied
            \/ /\ Head(up).kind = "query" /\ leader' = leader /\ typed' = typed
               /\ down' = Append(down, Attach!Frame("status", 0)) /\ applied' = applied
            \/ /\ Head(up).kind = "leader" /\ leader' = TRUE /\ typed' = typed
               /\ down' = Append(down, Attach!Frame("notify", 1)) /\ applied' = applied
<1> DEFINE m == Head(up)
<1>1. up # <<>> /\ up \in Seq(Up) /\ down \in Seq(Down) /\ up' = Tail(up)
  BY DEF BridgeInv, BridgeTypeOK, Attach!DaemonReads
<1>2. m \in Up
  BY <1>1
<1>3. UNCHANGED <<got, keys, reader, cmds, wake, pc, batch, ctl, shut, lead, pend, outs,
                  gone, answers, shown, attach_stale, swallowed>>
  BY DEF Attach!DaemonReads, Attach!browser, Attach!turn, Attach!view, Attach!told, Attach!marks
<1>4. /\ down' = down \o Attach!Answer(m)
      /\ typed' = IF m.kind = "bytes" THEN typed \o m.n ELSE typed
      /\ applied' = IF m.kind = "resize" /\ leader THEN applied \cup {m.n} ELSE applied
      /\ leader' = (leader \/ m.kind = "leader")
      /\ leader \in BOOLEAN
  BY DEF BridgeInv, BridgeTypeOK, Attach!DaemonReads
<1> HIDE DEF m
<1>5. m.kind \in {"bytes", "resize", "query", "leader"}
  BY <1>2 DEF Up
<1>6. down \o <<>> = down /\ \A x \in Down : down \o <<x>> = Append(down, x)
  BY <1>1
<1>7. \A k \in {"ack", "error", "status", "notify"} :
        Attach!Frame(k, 0) \in Down /\ Attach!Frame(k, 1) \in Down
  BY DEF Down, Attach!Frame
<1>8. CASE m.kind = "bytes"
  <2>1. down' = Append(down, Attach!Frame("ack", 0))
    BY <1>4, <1>6, <1>7, <1>8 DEF Attach!Answer
  <2>2. leader' = leader /\ applied' = applied /\ typed' = typed \o m.n
    BY <1>4, <1>8
  <2> QED BY <1>1, <1>2, <1>3, <1>8, <2>1, <2>2 DEF m
<1>9. CASE m.kind = "resize"
  <2>1. leader => down' = down /\ applied' = applied \cup {m.n}
    BY <1>4, <1>6, <1>9 DEF Attach!Answer
  <2>2. ~leader => down' = Append(down, Attach!Frame("error", 0)) /\ applied' = applied
    BY <1>4, <1>6, <1>7, <1>9 DEF Attach!Answer
  <2>3. leader' = leader /\ typed' = typed
    BY <1>4, <1>9
  <2> QED BY <1>1, <1>2, <1>3, <1>9, <2>1, <2>2, <2>3 DEF m
<1>10. CASE m.kind = "query"
  <2>1. down' = Append(down, Attach!Frame("status", 0))
    BY <1>4, <1>6, <1>7, <1>10 DEF Attach!Answer
  <2>2. leader' = leader /\ applied' = applied /\ typed' = typed
    BY <1>4, <1>10
  <2> QED BY <1>1, <1>2, <1>3, <1>10, <2>1, <2>2 DEF m
<1>11. CASE m.kind = "leader"
  <2>1. down' = Append(down, Attach!Frame("notify", 1))
    BY <1>4, <1>6, <1>7, <1>11 DEF Attach!Answer
  <2>2. leader' = TRUE /\ applied' = applied /\ typed' = typed
    BY <1>4, <1>11
  <2> QED BY <1>1, <1>2, <1>3, <1>11, <2>1, <2>2 DEF m
<1> QED BY <1>5, <1>8, <1>9, <1>10, <1>11

\* The daemon reads a frame of the bridge.
LEMMA DaemonReadsStep ==
  ASSUME BridgeInv, Attach!DaemonReads
  PROVE  BridgeInv'
<1> DEFINE m == Head(up)
<1>1. /\ up # <<>> /\ up \in Seq(Up) /\ down \in Seq(Down) /\ up' = Tail(up) /\ m \in Up
      /\ UNCHANGED <<got, keys, reader, cmds, wake, pc, batch, ctl, shut, lead, pend, outs,
                     gone, answers, shown, attach_stale, swallowed>>
  BY DaemonFacts
<1>2. \/ /\ m.kind = "bytes" /\ leader' = leader /\ applied' = applied
         /\ down' = Append(down, Attach!Frame("ack", 0)) /\ typed' = typed \o m.n
      \/ /\ m.kind = "resize" /\ leader' = leader /\ typed' = typed
         /\ leader /\ down' = down /\ applied' = applied \cup {m.n}
      \/ /\ m.kind = "resize" /\ leader' = leader /\ typed' = typed
         /\ ~leader /\ down' = Append(down, Attach!Frame("error", 0)) /\ applied' = applied
      \/ /\ m.kind = "query" /\ leader' = leader /\ typed' = typed
         /\ down' = Append(down, Attach!Frame("status", 0)) /\ applied' = applied
      \/ /\ m.kind = "leader" /\ leader' = TRUE /\ typed' = typed
         /\ down' = Append(down, Attach!Frame("notify", 1)) /\ applied' = applied
  BY DaemonFacts
<1>3. /\ Attach!Frame("ack", 0) \in Down /\ Attach!Frame("error", 0) \in Down
      /\ Attach!Frame("status", 0) \in Down /\ Attach!Frame("notify", 1) \in Down
  BY DEF Down, Attach!Frame
<1>4. /\ Attach!Frame("ack", 0).kind = "ack" /\ Attach!Frame("error", 0).kind = "error"
      /\ Attach!Frame("status", 0).kind = "status"
      /\ Attach!Frame("notify", 1).kind = "notify" /\ Attach!Frame("notify", 1).n = 1
  BY DEF Attach!Frame
<1> HIDE DEF m
<1>5. BridgeTypeOK'
  <2>1. up' \in Seq(Up)
    BY <1>1
  <2>2. down' \in Seq(Down)
    <3>1. \A x \in Down : Append(down, x) \in Seq(Down)
      BY <1>1
    <3> QED BY <1>1, <1>2, <1>3, <3>1
  <2>3. leader' \in BOOLEAN
    BY <1>2 DEF BridgeInv, BridgeTypeOK
  <2>4. typed' \in Seq(Nat)
    <3>1. m.kind = "bytes" => m.n \in Seq(Nat)
      BY <1>1 DEF Up
    <3>2. typed \in Seq(Nat)
      BY DEF BridgeInv, BridgeTypeOK
    <3>3. m.kind = "bytes" => typed \o m.n \in Seq(Nat)
      BY <3>1, <3>2
    <3> QED BY <1>2, <3>2, <3>3
  <2> QED BY <1>1, <2>1, <2>2, <2>3, <2>4 DEF BridgeInv, BridgeTypeOK
<1>6. CommandsOK'
  BY <1>1, CommandsKept DEF BridgeInv
<1>7. BytesOK'
  <2>1. CASE m.kind = "bytes"
    BY <2>1, BytesRead DEF m
  <2>2. CASE m.kind # "bytes" /\ down' = down
    BY <2>2, OtherRead DEF m
  <2>3. CASE m.kind # "bytes" /\ down' = Append(down, Attach!Frame("error", 0))
    BY <2>3, OtherRead DEF m
  <2>4. CASE m.kind # "bytes" /\ down' = Append(down, Attach!Frame("status", 0))
    BY <2>4, OtherRead DEF m
  <2>5. CASE m.kind # "bytes" /\ down' = Append(down, Attach!Frame("notify", 1))
    BY <2>5, OtherRead DEF m
  <2> QED BY <1>2, <2>1, <2>2, <2>3, <2>4, <2>5
<1>8. RequestsOK'
  BY <1>1, <1>2, RequestsKept DEF BridgeInv, RequestsOK
<1>9. AwaitedOK'
  <2> SUFFICES ASSUME ~attach_stale, pc # "done"
               PROVE  IF pc = "resize" THEN ExchangeOK(up', down', applied', ctl[1].n)
                      ELSE Clear(up', down')
    BY <1>1 DEF BridgeInv, AwaitedOK
  <2>1. CASE pc = "resize"
    <3>1. PICK g : g = ctl[1].n
      OBVIOUS
    <3>2. ExchangeOK(up, down, applied, g)
      BY <2>1, <3>1 DEF BridgeInv, AwaitedOK
    <3>3. /\ m.kind = "resize" => ExchangeOK(Tail(up), down, applied \cup {m.n}, g)
          /\ m.kind = "resize" => ExchangeOK(Tail(up), Append(down, Attach!Frame("error", 0)), applied, g)
          /\ m.kind = "query" => ExchangeOK(Tail(up), Append(down, Attach!Frame("status", 0)), applied, g)
          /\ m.kind \notin {"resize", "query"} => ExchangeOK(Tail(up), down, applied, g)
      BY <1>1, <3>2, ExchangeRead DEF m
    <3>4. /\ m.kind \notin {"resize", "query"}
               => ExchangeOK(Tail(up), Append(down, Attach!Frame("ack", 0)), applied, g)
          /\ m.kind \notin {"resize", "query"}
               => ExchangeOK(Tail(up), Append(down, Attach!Frame("notify", 1)), applied, g)
      BY <1>1, <1>3, <1>4, <3>3, ExchangeSent
    <3>5. ExchangeOK(up', down', applied', g)
      BY <1>1, <1>2, <3>3, <3>4
    <3> QED BY <2>1, <3>1, <3>5
  <2>2. CASE pc # "resize"
    <3>1. Clear(up, down)
      BY <2>2 DEF BridgeInv, AwaitedOK
    <3>2. Clear(Tail(up), down) /\ m.kind \notin {"resize", "query"}
      BY <1>1, <3>1, ClearRead DEF m
    <3>3. /\ Clear(Tail(up), Append(down, Attach!Frame("ack", 0)))
          /\ Clear(Tail(up), Append(down, Attach!Frame("notify", 1)))
      BY <1>1, <1>3, <1>4, <3>2, ExchangeSent
    <3>4. Clear(up', down')
      BY <1>1, <1>2, <3>2, <3>3
    <3> QED BY <2>2, <3>4
  <2> QED BY <2>1, <2>2
<1>10. NotifiedOK'
  <2>1. \A i \in DOMAIN down' : down'[i].kind = "notify" => down'[i].n \in {0, 1}
    <3>1. CASE down' = down
      BY <3>1 DEF BridgeInv, NotifiedOK
    <3>2. CASE down' # down
      <4>1. PICK x \in Down : down' = Append(down, x) /\ (x.kind = "notify" => x.n = 1)
        BY <1>2, <1>3, <1>4, <3>2
      <4>2. /\ \A i \in DOMAIN down' : i \in DOMAIN down \/ i = Len(down) + 1
            /\ down'[Len(down) + 1] = x
            /\ \A i \in DOMAIN down : down'[i] = down[i]
        BY <1>1, <4>1, Appended
      <4> QED BY <4>1, <4>2 DEF BridgeInv, NotifiedOK
    <3> QED BY <3>1, <3>2
  <2>2. pc # "connect"
    BY <1>1 DEF BridgeInv, NotifiedOK
  <2>3. ASSUME Shows(down, pend, shown, Attach!Flag(leader))
        PROVE  Shows(down', pend, shown, Attach!Flag(leader'))
    <3>1. PICK v : v = Attach!Flag(leader)
      OBVIOUS
    <3>2. Shows(down, pend, shown, v)
      BY <2>3, <3>1
    <3>3. CASE m.kind = "leader"
      <4>1. Attach!Flag(leader') = 1 /\ down' = Append(down, Attach!Frame("notify", 1))
        BY <1>2, <3>3 DEF Attach!Flag
      <4>2. Shows(Append(down, Attach!Frame("notify", 1)), pend, shown, 1)
        BY <1>1, <1>3, <1>4, ShowsSent
      <4> QED BY <4>1, <4>2
    <3>4. CASE m.kind # "leader"
      <4>1. Attach!Flag(leader') = v
        BY <1>2, <3>1, <3>4 DEF Attach!Flag
      <4>2. \A x \in Down : x.kind # "notify" => Shows(Append(down, x), pend, shown, v)
        BY <1>1, <3>2, ShowsSent
      <4>3. Shows(down', pend, shown, v)
        BY <1>2, <1>3, <1>4, <3>2, <3>4, <4>2
      <4> QED BY <4>1, <4>3
    <3> QED BY <3>3, <3>4
  <2> QED BY <1>1, <2>1, <2>2, <2>3 DEF BridgeInv, NotifiedOK
<1> QED BY <1>5, <1>6, <1>7, <1>8, <1>9, <1>10 DEF BridgeInv

-----------------------------------------------------------------------------
(* The steps of the reader task.                                           *)

\* A command is put at the end of the channel; a byte message is a key.
LEMMA CommandQueued ==
  ASSUME BridgeInv, NEW c \in Cmd, cmds' = Append(cmds, c),
         c.kind # "shutdown" => c.n = got + 1 /\ got' = got + 1,
         got' \in {got, got + 1}, reader = "run",
         c.kind = "shutdown" => reader' = "ended", reader' \in {reader, "ended"},
         keys' = IF c.kind = "bytes" THEN Append(keys, c.n) ELSE keys,
         wake' \in BOOLEAN,
         UNCHANGED <<pc, batch, ctl, shut, lead, pend, up, down, leader, outs, typed, applied,
                     gone, answers, shown, attach_stale, swallowed>>
  PROVE  BridgeInv'
<1>1. /\ cmds \in Seq(Cmd) /\ keys \in Seq(Nat) /\ got \in Nat /\ got' \in Nat /\ got <= got'
      /\ typed \in Seq(Nat) /\ batch \in Seq(Nat) /\ up \in Seq(Up) /\ c.n \in Nat
  BY DEF BridgeInv, BridgeTypeOK, Cmd
<1>2. /\ \A i \in DOMAIN cmds' : i \in DOMAIN cmds \/ i = Len(cmds) + 1
      /\ cmds'[Len(cmds) + 1] = c
      /\ \A i \in DOMAIN cmds : cmds'[i] = cmds[i] /\ i \in Nat /\ i < Len(cmds) + 1
      /\ cmds' \in Seq(Cmd) /\ Len(cmds) \in Nat
  BY <1>1, Appended
<1>3. BridgeTypeOK'
  <2>1. keys' \in Seq(Nat)
    BY <1>1
  <2>2. reader' \in {"run", "ended"}
    OBVIOUS
  <2> QED BY <1>1, <1>2, <2>1, <2>2 DEF BridgeInv, BridgeTypeOK
<1>4. \A i \in DOMAIN cmds : cmds[i].kind # "shutdown" /\ cmds[i].n <= got /\ cmds[i].n \in Nat
  <2>1. \A i \in DOMAIN cmds : cmds[i] \in Cmd
    BY <1>1
  <2>2. \A i \in DOMAIN cmds : cmds[i].n \in Nat
    BY <2>1 DEF Cmd
  <2> QED BY <2>2 DEF BridgeInv, CommandsOK, Has
<1>5. ASSUME NEW i \in DOMAIN cmds', NEW j \in DOMAIN cmds', i < j
      PROVE  i \in DOMAIN cmds
  <2> SUFFICES ASSUME i = Len(cmds) + 1 PROVE FALSE
    BY <1>2
  <2> QED BY <1>2, <1>5
<1>6. CommandsOK'
  <2>1. \A i, j \in DOMAIN cmds' : i < j => cmds'[i].kind # "shutdown"
    BY <1>2, <1>4, <1>5
  <2>2. ASSUME NEW i \in DOMAIN cmds', NEW j \in DOMAIN cmds', i < j, cmds'[j].kind # "shutdown"
        PROVE  cmds'[i].n < cmds'[j].n
    <3>1. i \in DOMAIN cmds
      BY <1>5, <2>2
    <3>2. CASE j \in DOMAIN cmds
      BY <1>2, <2>2, <3>1, <3>2 DEF BridgeInv, CommandsOK
    <3>3. CASE j = Len(cmds) + 1
      <4>1. cmds'[j].n = got + 1 /\ cmds'[i].n <= got /\ cmds'[i].n \in Nat
        BY <1>2, <1>4, <2>2, <3>1, <3>3
      <4> QED BY <1>1, <4>1
    <3> QED BY <1>2, <3>2, <3>3
  <2>3. ASSUME NEW i \in DOMAIN cmds', cmds'[i].kind # "shutdown"
        PROVE  cmds'[i].n <= got'
    <3>1. CASE i \in DOMAIN cmds
      <4>1. cmds'[i].n <= got /\ cmds'[i].n \in Nat
        BY <1>2, <1>4, <3>1
      <4> QED BY <1>1, <4>1
    <3>2. CASE i = Len(cmds) + 1
      BY <1>1, <1>2, <2>3, <3>2
    <3> QED BY <1>2, <3>1, <3>2
  <2>4. Has(cmds', "shutdown") => reader' = "ended"
    BY <1>2, <1>4 DEF Has
  <2>5. ~shut'
    BY DEF BridgeInv, CommandsOK
  <2>6. /\ \A i, j \in DOMAIN keys' : i < j => keys'[i] < keys'[j]
        /\ \A i \in DOMAIN keys' : keys'[i] <= got'
    <3>1. \A i \in DOMAIN keys : keys[i] <= got /\ keys[i] \in Nat
      BY <1>1 DEF BridgeInv, CommandsOK
    <3>2. CASE c.kind # "bytes"
      <4>1. keys' = keys
        BY <3>2
      <4>2. \A i \in DOMAIN keys : keys[i] <= got'
        BY <1>1, <3>1
      <4> QED BY <4>1, <4>2 DEF BridgeInv, CommandsOK
    <3>3. CASE c.kind = "bytes"
      <4>1. /\ \A i \in DOMAIN keys' : i \in DOMAIN keys \/ i = Len(keys) + 1
            /\ keys'[Len(keys) + 1] = got + 1
            /\ \A i \in DOMAIN keys : keys'[i] = keys[i] /\ i \in Nat /\ i < Len(keys) + 1
            /\ Len(keys) \in Nat
        BY <1>1, <3>3, Appended
      <4>2. \A i \in DOMAIN keys : keys[i] < got + 1 /\ keys[i] <= got + 1
        BY <1>1, <3>1
      <4>3. got' = got + 1 /\ got + 1 <= got + 1
        BY <1>1, <3>3
      <4>4. \A i \in DOMAIN keys' : keys'[i] <= got'
        BY <4>1, <4>2, <4>3
      <4>5. ASSUME NEW i \in DOMAIN keys', NEW j \in DOMAIN keys', i < j
            PROVE  keys'[i] < keys'[j]
        <5>1. i \in DOMAIN keys
          <6> SUFFICES ASSUME i = Len(keys) + 1 PROVE FALSE
            BY <4>1
          <6> QED BY <4>1, <4>5
        <5>2. CASE j \in DOMAIN keys
          BY <4>1, <4>5, <5>1, <5>2 DEF BridgeInv, CommandsOK
        <5>3. CASE j = Len(keys) + 1
          BY <4>1, <4>2, <5>1, <5>3
        <5> QED BY <4>1, <5>2, <5>3
      <4> QED BY <4>4, <4>5
    <3> QED BY <3>2, <3>3
  <2> QED BY <2>1, <2>2, <2>3, <2>4, <2>5, <2>6 DEF CommandsOK
<1>7. BytesOK'
  <2>1. ASSUME NEW w \in Seq(Nat), KeysAre(typed, w, keys, cmds)
        PROVE  KeysAre(typed, w, keys', cmds')
    <3>1. CASE c.kind = "bytes"
      <4>1. KeysAre(typed, w, Append(keys, c.n), Append(cmds, c))
        BY <1>1, <2>1, <3>1, KeyRead
      <4> QED BY <3>1, <4>1
    <3>2. CASE c.kind # "bytes"
      <4>1. KeysAre(typed, w, keys, Append(cmds, c))
        BY <1>1, <2>1, <3>2, OtherQueued
      <4> QED BY <3>2, <4>1
    <3> QED BY <3>1, <3>2
  <2>2. ASSUME NEW i \in DOMAIN up, up[i].kind = "bytes"
        PROVE  up[i].n \in Seq(Nat)
    <3>1. up[i] \in Up
      BY <1>1
    <3> QED BY <2>2, <3>1 DEF Up
  <2> QED BY <1>1, <2>1, <2>2 DEF BridgeInv, BytesOK
<1>8. RequestsOK'
  <2>1. \A i \in DOMAIN answers : answers[i].n <= got /\ answers[i].n \in Nat
    <3>1. \A i \in DOMAIN answers : answers[i] \in Told
      BY DEF BridgeInv, BridgeTypeOK
    <3> QED BY <3>1 DEF BridgeInv, RequestsOK, Told
  <2>2. \A i \in DOMAIN ctl : ctl[i].n <= got /\ ctl[i].n \in Nat
    <3>1. \A i \in DOMAIN ctl : ctl[i] \in Control
      BY DEF BridgeInv, BridgeTypeOK
    <3> QED BY <3>1 DEF BridgeInv, RequestsOK, Control
  <2>3. \A n \in Nat : n <= got => n <= got' /\ n < got + 1
    BY <1>1
  <2>4. ASSUME NEW j \in DOMAIN cmds', cmds'[j].kind # "shutdown"
        PROVE  /\ \A i \in DOMAIN answers : answers[i].n < cmds'[j].n
               /\ \A i \in DOMAIN ctl : ctl[i].n < cmds'[j].n
    <3>1. CASE j \in DOMAIN cmds
      BY <1>2, <2>4, <3>1 DEF BridgeInv, RequestsOK
    <3>2. CASE j = Len(cmds) + 1
      BY <1>2, <2>1, <2>2, <2>3, <2>4, <3>2
    <3> QED BY <1>2, <3>1, <3>2
  <2>5. /\ \A i \in DOMAIN answers : answers[i].n <= got'
        /\ \A i \in DOMAIN ctl : ctl[i].n <= got'
    BY <2>1, <2>2, <2>3
  <2> QED BY <2>4, <2>5 DEF BridgeInv, RequestsOK, InOrder
<1>9. AwaitedOK' /\ NotifiedOK'
  BY AwaitedKept, NotifiedKept DEF BridgeInv
<1> QED BY <1>3, <1>6, <1>7, <1>8, <1>9 DEF BridgeInv

\* The reader goes on without a command, or is aborted.
LEMMA NothingQueued ==
  ASSUME BridgeInv, got' \in {got, got + 1}, reader' \in {reader, "ended"},
         UNCHANGED <<cmds, keys, wake, pc, batch, ctl, shut, lead, pend, up, down, leader, outs,
                     typed, applied, gone, answers, shown, attach_stale, swallowed>>
  PROVE  BridgeInv'
<1>1. got \in Nat /\ got' \in Nat /\ got <= got'
  BY DEF BridgeInv, BridgeTypeOK
<1>2. \A n \in Nat : n <= got => n <= got'
  BY <1>1
<1>3. BridgeTypeOK'
  <2>1. reader' \in {"run", "ended"}
    BY DEF BridgeInv, BridgeTypeOK
  <2> QED BY <1>1, <2>1 DEF BridgeInv, BridgeTypeOK
<1>4. /\ \A i \in DOMAIN cmds : cmds[i].n \in Nat
      /\ \A i \in DOMAIN ctl : ctl[i].n \in Nat
      /\ \A i \in DOMAIN answers : answers[i].n \in Nat
      /\ \A i \in DOMAIN keys : keys[i] \in Nat
  <2>1. /\ \A i \in DOMAIN cmds : cmds[i] \in Cmd
        /\ \A i \in DOMAIN ctl : ctl[i] \in Control
        /\ \A i \in DOMAIN answers : answers[i] \in Told
        /\ \A i \in DOMAIN keys : keys[i] \in Nat
    BY DEF BridgeInv, BridgeTypeOK
  <2> QED BY <2>1 DEF Cmd, Control, Told
<1>5. CommandsOK'
  <2>1. /\ \A i \in DOMAIN cmds : cmds[i].kind # "shutdown" => cmds[i].n <= got'
        /\ \A i \in DOMAIN keys : keys[i] <= got'
    BY <1>2, <1>4 DEF BridgeInv, CommandsOK
  <2> QED BY <2>1 DEF BridgeInv, CommandsOK, Has
<1>6. BytesOK'
  BY BytesKept DEF BridgeInv
<1>7. RequestsOK'
  <2>1. /\ \A i \in DOMAIN answers : answers[i].n <= got'
        /\ \A i \in DOMAIN ctl : ctl[i].n <= got'
    BY <1>2, <1>4 DEF BridgeInv, RequestsOK
  <2> QED BY <2>1 DEF BridgeInv, RequestsOK, InOrder
<1>8. AwaitedOK' /\ NotifiedOK'
  BY AwaitedKept, NotifiedKept DEF BridgeInv
<1> QED BY <1>3, <1>5, <1>6, <1>7, <1>8 DEF BridgeInv

\* A step of the reader task.
LEMMA ReaderStep ==
  ASSUME BridgeInv, Attach!Reader \/ Attach!ReaderAborted
  PROVE  BridgeInv'
<1>1. Attach!Frame("shutdown", 0) \in Cmd /\ Attach!Frame("shutdown", 0).kind = "shutdown"
  BY DEF Cmd, Attach!Frame
<1>2. got \in Nat
  BY DEF BridgeInv, BridgeTypeOK
<1>3. ASSUME reader = "run", Attach!Ending, got' \in {got, got + 1},
             UNCHANGED <<keys, pc, batch, ctl, shut, lead, pend, up, down, leader, outs, typed,
                         applied, gone, answers, shown, attach_stale, swallowed>>
      PROVE  BridgeInv'
  BY <1>1, <1>3, CommandQueued DEF Attach!Ending
<1>4. ASSUME NEW kind \in {"bytes", "resize", "leader"}, Attach!ReadCommand(kind)
      PROVE  BridgeInv'
  <2>1. /\ reader = "run" /\ got' = got + 1
        /\ UNCHANGED <<pc, batch, ctl, shut, lead, pend, up, down, leader, outs, typed,
                       applied, gone, answers, shown, attach_stale, swallowed>>
    BY <1>4 DEF Attach!ReadCommand, Attach!turn, Attach!view, Attach!daemon, Attach!told, Attach!marks
  <2>2. CASE pc = "done"
    BY <1>3, <1>4, <2>1, <2>2 DEF Attach!ReadCommand
  <2>3. CASE pc # "done"
    <3>1. PICK c : c = Attach!Frame(kind, got + 1)
      OBVIOUS
    <3>2. c \in Cmd /\ c.kind = kind /\ c.n = got + 1
      BY <1>2, <3>1 DEF Cmd, Attach!Frame
    <3>3. /\ cmds' = Append(cmds, c) /\ wake' \in BOOLEAN /\ reader' = reader
          /\ keys' = IF c.kind = "bytes" THEN Append(keys, c.n) ELSE keys
      BY <1>4, <2>3, <3>1, <3>2 DEF Attach!ReadCommand
    <3> QED BY <2>1, <3>2, <3>3, CommandQueued
  <2> QED BY <2>2, <2>3
<1>5. CASE Attach!ReadReplied
  <2>1. /\ reader = "run" /\ got' = got + 1
        /\ UNCHANGED <<keys, pc, batch, ctl, shut, lead, pend, up, down, leader, outs, typed,
                       applied, gone, answers, shown, attach_stale, swallowed>>
    BY <1>5 DEF Attach!ReadReplied, Attach!turn, Attach!view, Attach!daemon, Attach!told, Attach!marks
  <2>2. CASE Attach!Ending
    BY <1>3, <2>1, <2>2
  <2>3. CASE UNCHANGED <<reader, cmds, wake>>
    BY <2>1, <2>3, NothingQueued
  <2> QED BY <1>5, <2>2, <2>3 DEF Attach!ReadReplied
<1>6. CASE Attach!ReadClose
  BY <1>3, <1>6 DEF Attach!ReadClose, Attach!turn, Attach!view, Attach!daemon, Attach!told, Attach!marks
<1>7. CASE Attach!AuthLost
  BY <1>3, <1>7 DEF Attach!AuthLost, Attach!turn, Attach!view, Attach!daemon, Attach!told, Attach!marks
<1>8. CASE Attach!ReaderAborted
  BY <1>8, NothingQueued DEF Attach!ReaderAborted, Attach!turn, Attach!view, Attach!daemon, Attach!told,
     Attach!marks
<1> QED BY <1>4, <1>5, <1>6, <1>7, <1>8 DEF Attach!Reader

-----------------------------------------------------------------------------
(* The steps of the bridge thread: the connection and what is polled.      *)

\* A notification says 0 or 1.
LEMMA NotifyFlag ==
  ASSUME BridgeInv, Attach!Incoming # <<>>, Attach!Received, Head(Attach!Incoming).kind = "notify"
  PROVE  /\ Head(Attach!Incoming).n \in {0, 1}
         /\ Attach!Flag(Head(Attach!Incoming).n = 1) = Head(Attach!Incoming).n
<1>1. pend \in Seq(Down) /\ down \in Seq(Down)
  BY DEF BridgeInv, BridgeTypeOK
<1>2. CASE pend # <<>> /\ Head(Attach!Incoming) = Head(pend)
  <2>1. Head(pend) = pend[1] /\ 1 \in DOMAIN pend
    BY <1>1, <1>2, Taken
  <2> QED BY <1>2, <2>1 DEF BridgeInv, NotifiedOK, Attach!Flag
<1>3. CASE down # <<>> /\ Head(Attach!Incoming) = Head(down)
  <2>1. Head(down) = down[1] /\ 1 \in DOMAIN down
    BY <1>1, <1>3, Taken
  <2> QED BY <1>3, <2>1 DEF BridgeInv, NotifiedOK, Attach!Flag
<1> QED BY <1>1, <1>2, <1>3, ReceivedFacts

\* A frame is passed on by bridge_loop.
LEMMA ForwardStep ==
  ASSUME BridgeInv, pc = "poll", Attach!Incoming # <<>>, Attach!Received, NEW next \in {"wake", "poll"},
         Attach!Forward(Head(Attach!Incoming), next),
         UNCHANGED <<got, keys, reader, cmds, wake, batch, ctl, shut, up, leader, outs, typed,
                     applied, gone, answers, attach_stale, swallowed>>
  PROVE  BridgeInv'
<1> DEFINE f == Head(Attach!Incoming)
<1>1. pend \in Seq(Down) /\ down \in Seq(Down) /\ pend' \in Seq(Down) /\ down' \in Seq(Down)
  BY ReceivedFacts DEF BridgeInv, BridgeTypeOK
<1>2. f.kind = "notify" => f.n \in {0, 1} /\ Attach!Flag(f.n = 1) = f.n
  BY NotifyFlag
<1>3. \A k : (~Has(pend, k) => ~Has(pend', k)) /\ (~Has(down, k) => ~Has(down', k))
  BY <1>1, ReceivedKinds
<1>4. Attach!Forward(f, next)
  OBVIOUS
<1>5. pc' \in {"wake", "poll", "done"}
  BY <1>4 DEF Attach!Forward, Attach!Inform, Attach!Emit
<1>6. shown' = IF f.kind = "notify" THEN f.n ELSE shown
  BY <1>2, <1>4 DEF Attach!Forward, Attach!Inform
<1>7. lead' \in BOOLEAN
  <2>1. lead \in BOOLEAN
    BY DEF BridgeInv, BridgeTypeOK
  <2> QED BY <1>4, <2>1 DEF Attach!Forward
<1> HIDE DEF f
<1>8. BridgeTypeOK'
  <2>1. shown' \in {0, 1, 2}
    BY <1>2, <1>6 DEF BridgeInv, BridgeTypeOK
  <2>2. pc' \in {"connect", "poll", "wake", "drain", "ack", "controls", "resize", "lead", "done"}
    BY <1>5
  <2> QED BY <1>1, <1>7, <2>1, <2>2 DEF BridgeInv, BridgeTypeOK
<1>9. CommandsOK'
  BY CommandsKept DEF BridgeInv
<1>10. BytesOK'
  BY <1>3, BytesMoved DEF BridgeInv
<1>11. RequestsOK'
  BY <1>5, RequestsKept DEF BridgeInv
<1>12. AwaitedOK'
  <2>1. Clear(up, down) => Clear(up', down')
    BY <1>3 DEF Clear
  <2> QED BY <1>3, <1>5, <2>1, AwaitedMoved DEF BridgeInv
<1>13. NotifiedOK'
  BY <1>1, <1>5, <1>6, NotifiedRead DEF BridgeInv, f
<1> QED BY <1>8, <1>9, <1>10, <1>11, <1>12, <1>13 DEF BridgeInv

\* A step from connecting or from poll.
LEMMA PollStep ==
  ASSUME BridgeInv, Attach!Connect \/ Attach!ConnectFails
                    \/ Attach!PollFrame \/ Attach!PollHangup \/ Attach!PollWake
  PROVE  BridgeInv'
<1>1. CASE Attach!Connect
  <2>1. /\ pc = "connect" /\ pc' \in {"poll", "done"} /\ shown' = Attach!Flag(leader) /\ lead' = leader
        /\ UNCHANGED <<got, keys, reader, cmds, wake, batch, ctl, shut, pend, up, down, leader,
                       outs, typed, applied, gone, answers, attach_stale, swallowed>>
    BY <1>1 DEF Attach!Connect, Attach!Inform, Attach!Emit, Attach!browser, Attach!turn, Attach!daemon,
       Attach!marks
  <2>2. BridgeTypeOK'
    <3>1. shown' \in {0, 1, 2} /\ lead' \in BOOLEAN
      BY <2>1 DEF Attach!Flag, BridgeInv, BridgeTypeOK
    <3>2. pc' \in {"connect", "poll", "wake", "drain", "ack", "controls", "resize", "lead", "done"}
      BY <2>1
    <3> QED BY <2>1, <3>1, <3>2 DEF BridgeInv, BridgeTypeOK
  <2>3. CommandsOK'
    BY <2>1, CommandsKept DEF BridgeInv
  <2>4. BytesOK'
    BY <2>1, BytesMoved DEF BridgeInv
  <2>5. RequestsOK'
    BY <2>1, RequestsKept DEF BridgeInv
  <2>6. AwaitedOK'
    BY <2>1, AwaitedMoved DEF BridgeInv
  <2>7. NotifiedOK'
    <3>1. up = <<>> /\ down = <<>> /\ pend = <<>>
      BY <2>1 DEF BridgeInv, NotifiedOK
    <3>2. ~Has(down, "notify") /\ ~Has(pend, "notify")
      BY <3>1 DEF Has
    <3>3. Attach!Flag(leader') = Attach!Flag(leader)
      BY <2>1
    <3>4. Shows(down', pend', shown', Attach!Flag(leader'))
      BY <2>1, <3>2, <3>3 DEF Shows
    <3> QED BY <2>1, <3>4 DEF BridgeInv, NotifiedOK
  <2> QED BY <2>2, <2>3, <2>4, <2>5, <2>6, <2>7 DEF BridgeInv
<1>2. CASE Attach!ConnectFails
  <2>1. /\ pc = "connect" /\ pc' = "done"
        /\ UNCHANGED <<got, keys, reader, cmds, wake, batch, ctl, shut, lead, pend, up, down,
                       leader, outs, typed, applied, gone, answers, shown, attach_stale, swallowed>>
    BY <1>2 DEF Attach!ConnectFails, Attach!browser, Attach!turn, Attach!view, Attach!daemon, Attach!told,
       Attach!marks
  <2>2. BridgeTypeOK'
    BY <2>1 DEF BridgeInv, BridgeTypeOK
  <2>3. CommandsOK'
    BY <2>1, CommandsKept DEF BridgeInv
  <2>4. BytesOK'
    BY <2>1, BytesMoved DEF BridgeInv
  <2>5. RequestsOK'
    BY <2>1, RequestsKept DEF BridgeInv
  <2>6. AwaitedOK'
    BY <2>1, AwaitedMoved DEF BridgeInv
  <2>7. NotifiedOK'
    BY <2>1 DEF BridgeInv, NotifiedOK
  <2> QED BY <2>2, <2>3, <2>4, <2>5, <2>6, <2>7 DEF BridgeInv
<1>3. CASE Attach!PollFrame
  <2>1. PICK next \in {"wake", "poll"} : next = IF wake THEN "wake" ELSE "poll"
    OBVIOUS
  <2>2. Attach!Incoming # <<>>
    BY <1>3 DEF Attach!PollFrame, Attach!Incoming, BridgeInv, BridgeTypeOK
  <2>3. /\ pc = "poll" /\ Attach!Received /\ Attach!Forward(Head(Attach!Incoming), next)
        /\ UNCHANGED <<got, keys, reader, cmds, wake, batch, ctl, shut, up, leader, outs, typed,
                       applied, gone, answers, attach_stale, swallowed>>
    BY <1>3, <2>1 DEF Attach!PollFrame, Attach!browser, Attach!turn, Attach!daemon, Attach!marks
  <2> QED BY <2>2, <2>3, ForwardStep
<1>4. CASE Attach!PollHangup /\ pend # <<>>
  <2>1. PICK next \in {"wake", "poll"} : next = IF wake THEN "wake" ELSE "poll"
    OBVIOUS
  <2>2. Attach!Incoming # <<>> /\ Head(Attach!Incoming) = Head(pend)
    BY <1>4 DEF Attach!Incoming, BridgeInv, BridgeTypeOK
  <2>3. /\ pc = "poll" /\ Attach!Forward(Head(pend), next) /\ pend' = Tail(pend) /\ down' = down
        /\ UNCHANGED <<got, keys, reader, cmds, wake, batch, ctl, shut, up, leader, outs, typed,
                       applied, gone, answers, attach_stale, swallowed>>
    BY <1>4, <2>1 DEF Attach!PollHangup, Attach!browser, Attach!turn, Attach!daemon, Attach!marks
  <2>4. Attach!Received /\ Attach!Forward(Head(Attach!Incoming), next)
    BY <1>4, <2>2, <2>3 DEF Attach!Received
  <2> QED BY <2>2, <2>3, <2>4, ForwardStep
<1>5. ASSUME Attach!PollWake \/ (Attach!PollHangup /\ pend = <<>>)
      PROVE  BridgeInv'
  <2>1. /\ pc = "poll" /\ pc' \in {"wake", "done"}
        /\ UNCHANGED <<got, keys, reader, cmds, wake, batch, ctl, shut, lead, pend, up, down,
                       leader, outs, typed, applied, gone, answers, shown, attach_stale, swallowed>>
    BY <1>5 DEF Attach!PollWake, Attach!PollHangup, Attach!browser, Attach!turn, Attach!view, Attach!daemon,
       Attach!told, Attach!marks
  <2>2. BridgeTypeOK'
    <3>1. pc' \in {"connect", "poll", "wake", "drain", "ack", "controls", "resize", "lead", "done"}
      BY <2>1
    <3> QED BY <2>1, <3>1 DEF BridgeInv, BridgeTypeOK
  <2>3. CommandsOK'
    BY <2>1, CommandsKept DEF BridgeInv
  <2>4. BytesOK'
    BY <2>1, BytesMoved DEF BridgeInv
  <2>5. RequestsOK'
    BY <2>1, RequestsKept DEF BridgeInv
  <2>6. AwaitedOK'
    BY <2>1, AwaitedMoved DEF BridgeInv
  <2>7. NotifiedOK'
    BY <2>1, NotifiedMoved DEF BridgeInv
  <2> QED BY <2>2, <2>3, <2>4, <2>5, <2>6, <2>7 DEF BridgeInv
<1> QED BY <1>1, <1>2, <1>3, <1>4, <1>5

-----------------------------------------------------------------------------
(* The steps of the bridge thread: the queue is drained and sent.          *)

\* The wake pipe is emptied; a turn begins.
LEMMA DrainStep ==
  ASSUME BridgeInv, Attach!Drain
  PROVE  BridgeInv'
<1>1. /\ pc = "wake" /\ pc' = "drain" /\ wake' = FALSE
      /\ batch' = <<>> /\ ctl' = <<>> /\ shut' = FALSE
      /\ UNCHANGED <<got, keys, reader, cmds, lead, pend, up, down, leader, outs, typed, applied,
                     gone, answers, shown, attach_stale, swallowed>>
  BY DEF Attach!Drain, Attach!browser, Attach!view, Attach!daemon, Attach!told, Attach!marks
<1>2. BridgeTypeOK'
  <2>1. wake' \in BOOLEAN /\ shut' \in BOOLEAN
    BY <1>1
  <2>2. batch' \in Seq(Nat) /\ ctl' \in Seq(Control)
    BY <1>1
  <2>3. pc' \in {"connect", "poll", "wake", "drain", "ack", "controls", "resize", "lead", "done"}
    BY <1>1
  <2> QED BY <1>1, <2>1, <2>2, <2>3 DEF BridgeInv, BridgeTypeOK
<1>3. CommandsOK'
  BY <1>1 DEF BridgeInv, CommandsOK, Has
<1>4. BytesOK'
  <2>1. batch' = batch
    BY <1>1 DEF BridgeInv, BytesOK
  <2> QED BY <1>1, <2>1, BytesMoved DEF BridgeInv
<1>5. RequestsOK'
  <2>1. DOMAIN ctl' = {}
    BY <1>1
  <2> QED BY <1>1, <2>1 DEF BridgeInv, RequestsOK, InOrder
<1>6. AwaitedOK'
  BY <1>1, AwaitedMoved DEF BridgeInv
<1>7. NotifiedOK'
  BY <1>1, NotifiedMoved DEF BridgeInv
<1> QED BY <1>2, <1>3, <1>4, <1>5, <1>6, <1>7 DEF BridgeInv

\* One command is taken from the channel.
LEMMA TakeCommandStep ==
  ASSUME BridgeInv, Attach!TakeCommand
  PROVE  BridgeInv'
<1>1. PICK c : c = Head(cmds)
  OBVIOUS
<1>2. /\ pc = "drain" /\ cmds # <<>> /\ ~shut /\ cmds' = Tail(cmds)
      /\ batch' = IF c.kind = "bytes" THEN Append(batch, c.n) ELSE batch
      /\ ctl' = IF c.kind \in {"resize", "leader"} THEN Append(ctl, c) ELSE ctl
      /\ shut' = (c.kind = "shutdown")
      /\ UNCHANGED <<got, keys, reader, wake, pc, lead, pend, up, down, leader, outs, typed, applied,
                     gone, answers, shown, attach_stale, swallowed>>
  BY <1>1 DEF Attach!TakeCommand, Attach!browser, Attach!view, Attach!daemon, Attach!told, Attach!marks
<1>3. /\ cmds \in Seq(Cmd) /\ ctl \in Seq(Control) /\ batch \in Seq(Nat) /\ typed \in Seq(Nat)
      /\ keys \in Seq(Nat) /\ got \in Nat
  BY DEF BridgeInv, BridgeTypeOK
<1>4. /\ cmds' \in Seq(Cmd) /\ c \in Cmd /\ c = cmds[1] /\ 1 \in DOMAIN cmds
      /\ \A i \in DOMAIN cmds' : i + 1 \in DOMAIN cmds /\ cmds'[i] = cmds[i + 1] /\ i \in Nat /\ 1 < i + 1
  BY <1>1, <1>2, <1>3, Taken
<1>5. c.n \in Nat /\ (c.kind \in {"resize", "leader"} => c \in Control)
  BY <1>4 DEF Cmd, Control
<1>6. BridgeTypeOK'
  <2>1. batch' \in Seq(Nat)
    BY <1>2, <1>3, <1>5
  <2>2. ctl' \in Seq(Control)
    BY <1>2, <1>3, <1>5
  <2>3. shut' \in BOOLEAN
    BY <1>2
  <2> QED BY <1>2, <1>4, <2>1, <2>2, <2>3 DEF BridgeInv, BridgeTypeOK
<1>7. \A i, j \in DOMAIN cmds' : i < j => i + 1 < j + 1
  BY <1>4
<1>8. CommandsOK'
  <2>1. \A i, j \in DOMAIN cmds' : i < j => cmds'[i].kind # "shutdown"
    BY <1>4, <1>7 DEF BridgeInv, CommandsOK
  <2>2. \A i, j \in DOMAIN cmds' : i < j /\ cmds'[j].kind # "shutdown" => cmds'[i].n < cmds'[j].n
    BY <1>4, <1>7 DEF BridgeInv, CommandsOK
  <2>3. \A i \in DOMAIN cmds' : cmds'[i].kind # "shutdown" => cmds'[i].n <= got
    BY <1>4 DEF BridgeInv, CommandsOK
  <2>4. Has(cmds', "shutdown") => reader = "ended"
    BY <1>4 DEF BridgeInv, CommandsOK, Has
  <2>5. ASSUME shut'
        PROVE  cmds' = <<>> /\ reader = "ended"
    <3>1. c.kind = "shutdown"
      BY <1>2, <2>5
    <3>2. reader = "ended"
      BY <1>4, <3>1 DEF BridgeInv, CommandsOK, Has
    <3>3. DOMAIN cmds' = {}
      BY <1>4, <3>1 DEF BridgeInv, CommandsOK
    <3>4. cmds' = <<>>
      BY <1>4, <3>3
    <3> QED BY <3>2, <3>4
  <2> QED BY <1>2, <2>1, <2>2, <2>3, <2>4, <2>5 DEF BridgeInv, CommandsOK
<1>9. BytesOK'
  <2>1. ~Has(up, "bytes") /\ KeysAre(typed, batch, keys, cmds)
    BY <1>2 DEF BridgeInv, BytesOK
  <2>2. CASE c.kind = "bytes"
    <3>1. /\ \A i, j \in DOMAIN keys : i < j => keys[i] < keys[j]
          /\ \A i, j \in DOMAIN cmds : i < j /\ cmds[j].kind # "shutdown" => cmds[i].n < cmds[j].n
      BY DEF BridgeInv, CommandsOK
    <3>2. KeysAre(typed, Append(batch, c.n), keys, Tail(cmds))
      BY <1>1, <1>2, <1>3, <2>1, <2>2, <3>1, KeyTaken
    <3> QED BY <1>2, <2>1, <2>2, <3>2 DEF BridgeInv, BytesOK
  <2>3. CASE c.kind # "bytes"
    <3>1. KeysAre(typed, batch, keys, Tail(cmds))
      BY <1>1, <1>2, <1>3, <2>1, <2>3, OtherTaken
    <3> QED BY <1>2, <2>1, <2>3, <3>1 DEF BridgeInv, BytesOK
  <2> QED BY <2>2, <2>3
<1>10. RequestsOK'
  <2>1. \A j \in DOMAIN cmds' : cmds'[j].kind # "shutdown" =>
          /\ \A i \in DOMAIN answers : answers[i].n < cmds'[j].n
          /\ \A i \in DOMAIN ctl : ctl[i].n < cmds'[j].n
          /\ c.n < cmds'[j].n
    BY <1>4 DEF BridgeInv, RequestsOK, CommandsOK
  <2>2. CASE c.kind \notin {"resize", "leader"}
    BY <1>2, <2>1, <2>2 DEF BridgeInv, RequestsOK
  <2>3. CASE c.kind \in {"resize", "leader"}
    <3>1. /\ \A i \in DOMAIN answers : answers[i].n < c.n
          /\ \A i \in DOMAIN ctl : ctl[i].n < c.n
          /\ c.n <= got
      BY <1>4, <2>3 DEF BridgeInv, RequestsOK, CommandsOK
    <3>2. InOrder(ctl')
      <4>1. InOrder(ctl) /\ c \in Control
        BY <1>5, <2>3 DEF BridgeInv, RequestsOK
      <4>2. InOrder(Append(ctl, c))
        BY <1>3, <3>1, <4>1, OrderAppended
      <4> QED BY <1>2, <2>3, <4>2
    <3>3. /\ \A i \in DOMAIN ctl' : i \in DOMAIN ctl \/ i = Len(ctl) + 1
          /\ ctl'[Len(ctl) + 1] = c
          /\ \A i \in DOMAIN ctl : ctl'[i] = ctl[i]
      BY <1>2, <1>3, <1>5, <2>3, Appended
    <3>4. \A i \in DOMAIN ctl' : ctl'[i] = c \/ \E k \in DOMAIN ctl : ctl'[i] = ctl[k]
      BY <3>3
    <3>5. \A i \in DOMAIN answers : \A j \in DOMAIN ctl' : answers[i].n < ctl'[j].n
      BY <3>1, <3>4 DEF BridgeInv, RequestsOK
    <3>6. \A i \in DOMAIN ctl' : ctl'[i].n <= got
      BY <3>1, <3>4 DEF BridgeInv, RequestsOK
    <3>7. \A j \in DOMAIN cmds' : cmds'[j].kind # "shutdown" =>
            \A i \in DOMAIN ctl' : ctl'[i].n < cmds'[j].n
      BY <2>1, <3>4
    <3>8. InOrder(answers') /\ pc' \notin {"resize", "lead"}
      BY <1>2 DEF BridgeInv, RequestsOK
    <3> QED BY <1>2, <2>1, <3>2, <3>5, <3>6, <3>7, <3>8 DEF BridgeInv, RequestsOK
  <2> QED BY <2>2, <2>3
<1>11. AwaitedOK'
  BY <1>2, AwaitedMoved DEF BridgeInv
<1>12. NotifiedOK'
  BY <1>2, NotifiedMoved DEF BridgeInv
<1> QED BY <1>6, <1>8, <1>9, <1>10, <1>11, <1>12 DEF BridgeInv

\* What was drained goes out in one frame.
LEMMA SendBatchStep ==
  ASSUME BridgeInv, Attach!SendBatch
  PROVE  BridgeInv'
<1> DEFINE x == Attach!Frame("bytes", batch)
<1>1. /\ pc = "drain" /\ batch' = <<>>
      /\ \/ batch = <<>> /\ pc' = "controls" /\ up' = up
         \/ batch # <<>> /\ pc' = "ack" /\ up' = Append(up, x)
      /\ UNCHANGED <<got, keys, reader, cmds, wake, ctl, shut, lead, pend, down, leader, outs, typed,
                     applied, gone, answers, shown, attach_stale, swallowed>>
  BY DEF Attach!SendBatch, Attach!browser, Attach!view, Attach!daemon, Attach!told, Attach!marks
<1>2. up \in Seq(Up) /\ batch \in Seq(Nat)
  BY DEF BridgeInv, BridgeTypeOK
<1>3. x \in Up /\ x.kind = "bytes" /\ x.n = batch
  BY <1>2 DEF Up, Attach!Frame
<1> HIDE DEF x
<1>4. BridgeTypeOK'
  <2>1. up' \in Seq(Up)
    <3>1. Append(up, x) \in Seq(Up)
      BY <1>2, <1>3
    <3> QED BY <1>1, <1>2, <3>1
  <2>2. pc' \in {"connect", "poll", "wake", "drain", "ack", "controls", "resize", "lead", "done"}
    BY <1>1
  <2>3. batch' \in Seq(Nat)
    BY <1>1
  <2> QED BY <1>1, <2>1, <2>2, <2>3 DEF BridgeInv, BridgeTypeOK
<1>5. CommandsOK'
  BY <1>1, CommandsKept DEF BridgeInv
<1>6. BytesOK'
  <2>1. ~Has(up, "bytes") /\ KeysAre(typed, batch, keys, cmds) /\ ~Has(down, "ack") /\ ~Has(pend, "ack")
    BY <1>1 DEF BridgeInv, BytesOK
  <2>2. CASE batch = <<>>
    BY <1>1, <2>1, <2>2 DEF BridgeInv, BytesOK
  <2>3. CASE batch # <<>>
    <3>1. Has(up', "bytes") /\ Once(up', "bytes")
      <4>1. Once(up, "bytes")
        BY DEF BridgeInv, BytesOK
      <4>2. Has(Append(up, x), "bytes") /\ Once(Append(up, x), "bytes")
        BY <1>2, <1>3, <2>1, <4>1, KindAppended
      <4> QED BY <1>1, <2>3, <4>2
    <3>2. /\ \A i \in DOMAIN up' : i \in DOMAIN up \/ i = Len(up) + 1
          /\ up'[Len(up) + 1] = x
          /\ \A i \in DOMAIN up : up'[i] = up[i]
      BY <1>1, <1>2, <1>3, <2>3, Appended
    <3>3. \A i \in DOMAIN up' : up'[i].kind = "bytes" => up'[i].n = batch
      BY <1>3, <2>1, <3>2 DEF Has
    <3> QED BY <1>1, <2>1, <2>3, <3>1, <3>3 DEF BytesOK
  <2> QED BY <2>2, <2>3
<1>7. RequestsOK'
  BY <1>1, RequestsKept DEF BridgeInv
<1>8. AwaitedOK'
  <2>1. Clear(up, down) => Clear(up', down')
    <3>1. CASE up' = up
      BY <1>1, <3>1
    <3>2. CASE up' = Append(up, x)
      <4>1. /\ Has(up', "resize") <=> Has(up, "resize")
            /\ Has(up', "query") <=> Has(up, "query")
        BY <1>2, <1>3, <3>2, KindAppended
      <4> QED BY <1>1, <4>1 DEF Clear
    <3> QED BY <1>1, <3>1, <3>2
  <2> QED BY <1>1, <2>1, AwaitedMoved DEF BridgeInv
<1>9. NotifiedOK'
  BY <1>1, NotifiedMoved DEF BridgeInv
<1> QED BY <1>4, <1>5, <1>6, <1>7, <1>8, <1>9 DEF BridgeInv

\* The ack comes, or something that is put aside.
LEMMA AwaitAckStep ==
  ASSUME BridgeInv, Attach!AwaitAck
  PROVE  BridgeInv'
<1>1. PICK x : x = Head(down)
  OBVIOUS
<1>2. /\ pc = "ack" /\ down # <<>> /\ down' = Tail(down)
      /\ \/ x.kind = "ack" /\ pc' = "controls" /\ pend' = pend
         \/ x.kind # "ack" /\ pc' = "ack" /\ pend' = Append(pend, x)
      /\ UNCHANGED <<got, keys, reader, cmds, wake, batch, ctl, shut, lead, up, leader, outs, typed,
                     applied, gone, answers, shown, attach_stale, swallowed>>
  BY <1>1 DEF Attach!AwaitAck, Attach!browser, Attach!turn, Attach!view, Attach!daemon, Attach!told,
     Attach!marks
<1>3. down \in Seq(Down) /\ pend \in Seq(Down)
  BY DEF BridgeInv, BridgeTypeOK
<1>4. /\ x \in Down /\ down' \in Seq(Down) /\ x = down[1] /\ 1 \in DOMAIN down
      /\ \A i \in DOMAIN down' : i + 1 \in DOMAIN down /\ down'[i] = down[i + 1]
  BY <1>1, <1>2, <1>3, Taken
<1>5. ASSUME NEW k
      PROVE  /\ Has(down, k) <=> x.kind = k \/ Has(down', k)
             /\ Once(down, k) => Once(down', k) /\ (x.kind = k => ~Has(down', k))
  BY <1>1, <1>2, <1>3, KindTaken
<1>6. ASSUME NEW k
      PROVE  Has(pend', k) => Has(pend, k) \/ (x.kind = k /\ k # "ack")
  <2>1. Has(Append(pend, x), k) <=> Has(pend, k) \/ x.kind = k
    BY <1>3, <1>4, KindAppended
  <2>2. CASE x.kind = "ack" /\ pend' = pend
    BY <2>2
  <2>3. CASE x.kind # "ack" /\ pend' = Append(pend, x)
    BY <2>1, <2>3
  <2> QED BY <1>2, <2>2, <2>3
<1>7. BridgeTypeOK'
  <2>1. pend' \in Seq(Down)
    BY <1>2, <1>3, <1>4
  <2>2. pc' \in {"connect", "poll", "wake", "drain", "ack", "controls", "resize", "lead", "done"}
    BY <1>2
  <2> QED BY <1>2, <1>4, <2>1, <2>2 DEF BridgeInv, BridgeTypeOK
<1>8. CommandsOK'
  BY <1>2, CommandsKept DEF BridgeInv
<1>9. BytesOK'
  <2>1. Has(down, "ack") => ~Has(up, "bytes") /\ Once(down, "ack")
    BY <1>2 DEF BridgeInv, BytesOK
  <2>2. ~Has(pend', "ack")
    BY <1>2, <1>6 DEF BridgeInv, BytesOK
  <2>3. Has(down', "ack") => pc' = "ack" /\ ~Has(up, "bytes") /\ Once(down', "ack")
    BY <1>2, <1>5, <2>1
  <2>4. pc' \notin {"ack", "done"} => ~Has(up, "bytes")
    BY <1>2, <1>5, <2>1
  <2>5. batch = <<>>
    BY <1>2 DEF BridgeInv, BytesOK
  <2> QED BY <1>2, <2>2, <2>3, <2>4, <2>5 DEF BridgeInv, BytesOK
<1>10. RequestsOK'
  BY <1>2, RequestsKept DEF BridgeInv
<1>11. AwaitedOK'
  <2> SUFFICES ASSUME ~attach_stale
               PROVE  ~Has(pend', "status") /\ ~Has(pend', "error") /\ Clear(up', down')
    BY <1>2 DEF AwaitedOK
  <2>1. ~Has(pend, "status") /\ ~Has(pend, "error") /\ Clear(up, down)
    BY <1>2 DEF BridgeInv, AwaitedOK
  <2>2. x.kind \notin {"status", "error"}
    BY <1>5, <2>1 DEF Clear
  <2>3. Clear(up', down')
    BY <1>2, <1>5, <2>1 DEF Clear
  <2> QED BY <1>6, <2>1, <2>2, <2>3
<1>12. NotifiedOK'
  <2>1. \A i \in DOMAIN down' : down'[i].kind = "notify" => down'[i].n \in {0, 1}
    BY <1>4 DEF BridgeInv, NotifiedOK
  <2>2. \A i \in DOMAIN pend' : pend'[i].kind = "notify" => pend'[i].n \in {0, 1}
    <3>1. x.kind = "notify" => x.n \in {0, 1}
      BY <1>4 DEF BridgeInv, NotifiedOK
    <3>2. CASE pend' = pend
      BY <3>2 DEF BridgeInv, NotifiedOK
    <3>3. CASE pend' = Append(pend, x)
      <4>1. /\ \A i \in DOMAIN pend' : i \in DOMAIN pend \/ i = Len(pend) + 1
            /\ pend'[Len(pend) + 1] = x
            /\ \A i \in DOMAIN pend : pend'[i] = pend[i]
        BY <1>3, <1>4, <3>3, Appended
      <4> QED BY <3>1, <4>1 DEF BridgeInv, NotifiedOK
    <3> QED BY <1>2, <3>2, <3>3
  <2>3. ASSUME ~swallowed
        PROVE  Shows(down', pend', shown, Attach!Flag(leader))
    <3>1. PICK v : v = Attach!Flag(leader)
      OBVIOUS
    <3>2. Shows(down, pend, shown, v)
      BY <1>2, <2>3, <3>1 DEF BridgeInv, NotifiedOK
    <3>3. /\ Shows(Tail(down), Append(pend, x), shown, v)
          /\ x.kind # "notify" => Shows(Tail(down), pend, shown, v)
      BY <1>1, <1>2, <1>3, <3>2, ShowsAside
    <3> QED BY <1>2, <3>1, <3>3
  <2>4. Attach!Flag(leader') = Attach!Flag(leader)
    BY <1>2
  <2> QED BY <1>2, <2>1, <2>2, <2>3, <2>4 DEF NotifiedOK
<1> QED BY <1>7, <1>8, <1>9, <1>10, <1>11, <1>12 DEF BridgeInv

\* The ack never comes, or the controls of a turn are done.
LEMMA TurnEndsStep ==
  ASSUME BridgeInv, Attach!AckFails \/ Attach!TurnDone
  PROVE  BridgeInv'
<1>1. /\ pc' \in {"poll", "done"} /\ (pc = "ack" => pc' = "done")
      /\ pc \in {"ack", "controls"}
      /\ UNCHANGED <<got, keys, reader, cmds, wake, batch, ctl, shut, lead, pend, up, down,
                     leader, outs, typed, applied, gone, answers, shown, attach_stale, swallowed>>
  BY DEF Attach!AckFails, Attach!TurnDone, Attach!browser, Attach!turn, Attach!view, Attach!daemon,
     Attach!told, Attach!marks
<1>2. BridgeTypeOK'
  <2>1. pc' \in {"connect", "poll", "wake", "drain", "ack", "controls", "resize", "lead", "done"}
    BY <1>1
  <2> QED BY <1>1, <2>1 DEF BridgeInv, BridgeTypeOK
<1>3. CommandsOK'
  BY <1>1, CommandsKept DEF BridgeInv
<1>4. BytesOK'
  BY <1>1 DEF BridgeInv, BytesOK
<1>5. RequestsOK'
  BY <1>1, RequestsKept DEF BridgeInv
<1>6. AwaitedOK'
  BY <1>1, AwaitedMoved DEF BridgeInv
<1>7. NotifiedOK'
  BY <1>1, NotifiedMoved DEF BridgeInv
<1> QED BY <1>2, <1>3, <1>4, <1>5, <1>6, <1>7 DEF BridgeInv

-----------------------------------------------------------------------------
(* The steps of the bridge thread: the controls.                           *)

\* The first control is answered.
LEMMA RequestAnswered ==
  ASSUME BridgeInv, ctl # <<>>, NEW ok \in BOOLEAN, NEW from \in {"controls", "resize", "lead"},
         answers' = Append(answers, Attach!Result(Head(ctl).n, ok, from)), ctl' = Tail(ctl),
         UNCHANGED <<cmds, got, applied>>, pc' \notin {"resize", "lead"}, ~attach_stale' => ~attach_stale,
         ok /\ from = "resize" /\ ~attach_stale' => Head(ctl).n \in applied
  PROVE  RequestsOK' /\ answers' \in Seq(Told) /\ ctl' \in Seq(Control)
<1>1. PICK c : c = Head(ctl)
  OBVIOUS
<1>2. PICK a : a = Attach!Result(c.n, ok, from)
  OBVIOUS
<1>3. answers \in Seq(Told) /\ ctl \in Seq(Control)
  BY DEF BridgeInv, BridgeTypeOK
<1>4. /\ ctl' \in Seq(Control) /\ c \in Control /\ c = ctl[1] /\ 1 \in DOMAIN ctl
      /\ \A i \in DOMAIN ctl' : i + 1 \in DOMAIN ctl /\ ctl'[i] = ctl[i + 1]
  BY <1>1, <1>3, Taken
<1>5. a \in Told /\ a.n = c.n /\ a.ok = ok /\ a.from = from
  BY <1>2, <1>4 DEF Told, Control, Attach!Result
<1>6. /\ answers' \in Seq(Told) /\ answers' = Append(answers, a)
      /\ \A i \in DOMAIN answers' : i \in DOMAIN answers \/ i = Len(answers) + 1
      /\ answers'[Len(answers) + 1] = a
      /\ \A i \in DOMAIN answers : answers'[i] = answers[i]
  BY <1>1, <1>2, <1>3, <1>5, Appended
<1>7. \A i \in DOMAIN answers' : answers'[i] = a \/ \E k \in DOMAIN answers : answers'[i] = answers[k]
  BY <1>6
<1>8. InOrder(ctl') /\ \A i \in DOMAIN ctl' : c.n < ctl'[i].n
  BY <1>1, <1>3, OrderTaken DEF BridgeInv, RequestsOK
<1>9. InOrder(answers')
  <2>1. \A i \in DOMAIN answers : answers[i].n < a.n
    BY <1>4, <1>5 DEF BridgeInv, RequestsOK
  <2>2. InOrder(Append(answers, a))
    BY <1>3, <1>5, <2>1, OrderAppended DEF BridgeInv, RequestsOK
  <2> QED BY <1>6, <2>2
<1>10. \A i \in DOMAIN answers' : \A j \in DOMAIN ctl' : answers'[i].n < ctl'[j].n
  BY <1>4, <1>5, <1>7, <1>8 DEF BridgeInv, RequestsOK
<1>11. \A j \in DOMAIN cmds : cmds[j].kind # "shutdown" =>
         /\ \A i \in DOMAIN answers' : answers'[i].n < cmds[j].n
         /\ \A i \in DOMAIN ctl' : ctl'[i].n < cmds[j].n
  BY <1>4, <1>5, <1>7 DEF BridgeInv, RequestsOK
<1>12. /\ \A i \in DOMAIN answers' : answers'[i].n <= got
       /\ \A i \in DOMAIN ctl' : ctl'[i].n <= got
  BY <1>4, <1>5, <1>7 DEF BridgeInv, RequestsOK
<1>13. ASSUME ~attach_stale', NEW i \in DOMAIN answers', answers'[i].ok, answers'[i].from = "resize"
       PROVE  answers'[i].n \in applied
  BY <1>1, <1>5, <1>7, <1>13 DEF BridgeInv, RequestsOK
<1> QED BY <1>4, <1>6, <1>8, <1>9, <1>10, <1>11, <1>12, <1>13 DEF RequestsOK

\* An exchange sends no bytes.
LEMMA ExchangeKinds ==
  ASSUME NEW u \in Seq(Up), NEW g \in Nat, ~Has(u, "bytes")
  PROVE  u \o Attach!Exchange(g) \in Seq(Up) /\ ~Has(u \o Attach!Exchange(g), "bytes")
<1> DEFINE x == Attach!Frame("resize", g)
           y == Attach!Frame("query", 0)
           u1 == Append(u, x)
<1>1. x \in Up /\ y \in Up /\ x.kind # "bytes" /\ y.kind # "bytes"
  BY DEF Up, Attach!Frame
<1>2. u \o Attach!Exchange(g) = Append(u1, y)
  BY <1>1, Pair DEF Attach!Exchange
<1> HIDE DEF x, y
<1>3. u1 \in Seq(Up) /\ ~Has(u1, "bytes")
  BY <1>1, KindAppended
<1> HIDE DEF u1
<1>4. Append(u1, y) \in Seq(Up) /\ ~Has(Append(u1, y), "bytes")
  BY <1>1, <1>3, KindAppended
<1> QED BY <1>2, <1>4

\* What Answered does.
LEMMA AnsweredFacts ==
  ASSUME BridgeInv, ctl # <<>>, pc \in {"controls", "resize", "lead"}, NEW ok \in BOOLEAN,
         Attach!Answered(ok),
         UNCHANGED <<cmds, got, applied>>, ~attach_stale' => ~attach_stale,
         ok /\ pc = "resize" /\ ~attach_stale' => Head(ctl).n \in applied
  PROVE  /\ pc' \in {"controls", "done"} /\ RequestsOK'
         /\ answers' \in Seq(Told) /\ ctl' \in Seq(Control)
<1>1. pc' \in {"controls", "done"}
  BY DEF Attach!Answered, Attach!Emit
<1>2. PICK from \in {"controls", "resize", "lead"} : from = pc
  OBVIOUS
<1>3. answers' = Append(answers, Attach!Result(Head(ctl).n, ok, from)) /\ ctl' = Tail(ctl)
  BY <1>2 DEF Attach!Answered
<1> QED BY <1>1, <1>2, <1>3, RequestAnswered

\* A resize is refused or sent.
LEMMA BeginResizeStep ==
  ASSUME BridgeInv, NEW empty \in BOOLEAN, Attach!BeginResize(empty)
  PROVE  BridgeInv'
<1>1. /\ pc = "controls" /\ ctl # <<>>
      /\ UNCHANGED <<got, keys, reader, cmds, wake, batch, shut, lead, pend, down, leader, outs,
                     typed, applied, gone, shown, attach_stale, swallowed>>
  BY DEF Attach!BeginResize, Attach!browser, Attach!daemon, Attach!marks
<1>2. CommandsOK'
  BY <1>1, CommandsKept DEF BridgeInv
<1>3. ~Has(up, "bytes")
  BY <1>1 DEF BridgeInv, BytesOK
<1>4. CASE Attach!Answered(FALSE) /\ up' = up
  <2>1. /\ pc' \in {"controls", "done"} /\ RequestsOK'
        /\ answers' \in Seq(Told) /\ ctl' \in Seq(Control)
    BY <1>1, <1>4, AnsweredFacts
  <2>2. BridgeTypeOK'
    <3>1. pc' \in {"connect", "poll", "wake", "drain", "ack", "controls", "resize", "lead", "done"}
      BY <2>1
    <3> QED BY <1>1, <1>4, <2>1, <3>1 DEF BridgeInv, BridgeTypeOK
  <2>3. BytesOK'
    BY <1>1, <1>4, BytesMoved DEF BridgeInv
  <2>4. AwaitedOK'
    BY <1>1, <1>4, <2>1, AwaitedMoved DEF BridgeInv
  <2>5. NotifiedOK'
    BY <1>1, <2>1, NotifiedMoved DEF BridgeInv
  <2> QED BY <1>2, <2>1, <2>2, <2>3, <2>4, <2>5 DEF BridgeInv
<1>5. CASE /\ up' = up \o Attach!Exchange(Head(ctl).n) /\ pc' = "resize" /\ UNCHANGED <<ctl, answers>>
  <2>1. PICK g : g = Head(ctl).n
    OBVIOUS
  <2>2. g \in Nat /\ g = ctl[1].n
    <3>1. Head(ctl) \in Control /\ Head(ctl) = ctl[1]
      BY <1>1, Taken DEF BridgeInv, BridgeTypeOK
    <3> QED BY <2>1, <3>1 DEF Control
  <2>3. up' \in Seq(Up) /\ ~Has(up', "bytes")
    <3>1. up' = up \o Attach!Exchange(g)
      BY <1>5, <2>1
    <3>2. up \o Attach!Exchange(g) \in Seq(Up) /\ ~Has(up \o Attach!Exchange(g), "bytes")
      BY <1>3, <2>2, ExchangeKinds DEF BridgeInv, BridgeTypeOK
    <3> QED BY <3>1, <3>2
  <2>4. BridgeTypeOK'
    BY <1>1, <1>5, <2>3 DEF BridgeInv, BridgeTypeOK
  <2>5. BytesOK'
    BY <1>1, <2>3, BytesMoved DEF BridgeInv
  <2>6. RequestsOK'
    BY <1>1, <1>5, RequestsKept DEF BridgeInv
  <2>7. AwaitedOK'
    <3> SUFFICES ASSUME ~attach_stale
                 PROVE  /\ ~Has(pend, "status") /\ ~Has(pend, "error")
                        /\ ExchangeOK(up', down, applied, g)
      BY <1>1, <1>5, <2>2 DEF AwaitedOK
    <3>1. ~Has(pend, "status") /\ ~Has(pend, "error") /\ Clear(up, down)
      BY <1>1 DEF BridgeInv, AwaitedOK
    <3>2. up \in Seq(Up) /\ down \in Seq(Down)
      BY DEF BridgeInv, BridgeTypeOK
    <3>3. ExchangeOK(up \o Attach!Exchange(g), down, applied, g)
      BY <2>2, <3>1, <3>2, ExchangeBegun
    <3> QED BY <1>5, <2>1, <3>1, <3>3
  <2>8. NotifiedOK'
    BY <1>1, <1>5, NotifiedMoved DEF BridgeInv
  <2> QED BY <1>2, <2>4, <2>5, <2>6, <2>7, <2>8 DEF BridgeInv
<1> QED BY <1>4, <1>5 DEF Attach!BeginResize

\* leader_on_connection asks.
LEMMA BeginLeaderStep ==
  ASSUME BridgeInv, Attach!BeginLeader
  PROVE  BridgeInv'
<1> DEFINE x == Attach!Frame("leader", 0)
<1>1. /\ pc = "controls" /\ ctl # <<>> /\ up' = Append(up, x) /\ pc' = "lead"
      /\ UNCHANGED <<got, keys, reader, cmds, wake, batch, ctl, shut, lead, pend, down, leader, outs,
                     typed, applied, gone, answers, shown, attach_stale, swallowed>>
  BY DEF Attach!BeginLeader, Attach!browser, Attach!turn, Attach!view, Attach!daemon, Attach!told,
     Attach!marks
<1>2. up \in Seq(Up)
  BY DEF BridgeInv, BridgeTypeOK
<1>3. x \in Up /\ x.kind = "leader"
  BY DEF Up, Attach!Frame
<1> HIDE DEF x
<1>4. /\ Has(up', "bytes") <=> Has(up, "bytes")
      /\ Has(up', "resize") <=> Has(up, "resize")
      /\ Has(up', "query") <=> Has(up, "query")
      /\ up' \in Seq(Up)
  BY <1>1, <1>2, <1>3, KindAppended
<1>5. BridgeTypeOK'
  BY <1>1, <1>4 DEF BridgeInv, BridgeTypeOK
<1>6. CommandsOK'
  BY <1>1, CommandsKept DEF BridgeInv
<1>7. BytesOK'
  BY <1>1, <1>4, BytesMoved DEF BridgeInv
<1>8. RequestsOK'
  BY <1>1, RequestsKept DEF BridgeInv
<1>9. AwaitedOK'
  <2>1. Clear(up, down) => Clear(up', down')
    BY <1>1, <1>4 DEF Clear
  <2> QED BY <1>1, <2>1, AwaitedMoved DEF BridgeInv
<1>10. NotifiedOK'
  BY <1>1, NotifiedMoved DEF BridgeInv
<1> QED BY <1>5, <1>6, <1>7, <1>8, <1>9, <1>10 DEF BridgeInv

\* Nothing came: the request is answered with a failure.
LEMMA FailsStep ==
  ASSUME BridgeInv, Attach!ResizeFails \/ Attach!LeaderFails
  PROVE  BridgeInv'
<1>1. /\ pc \in {"resize", "lead"} /\ Attach!Answered(FALSE)
      /\ attach_stale' \in BOOLEAN /\ (~attach_stale' => ~attach_stale /\ pc = "lead")
      /\ UNCHANGED <<got, keys, reader, cmds, wake, batch, shut, lead, pend, up, down, leader, outs,
                     typed, applied, gone, shown, swallowed>>
  <2>1. attach_stale \in BOOLEAN
    BY DEF BridgeInv, BridgeTypeOK
  <2>2. CASE Attach!ResizeFails
    <3>1. /\ pc = "resize" /\ Attach!Answered(FALSE) /\ attach_stale' = TRUE
          /\ UNCHANGED <<got, keys, reader, cmds, wake, batch, shut, lead, pend, up, down, leader, outs,
                         typed, applied, gone, shown, swallowed>>
      BY <2>2 DEF Attach!ResizeFails, Attach!browser, Attach!view, Attach!daemon
    <3>2. attach_stale' \in BOOLEAN /\ (~attach_stale' => ~attach_stale /\ pc = "lead")
      BY <3>1
    <3> QED BY <3>1, <3>2
  <2>3. CASE Attach!LeaderFails
    <3>1. /\ pc = "lead" /\ Attach!Answered(FALSE) /\ attach_stale' = attach_stale
          /\ UNCHANGED <<got, keys, reader, cmds, wake, batch, shut, lead, pend, up, down, leader, outs,
                         typed, applied, gone, shown, swallowed>>
      BY <2>3 DEF Attach!LeaderFails, Attach!browser, Attach!view, Attach!daemon, Attach!marks
    <3> QED BY <2>1, <3>1
  <2> QED BY <2>2, <2>3
<1>2. ctl # <<>>
  BY <1>1 DEF BridgeInv, RequestsOK
<1>3. /\ pc' \in {"controls", "done"} /\ RequestsOK'
      /\ answers' \in Seq(Told) /\ ctl' \in Seq(Control)
  BY <1>1, <1>2, AnsweredFacts
<1>4. BridgeTypeOK'
  <2>1. pc' \in {"connect", "poll", "wake", "drain", "ack", "controls", "resize", "lead", "done"}
    BY <1>3
  <2> QED BY <1>1, <1>3, <2>1 DEF BridgeInv, BridgeTypeOK
<1>5. CommandsOK'
  BY <1>1, CommandsKept DEF BridgeInv
<1>6. BytesOK'
  BY <1>1, BytesMoved DEF BridgeInv
<1>7. AwaitedOK'
  <2>1. CASE attach_stale'
    BY <2>1 DEF AwaitedOK
  <2>2. CASE ~attach_stale'
    BY <1>1, <1>3, <2>2, AwaitedMoved DEF BridgeInv
  <2> QED BY <2>1, <2>2
<1>8. NotifiedOK'
  BY <1>1, <1>3, NotifiedMoved DEF BridgeInv
<1> QED BY <1>3, <1>4, <1>5, <1>6, <1>7, <1>8 DEF BridgeInv

\* A frame while the resize is awaited.
LEMMA AwaitResizeStep ==
  ASSUME BridgeInv, Attach!AwaitResize
  PROVE  BridgeInv'
<1>1. PICK f : f = Head(Attach!Incoming)
  OBVIOUS
<1>2. PICK g : g = Head(ctl).n
  OBVIOUS
<1>3. /\ pc = "resize" /\ Attach!Incoming # <<>> /\ Attach!Received
      /\ attach_stale' = (attach_stale \/ f.kind = "error") /\ swallowed' = (swallowed \/ f.kind = "notify")
      /\ UNCHANGED <<got, keys, reader, cmds, wake, batch, shut, lead, up, leader, outs,
                     typed, applied, gone, shown>>
  BY <1>1 DEF Attach!AwaitResize, Attach!browser, Attach!view, Attach!daemon
<1>4. /\ pend \in Seq(Down) /\ down \in Seq(Down) /\ up \in Seq(Up)
      /\ pend' \in Seq(Down) /\ down' \in Seq(Down) /\ ctl # <<>> /\ g = ctl[1].n
  <2>1. ctl # <<>> /\ ctl \in Seq(Control)
    BY <1>3 DEF BridgeInv, BridgeTypeOK, RequestsOK
  <2>2. Head(ctl) = ctl[1]
    BY <2>1
  <2> QED BY <1>2, <1>3, <2>1, <2>2, ReceivedFacts DEF BridgeInv, BridgeTypeOK
<1>5. \A k : (~Has(pend, k) => ~Has(pend', k)) /\ (~Has(down, k) => ~Has(down', k))
  BY <1>3, <1>4, ReceivedKinds
<1>6. /\ attach_stale' \in BOOLEAN /\ swallowed' \in BOOLEAN
      /\ (~attach_stale' => ~attach_stale /\ f.kind # "error")
      /\ (~swallowed' => ~swallowed /\ f.kind # "notify")
  BY <1>3 DEF BridgeInv, BridgeTypeOK
<1>7. \/ f.kind = "status" /\ Attach!Answered(TRUE)
      \/ f.kind = "error" /\ Attach!Answered(FALSE)
      \/ /\ f.kind \notin {"status", "error"} /\ pc' \in {"resize", "done"}
         /\ UNCHANGED <<ctl, answers>>
  BY <1>1, <1>3 DEF Attach!AwaitResize, Attach!Flushed, Attach!Emit
<1>8. \/ pend # <<>> /\ f = Head(pend) /\ pend' = Tail(pend) /\ down' = down
      \/ pend = <<>> /\ down # <<>> /\ f = Head(down) /\ down' = Tail(down) /\ pend' = pend
  BY <1>1, <1>3, <1>4, ReceivedFacts
<1>9. CommandsOK'
  BY <1>3, CommandsKept DEF BridgeInv
<1>10. BytesOK'
  BY <1>3, <1>5, BytesMoved DEF BridgeInv
<1>11. NotifiedOK'
  <2>1. pc' # "connect"
    BY <1>7 DEF Attach!Answered, Attach!Emit
  <2>2. ~swallowed' => /\ ~swallowed
                       /\ shown' = IF Head(Attach!Incoming).kind = "notify"
                                   THEN Head(Attach!Incoming).n ELSE shown
    BY <1>1, <1>3, <1>6
  <2> QED BY <1>3, <1>4, <2>1, <2>2, NotifiedRead DEF BridgeInv
<1>12. ASSUME ~attach_stale
       PROVE  /\ ~Has(pend, "status") /\ ~Has(pend, "error") /\ ExchangeOK(up, down, applied, g)
              /\ ~Has(pend', "status") /\ ~Has(pend', "error")
              /\ f.kind = "status" => Clear(up, down') /\ g \in applied
              /\ f.kind \notin {"status", "error"} => ExchangeOK(up, down', applied, g)
  <2>1. ~Has(pend, "status") /\ ~Has(pend, "error") /\ ExchangeOK(up, down, applied, g)
    BY <1>3, <1>4, <1>12 DEF BridgeInv, AwaitedOK
  <2>2. ~Has(pend', "status") /\ ~Has(pend', "error")
    BY <1>5, <2>1
  <2>3. CASE pend # <<>> /\ f = Head(pend) /\ pend' = Tail(pend) /\ down' = down
    <3>1. f = pend[1] /\ 1 \in DOMAIN pend
      BY <1>4, <2>3, Taken
    <3>2. f.kind # "status"
      BY <2>1, <3>1 DEF Has
    <3> QED BY <2>1, <2>2, <2>3, <3>2
  <2>4. CASE pend = <<>> /\ down # <<>> /\ f = Head(down) /\ down' = Tail(down) /\ pend' = pend
    <3>1. f.kind = "status" => Clear(up, Tail(down)) /\ g \in applied
      BY <1>4, <2>1, <2>4, ExchangeEnded
    <3>2. f.kind \notin {"status", "error"} => ExchangeOK(up, Tail(down), applied, g)
      BY <1>4, <2>1, <2>4, ExchangeSkipped
    <3> QED BY <2>1, <2>2, <2>4, <3>1, <3>2
  <2> QED BY <1>8, <2>3, <2>4
<1>13. CASE f.kind \in {"status", "error"}
  <2>1. PICK ok \in BOOLEAN : ok = (f.kind = "status") /\ Attach!Answered(ok)
    BY <1>7, <1>13
  <2>2. ok /\ ~attach_stale' => g \in applied
    BY <1>6, <1>12, <2>1
  <2>3. /\ pc' \in {"controls", "done"} /\ RequestsOK'
        /\ answers' \in Seq(Told) /\ ctl' \in Seq(Control)
    BY <1>2, <1>3, <1>4, <1>6, <2>1, <2>2, AnsweredFacts
  <2>4. BridgeTypeOK'
    <3>1. pc' \in {"connect", "poll", "wake", "drain", "ack", "controls", "resize", "lead", "done"}
      BY <2>3
    <3> QED BY <1>3, <1>4, <1>6, <2>3, <3>1 DEF BridgeInv, BridgeTypeOK
  <2>5. AwaitedOK'
    BY <1>3, <1>6, <1>12, <1>13, <2>3 DEF AwaitedOK
  <2> QED BY <1>9, <1>10, <1>11, <2>3, <2>4, <2>5 DEF BridgeInv
<1>14. CASE /\ f.kind \notin {"status", "error"} /\ pc' \in {"resize", "done"}
            /\ UNCHANGED <<ctl, answers>>
  <2>1. BridgeTypeOK'
    <3>1. pc' \in {"connect", "poll", "wake", "drain", "ack", "controls", "resize", "lead", "done"}
      BY <1>14
    <3> QED BY <1>3, <1>4, <1>6, <1>14, <3>1 DEF BridgeInv, BridgeTypeOK
  <2>2. RequestsOK'
    BY <1>3, <1>4, <1>6, <1>14, RequestsKept DEF BridgeInv
  <2>3. AwaitedOK'
    BY <1>3, <1>4, <1>6, <1>12, <1>14 DEF AwaitedOK
  <2> QED BY <1>9, <1>10, <1>11, <2>1, <2>2, <2>3 DEF BridgeInv
<1> QED BY <1>7, <1>13, <1>14

\* A frame while the role is awaited.
LEMMA AwaitLeaderStep ==
  ASSUME BridgeInv, Attach!AwaitLeader
  PROVE  BridgeInv'
<1>1. PICK f : f = Head(Attach!Incoming)
  OBVIOUS
<1>2. PICK g : g = Head(ctl).n
  OBVIOUS
<1>3. /\ pc = "lead" /\ Attach!Incoming # <<>> /\ Attach!Received
      /\ UNCHANGED <<got, keys, reader, cmds, wake, batch, shut, leader, outs, typed, applied, gone,
                     attach_stale, swallowed>>
  BY DEF Attach!AwaitLeader, Attach!browser, Attach!daemon, Attach!marks
<1>4. /\ pend \in Seq(Down) /\ down \in Seq(Down) /\ up \in Seq(Up)
      /\ pend' \in Seq(Down) /\ down' \in Seq(Down) /\ ctl # <<>>
      /\ lead \in BOOLEAN /\ shown \in {0, 1, 2}
  BY <1>3, ReceivedFacts DEF BridgeInv, BridgeTypeOK, RequestsOK
<1>5. g \in Nat
  <2>1. Head(ctl) \in Control
    BY <1>4 DEF BridgeInv, BridgeTypeOK
  <2> QED BY <1>2, <2>1 DEF Control
<1>6. \A k : (~Has(pend, k) => ~Has(pend', k)) /\ (~Has(down, k) => ~Has(down', k))
  BY <1>3, <1>4, ReceivedKinds
<1>7. f.kind = "notify" => f.n \in {0, 1}
  BY <1>1, <1>3, NotifyFlag
<1>8. /\ lead' \in BOOLEAN /\ shown' = IF f.kind = "notify" THEN f.n ELSE shown
      /\ \/ /\ up' = up /\ UNCHANGED <<ctl, answers>> /\ pc' \in {"lead", "done"}
         \/ up' = up /\ \E ok \in BOOLEAN : Attach!Answered(ok)
         \/ up' = up \o Attach!Exchange(g) /\ UNCHANGED <<ctl, answers>> /\ pc' \in {"resize", "done"}
  <2>1. CASE f.kind = "notify" /\ f.n = 0
    <3>1. f.n # 1 /\ f.kind # "error" /\ f.kind # "out"
      BY <2>1
    <3>2. lead' = FALSE /\ Attach!Inform(FALSE, "lead") /\ UNCHANGED <<ctl, up, answers>>
      BY <1>1, <2>1, <3>1, Zenon DEF Attach!AwaitLeader
    <3>3. shown' = 0 /\ pc' \in {"lead", "done"}
      BY <3>2 DEF Attach!Inform, Attach!Emit, Attach!Flag
    <3> QED BY <2>1, <3>2, <3>3
  <2>2. CASE f.kind = "notify" /\ f.n = 1
    <3>1. f.n # 0 /\ f.kind # "error" /\ f.kind # "out"
      BY <2>2
    <3>2. /\ lead' = TRUE /\ shown' = 1
          /\ \/ Attach!Answered(TRUE) /\ up' = up
             \/ Attach!Emit("resize") /\ up' = up \o Attach!Exchange(g) /\ UNCHANGED <<ctl, answers>>
      BY <1>1, <1>2, <2>2, <3>1, Zenon DEF Attach!AwaitLeader
    <3> QED BY <2>2, <3>2 DEF Attach!Emit
  <2>3. CASE f.kind = "error"
    <3>1. Attach!Answered(FALSE) /\ UNCHANGED <<lead, up, shown>>
      BY <1>1, <2>3 DEF Attach!AwaitLeader
    <3> QED BY <1>4, <2>3, <3>1
  <2>4. CASE f.kind \notin {"notify", "error"}
    <3>1. pc' \in {"lead", "done"} /\ UNCHANGED <<lead, ctl, up, shown, answers>>
      BY <1>1, <1>3, <2>4 DEF Attach!AwaitLeader, Attach!Flushed, Attach!Emit, Attach!told
    <3> QED BY <1>4, <2>4, <3>1
  <2> QED BY <1>7, <2>1, <2>2, <2>3, <2>4
<1>9. shown' \in {0, 1, 2}
  BY <1>4, <1>7, <1>8
<1>10. CommandsOK'
  BY <1>3, CommandsKept DEF BridgeInv
<1>11. ~Has(up, "bytes")
  BY <1>3 DEF BridgeInv, BytesOK
<1>12. pc' # "connect"
  BY <1>8 DEF Attach!Answered, Attach!Emit
<1>13. NotifiedOK'
  BY <1>1, <1>3, <1>4, <1>8, <1>12, NotifiedRead DEF BridgeInv
<1>14. ASSUME ~attach_stale
       PROVE  ~Has(pend', "status") /\ ~Has(pend', "error") /\ Clear(up, down')
  <2>1. ~Has(pend, "status") /\ ~Has(pend, "error") /\ Clear(up, down)
    BY <1>3, <1>14 DEF BridgeInv, AwaitedOK
  <2> QED BY <1>6, <2>1 DEF Clear
<1>15. CASE up' = up /\ UNCHANGED <<ctl, answers>> /\ pc' \in {"lead", "done"}
  <2>1. BridgeTypeOK'
    <3>1. pc' \in {"connect", "poll", "wake", "drain", "ack", "controls", "resize", "lead", "done"}
      BY <1>15
    <3> QED BY <1>3, <1>4, <1>8, <1>9, <1>15, <3>1 DEF BridgeInv, BridgeTypeOK
  <2>2. BytesOK'
    BY <1>3, <1>6, <1>15, BytesMoved DEF BridgeInv
  <2>3. RequestsOK'
    BY <1>3, <1>4, <1>15, RequestsKept DEF BridgeInv
  <2>4. AwaitedOK'
    BY <1>3, <1>14, <1>15 DEF AwaitedOK
  <2> QED BY <1>10, <1>13, <2>1, <2>2, <2>3, <2>4 DEF BridgeInv
<1>16. CASE up' = up /\ \E ok \in BOOLEAN : Attach!Answered(ok)
  <2>1. PICK ok \in BOOLEAN : Attach!Answered(ok)
    BY <1>16
  <2>2. /\ pc' \in {"controls", "done"} /\ RequestsOK'
        /\ answers' \in Seq(Told) /\ ctl' \in Seq(Control)
    BY <1>3, <1>4, <2>1, AnsweredFacts
  <2>3. BridgeTypeOK'
    <3>1. pc' \in {"connect", "poll", "wake", "drain", "ack", "controls", "resize", "lead", "done"}
      BY <2>2
    <3> QED BY <1>3, <1>4, <1>8, <1>9, <1>16, <2>2, <3>1 DEF BridgeInv, BridgeTypeOK
  <2>4. BytesOK'
    BY <1>3, <1>6, <1>16, BytesMoved DEF BridgeInv
  <2>5. AwaitedOK'
    BY <1>3, <1>14, <1>16, <2>2 DEF AwaitedOK
  <2> QED BY <1>10, <1>13, <2>2, <2>3, <2>4, <2>5 DEF BridgeInv
<1>17. CASE up' = up \o Attach!Exchange(g) /\ UNCHANGED <<ctl, answers>> /\ pc' \in {"resize", "done"}
  <2>1. up' \in Seq(Up) /\ ~Has(up', "bytes")
    <3>1. up \o Attach!Exchange(g) \in Seq(Up) /\ ~Has(up \o Attach!Exchange(g), "bytes")
      BY <1>4, <1>5, <1>11, ExchangeKinds
    <3> QED BY <1>17, <3>1
  <2>2. BridgeTypeOK'
    <3>1. pc' \in {"connect", "poll", "wake", "drain", "ack", "controls", "resize", "lead", "done"}
      BY <1>17
    <3> QED BY <1>3, <1>4, <1>8, <1>9, <1>17, <2>1, <3>1 DEF BridgeInv, BridgeTypeOK
  <2>3. BytesOK'
    BY <1>3, <1>6, <2>1, BytesMoved DEF BridgeInv
  <2>4. RequestsOK'
    BY <1>3, <1>4, <1>17, RequestsKept DEF BridgeInv
  <2>5. AwaitedOK'
    <3>1. g = ctl[1].n
      BY <1>2, <1>4 DEF BridgeInv, BridgeTypeOK
    <3>2. ASSUME ~attach_stale
          PROVE  ExchangeOK(up', down', applied, g)
      <4>1. PICK d \in Seq(Down) : d = down'
        BY <1>4
      <4>2. Clear(up, d)
        BY <1>14, <3>2, <4>1
      <4>3. ExchangeOK(up \o Attach!Exchange(g), d, applied, g)
        BY <1>4, <1>5, <4>2, ExchangeBegun
      <4> QED BY <1>17, <4>1, <4>3
    <3> QED BY <1>3, <1>14, <1>17, <3>1, <3>2 DEF AwaitedOK
  <2> QED BY <1>10, <1>13, <2>2, <2>3, <2>4, <2>5 DEF BridgeInv
<1> QED BY <1>8, <1>15, <1>16, <1>17

-----------------------------------------------------------------------------
(* BridgeFaithful holds of the specification.                              *)

\* The attach begins with nothing on its way.
LEMMA BridgeInit == Attach!Init => BridgeInv
<1> SUFFICES ASSUME Attach!Init PROVE BridgeInv
  OBVIOUS
<1>1. BridgeTypeOK
  <2>1. /\ got \in Nat /\ keys \in Seq(Nat) /\ typed \in Seq(Nat) /\ batch \in Seq(Nat)
        /\ outs \in Nat
    BY DEF Attach!Init
  <2>2. reader \in {"run", "ended"} /\ shown \in {0, 1, 2} /\ pc = "connect"
    BY DEF Attach!Init
  <2>3. wake \in BOOLEAN /\ shut \in BOOLEAN
    BY DEF Attach!Init
  <2>4. lead \in BOOLEAN /\ leader \in BOOLEAN /\ gone \in BOOLEAN
    BY DEF Attach!Init
  <2>5. attach_stale \in BOOLEAN /\ swallowed \in BOOLEAN
    BY DEF Attach!Init
  <2>6. cmds \in Seq(Cmd) /\ ctl \in Seq(Control) /\ answers \in Seq(Told)
    BY DEF Attach!Init
  <2>7. up \in Seq(Up) /\ down \in Seq(Down) /\ pend \in Seq(Down)
    BY DEF Attach!Init
  <2> QED BY <2>1, <2>2, <2>3, <2>4, <2>5, <2>6, <2>7 DEF BridgeTypeOK
<1>2. /\ DOMAIN keys = {} /\ DOMAIN cmds = {} /\ DOMAIN up = {} /\ DOMAIN down = {} /\ DOMAIN pend = {}
      /\ DOMAIN ctl = {} /\ DOMAIN answers = {}
      /\ Len(typed) = 0 /\ Len(batch) = 0 /\ Len(keys) = 0
  BY DEF Attach!Init
<1>3. CommandsOK
  BY <1>2 DEF Attach!Init, CommandsOK, Has
<1>4. KeysAre(typed, batch, keys, cmds)
  BY <1>2 DEF KeysAre
<1>5. BytesOK
  BY <1>2, <1>4 DEF Attach!Init, BytesOK, Has, Once
<1>6. RequestsOK
  BY <1>2 DEF Attach!Init, RequestsOK, InOrder
<1>7. AwaitedOK
  BY <1>2 DEF Attach!Init, AwaitedOK, Clear, Has
<1>8. NotifiedOK
  BY <1>2 DEF Attach!Init, NotifiedOK
<1> QED BY <1>1, <1>3, <1>5, <1>6, <1>7, <1>8 DEF BridgeInv

\* A step of the writer task, or of nobody.
LEMMA WriterStep ==
  ASSUME BridgeInv, Attach!Writer \/ UNCHANGED Attach!vars
  PROVE  BridgeInv'
<1>1. UNCHANGED <<got, keys, reader, cmds, wake, pc, batch, ctl, shut, lead, pend, up, down, leader,
                  outs, typed, applied, gone, answers, shown, attach_stale, swallowed>>
  BY DEF Attach!Writer, Attach!WriterSends, Attach!WriterEnds, Attach!WriterFails, Attach!vars,
     Attach!browser, Attach!turn, Attach!view, Attach!daemon, Attach!told, Attach!marks
<1> QED BY <1>1, NothingQueued

\* Every step keeps the invariant.
LEMMA BridgeStep == BridgeInv /\ [Attach!Next]_(Attach!vars) => BridgeInv'
<1> SUFFICES ASSUME BridgeInv, [Attach!Next]_(Attach!vars) PROVE BridgeInv'
  OBVIOUS
<1>1. CASE Attach!Reader \/ Attach!ReaderAborted
  BY <1>1, ReaderStep
<1>2. CASE Attach!Writer \/ UNCHANGED Attach!vars
  BY <1>2, WriterStep
<1>3. CASE Attach!Connect \/ Attach!ConnectFails \/ Attach!PollFrame \/ Attach!PollHangup \/ Attach!PollWake
  BY <1>3, PollStep
<1>4. CASE Attach!Drain \/ Attach!TakeCommand \/ Attach!SendBatch
  BY <1>4, DrainStep, TakeCommandStep, SendBatchStep
<1>5. CASE Attach!AwaitAck \/ Attach!AckFails \/ Attach!TurnDone
  BY <1>5, AwaitAckStep, TurnEndsStep
<1>6. CASE \E empty \in BOOLEAN : Attach!BeginResize(empty)
  BY <1>6, BeginResizeStep
<1>7. CASE Attach!AwaitResize \/ Attach!AwaitLeader
  BY <1>7, AwaitResizeStep, AwaitLeaderStep
<1>8. CASE Attach!ResizeFails \/ Attach!LeaderFails \/ Attach!BeginLeader
  BY <1>8, FailsStep, BeginLeaderStep
<1>9. CASE Attach!DaemonReads \/ Attach!ChildOutput
  BY <1>9, DaemonReadsStep, ChildOutputStep
<1>10. CASE Attach!LeaderTaken \/ Attach!DaemonCloses
  BY <1>10, LeaderTakenStep, DaemonClosesStep
<1> QED BY <1>1, <1>2, <1>3, <1>4, <1>5, <1>6, <1>7, <1>8, <1>9, <1>10 DEF Attach!Next, Attach!Bridge

\* What was typed is in order, and complete when a Shutdown ended the attach.
LEMMA TypedHolds ==
  ASSUME BridgeInv
  PROVE  Attach!TypedArrives
<1>1. typed \in Seq(Nat) /\ keys \in Seq(Nat) /\ Len(typed) \in Nat /\ Len(keys) \in Nat
  BY DEF BridgeInv, BridgeTypeOK
<1>2. PICK w : Len(w) \in Nat /\ KeysAre(typed, w, keys, cmds)
  <2>1. CASE Has(up, "bytes")
    <3>1. PICK i \in DOMAIN up : up[i].kind = "bytes"
      BY <2>1 DEF Has
    <3>2. KeysAre(typed, up[i].n, keys, cmds)
      BY <2>1, <3>1 DEF BridgeInv, BytesOK
    <3>3. up[i] \in Up
      BY <3>1 DEF BridgeInv, BridgeTypeOK
    <3>4. up[i].n \in Seq(Nat)
      BY <3>1, <3>3 DEF Up
    <3>5. Len(up[i].n) \in Nat
      BY <3>4
    <3> QED BY <3>2, <3>5
  <2>2. CASE ~Has(up, "bytes")
    <3>1. Len(batch) \in Nat
      BY DEF BridgeInv, BridgeTypeOK
    <3> QED BY <2>2, <3>1 DEF BridgeInv, BytesOK
  <2> QED BY <2>1, <2>2
<1>3. Len(typed) <= Len(keys) /\ \A i \in 1..Len(typed) : typed[i] = keys[i]
  <2>1. Len(typed) + Len(w) <= Len(keys)
    BY <1>2 DEF KeysAre
  <2>2. Len(typed) <= Len(keys)
    BY <1>1, <1>2, <2>1
  <2> QED BY <1>2, <2>2 DEF KeysAre
<1>4. Attach!IsPrefix(typed, keys)
  <2>1. SubSeq(typed, 1, Len(typed)) = SubSeq(keys, 1, Len(typed))
    BY <1>1, <1>3
  <2> QED BY <1>3, <2>1 DEF Attach!IsPrefix
<1>5. ASSUME pc = "done", shut, up = <<>>
      PROVE  typed = keys
  <2>1. cmds = <<>> /\ batch = <<>> /\ ~Has(up, "bytes")
    BY <1>5 DEF BridgeInv, CommandsOK, BytesOK, Has
  <2>2. KeysAre(typed, batch, keys, cmds)
    BY <2>1 DEF BridgeInv, BytesOK
  <2>3. DOMAIN cmds = {} /\ Len(batch) = 0
    BY <2>1
  <2>4. 1..0 = {} /\ Len(typed) + 0 + 1 = Len(typed) + 1
    BY <1>1
  <2>5. \A j \in Len(typed)+1..Len(keys) : FALSE
    <3>1. \A j \in Len(typed)+Len(batch)+1..Len(keys) : FALSE
      BY <2>2, <2>3 DEF KeysAre
    <3> QED BY <2>3, <2>4, <3>1
  <2>6. Len(typed) = Len(keys)
    <3> SUFFICES ASSUME Len(typed) # Len(keys) PROVE FALSE
      OBVIOUS
    <3>1. Len(keys) \in Len(typed)+1..Len(keys)
      BY <1>1, <1>3
    <3> QED BY <2>5, <3>1
  <2> QED BY <1>1, <1>3, <2>6
<1> QED BY <1>4, <1>5 DEF Attach!TypedArrives

\* With nothing on its way the leader is shown.
LEMMA LeaderHolds ==
  ASSUME BridgeInv
  PROVE  Attach!LeaderShown
<1> SUFFICES ASSUME pc = "poll", ~swallowed,
                    \A i \in 1..Len(Attach!Incoming) : Attach!Incoming[i].kind # "notify"
             PROVE  shown = Attach!Flag(leader)
  BY DEF Attach!LeaderShown
<1>1. pend \in Seq(Down) /\ down \in Seq(Down)
  BY DEF BridgeInv, BridgeTypeOK
<1>2. /\ \A i \in DOMAIN pend : i \in 1..Len(Attach!Incoming) /\ Attach!Incoming[i] = pend[i]
      /\ \A i \in DOMAIN down : /\ Len(pend) + i \in 1..Len(Attach!Incoming)
                               /\ Attach!Incoming[Len(pend) + i] = down[i]
  BY <1>1 DEF Attach!Incoming
<1>3. ~Has(pend, "notify") /\ ~Has(down, "notify")
  BY <1>2 DEF Has
<1> QED BY <1>3 DEF BridgeInv, NotifiedOK, Shows

\* The bridge of one WebSocket attach (ws_attach.rs) is faithful to both sides.
\* What the browser typed reaches the daemon once and in order, and all of it
\* when a Shutdown ended the attach; the requests are answered in their order
\* and a resize answered with ok was applied; the browser is shown who leads.
THEOREM BridgeHolds == AttachSpec => []BridgeFaithful
<1>1. BridgeInv => BridgeFaithful
  <2>1. ASSUME BridgeInv
        PROVE  Attach!AnswersTrue
    <3>1. DOMAIN answers = 1..Len(answers)
      BY <2>1 DEF BridgeInv, BridgeTypeOK
    <3>2. /\ InOrder(answers)
          /\ ~attach_stale => \A i \in DOMAIN answers :
                         answers[i].ok /\ answers[i].from = "resize" => answers[i].n \in applied
      BY <2>1 DEF BridgeInv, RequestsOK
    <3> QED BY <3>1, <3>2 DEF InOrder, Attach!AnswersTrue
  <2> QED BY <2>1, TypedHolds, LeaderHolds DEF BridgeFaithful, Attach!BridgeFaithful
<1>2. AttachSpec => []BridgeInv
  BY BridgeInit, BridgeStep, PTL DEF AttachSpec, Attach!Spec
<1> QED BY <1>1, <1>2, PTL

=============================================================================
