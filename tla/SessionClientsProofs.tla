------------------------ MODULE SessionClientsProofs ------------------------
(***************************************************************************)
(* Proofs about SessionClients, for any number of clients, any limits and  *)
(* any set of slow clients; and about the child that the same loop serves  *)
(* (SessionChild, under the names of ChildLife), for every configuration,  *)
(* any number of upgrades and any kernel that may keep a continue event to *)
(* itself: the exit code of serve() is the status the child ended with.    *)
(***************************************************************************)
EXTENDS SessionClients, ChildLife, FiniteSetTheorems, WellFoundedInduction, TLAPS

-----------------------------------------------------------------------------
(* Operators.                                                              *)

\* The first client of the Vec is one of the candidates and comes before the
\* others.
LEMMA FirstIn ==
  ASSUME NEW S, S \subseteq Nat, S # {}
  PROVE  First(S) \in S
<1> DEFINE R == OpToRel(<, Nat)
<1>1. PICK x \in S : \A y \in S : ~ (<<y, x>> \in R)
  <2>1. IsWellFoundedOn(R, Nat)
    BY NatLessThanWellFounded
  <2> HIDE DEF R
  <2> QED BY <2>1, WFMin
<1>2. \A y \in S : x <= y
  <2> TAKE y \in S
  <2>1. ~ (y < x)
    BY <1>1 DEF OpToRel
  <2> QED BY <2>1
<1> QED BY <1>2 DEF First

\* A subset of the client ids is a set of natural numbers.
LEMMA IdsAreNat == ClientIds \subseteq Nat
BY BoundsAssumption DEF ClientIds

\* Telling clients of a leader or of a lock holder keeps the type of `seen'.
LEMMA LeaderNotifyType ==
  ASSUME NEW s \in [ClientIds -> View], NEW cs, NEW ls
  PROVE  LeaderNotify(s, cs, ls) \in [ClientIds -> View]
<1>1. ASSUME NEW c \in ClientIds, NEW b \in BOOLEAN
      PROVE  [s[c] EXCEPT !.lead = b] \in View
  BY DEF View
<1>2. \A c : (c \in ls) \in BOOLEAN
  OBVIOUS
<1>3. \A c \in ClientIds : [s[c] EXCEPT !.lead = (c \in ls)] \in View
  BY <1>1, <1>2, Zenon
<1> QED BY <1>3, Zenon DEF LeaderNotify

\* Announcing a change of mode keeps every view a view.
LEMMA ModeChangeType ==
  ASSUME NEW s \in [ClientIds -> View], NEW cs, NEW h \in ClientIds \cup {NoClient}
  PROVE  ModeChange(s, cs, h) \in [ClientIds -> View]
BY DEF ModeChange, View

\* So do the notifications of one cascade (LeaderNotify, ModeChange).
LEMMA CascadeSeenType ==
  ASSUME NEW s \in [ClientIds -> View], NEW stay, NEW gone, NEW ls, NEW fl, NEW fm
  PROVE  CascadeSeen(s, stay, gone, ls, fl, fm) \in [ClientIds -> View]
<1>1. LeaderNotify(s, stay \ fl, ls) \in [ClientIds -> View]
  BY LeaderNotifyType
<1>2. NoClient \in ClientIds \cup {NoClient}
  OBVIOUS
<1> QED BY <1>1, <1>2, ModeChangeType DEF CascadeSeen

\* Whoever the cascade elevates is one of those who stay.
LEMMA CascadeLeaderType ==
  ASSUME NEW ls \in SUBSET ClientIds, NEW stay \in SUBSET ClientIds, NEW gone,
         NEW m \in [ClientIds -> Mode]
  PROVE  CascadeLeader(ls, stay, gone, m) \in SUBSET ClientIds
<1> DEFINE rw == {c \in stay : m[c] = "rw"}
<1>1. rw # {} => First(rw) \in rw
  BY FirstIn, IdsAreNat
<1> QED BY <1>1 DEF CascadeLeader, elevate_next_leader

-----------------------------------------------------------------------------
(* Type correctness.                                                       *)

\* The actions that leave the clients and what they know alone.
LEMMA TypePlain ==
  ASSUME TypeOK,
         \/ PollReady \/ PollTimeout \/ UpgradeAborted \/ DiscardHandshake
         \/ (\E req \in Request : RefuseHandshake(req))
         \/ HandshakesDone \/ TimeoutDrop
         \/ Signals \/ Accept \/ AcceptRefused \/ NoConnection
         \/ OutputAndReceive
  PROVE  TypeOK'
<1> USE BoundsAssumption DEF TypeOK, membership, pass, Phase
<1>1. CASE PollReady BY <1>1 DEF PollReady
<1>2. CASE PollTimeout BY <1>2 DEF PollTimeout, Full, Writers
<1>3. CASE UpgradeAborted BY <1>3 DEF UpgradeAborted
<1>4. CASE DiscardHandshake BY <1>4 DEF DiscardHandshake
<1>5. CASE \E req \in Request : RefuseHandshake(req) BY <1>5 DEF RefuseHandshake
<1>6. CASE HandshakesDone BY <1>6 DEF HandshakesDone
<1>7. CASE TimeoutDrop BY <1>7 DEF TimeoutDrop
<1>8. CASE Signals BY <1>8 DEF Signals, Full, Writers
<1>9. CASE Accept BY <1>9 DEF Accept
<1>10. CASE AcceptRefused BY <1>10 DEF AcceptRefused
<1>11. CASE NoConnection BY <1>11 DEF NoConnection
<1>12. CASE OutputAndReceive BY <1>12 DEF OutputAndReceive, Full
<1> QED BY <1>1, <1>2, <1>3, <1>4, <1>5, <1>6, <1>7, <1>8, <1>9, <1>10, <1>11, <1>12

\* A frame of a client.
LEMMA TypeFrame ==
  ASSUME TypeOK, ClientFrame
  PROVE  TypeOK'
<1> USE DEF membership, Handling
<1> PICK c \in ClientIds :
      \/ FrameDrop(c) \/ FrameIgnored(c)
      \/ \E all \in BOOLEAN : DetachTarget(c, all)
      \/ LeaderRequest(c) \/ LockAcquire(c) \/ LockRelease(c) \/ KillWait(c)
  BY DEF ClientFrame
<1>1. CASE FrameDrop(c) BY <1>1 DEF FrameDrop, TypeOK
<1>2. CASE FrameIgnored(c) BY <1>2 DEF FrameIgnored, TypeOK
<1>3. CASE \E all \in BOOLEAN : DetachTarget(c, all)
  BY <1>3, BoundsAssumption DEF DetachTarget, TypeOK
<1>4. CASE LeaderRequest(c)
  <2>1. PICK deaf \in Full({c}), full \in Full(clients) :
          LET s1 == [seen EXCEPT ![c].mode = IF c \in deaf THEN @ ELSE "rw"]
          IN seen' = LeaderNotify(s1, clients \ full, {c})
    BY <1>4 DEF LeaderRequest
  <2> DEFINE s1 == [seen EXCEPT ![c].mode = IF c \in deaf THEN @ ELSE "rw"]
  <2>2. s1 \in [ClientIds -> View]
    BY DEF TypeOK, View, Mode
  <2>3. seen' \in [ClientIds -> View]
    BY <2>1, <2>2, LeaderNotifyType
  <2> QED BY <1>4, <2>3 DEF LeaderRequest, TypeOK, Mode
<1>5. CASE LockAcquire(c)
  <2>1. PICK full \in Full(clients) :
          seen' = ModeChange(seen, clients \ full, c)
    BY <1>5 DEF LockAcquire
  <2>2. seen' \in [ClientIds -> View]
    BY <2>1, ModeChangeType DEF TypeOK
  <2> QED BY <1>5, <2>2 DEF LockAcquire, TypeOK
<1>6. CASE LockRelease(c)
  <2>1. PICK full \in Full(clients) :
          seen' = ModeChange(seen, clients \ full, NoClient)
    BY <1>6 DEF LockRelease
  <2>2. seen' \in [ClientIds -> View]
    BY <2>1, ModeChangeType DEF TypeOK
  <2> QED BY <1>6, <2>2 DEF LockRelease, TypeOK
<1>7. CASE KillWait(c) BY <1>7 DEF KillWait, TypeOK
<1> QED BY <1>1, <1>2, <1>3, <1>4, <1>5, <1>6, <1>7

\* The drop at the end of a pass.
LEMMA TypeDrop ==
  ASSUME TypeOK, DropClients
  PROVE  TypeOK'
<1> DEFINE stay == clients \ todrop
           ls == CascadeLeader(leader, stay, todrop, mode)
<1>1. PICK fl \in Full(stay), fm \in Full(stay) :
        seen' = CascadeSeen(seen, stay, todrop, ls, fl, fm)
  BY DEF DropClients
<1>2. seen' \in [ClientIds -> View]
  BY <1>1, CascadeSeenType DEF TypeOK
<1>3. ls \in SUBSET ClientIds
  BY CascadeLeaderType DEF TypeOK
<1>4. leader' = ls
  BY DEF DropClients
<1> HIDE DEF ls
<1> QED BY <1>2, <1>3, <1>4 DEF DropClients, TypeOK, Phase, ReleaseDetached

\* The admission of a finished handshake.
LEMMA TypeAdmit ==
  ASSUME TypeOK, NEW req \in Request, AdmitAlongside(req) \/ AdmitTakingOver(req)
  PROVE  TypeOK'
<1> DEFINE id == nextId
           lead == should_assign_leader(req.mode)
<1>1. id \in ClientIds /\ nextId' = nextId + 1 /\ nextId' \in 1..(MaxClientId + 1)
  BY BoundsAssumption DEF AdmitAlongside, AdmitTakingOver, TypeOK, ClientIds
<1>2. req.mode \in Mode
  BY DEF Request
<1>3. lead \in BOOLEAN
  BY DEF should_assign_leader
<1>4. ASSUME NEW deaf PROVE [seen EXCEPT ![id] = Welcome(id, req, lead, deaf)] \in [ClientIds -> View]
  <2>1. Welcome(id, req, lead, deaf) \in View
    BY <1>2, <1>3 DEF Welcome, View, TypeOK
  <2> QED BY <2>1, <1>1 DEF TypeOK
<1>5. mode' = [mode EXCEPT ![id] = req.mode] /\ mode' \in [ClientIds -> Mode]
  BY <1>1, <1>2 DEF AdmitAlongside, AdmitTakingOver, TypeOK
<1> HIDE DEF lead
<1>6. CASE AdmitAlongside(req)
  <2>1. PICK deaf \in Full({id}), full \in Full(clients \cup {id}) :
          LET s1 == [seen EXCEPT ![id] = Welcome(id, req, lead, deaf)]
          IN IF lead
             THEN /\ seen' = LeaderNotify(s1, (clients \cup {id}) \ full, {id})
                  /\ overflow' = overflow \cup full
             ELSE /\ seen' = s1
                  /\ UNCHANGED overflow
    BY <1>6 DEF AdmitAlongside, lead
  <2>2. seen' \in [ClientIds -> View]
    BY <2>1, <1>4, LeaderNotifyType
  <2>3. overflow' \subseteq ClientIds
    BY <2>1, <1>1 DEF TypeOK, Full
  <2>4. clients' \subseteq ClientIds /\ leader' \subseteq ClientIds /\ exclusive' \subseteq ClientIds
    BY <1>1, <1>6 DEF AdmitAlongside, TypeOK
  <2>5. pending' \in 0..MaxPending
    BY <1>6, BoundsAssumption DEF AdmitAlongside, TypeOK
  <2> QED BY <1>1, <1>5, <1>6, <2>2, <2>3, <2>4, <2>5 DEF AdmitAlongside, TypeOK, pass
<1>7. CASE AdmitTakingOver(req)
  <2> DEFINE gone == clients
             ls == IF lead THEN leader \cup {id} ELSE leader
             promoted == CascadeLeader(ls, {id}, gone, [mode EXCEPT ![id] = req.mode])
  <2>1. PICK deaf \in Full({id}), full \in Full(gone \cup {id}), fl \in Full({id}), fm \in Full({id}) :
          LET s1 == [seen EXCEPT ![id] = Welcome(id, req, lead, deaf)]
              s2 == IF lead THEN LeaderNotify(s1, (gone \cup {id}) \ full, {id}) ELSE s1
              refused == (IF lead THEN full ELSE {})
                         \cup (IF leader \cap gone # {} THEN fl ELSE {})
                         \cup (IF holder \in gone THEN fm ELSE {})
          IN /\ seen' = CascadeSeen(s2, {id}, gone, promoted, fl, fm)
             /\ overflow' = overflow \cup refused
    BY <1>7 DEF AdmitTakingOver, lead
  <2>2. seen' \in [ClientIds -> View]
    BY <2>1, <1>4, LeaderNotifyType, CascadeSeenType
  <2>3. overflow' \subseteq ClientIds
    BY <2>1, <1>1 DEF TypeOK, Full
  <2>4. leader' \subseteq ClientIds
    <3>1. leader' = promoted
      BY <1>7 DEF AdmitTakingOver, lead
    <3>2. ls \in SUBSET ClientIds /\ {id} \in SUBSET ClientIds
      BY <1>1 DEF TypeOK
    <3> HIDE DEF ls
    <3> QED BY <3>1, <3>2, <1>5, CascadeLeaderType
  <2>5. clients' \subseteq ClientIds /\ exclusive' \subseteq ClientIds
    BY <1>1, <1>7 DEF AdmitTakingOver
  <2>6. pending' \in 0..MaxPending /\ holder' \in ClientIds \cup {NoClient}
    BY <1>7, BoundsAssumption DEF AdmitTakingOver, TypeOK, ReleaseDetached
  <2> QED BY <1>1, <1>5, <1>7, <2>2, <2>3, <2>4, <2>5, <2>6 DEF AdmitTakingOver, TypeOK, pass
<1> QED BY <1>6, <1>7

\* The initial state is type-correct.
LEMMA TypeInit == Init => TypeOK
<1> SUFFICES ASSUME Init PROVE TypeOK
  OBVIOUS
<1>1. seen \in [ClientIds -> View] /\ mode \in [ClientIds -> Mode]
  BY DEF Init, View, Mode
<1>2. nextId \in 1..(MaxClientId + 1) /\ pending \in 0..MaxPending
  BY BoundsAssumption DEF Init
<1> QED BY <1>1, <1>2 DEF Init, TypeOK, Phase

\* Every step keeps the types.
LEMMA TypeStep == TypeOK /\ [Next]_vars => TypeOK'
<1> SUFFICES ASSUME TypeOK, [Next]_vars PROVE TypeOK'
  OBVIOUS
<1>1. CASE ClientFrame BY <1>1, TypeFrame
<1>2. CASE DropClients BY <1>2, TypeDrop
<1>3. CASE \E req \in Request : AdmitAlongside(req) \/ AdmitTakingOver(req)
  BY <1>3, TypeAdmit
<1>4. CASE UNCHANGED vars
  BY <1>4 DEF vars, TypeOK
<1> QED BY <1>1, <1>2, <1>3, <1>4, TypePlain DEF Next, Handshake

\* Every variable of the client bookkeeping keeps its type, for all bounds.
THEOREM TypeCorrect == Spec => []TypeOK
BY TypeInit, TypeStep, PTL DEF Spec

-----------------------------------------------------------------------------
(* The leader and the exclusive writer.                                    *)

\* Ids are never reused: every attached client is older than next_client_id.
FreshIds == \A c \in clients : c < nextId

\* Frames are handled for attached clients, and only in their phase of a pass.
FrameOrder == todo \subseteq clients /\ (pc # "frames" => todo = {})

\* The inductive invariant of the clients.
ClientsInv ==
  /\ TypeOK
  /\ FreshIds
  /\ FrameOrder
  /\ exclusive \subseteq clients
  /\ SoleLeader
  /\ SoleExclusiveWriter

\* The client whose frame is handled is attached.
LEMMA HandledAttached ==
  ASSUME TypeOK, FrameOrder, NEW c, Handling(c)
  PROVE  c \in todo /\ c \in clients /\ c = First(todo)
BY FirstIn, IdsAreNat DEF TypeOK, FrameOrder, Handling

\* The next client id belongs to nobody.
LEMMA NewIdFresh ==
  ASSUME TypeOK, FreshIds, nextId <= MaxClientId
  PROVE  nextId \in ClientIds /\ nextId \notin clients
BY BoundsAssumption DEF TypeOK, FreshIds, ClientIds

\* The cascade leaves at most one leader, an rw client among those who stay,
\* if there was at most one rw leader before.
LEMMA CascadeSole ==
  ASSUME NEW ls \in SUBSET ClientIds, NEW stay \in SUBSET ClientIds, NEW gone,
         NEW m \in [ClientIds -> Mode],
         \A c, d \in ls : c = d,
         \A c \in ls : c \in gone \/ (c \in stay /\ m[c] = "rw")
  PROVE  /\ \A c, d \in CascadeLeader(ls, stay, gone, m) : c = d
         /\ CascadeLeader(ls, stay, gone, m) \subseteq {c \in stay : m[c] = "rw"}
<1> DEFINE rw == {c \in stay : m[c] = "rw"}
<1>1. rw # {} => First(rw) \in rw
  BY FirstIn, IdsAreNat
<1>2. CASE ls \cap gone = {}
  BY <1>2 DEF CascadeLeader
<1>3. CASE ls \cap gone # {}
  <2>1. ls \ gone = {}
    BY <1>3
  <2>2. CascadeLeader(ls, stay, gone, m) = IF rw = {} THEN {} ELSE {First(rw)}
    BY <1>3, <2>1 DEF CascadeLeader, elevate_next_leader
  <2> QED BY <1>1, <2>2
<1> QED BY <1>2, <1>3

\* Actions that touch neither clients nor leader, mode, exclusive or nextId.
LEMMA ClientsInvPlain ==
  ASSUME ClientsInv, TypeOK',
         \/ PollReady \/ PollTimeout \/ UpgradeAborted \/ DiscardHandshake
         \/ (\E req \in Request : RefuseHandshake(req))
         \/ HandshakesDone \/ TimeoutDrop
         \/ Signals \/ Accept \/ AcceptRefused \/ NoConnection
         \/ OutputAndReceive
  PROVE  ClientsInv'
<1> USE DEF ClientsInv, FreshIds, FrameOrder, SoleLeader, SoleExclusiveWriter, Writers,
            membership, pass
<1>1. CASE PollReady BY <1>1 DEF PollReady
<1>2. CASE PollTimeout BY <1>2 DEF PollTimeout
<1>3. CASE UpgradeAborted BY <1>3 DEF UpgradeAborted
<1>4. CASE DiscardHandshake BY <1>4 DEF DiscardHandshake
<1>5. CASE \E req \in Request : RefuseHandshake(req) BY <1>5 DEF RefuseHandshake
<1>6. CASE HandshakesDone BY <1>6 DEF HandshakesDone
<1>7. CASE TimeoutDrop BY <1>7 DEF TimeoutDrop
<1>8. CASE Signals BY <1>8 DEF Signals
<1>9. CASE Accept BY <1>9 DEF Accept
<1>10. CASE AcceptRefused BY <1>10 DEF AcceptRefused
<1>11. CASE NoConnection BY <1>11 DEF NoConnection
<1>12. CASE OutputAndReceive BY <1>12 DEF OutputAndReceive
<1> QED BY <1>1, <1>2, <1>3, <1>4, <1>5, <1>6, <1>7, <1>8, <1>9, <1>10, <1>11, <1>12

\* A frame of a client: only leader.request touches the leader and a mode, and
\* never the mode of a read-only client.
LEMMA ClientsInvFrame ==
  ASSUME ClientsInv, TypeOK', ClientFrame
  PROVE  ClientsInv'
<1> USE DEF ClientsInv
<1> PICK c \in ClientIds :
      \/ FrameDrop(c) \/ FrameIgnored(c)
      \/ \E all \in BOOLEAN : DetachTarget(c, all)
      \/ LeaderRequest(c) \/ LockAcquire(c) \/ LockRelease(c) \/ KillWait(c)
  BY DEF ClientFrame
<1>1. Handling(c)
  BY DEF FrameDrop, FrameIgnored, DetachTarget, LeaderRequest, LockAcquire, LockRelease, KillWait
<1>2. c \in todo /\ c \in clients /\ pc = "frames"
  BY <1>1, HandledAttached DEF Handling
<1>3. pc' = pc /\ todo' \subseteq todo /\ UNCHANGED <<clients, nextId, exclusive>>
  BY DEF FrameDrop, FrameIgnored, DetachTarget, LeaderRequest, LockAcquire, LockRelease, KillWait,
         membership
<1>4. FreshIds' /\ FrameOrder' /\ (exclusive \subseteq clients)'
  BY <1>2, <1>3 DEF FreshIds, FrameOrder
<1>5. CASE LeaderRequest(c)
  <2>1. leader' = {c} /\ mode' = [mode EXCEPT ![c] = "rw"] /\ mode[c] # "ro"
    BY <1>5 DEF LeaderRequest
  <2>2. \A d \in ClientIds : mode'[d] # "ro" <=> mode[d] # "ro"
    BY <2>1 DEF TypeOK
  <2>3. SoleLeader'
    BY <2>1, <1>2, <1>3 DEF SoleLeader, TypeOK
  <2>4. SoleExclusiveWriter'
    BY <2>2, <1>3 DEF SoleExclusiveWriter, Writers, TypeOK
  <2> QED BY <1>4, <2>3, <2>4
<1>6. CASE ~LeaderRequest(c)
  <2>1. UNCHANGED <<leader, mode>>
    BY <1>6 DEF FrameDrop, FrameIgnored, DetachTarget, LockAcquire, LockRelease, KillWait, membership
  <2> QED BY <1>3, <1>4, <2>1 DEF SoleLeader, SoleExclusiveWriter, Writers
<1> QED BY <1>5, <1>6

\* The drop at the end of a pass elevates at most one rw client.
LEMMA ClientsInvDrop ==
  ASSUME ClientsInv, TypeOK', DropClients
  PROVE  ClientsInv'
<1> USE DEF ClientsInv
<1> DEFINE stay == clients \ todrop
<1>1. /\ clients' = stay /\ exclusive' = exclusive \ todrop
      /\ leader' = CascadeLeader(leader, stay, todrop, mode)
      /\ todo = {} /\ UNCHANGED <<todo, mode, nextId>>
  BY DEF DropClients
<1>2. SoleLeader'
  <2>1. \A c \in leader : c \in todrop \/ (c \in stay /\ mode[c] = "rw")
    BY DEF SoleLeader
  <2>2. /\ leader \in SUBSET ClientIds /\ stay \in SUBSET ClientIds
        /\ mode \in [ClientIds -> Mode] /\ \A c, d \in leader : c = d
    BY DEF TypeOK, SoleLeader
  <2>3. /\ \A c, d \in CascadeLeader(leader, stay, todrop, mode) : c = d
        /\ CascadeLeader(leader, stay, todrop, mode) \subseteq {c \in stay : mode[c] = "rw"}
    BY <2>1, <2>2, CascadeSole
  <2> QED BY <1>1, <2>3 DEF SoleLeader
<1>3. FreshIds' /\ FrameOrder' /\ (exclusive \subseteq clients)' /\ SoleExclusiveWriter'
  BY <1>1 DEF FreshIds, FrameOrder, SoleExclusiveWriter, Writers
<1> QED BY <1>2, <1>3

\* A client that joins the others leads only if nobody did, and if it asked
\* for --exclusive nobody else may write.
LEMMA ClientsInvAlongside ==
  ASSUME ClientsInv, TypeOK', NEW req \in Request, AdmitAlongside(req)
  PROVE  ClientsInv'
<1> USE DEF ClientsInv
<1> DEFINE id == nextId
<1>1. id \in ClientIds /\ id \notin clients
  BY NewIdFresh DEF AdmitAlongside
<1>2. /\ clients' = clients \cup {id} /\ nextId' = nextId + 1
      /\ mode' = [mode EXCEPT ![id] = req.mode]
      /\ leader' = IF should_assign_leader(req.mode) THEN leader \cup {id} ELSE leader
      /\ exclusive' = IF req.exclusive THEN exclusive \cup {id} ELSE exclusive
      /\ ~Refused(req) /\ ~req.detach_others
      /\ pc' = pc /\ todo' = todo
  BY DEF AdmitAlongside, pass
<1>3. \A c \in clients : mode'[c] = mode[c] /\ c # id
  BY <1>1, <1>2 DEF TypeOK
<1>4. mode'[id] = req.mode
  BY <1>1, <1>2 DEF TypeOK
<1>5. SoleLeader'
  <2>1. CASE should_assign_leader(req.mode)
    <3>1. leader' = {id} /\ mode'[id] = "rw"
      BY <2>1, <1>2, <1>4 DEF should_assign_leader, SoleLeader
    <3> QED BY <3>1, <1>2 DEF SoleLeader
  <2>2. CASE ~should_assign_leader(req.mode)
    BY <2>2, <1>2, <1>3 DEF SoleLeader
  <2> QED BY <2>1, <2>2
<1>6. SoleExclusiveWriter'
  <2>1. CASE req.exclusive
    <3>1. Writers(clients) = {}
      BY <2>1, <1>2 DEF Refused
    <3> QED BY <3>1, <1>2, <1>3 DEF SoleExclusiveWriter, Writers
  <2>2. CASE ~req.exclusive
    BY <2>2, <1>2, <1>3 DEF SoleExclusiveWriter, Writers
  <2> QED BY <2>1, <2>2
<1>7. FreshIds' /\ FrameOrder' /\ (exclusive \subseteq clients)'
  BY <1>1, <1>2, IdsAreNat DEF FreshIds, FrameOrder, TypeOK
<1> QED BY <1>5, <1>6, <1>7

\* A client that takes over is the only one left.
LEMMA ClientsInvTakingOver ==
  ASSUME ClientsInv, TypeOK', NEW req \in Request, AdmitTakingOver(req)
  PROVE  ClientsInv'
<1> USE DEF ClientsInv
<1> DEFINE id == nextId
           lead == should_assign_leader(req.mode)
           ls == IF lead THEN leader \cup {id} ELSE leader
           m == [mode EXCEPT ![id] = req.mode]
<1>1. id \in ClientIds /\ id \notin clients
  BY NewIdFresh DEF AdmitTakingOver
<1>2. /\ clients' = {id} /\ nextId' = nextId + 1 /\ mode' = m
      /\ leader' = CascadeLeader(ls, {id}, clients, m)
      /\ exclusive' = IF req.exclusive THEN {id} ELSE {}
      /\ pc' = pc /\ todo' = todo /\ pc = "handshakes"
  BY DEF AdmitTakingOver, pass
<1>3. m[id] = req.mode /\ m \in [ClientIds -> Mode]
  BY <1>1, <1>2 DEF TypeOK
<1>4. SoleLeader'
  <2>1. \A c \in ls : c \in clients \/ (c \in {id} /\ m[c] = "rw")
    BY <1>3 DEF SoleLeader, should_assign_leader
  <2>2. \A c, d \in ls : c = d
    BY DEF SoleLeader, should_assign_leader
  <2>3. ls \in SUBSET ClientIds /\ {id} \in SUBSET ClientIds
    BY <1>1 DEF TypeOK
  <2> HIDE DEF ls, m
  <2>4. /\ \A c, d \in CascadeLeader(ls, {id}, clients, m) : c = d
        /\ CascadeLeader(ls, {id}, clients, m) \subseteq {c \in {id} : m[c] = "rw"}
    BY <2>1, <2>2, <2>3, <1>3, CascadeSole
  <2> QED BY <1>2, <2>4 DEF SoleLeader
<1>5. SoleExclusiveWriter' /\ FrameOrder' /\ (exclusive \subseteq clients)'
  BY <1>2 DEF SoleExclusiveWriter, Writers, FrameOrder
<1>6. FreshIds'
  BY <1>1, <1>2, IdsAreNat DEF FreshIds
<1> QED BY <1>4, <1>5, <1>6

\* The invariant is inductive.
LEMMA ClientsInvStep == ClientsInv /\ [Next]_vars => ClientsInv'
<1> SUFFICES ASSUME ClientsInv, [Next]_vars PROVE ClientsInv'
  OBVIOUS
<1>1. TypeOK'
  BY TypeStep DEF ClientsInv
<1>2. CASE ClientFrame BY <1>1, <1>2, ClientsInvFrame
<1>3. CASE DropClients BY <1>1, <1>3, ClientsInvDrop
<1>4. CASE \E req \in Request : AdmitAlongside(req)
  BY <1>1, <1>4, ClientsInvAlongside
<1>5. CASE \E req \in Request : AdmitTakingOver(req)
  BY <1>1, <1>5, ClientsInvTakingOver
<1>6. CASE UNCHANGED vars
  BY <1>6, <1>1 DEF vars, ClientsInv, FreshIds, FrameOrder, SoleLeader, SoleExclusiveWriter, Writers
<1> QED BY <1>1, <1>2, <1>3, <1>4, <1>5, <1>6, ClientsInvPlain DEF Next, Handshake

\* The invariant holds throughout.
LEMMA ClientsInvHolds == Spec => []ClientsInv
<1>1. Init => ClientsInv
  BY TypeInit DEF Init, ClientsInv, FreshIds, FrameOrder, SoleLeader, SoleExclusiveWriter
<1> QED BY <1>1, ClientsInvStep, PTL DEF Spec

\* At most one client leads, and it is an attached rw client, whatever
\* attaches, takeovers, slow clients, drops and aborted upgrades there are.
THEOREM OneLeader == Spec => []SoleLeader
<1>1. ClientsInv => SoleLeader
  BY DEF ClientsInv
<1> QED BY <1>1, ClientsInvHolds, PTL

\* Two clients that asked for --exclusive and may write are never attached
\* together.
THEOREM ExclusiveIsAlone == Spec => []SoleExclusiveWriter
<1>1. ClientsInv => SoleExclusiveWriter
  BY DEF ClientsInv
<1> QED BY <1>1, ClientsInvHolds, PTL

-----------------------------------------------------------------------------
(* What no step does to a leader or to the holder of the lock.             *)

\* A leader that stays attached loses the role only to the client whose
\* leader.request is being handled.
THEOREM LeaderKept == Spec => LeaderNotStolen
<1> DEFINE A == \A c \in leader \cap clients' :
                  c \in leader' \/ (pc = "frames" /\ todo # {} /\ leader' = {First(todo)})
<1>1. ClientsInv /\ [Next]_vars => [A]_vars
  <2> SUFFICES ASSUME ClientsInv, Next PROVE A
    BY DEF vars
  <2> USE DEF ClientsInv
  <2>1. CASE ClientFrame
    <3> PICK c \in ClientIds :
          \/ FrameDrop(c) \/ FrameIgnored(c)
          \/ \E all \in BOOLEAN : DetachTarget(c, all)
          \/ LeaderRequest(c) \/ LockAcquire(c) \/ LockRelease(c) \/ KillWait(c)
      BY <2>1 DEF ClientFrame
    <3>1. CASE LeaderRequest(c)
      BY <3>1 DEF LeaderRequest, Handling
    <3>2. CASE ~LeaderRequest(c)
      BY <3>2 DEF FrameDrop, FrameIgnored, DetachTarget, LockAcquire, LockRelease, KillWait, membership
    <3> QED BY <3>1, <3>2
  <2>2. CASE DropClients
    <3>1. clients' = clients \ todrop /\ leader' = CascadeLeader(leader, clients \ todrop, todrop, mode)
      BY <2>2 DEF DropClients
    <3>2. ASSUME NEW c \in leader \cap clients' PROVE leader \cap todrop = {}
      BY <3>1 DEF SoleLeader
    <3> QED BY <3>1, <3>2 DEF CascadeLeader
  <2>3. CASE \E req \in Request : AdmitAlongside(req)
    BY <2>3 DEF AdmitAlongside
  <2>4. CASE \E req \in Request : AdmitTakingOver(req)
    <3>1. clients' = {nextId} /\ nextId <= MaxClientId
      BY <2>4 DEF AdmitTakingOver
    <3>2. leader \cap clients' = {}
      BY <3>1, NewIdFresh DEF SoleLeader
    <3> QED BY <3>2
  <2>5. CASE TimeoutDrop
    BY <2>5 DEF TimeoutDrop
  <2>6. CASE \/ PollReady \/ PollTimeout \/ UpgradeAborted \/ DiscardHandshake
             \/ (\E req \in Request : RefuseHandshake(req)) \/ HandshakesDone
             \/ Signals \/ Accept \/ AcceptRefused \/ NoConnection \/ OutputAndReceive
    <3>1. leader' = leader
      BY <2>6 DEF PollReady, PollTimeout, UpgradeAborted, DiscardHandshake, RefuseHandshake,
                  HandshakesDone, Signals, Accept, AcceptRefused, NoConnection,
                  OutputAndReceive, membership
    <3> QED BY <3>1
  <2> QED BY <2>1, <2>2, <2>3, <2>4, <2>5, <2>6 DEF Next, Handshake
<1> QED BY <1>1, ClientsInvHolds, PTL DEF Spec, LeaderNotStolen

\* Unless an upgrade aborts, the lock passes from its holder to nobody else,
\* and only when the holder leaves or gives it back itself.
THEOREM LockKept ==
  ASSUME ~UpgradeMayAbort
  PROVE  Spec => LockNotStolen
<1> DEFINE A == holder # NoClient /\ holder' # holder =>
                  /\ holder' = NoClient
                  /\ holder \notin clients' \/ (pc = "frames" /\ todo # {} /\ holder = First(todo))
<1>1. ClientsInv /\ [Next]_vars => [A]_vars
  <2> SUFFICES ASSUME ClientsInv, Next, holder # NoClient, holder' # holder
               PROVE  /\ holder' = NoClient
                      /\ holder \notin clients' \/ (pc = "frames" /\ todo # {} /\ holder = First(todo))
    BY DEF vars
  <2> USE DEF ClientsInv
  <2>1. CASE ClientFrame
    <3> PICK c \in ClientIds :
          \/ FrameDrop(c) \/ FrameIgnored(c)
          \/ \E all \in BOOLEAN : DetachTarget(c, all)
          \/ LeaderRequest(c) \/ LockAcquire(c) \/ LockRelease(c) \/ KillWait(c)
      BY <2>1 DEF ClientFrame
    <3>1. CASE LockRelease(c)
      BY <3>1 DEF LockRelease, Handling
    <3>2. CASE ~LockRelease(c)
      BY <3>2 DEF FrameDrop, FrameIgnored, DetachTarget, LeaderRequest, LockAcquire, KillWait, membership
    <3> QED BY <3>1, <3>2
  <2>2. CASE DropClients
    BY <2>2 DEF DropClients, ReleaseDetached
  <2>3. CASE \E req \in Request : AdmitTakingOver(req)
    <3>1. clients' = {nextId} /\ nextId <= MaxClientId /\ holder' = ReleaseDetached(clients)
      BY <2>3 DEF AdmitTakingOver
    <3> QED BY <3>1, NewIdFresh DEF ReleaseDetached
  <2>4. CASE \/ PollReady \/ PollTimeout \/ UpgradeAborted \/ DiscardHandshake
             \/ (\E req \in Request : RefuseHandshake(req) \/ AdmitAlongside(req))
             \/ HandshakesDone \/ TimeoutDrop
             \/ Signals \/ Accept \/ AcceptRefused \/ NoConnection \/ OutputAndReceive
    BY <2>4 DEF PollReady, PollTimeout, UpgradeAborted, DiscardHandshake, RefuseHandshake,
                AdmitAlongside, HandshakesDone, TimeoutDrop, Signals, Accept, AcceptRefused,
                NoConnection, OutputAndReceive, membership
  <2> QED BY <2>1, <2>2, <2>3, <2>4 DEF Next, Handshake
<1> QED BY <1>1, ClientsInvHolds, PTL DEF Spec, LockNotStolen

-----------------------------------------------------------------------------
(* Only slow clients are dropped by the timeout arm.                       *)

\* The slow clients among those that were admitted.
SlowAdmitted == {c \in Slow : c < nextId}

\* Only queues of slow clients overflow, the lock is held by an attached
\* writer unless a slow one left it behind, and somebody leads.
ReadersInv ==
  /\ ClientsInv
  /\ overflow \subseteq SlowAdmitted
  /\ LockHolderAttached
  /\ LeaderPresent

\* After a cascade somebody leads if somebody did before or a remaining client
\* may lead.
LEMMA CascadePresent ==
  ASSUME NEW ls \in SUBSET ClientIds, NEW stay \in SUBSET ClientIds, NEW gone,
         NEW m \in [ClientIds -> Mode],
         ls # {} \/ ~ \E c \in stay : m[c] = "rw",
         \E c \in stay : m[c] = "rw"
  PROVE  CascadeLeader(ls, stay, gone, m) # {}
BY DEF CascadeLeader, elevate_next_leader

\* What an admission adds to overflow_ids are slow clients that were admitted.
LEMMA OverflowAdmit ==
  ASSUME ClientsInv, overflow \subseteq SlowAdmitted, NEW req \in Request,
         AdmitAlongside(req) \/ AdmitTakingOver(req)
  PROVE  overflow' \subseteq SlowAdmitted'
<1> DEFINE id == nextId
<1>1. nextId \in Nat /\ nextId' = nextId + 1 /\ \A c \in clients : c \in Nat /\ c < nextId
  BY BoundsAssumption DEF AdmitAlongside, AdmitTakingOver, ClientsInv, TypeOK, FreshIds, ClientIds
<1>2. \A S, F : F \in Full(S) => F \subseteq S \cap Slow
  BY DEF Full
<1>3. overflow' \subseteq overflow \cup ((clients \cup {id}) \cap Slow)
  <2>1. CASE AdmitAlongside(req)
    <3>1. PICK full \in Full(clients \cup {id}) : overflow' \in {overflow, overflow \cup full}
      BY <2>1 DEF AdmitAlongside
    <3> QED BY <1>2, <3>1
  <2>2. CASE AdmitTakingOver(req)
    <3> DEFINE lead == should_assign_leader(req.mode)
    <3>1. PICK full \in Full(clients \cup {id}), fl \in Full({id}), fm \in Full({id}) :
            overflow' = overflow \cup ((IF lead THEN full ELSE {})
                                       \cup (IF leader \cap clients # {} THEN fl ELSE {})
                                       \cup (IF holder \in clients THEN fm ELSE {}))
      BY <2>2, Zenon DEF AdmitTakingOver
    <3>2. full \subseteq (clients \cup {id}) \cap Slow /\ fl \subseteq {id} \cap Slow
          /\ fm \subseteq {id} \cap Slow
      BY <1>2
    <3> QED BY <3>1, <3>2
  <2> QED BY <2>1, <2>2
<1>4. \A c \in Slow : c < nextId => c < nextId'
  BY <1>1, BoundsAssumption
<1> QED BY <1>1, <1>2, <1>3, <1>4 DEF SlowAdmitted

\* The invariant above is inductive, whichever clients are slow.
LEMMA ReadersInvStep ==
  ASSUME ReadersInv, [Next]_vars
  PROVE  ReadersInv'
<1> USE DEF ReadersInv
<1>1. ClientsInv'
  BY ClientsInvStep
<1>2. SlowAdmitted = {} => ((\E c \in clients : mode[c] = "rw") => leader # {})
  BY DEF LeaderPresent, SlowAdmitted
<1>3. CASE ClientFrame
  <2> PICK c \in ClientIds :
        \/ FrameDrop(c) \/ FrameIgnored(c)
        \/ \E all \in BOOLEAN : DetachTarget(c, all)
        \/ LeaderRequest(c) \/ LockAcquire(c) \/ LockRelease(c) \/ KillWait(c)
    BY <1>3 DEF ClientFrame
  <2>1. clients' = clients /\ overflow' = overflow /\ nextId' = nextId
    BY DEF FrameDrop, FrameIgnored, DetachTarget, LeaderRequest, LockAcquire, LockRelease, KillWait,
           membership
  <2>2. Handling(c) => c \in clients
    BY HandledAttached DEF ClientsInv
  <2>3. SlowAdmitted' = SlowAdmitted
    BY <2>1 DEF SlowAdmitted
  <2>4. CASE LeaderRequest(c)
    <3>1. mode' = [mode EXCEPT ![c] = "rw"] /\ mode[c] # "ro" /\ leader' = {c} /\ holder' = holder
      BY <2>4 DEF LeaderRequest
    <3>2. LockHolderAttached'
      BY <2>1, <3>1 DEF LockHolderAttached, Writers, ClientsInv, TypeOK
    <3> QED BY <1>1, <2>1, <2>3, <3>1, <3>2 DEF LeaderPresent
  <2>5. CASE LockAcquire(c)
    <3>1. holder' = c /\ mode' = mode /\ mode[c] # "ro" /\ leader' = leader /\ c \in clients
      BY <2>2, <2>5 DEF LockAcquire
    <3> QED BY <1>1, <2>1, <2>3, <3>1 DEF LeaderPresent, LockHolderAttached, Writers
  <2>6. CASE ~LeaderRequest(c) /\ ~LockAcquire(c)
    <3>1. holder' \in {holder, NoClient} /\ UNCHANGED <<mode, leader>>
      BY <2>6 DEF FrameDrop, FrameIgnored, DetachTarget, LockRelease, KillWait, membership
    <3> QED BY <1>1, <2>1, <2>3, <3>1 DEF LeaderPresent, LockHolderAttached, Writers
  <2> QED BY <2>4, <2>5, <2>6
<1>4. CASE DropClients
  <2> DEFINE stay == clients \ todrop
  <2>1. /\ clients' = stay /\ UNCHANGED <<mode, overflow, nextId>>
        /\ leader' = CascadeLeader(leader, stay, todrop, mode)
        /\ holder' = ReleaseDetached(todrop)
    BY <1>4 DEF DropClients
  <2>2. LeaderPresent'
    <3> SUFFICES ASSUME SlowAdmitted = {}, \E c \in stay : mode[c] = "rw"
                 PROVE  leader' # {}
      BY <2>1 DEF LeaderPresent, SlowAdmitted
    <3>1. leader # {}
      BY <1>2
    <3>2. leader \in SUBSET ClientIds /\ stay \in SUBSET ClientIds /\ mode \in [ClientIds -> Mode]
      BY DEF ClientsInv, TypeOK
    <3> QED BY <2>1, <3>1, <3>2, CascadePresent
  <2>3. LockHolderAttached'
    BY <2>1 DEF LockHolderAttached, ReleaseDetached, Writers
  <2>4. overflow' \subseteq SlowAdmitted'
    BY <2>1 DEF SlowAdmitted
  <2> QED BY <1>1, <2>2, <2>3, <2>4
<1>5. CASE \E req \in Request : AdmitAlongside(req)
  <2> PICK req \in Request : AdmitAlongside(req)
    BY <1>5
  <2> DEFINE id == nextId
  <2>1. id \in ClientIds /\ id \notin clients
    BY NewIdFresh DEF AdmitAlongside, ClientsInv
  <2>2. /\ clients' = clients \cup {id} /\ mode' = [mode EXCEPT ![id] = req.mode]
        /\ leader' = IF should_assign_leader(req.mode) THEN leader \cup {id} ELSE leader
        /\ holder' = holder /\ nextId' = nextId + 1
    BY DEF AdmitAlongside
  <2>3. overflow' \subseteq SlowAdmitted'
    BY OverflowAdmit
  <2>4. mode'[id] = req.mode /\ \A c \in clients : mode'[c] = mode[c]
    BY <2>1, <2>2 DEF ClientsInv, TypeOK
  <2>5. LeaderPresent'
    <3> SUFFICES ASSUME SlowAdmitted' = {}, \E c \in clients' : mode'[c] = "rw"
                 PROVE  leader' # {}
      BY DEF LeaderPresent, SlowAdmitted
    <3>1. SlowAdmitted = {}
      <4>1. nextId \in Nat /\ Slow \subseteq Nat
        BY BoundsAssumption DEF ClientsInv, TypeOK
      <4>2. nextId' = nextId + 1
        BY <2>2
      <4>3. \A c \in Slow : c < nextId => c < nextId'
        BY ONLY <4>1, <4>2, SMT
      <4> QED BY <4>3 DEF SlowAdmitted
    <3> QED BY <1>2, <2>2, <2>4, <3>1 DEF should_assign_leader
  <2>6. LockHolderAttached'
    BY <2>2, <2>4 DEF LockHolderAttached, Writers
  <2> QED BY <1>1, <2>3, <2>5, <2>6
<1>6. CASE \E req \in Request : AdmitTakingOver(req)
  <2> PICK req \in Request : AdmitTakingOver(req)
    BY <1>6
  <2> DEFINE id == nextId
             ls == IF should_assign_leader(req.mode) THEN leader \cup {id} ELSE leader
             m == [mode EXCEPT ![id] = req.mode]
  <2>1. id \in ClientIds /\ id \notin clients
    BY NewIdFresh DEF AdmitTakingOver, ClientsInv
  <2>2. /\ clients' = {id} /\ mode' = m
        /\ leader' = CascadeLeader(ls, {id}, clients, m)
        /\ holder' = ReleaseDetached(clients)
    BY DEF AdmitTakingOver
  <2>3. overflow' \subseteq SlowAdmitted'
    BY OverflowAdmit
  <2>4. m[id] = req.mode /\ m \in [ClientIds -> Mode]
    BY <2>1 DEF ClientsInv, TypeOK, Request
  <2>5. LeaderPresent'
    <3>1. ls # {} \/ req.mode # "rw"
      BY DEF should_assign_leader
    <3>2. ls \in SUBSET ClientIds /\ {id} \in SUBSET ClientIds
      BY <2>1 DEF ClientsInv, TypeOK
    <3> HIDE DEF ls, m
    <3>3. m[id] = "rw" => CascadeLeader(ls, {id}, clients, m) # {}
      BY <3>1, <3>2, <2>4, CascadePresent
    <3> QED BY <2>2, <3>3 DEF LeaderPresent
  <2>6. LockHolderAttached'
    BY <2>2 DEF LockHolderAttached, ReleaseDetached, Writers
  <2> QED BY <1>1, <2>3, <2>5, <2>6
<1>7. CASE TimeoutDrop
  <2>1. /\ clients' = clients \ overflow /\ leader' = leader \ overflow /\ overflow' = {}
        /\ UNCHANGED <<mode, holder, nextId>>
    BY <1>7 DEF TimeoutDrop
  <2>2. LeaderPresent'
    <3>1. SlowAdmitted = {} => overflow = {}
      OBVIOUS
    <3>2. SlowAdmitted' = SlowAdmitted
      BY <2>1 DEF SlowAdmitted
    <3> QED BY <1>2, <2>1, <3>1, <3>2 DEF LeaderPresent, SlowAdmitted
  <2>3. LockHolderAttached'
    BY <2>1 DEF LockHolderAttached, Writers, SlowAdmitted
  <2> QED BY <1>1, <2>1, <2>2, <2>3
<1>8. CASE \/ PollReady \/ PollTimeout \/ UpgradeAborted \/ DiscardHandshake
           \/ (\E req \in Request : RefuseHandshake(req)) \/ HandshakesDone
           \/ Signals \/ Accept \/ AcceptRefused \/ NoConnection \/ OutputAndReceive
  <2>1. /\ UNCHANGED <<clients, leader, mode, nextId>>
        /\ holder' \in {holder, NoClient}
    BY <1>8, Zenon DEF PollReady, PollTimeout, UpgradeAborted, DiscardHandshake, RefuseHandshake,
                HandshakesDone, Signals, Accept, AcceptRefused, NoConnection,
                OutputAndReceive, membership
  <2>2. overflow' \subseteq overflow \cup (clients \cap Slow)
    BY <1>8 DEF PollReady, PollTimeout, UpgradeAborted, DiscardHandshake, RefuseHandshake,
                HandshakesDone, Signals, Accept, AcceptRefused, NoConnection,
                OutputAndReceive, membership, Full, Writers
  <2>3. overflow' \subseteq SlowAdmitted'
    BY <2>1, <2>2 DEF SlowAdmitted, ClientsInv, FreshIds
  <2> QED BY <1>1, <2>1, <2>3 DEF LeaderPresent, LockHolderAttached, Writers
<1>9. CASE UNCHANGED vars
  BY <1>1, <1>9 DEF vars, LeaderPresent, LockHolderAttached, Writers, SlowAdmitted
<1> QED BY <1>3, <1>4, <1>5, <1>6, <1>7, <1>8, <1>9 DEF Next, Handshake

\* The invariant above holds throughout.
LEMMA ReadersInvHolds == Spec => []ReadersInv
<1>1. Init => ReadersInv
  BY TypeInit DEF Init, ReadersInv, ClientsInv, FreshIds, FrameOrder, SoleLeader,
                  SoleExclusiveWriter, LockHolderAttached, LeaderPresent
<1>2. ReadersInv /\ [Next]_vars => ReadersInv'
  BY ReadersInvStep
<1> QED BY <1>1, <1>2, PTL DEF Spec

\* The lock is only ever held by an attached client that may write, unless a
\* client whose queue was full left it behind.
THEOREM LockHolderStays == Spec => []LockHolderAttached
<1>1. ReadersInv => LockHolderAttached
  BY DEF ReadersInv
<1> QED BY <1>1, ReadersInvHolds, PTL

\* Somebody leads as long as an rw client is attached, until a client whose
\* queue can be full has been admitted.
THEOREM LeaderFound == Spec => []LeaderPresent
<1>1. ReadersInv => LeaderPresent
  BY DEF ReadersInv
<1> QED BY <1>1, ReadersInvHolds, PTL

-----------------------------------------------------------------------------
(* What the clients know.                                                  *)

\* What a client has been told after a LeaderNotify: whether it leads, if its
\* queue took it, and nothing else.
LEMMA LeaderNotifyAt ==
  ASSUME NEW s \in [ClientIds -> View], NEW cs, NEW ls, NEW c \in ClientIds
  PROVE  /\ c \in cs => LeaderNotify(s, cs, ls)[c].lead = (c \in ls)
         /\ c \notin cs => LeaderNotify(s, cs, ls)[c].lead = s[c].lead
         /\ LeaderNotify(s, cs, ls)[c].mode = s[c].mode
         /\ LeaderNotify(s, cs, ls)[c].lock = s[c].lock
<1>1. ASSUME NEW b \in BOOLEAN
      PROVE  /\ [s[c] EXCEPT !.lead = b].lead = b
             /\ [s[c] EXCEPT !.lead = b].mode = s[c].mode
             /\ [s[c] EXCEPT !.lead = b].lock = s[c].lock
  BY DEF View
<1>2. (c \in ls) \in BOOLEAN
  OBVIOUS
<1>3. /\ [s[c] EXCEPT !.lead = (c \in ls)].lead = (c \in ls)
      /\ [s[c] EXCEPT !.lead = (c \in ls)].mode = s[c].mode
      /\ [s[c] EXCEPT !.lead = (c \in ls)].lock = s[c].lock
  BY <1>1, <1>2, Zenon
<1>4. LeaderNotify(s, cs, ls)[c] = IF c \in cs THEN [s[c] EXCEPT !.lead = (c \in ls)] ELSE s[c]
  BY Zenon DEF LeaderNotify
<1> QED BY <1>3, <1>4, Zenon

\* What a client has been told after a ModeChange: the holder, and nothing else.
LEMMA ModeChangeAt ==
  ASSUME NEW s \in [ClientIds -> View], NEW cs, NEW h, NEW c \in ClientIds
  PROVE  /\ ModeChange(s, cs, h)[c].lock = IF c \in cs THEN h ELSE s[c].lock
         /\ ModeChange(s, cs, h)[c].mode = s[c].mode
         /\ ModeChange(s, cs, h)[c].lead = s[c].lead
BY DEF ModeChange, View

\* What a client that stays and took every frame knows after the cascade.
LEMMA CascadeSeenAt ==
  ASSUME NEW s \in [ClientIds -> View], NEW stay, NEW gone, NEW ls, NEW fl, NEW fm,
         NEW c \in ClientIds, c \in stay, c \notin fl, c \notin fm
  PROVE  /\ leader \cap gone # {} => CascadeSeen(s, stay, gone, ls, fl, fm)[c].lead = (c \in ls)
         /\ leader \cap gone = {} => CascadeSeen(s, stay, gone, ls, fl, fm)[c].lead = s[c].lead
         /\ CascadeSeen(s, stay, gone, ls, fl, fm)[c].mode = s[c].mode
         /\ holder \notin gone => CascadeSeen(s, stay, gone, ls, fl, fm)[c].lock = s[c].lock
<1> DEFINE s1 == IF leader \cap gone # {} THEN LeaderNotify(s, stay \ fl, ls) ELSE s
<1>1. s1 \in [ClientIds -> View]
  BY LeaderNotifyType
<1>2. /\ leader \cap gone # {} => s1[c].lead = (c \in ls)
      /\ leader \cap gone = {} => s1[c].lead = s[c].lead
      /\ s1[c].mode = s[c].mode /\ s1[c].lock = s[c].lock
  <2>1. CASE leader \cap gone = {}
    BY <2>1, Zenon
  <2>2. CASE leader \cap gone # {}
    <3>1. s1 = LeaderNotify(s, stay \ fl, ls) /\ c \in stay \ fl
      BY <2>2
    <3>2. /\ LeaderNotify(s, stay \ fl, ls)[c].lead = (c \in ls)
          /\ LeaderNotify(s, stay \ fl, ls)[c].mode = s[c].mode
          /\ LeaderNotify(s, stay \ fl, ls)[c].lock = s[c].lock
      BY <3>1, LeaderNotifyAt
    <3> HIDE DEF s1
    <3> QED BY <2>2, <3>1, <3>2, Zenon
  <2> QED BY <2>1, <2>2
<1>3. CascadeSeen(s, stay, gone, ls, fl, fm)
        = IF holder \in gone THEN ModeChange(s1, stay \ fm, NoClient) ELSE s1
  BY DEF CascadeSeen
<1> HIDE DEF s1
<1>4. CASE holder \notin gone
  BY <1>2, <1>3, <1>4, Zenon
<1>5. CASE holder \in gone
  <2>1. /\ CascadeSeen(s, stay, gone, ls, fl, fm)[c].lead = s1[c].lead
        /\ CascadeSeen(s, stay, gone, ls, fl, fm)[c].mode = s1[c].mode
    BY <1>1, <1>3, <1>5, ModeChangeAt
  <2> QED BY <1>2, <1>5, <2>1, Zenon
<1> QED BY <1>4, <1>5

\* A client whose queue is never full is among those a broadcast reaches.
LEMMA NeverFull ==
  ASSUME NEW S, NEW F \in Full(S), NEW c, c \notin Slow
  PROVE  c \notin F
BY DEF Full

\* What client c knows is what is true.
Knows(c) ==
  /\ seen[c].lead = (c \in leader) /\ seen[c].mode = mode[c]
  /\ holder # NoClient => seen[c].lock = holder

\* Admissions tell the newcomer everything and the others who leads.
LEMMA ViewsAdmit ==
  ASSUME ReadersInv, ViewsAgree, NEW req \in Request,
         AdmitAlongside(req) \/ AdmitTakingOver(req)
  PROVE  ViewsAgree'
<1> DEFINE id == nextId
           lead == should_assign_leader(req.mode)
<1>1. id \in ClientIds /\ id \notin clients
  BY NewIdFresh DEF AdmitAlongside, AdmitTakingOver, ReadersInv, ClientsInv
<1>2. leader \subseteq clients /\ clients \subseteq ClientIds /\ mode \in [ClientIds -> Mode]
      /\ seen \in [ClientIds -> View] /\ holder \in ClientIds \cup {NoClient}
  BY DEF ReadersInv, ClientsInv, SoleLeader, TypeOK
<1>3. lead => leader = {}
  BY <1>2 DEF should_assign_leader
<1>4. lead \in BOOLEAN /\ req.mode \in Mode
  BY DEF should_assign_leader, Request
<1> HIDE DEF lead
<1>5. ASSUME NEW deaf
      PROVE  LET s1 == [seen EXCEPT ![id] = Welcome(id, req, lead, deaf)]
             IN /\ s1 \in [ClientIds -> View]
                /\ s1[id].lead = lead /\ s1[id].mode = req.mode
                /\ id \notin deaf => s1[id].lock = holder
                /\ \A c \in clients : s1[c] = seen[c]
  <2>1. Welcome(id, req, lead, deaf) \in View
    BY <1>2, <1>4 DEF Welcome, View
  <2>2. /\ Welcome(id, req, lead, deaf).lead = lead
        /\ Welcome(id, req, lead, deaf).mode = req.mode
        /\ id \notin deaf => Welcome(id, req, lead, deaf).lock = holder
    BY DEF Welcome
  <2> QED BY <1>1, <1>2, <2>1, <2>2
<1>6. CASE AdmitAlongside(req)
  <2>1. PICK deaf \in Full({id}), full \in Full(clients \cup {id}) :
          LET s1 == [seen EXCEPT ![id] = Welcome(id, req, lead, deaf)]
          IN seen' = IF lead THEN LeaderNotify(s1, (clients \cup {id}) \ full, {id}) ELSE s1
    BY <1>6 DEF AdmitAlongside, lead
  <2> DEFINE s1 == [seen EXCEPT ![id] = Welcome(id, req, lead, deaf)]
  <2>2. /\ clients' = clients \cup {id} /\ mode' = [mode EXCEPT ![id] = req.mode]
        /\ leader' = IF lead THEN leader \cup {id} ELSE leader
        /\ holder' = holder
    BY <1>6 DEF AdmitAlongside, lead
  <2>3. /\ s1 \in [ClientIds -> View] /\ s1[id].lead = lead /\ s1[id].mode = req.mode
        /\ id \notin deaf => s1[id].lock = holder
        /\ \A c \in clients : s1[c] = seen[c]
    BY <1>5, Zenon
  <2>4. seen' = IF lead THEN LeaderNotify(s1, (clients \cup {id}) \ full, {id}) ELSE s1
    BY <2>1
  <2> HIDE DEF s1
  <2>5. ASSUME NEW c \in clients' \ Slow PROVE Knows(c)'
    <3>1. c \in ClientIds /\ c \notin full /\ c \notin deaf /\ (c \in clients \/ c = id)
      BY <1>1, <1>2, <2>2, <2>5, NeverFull
    <3>2. seen'[c].mode = s1[c].mode /\ seen'[c].lock = s1[c].lock
      BY <2>3, <2>4, <3>1, LeaderNotifyAt
    <3>3. s1[c].mode = mode'[c] /\ (holder' # NoClient => s1[c].lock = holder')
      BY <1>1, <1>2, <2>2, <2>3, <2>5, <3>1 DEF ViewsAgree
    <3>4. CASE lead
      <4>1. c \in (clients \cup {id}) \ full
        BY <3>1
      <4>2. seen'[c].lead = (c \in {id})
        <5>1. LeaderNotify(s1, (clients \cup {id}) \ full, {id})[c].lead = (c \in {id})
          BY <2>3, <3>1, <4>1, LeaderNotifyAt
        <5> QED BY <2>4, <3>4, <5>1, Zenon
      <4>3. leader' = {id}
        BY <1>3, <2>2, <3>4
      <4> QED BY <3>2, <3>3, <4>2, <4>3, Zenon DEF Knows
    <3>5. CASE ~lead
      <4>1. seen'[c].lead = s1[c].lead /\ leader' = leader
        BY <2>2, <2>4, <3>5
      <4>2. CASE c = id
        <5>1. ~s1[c].lead /\ s1[c].lead = lead /\ c \notin leader
          BY <1>1, <1>2, <2>3, <3>5, <4>2
        <5>2. s1[c].lead = (c \in leader)
          BY <5>1, <3>5, <1>4
        <5> QED BY <3>2, <3>3, <4>1, <5>2, Zenon DEF Knows
      <4>3. CASE c \in clients
        <5>1. s1[c].lead = seen[c].lead /\ seen[c].lead = (c \in leader)
          BY <2>3, <2>5, <4>3, Zenon DEF ViewsAgree
        <5> QED BY <3>2, <3>3, <4>1, <5>1, Zenon DEF Knows
      <4> QED BY <3>1, <4>2, <4>3
    <3> QED BY <3>4, <3>5
  <2> QED BY <2>5 DEF ViewsAgree, Knows
<1>7. CASE AdmitTakingOver(req)
  <2> DEFINE gone == clients
             ls == IF lead THEN leader \cup {id} ELSE leader
             promoted == CascadeLeader(ls, {id}, gone, [mode EXCEPT ![id] = req.mode])
  <2>1. PICK deaf \in Full({id}), full \in Full(gone \cup {id}), fl \in Full({id}), fm \in Full({id}) :
          LET s1 == [seen EXCEPT ![id] = Welcome(id, req, lead, deaf)]
              s2 == IF lead THEN LeaderNotify(s1, (gone \cup {id}) \ full, {id}) ELSE s1
          IN seen' = CascadeSeen(s2, {id}, gone, promoted, fl, fm)
    BY <1>7, Zenon DEF AdmitTakingOver, lead
  <2> DEFINE s1 == [seen EXCEPT ![id] = Welcome(id, req, lead, deaf)]
             s2 == IF lead THEN LeaderNotify(s1, (gone \cup {id}) \ full, {id}) ELSE s1
  <2>2. /\ clients' = {id} /\ mode' = [mode EXCEPT ![id] = req.mode]
        /\ leader' = promoted /\ holder' = ReleaseDetached(gone)
    BY <1>7 DEF AdmitTakingOver, lead
  <2>3. /\ s1 \in [ClientIds -> View] /\ s1[id].lead = lead /\ s1[id].mode = req.mode
        /\ id \notin deaf => s1[id].lock = holder
    BY <1>5, Zenon
  <2>4. seen' = CascadeSeen(s2, {id}, gone, promoted, fl, fm)
    BY <2>1
  <2>5. leader \cap gone = {} => promoted = IF lead THEN {id} ELSE {}
    BY <1>1, <1>2 DEF CascadeLeader
  <2> HIDE DEF s1, promoted
  <2>6. SUFFICES ASSUME NEW c, c = id, c \notin Slow PROVE Knows(c)'
    BY <2>2 DEF ViewsAgree, Knows
  <2>7. id \notin full /\ id \notin deaf /\ id \notin fl /\ id \notin fm
    BY <2>6, NeverFull
  <2>8. /\ s2 \in [ClientIds -> View] /\ s2[id].lead = lead /\ s2[id].mode = req.mode
        /\ s2[id].lock = holder
    <3>1. CASE ~lead
      BY <2>3, <2>7, <3>1
    <3>2. CASE lead
      <4>1. s2 = LeaderNotify(s1, (gone \cup {id}) \ full, {id}) /\ id \in (gone \cup {id}) \ full
        BY <2>7, <3>2
      <4>2. s2 \in [ClientIds -> View]
        BY <2>3, <4>1, LeaderNotifyType
      <4>3. s2[id].lead = (id \in {id}) /\ s2[id].mode = s1[id].mode /\ s2[id].lock = s1[id].lock
        <5>1. LET n == LeaderNotify(s1, (gone \cup {id}) \ full, {id})
              IN n[id].lead = (id \in {id}) /\ n[id].mode = s1[id].mode /\ n[id].lock = s1[id].lock
          BY <1>1, <2>3, <4>1, LeaderNotifyAt
        <5> HIDE DEF s2
        <5> QED BY <4>1, <5>1, Zenon
      <4>4. (id \in {id}) = lead
        BY <3>2, <1>4
      <4> QED BY <2>3, <2>7, <4>2, <4>3, <4>4, Zenon
    <3> QED BY <3>1, <3>2
  <2> HIDE DEF s2
  <2>9. /\ leader \cap gone # {} => seen'[id].lead = (id \in promoted)
        /\ leader \cap gone = {} => seen'[id].lead = s2[id].lead
        /\ seen'[id].mode = s2[id].mode
        /\ holder \notin gone => seen'[id].lock = s2[id].lock
    <3>1. id \in {id}
      OBVIOUS
    <3>2. LET t == CascadeSeen(s2, {id}, gone, promoted, fl, fm)
          IN /\ leader \cap gone # {} => t[id].lead = (id \in promoted)
             /\ leader \cap gone = {} => t[id].lead = s2[id].lead
             /\ t[id].mode = s2[id].mode
             /\ holder \notin gone => t[id].lock = s2[id].lock
      BY <1>1, <2>7, <2>8, <3>1, CascadeSeenAt
    <3> QED BY <2>4, <3>2, Zenon
  <2>10. seen'[id].lead = (id \in leader')
    <3>1. CASE leader \cap gone # {}
      BY <2>2, <2>9, <3>1, Zenon
    <3>2. CASE leader \cap gone = {}
      <4>1. lead = (id \in promoted)
        BY <1>4, <2>5, <3>2
      <4> QED BY <2>2, <2>8, <2>9, <3>2, <4>1, Zenon
    <3> QED BY <3>1, <3>2
  <2>11. seen'[id].mode = mode'[id] /\ (holder' # NoClient => seen'[id].lock = holder')
    BY <1>1, <1>2, <2>2, <2>8, <2>9 DEF ReleaseDetached
  <2> QED BY <2>6, <2>10, <2>11, Zenon DEF Knows
<1> QED BY <1>6, <1>7

\* Frames: a leader.request tells everyone who leads and the client its mode, the
\* lock frames tell everyone who holds the lock.
LEMMA ViewsFrame ==
  ASSUME ReadersInv, ViewsAgree, ClientFrame
  PROVE  ViewsAgree'
<1>1. clients \subseteq ClientIds /\ mode \in [ClientIds -> Mode] /\ seen \in [ClientIds -> View]
  BY DEF ReadersInv, ClientsInv, TypeOK
<1> PICK c \in ClientIds :
      \/ FrameDrop(c) \/ FrameIgnored(c)
      \/ \E all \in BOOLEAN : DetachTarget(c, all)
      \/ LeaderRequest(c) \/ LockAcquire(c) \/ LockRelease(c) \/ KillWait(c)
  BY DEF ClientFrame
<1>2. CASE LeaderRequest(c)
  <2>1. PICK deaf \in Full({c}), full \in Full(clients) :
          LET s1 == [seen EXCEPT ![c].mode = IF c \in deaf THEN @ ELSE "rw"]
          IN seen' = LeaderNotify(s1, clients \ full, {c})
    BY <1>2 DEF LeaderRequest
  <2> DEFINE s1 == [seen EXCEPT ![c].mode = IF c \in deaf THEN @ ELSE "rw"]
  <2>2. s1 \in [ClientIds -> View]
    BY <1>1 DEF View, Mode
  <2>3. UNCHANGED <<clients, holder>> /\ leader' = {c} /\ mode' = [mode EXCEPT ![c] = "rw"]
    BY <1>2 DEF LeaderRequest
  <2>4. ASSUME NEW d \in clients' \ Slow PROVE Knows(d)'
    <3>1. d \in ClientIds /\ d \in clients /\ d \notin deaf /\ d \in clients \ full
      BY <1>1, <2>3, <2>4, NeverFull
    <3>2. s1[d].lock = seen[d].lock /\ s1[d].mode = IF d = c THEN "rw" ELSE seen[d].mode
      BY <1>1, <3>1 DEF View
    <3> HIDE DEF s1
    <3>3. seen' = LeaderNotify(s1, clients \ full, {c})
      BY <2>1 DEF s1
    <3>4. LET n == LeaderNotify(s1, clients \ full, {c})
          IN n[d].lead = (d \in {c}) /\ n[d].mode = s1[d].mode /\ n[d].lock = s1[d].lock
      BY <2>2, <3>1, LeaderNotifyAt
    <3>5. seen'[d].lead = (d \in leader')
      BY <2>3, <3>3, <3>4, Zenon
    <3>6. seen'[d].mode = mode'[d]
      BY <1>1, <2>3, <2>4, <3>1, <3>2, <3>3, <3>4 DEF ViewsAgree
    <3>7. holder' # NoClient => seen'[d].lock = holder'
      BY <2>3, <2>4, <3>2, <3>3, <3>4 DEF ViewsAgree
    <3> QED BY <3>5, <3>6, <3>7, Zenon DEF Knows
  <2> QED BY <2>4 DEF ViewsAgree, Knows
<1>3. CASE LockAcquire(c) \/ LockRelease(c)
  <2>1. PICK full \in Full(clients) : seen' = ModeChange(seen, clients \ full, holder')
    BY <1>3 DEF LockAcquire, LockRelease
  <2>2. UNCHANGED <<clients, leader, mode>>
    BY <1>3 DEF LockAcquire, LockRelease
  <2>3. ASSUME NEW d \in clients' \ Slow PROVE Knows(d)'
    <3>1. d \in ClientIds /\ d \in clients /\ d \in clients \ full
      BY <1>1, <2>2, <2>3, NeverFull
    <3>2. seen'[d].lock = holder' /\ seen'[d].mode = seen[d].mode /\ seen'[d].lead = seen[d].lead
      BY <1>1, <2>1, <3>1, ModeChangeAt
    <3>3. seen[d].mode = mode[d] /\ seen[d].lead = (d \in leader)
      BY <2>3, <3>1, Zenon DEF ViewsAgree
    <3> QED BY <2>2, <3>2, <3>3, Zenon DEF Knows
  <2> QED BY <2>3 DEF ViewsAgree, Knows
<1>4. CASE \/ FrameDrop(c) \/ FrameIgnored(c) \/ KillWait(c)
           \/ \E all \in BOOLEAN : DetachTarget(c, all)
  <2>1. UNCHANGED <<clients, leader, mode, holder, seen>>
    BY <1>4 DEF FrameDrop, FrameIgnored, KillWait, DetachTarget, membership
  <2> QED BY <2>1 DEF ViewsAgree
<1> QED BY <1>2, <1>3, <1>4

\* The drop at the end of a pass tells those who stay.
LEMMA ViewsDrop ==
  ASSUME ReadersInv, ViewsAgree, DropClients
  PROVE  ViewsAgree'
<1> DEFINE stay == clients \ todrop
           ls == CascadeLeader(leader, stay, todrop, mode)
<1>1. clients \subseteq ClientIds /\ seen \in [ClientIds -> View]
  BY DEF ReadersInv, ClientsInv, TypeOK
<1>2. PICK fl \in Full(stay), fm \in Full(stay) :
        seen' = CascadeSeen(seen, stay, todrop, ls, fl, fm)
  BY DEF DropClients
<1>3. clients' = stay /\ leader' = ls /\ holder' = ReleaseDetached(todrop) /\ mode' = mode
  BY DEF DropClients
<1>4. leader \cap todrop = {} => ls = leader
  BY DEF CascadeLeader
<1> HIDE DEF ls
<1>5. ASSUME NEW d \in clients' \ Slow PROVE Knows(d)'
  <2>1. d \in ClientIds /\ d \in clients /\ d \in stay /\ d \notin fl /\ d \notin fm
    BY <1>1, <1>3, <1>5, NeverFull
  <2>2. LET t == CascadeSeen(seen, stay, todrop, ls, fl, fm)
        IN /\ leader \cap todrop # {} => t[d].lead = (d \in ls)
           /\ leader \cap todrop = {} => t[d].lead = seen[d].lead
           /\ t[d].mode = seen[d].mode
           /\ holder \notin todrop => t[d].lock = seen[d].lock
    BY <1>1, <2>1, CascadeSeenAt
  <2>3. /\ seen[d].lead = (d \in leader) /\ seen[d].mode = mode[d]
        /\ holder # NoClient => seen[d].lock = holder
    BY <1>5, <2>1, Zenon DEF ViewsAgree
  <2>4. seen'[d].lead = (d \in leader')
    <3>1. CASE leader \cap todrop # {}
      BY <1>2, <1>3, <2>2, <3>1, Zenon
    <3>2. CASE leader \cap todrop = {}
      BY <1>2, <1>3, <1>4, <2>2, <2>3, <3>2, Zenon
    <3> QED BY <3>1, <3>2
  <2>5. seen'[d].mode = mode'[d] /\ (holder' # NoClient => seen'[d].lock = holder')
    BY <1>2, <1>3, <2>2, <2>3 DEF ReleaseDetached
  <2> QED BY <2>4, <2>5, Zenon DEF Knows
<1> QED BY <1>5 DEF ViewsAgree, Knows

\* A client that always reads knows in every state whether it leads, its mode and
\* who holds the lock, however many clients there are and whichever are slow.
THEOREM ClientsInformed == Spec => []ViewsAgree
<1>1. Init => ViewsAgree
  BY DEF Init, ViewsAgree
<1>2. ASSUME ReadersInv, ViewsAgree, [Next]_vars PROVE ViewsAgree'
  <2>1. CASE ClientFrame
    BY <1>2, <2>1, ViewsFrame
  <2>2. CASE DropClients
    BY <1>2, <2>2, ViewsDrop
  <2>3. CASE \E req \in Request : AdmitAlongside(req) \/ AdmitTakingOver(req)
    BY <1>2, <2>3, ViewsAdmit
  <2>4. CASE TimeoutDrop
    <3>1. /\ clients' = clients \ overflow /\ leader' = leader \ overflow
          /\ UNCHANGED <<mode, holder, seen>>
      BY <2>4 DEF TimeoutDrop
    <3>2. ASSUME NEW c \in clients' \ Slow PROVE Knows(c)'
      <4>1. c \in clients \ Slow /\ (c \in leader') = (c \in leader)
        BY <1>2, <3>1, <3>2 DEF ReadersInv, SlowAdmitted
      <4>2. Knows(c)
        BY <1>2, <4>1, Zenon DEF ViewsAgree, Knows
      <4> QED BY <3>1, <4>1, <4>2, Zenon DEF Knows
    <3> QED BY <3>2 DEF ViewsAgree, Knows
  <2>5. CASE \/ PollReady \/ PollTimeout \/ UpgradeAborted \/ DiscardHandshake
             \/ (\E req \in Request : RefuseHandshake(req)) \/ HandshakesDone
             \/ Signals \/ Accept \/ AcceptRefused \/ NoConnection \/ OutputAndReceive
    <3>1. UNCHANGED <<clients, leader, mode, seen>> /\ holder' \in {holder, NoClient}
      BY <2>5, Zenon DEF PollReady, PollTimeout, UpgradeAborted, DiscardHandshake, RefuseHandshake,
                  HandshakesDone, Signals, Accept, AcceptRefused, NoConnection,
                  OutputAndReceive, membership
    <3> QED BY <1>2, <3>1 DEF ViewsAgree
  <2>6. CASE UNCHANGED vars
    BY <1>2, <2>6 DEF vars, ViewsAgree
  <2> QED BY <1>2, <2>1, <2>2, <2>3, <2>4, <2>5, <2>6 DEF Next, Handshake
<1> QED BY <1>1, <1>2, ReadersInvHolds, PTL DEF Spec

-----------------------------------------------------------------------------
(* A detach of others or all.                                              *)

\* From the frame that asked for it to the end of the pass no handshake is in
\* flight and all but at most one client are to be dropped; then they are gone.
SweepInv ==
  /\ swept => pc \in {"frames", "top", "ended"}
  /\ pc = "frames" /\ swept =>
       pending = 0 /\ \A c, d \in clients : c \in todrop \/ d \in todrop \/ c = d
  /\ pc = "top" /\ swept => pending = 0 /\ \A c, d \in clients : c = d

\* After a pass in which a detach of others or all was accepted at most one client
\* is left and no handshake survives.
THEOREM DetachSweeps == Spec => []SweptClean
<1>1. Init => SweepInv
  BY DEF Init, SweepInv
<1>2. ASSUME TypeOK, SweepInv, [Next]_vars PROVE SweepInv'
  <2> USE <1>2 DEF SweepInv, membership, pass
  <2>1. CASE ClientFrame
    <3> PICK c \in ClientIds :
          \/ FrameDrop(c) \/ FrameIgnored(c)
          \/ \E all \in BOOLEAN : DetachTarget(c, all)
          \/ LeaderRequest(c) \/ LockAcquire(c) \/ LockRelease(c) \/ KillWait(c)
      BY <2>1 DEF ClientFrame
    <3>1. CASE \E all \in BOOLEAN : DetachTarget(c, all)
      BY <3>1 DEF DetachTarget, Handling
    <3>2. CASE ~ \E all \in BOOLEAN : DetachTarget(c, all)
      <4>1. UNCHANGED <<pc, clients, pending, swept>> /\ todrop \subseteq todrop' /\ pc = "frames"
        BY <3>2 DEF FrameDrop, FrameIgnored, LeaderRequest, LockAcquire, LockRelease, KillWait, Handling
      <4> QED BY <4>1
    <3> QED BY <3>1, <3>2
  <2>2. CASE DropClients
    BY <2>2 DEF DropClients
  <2>3. CASE Handshake
    <3>1. pc = "handshakes" /\ UNCHANGED <<pc, swept>>
      <4>1. CASE DiscardHandshake
        BY <4>1 DEF DiscardHandshake
      <4>2. ASSUME NEW req \in Request, RefuseHandshake(req) PROVE pc = "handshakes" /\ UNCHANGED <<pc, swept>>
        BY <4>2 DEF RefuseHandshake
      <4>3. ASSUME NEW req \in Request, AdmitAlongside(req) PROVE pc = "handshakes" /\ UNCHANGED <<pc, swept>>
        BY <4>3 DEF AdmitAlongside
      <4>4. ASSUME NEW req \in Request, AdmitTakingOver(req) PROVE pc = "handshakes" /\ UNCHANGED <<pc, swept>>
        BY <4>4 DEF AdmitTakingOver
      <4> QED BY <2>3, <4>1, <4>2, <4>3, <4>4 DEF Handshake
    <3> QED BY <3>1
  <2>4. CASE PollReady \/ PollTimeout \/ UpgradeAborted
    BY <2>4 DEF PollReady, PollTimeout, UpgradeAborted
  <2>5. CASE \/ HandshakesDone \/ TimeoutDrop \/ Signals \/ Accept \/ AcceptRefused
             \/ NoConnection \/ OutputAndReceive
    BY <2>5 DEF HandshakesDone, TimeoutDrop, Signals, Accept, AcceptRefused, NoConnection,
                OutputAndReceive
  <2>6. CASE UNCHANGED vars
    BY <2>6 DEF vars
  <2> QED BY <2>1, <2>2, <2>3, <2>4, <2>5, <2>6 DEF Next
<1>3. SweepInv => SweptClean
  <2> SUFFICES ASSUME SweepInv, pc = "top", swept PROVE Cardinality(clients) <= 1 /\ pending = 0
    BY DEF SweptClean
  <2>1. clients = {} \/ \E c : clients = {c}
    BY DEF SweepInv
  <2>2. Cardinality(clients) \in {0, 1}
    <3>1. Cardinality({}) = 0 /\ \A c : Cardinality({c}) = 1
      BY FS_EmptySet, FS_Singleton
    <3> QED BY <2>1, <3>1
  <2> QED BY <2>2 DEF SweepInv
<1> QED BY <1>1, <1>2, <1>3, TypeCorrect, PTL DEF Spec

-----------------------------------------------------------------------------
(* The child: the inductive invariant.                                     *)

ChildTypeOK ==
  /\ kid \in Child!Kid
  /\ deferred \in Child!Codes \cup {Child!NoCode}
  /\ place \in {"start", "top", "observe", "master", "frames", "upgrade",
               "finalize", "grace", "last", "done"}
  /\ outcome \in {"none", "exited", "killed", "error"}
  /\ upgrades \in Nat

\* A child has a status from the moment it ends.
HasStatus(k) == k.status = Child!NoCode <=> k.st \in {"running", "stopped"}

\* What is deferred is the status of the reaped child; and before the first upgrade a child
\* that is reaped while the daemon still runs is one whose status is deferred.
DeferredTrue ==
  /\ deferred # Child!NoCode => kid.st = "reaped" /\ deferred = kid.status
  /\ kid.st = "reaped" /\ place # "done" => deferred # Child!NoCode \/ Child!Upgraded

\* An upgrade has been counted before anything follows from it.
UpgradeCounted == upgrading \/ "USR1" \in sigs \/ place = "upgrade" => Child!Upgraded

\* How the loop was left, and what for.
Ending ==
  /\ outcome = "none" <=> place \notin {"finalize", "grace", "last", "done"}
  /\ outcome = "exited" => place \in {"finalize", "done"} /\ deferred # Child!NoCode
  /\ place = "done" /\ outcome # "error" => result = Child!Unreaped \/ kid.st \in {"reaped", "lost"}

ExitInv ==
  /\ ChildTypeOK /\ HasStatus(kid) /\ DeferredTrue /\ UpgradeCounted /\ Ending
  /\ ExitCodeFaithful

-----------------------------------------------------------------------------
(* What may become of the child and of what is deferred.                   *)

KidOK(k) == k \in Child!Kid /\ HasStatus(k)

\* The child is as before, or stopped, or runs again.
Grown(k, j) ==
  /\ KidOK(j) /\ j.status = k.status
  /\ j.st = k.st \/ (k.st \in {"running", "stopped"} /\ j.st \in {"running", "stopped"})

\* One step of the child: it goes on, ends, is reaped and its status deferred, or is reaped
\* by the probe on SIGCONT.
KidStep ==
  /\ KidOK(kid')
  /\ \/ Grown(kid, kid') /\ deferred' = deferred
     \/ kid.st \in {"running", "stopped"} /\ kid'.st = "zombie" /\ deferred' = deferred
     \/ /\ kid.st = "zombie" /\ kid'.st = "reaped" /\ kid'.status = kid.status
        /\ deferred' = IF deferred = Child!NoCode THEN kid.status ELSE deferred
     \/ /\ kid.st = "zombie" /\ kid'.st = "lost" /\ kid'.status = kid.status
        /\ deferred' = deferred

\* SIGCONT lets a stopped child run.
LEMMA ContinuedGrows ==
  ASSUME NEW k, KidOK(k), NEW j \in Child!Continued(k)
  PROVE  Grown(k, j)
BY DEF Child!Continued, Grown, KidOK, HasStatus, Child!Kid

\* The probe on SIGCONT does so too, or reaps a child that has ended.
LEMMA ProbeSteps ==
  ASSUME KidOK(kid), NEW j \in Child!ContProbe
  PROVE  /\ KidOK(j)
         /\ Grown(kid, j) \/ (kid.st = "zombie" /\ j.st = "lost" /\ j.status = kid.status)
<1>1. CASE latched
  <2>1. j \in Child!Continued(kid)
    BY <1>1 DEF Child!ContProbe
  <2> QED BY <2>1, ContinuedGrows DEF Grown
<1>2. CASE ~latched /\ kid.st = "zombie"
  <2>1. j = [kid EXCEPT !.st = "lost", !.evt = "none"]
    BY <1>2 DEF Child!ContProbe
  <2>2. j \in Child!Kid /\ j.st = "lost" /\ j.status = kid.status
    BY <2>1 DEF KidOK, Child!Kid
  <2> QED BY <1>2, <2>2 DEF KidOK, HasStatus
<1>3. CASE ~latched /\ kid.st # "zombie" /\ kid.evt = "stopped"
  <2> DEFINE q == [kid EXCEPT !.evt = "none"]
  <2>1. KidOK(q) /\ q.st = kid.st /\ q.status = kid.status
    BY DEF KidOK, HasStatus, Child!Kid
  <2>2. j \in Child!Continued(q)
    BY <1>3 DEF Child!ContProbe
  <2> HIDE DEF q
  <2>3. Grown(q, j)
    BY <2>1, <2>2, ContinuedGrows
  <2> QED BY <2>1, <2>3 DEF Grown
<1>4. CASE ~latched /\ kid.st # "zombie" /\ kid.evt # "stopped"
  <2>1. j = kid
    BY <1>4 DEF Child!ContProbe
  <2> QED BY <2>1 DEF Grown
<1> QED BY <1>1, <1>2, <1>3, <1>4

\* What a waitpid of the daemon makes of the child and of what is deferred.
Seen(o) ==
  /\ KidOK(o.kid)
  /\ \/ Grown(kid, o.kid) /\ o.deferred = deferred
     \/ /\ kid.st = "zombie" /\ o.kid.st = "reaped" /\ o.kid.status = kid.status
        /\ o.deferred = IF deferred = Child!NoCode THEN kid.status ELSE deferred

\* That is all a waitpid does, with and without the check of the process state.
LEMMA ObservedSeen ==
  ASSUME KidOK(kid), NEW o \in Child!Observed
  PROVE  Seen(o) /\ Seen(Child!ProcstateChecked(o))
<1> DEFINE quiet == [kid EXCEPT !.evt = "none"]
           now(k, l, s, d) == [kid |-> k, latched |-> l, shown |-> s, deferred |-> d]
           gone == [quiet EXCEPT !.st = "reaped"]
           kept == IF deferred = Child!NoCode THEN kid.status ELSE deferred
           reapedNow == now(gone, FALSE, shown, kept)
<1>1. KidOK(quiet) /\ quiet.st = kid.st /\ quiet.status = kid.status
  BY DEF KidOK, HasStatus, Child!Kid
<1>2. kid.st = "zombie" => KidOK(gone) /\ gone.st = "reaped" /\ gone.status = kid.status
  BY DEF KidOK, HasStatus, Child!Kid
<1>3. \/ kid.st = "zombie" /\ o = reapedNow
      \/ \E k \in Child!NotifyChildStopped(quiet) : o = now(k, TRUE, TRUE, deferred)
      \/ o = now(quiet, FALSE, FALSE, deferred)
      \/ o = now(kid, latched, shown, deferred)
  BY DEF Child!Observed
<1> HIDE DEF quiet, gone
<1>4. \A k \in Child!NotifyChildStopped(quiet) : Grown(kid, k)
  <2>1. \A k \in Child!NotifyChildStopped(quiet) : Grown(quiet, k)
    BY <1>1, ContinuedGrows DEF Child!NotifyChildStopped, Grown
  <2> QED BY <1>1, <2>1 DEF Grown
<1>5. Seen(o)
  <2>1. CASE kid.st = "zombie" /\ o = reapedNow
    BY <1>2, <2>1 DEF Seen
  <2>2. ASSUME NEW k \in Child!NotifyChildStopped(quiet), o = now(k, TRUE, TRUE, deferred)
        PROVE  Seen(o)
    BY <1>4, <2>2 DEF Seen, Grown
  <2>3. CASE o = now(quiet, FALSE, FALSE, deferred)
    BY <1>1, <2>3 DEF Seen, Grown
  <2>4. CASE o = now(kid, latched, shown, deferred)
    BY <2>4 DEF Seen, Grown
  <2> QED BY <1>3, <2>1, <2>2, <2>3, <2>4
<1>6. Child!ProcstateChecked(o).kid = o.kid /\ Child!ProcstateChecked(o).deferred = o.deferred
  <2>1. \E k, l, s, d : o = now(k, l, s, d)
    BY <1>3
  <2>2. PICK k, l, s, d : o = now(k, l, s, d)
    BY <2>1
  <2> QED BY <2>2 DEF Child!ProcstateChecked
<1> QED BY <1>5, <1>6 DEF Seen

\* What is adopted of it.
LEMMA AdoptSteps ==
  ASSUME KidOK(kid), NEW o \in Child!Observed, NEW old,
         Child!Adopt(o, old) \/ Child!Adopt(Child!ProcstateChecked(o), old)
  PROVE  KidStep /\ ("USR1" \in sigs' => "USR1" \in old)
<1>1. Seen(o) /\ Seen(Child!ProcstateChecked(o))
  BY ObservedSeen
<1>2. ASSUME NEW p, Seen(p), Child!Adopt(p, old)
      PROVE  KidStep /\ ("USR1" \in sigs' => "USR1" \in old)
  <2>1. kid' = p.kid /\ deferred' = p.deferred /\ sigs' = old \cup Child!Raised(kid, p.kid)
    BY <1>2 DEF Child!Adopt
  <2>2. "USR1" \notin Child!Raised(kid, p.kid)
    BY DEF Child!Raised, Child!Chld
  <2>3. KidStep
    BY <1>2, <2>1 DEF KidStep, Seen, Grown
  <2> QED BY <2>1, <2>2, <2>3
<1> QED BY <1>1, <1>2

-----------------------------------------------------------------------------
(* The steps of the child and of the daemon around it.                     *)

Loop == {"start", "top", "observe", "master", "frames", "upgrade"}
Closing == {"finalize", "grace", "last"}

\* While the daemon runs: a step of the child, and of the daemon to another place.
LEMMA RunningStep ==
  ASSUME ExitInv, KidStep,
         place # "done", place' \in Loop \cup Closing,
         outcome' \in {"none", "exited", "killed", "error"},
         upgrades' \in Nat, Child!Upgraded => Child!Upgraded', UpgradeCounted',
         outcome' = "none" <=> place' \in Loop,
         outcome' = "exited" => place' = "finalize" /\ deferred # Child!NoCode
  PROVE  ExitInv'
<1>1. /\ KidOK(kid) /\ kid.status \in Child!Codes \cup {Child!NoCode}
      /\ kid'.status \in Child!Codes \cup {Child!NoCode}
  BY DEF ExitInv, ChildTypeOK, KidOK, KidStep, Child!Kid
<1>2. /\ deferred' \in Child!Codes \cup {Child!NoCode}
      /\ deferred # Child!NoCode =>
           deferred' = deferred /\ kid'.st = "reaped" /\ kid'.status = kid.status
  BY <1>1 DEF KidStep, ExitInv, ChildTypeOK, DeferredTrue, Grown
<1>3. ChildTypeOK' /\ HasStatus(kid')
  BY <1>2 DEF ExitInv, ChildTypeOK, KidStep, KidOK, Loop, Closing
<1>4. DeferredTrue'
  <2>1. deferred' # Child!NoCode => kid'.st = "reaped" /\ deferred' = kid'.status
    BY <1>2 DEF KidStep, ExitInv, DeferredTrue, Grown
  <2>2. kid'.st = "reaped" => deferred' # Child!NoCode \/ Child!Upgraded'
    <3>1. CASE kid.st = "zombie" /\ kid'.st = "reaped"
      BY <1>1, <3>1 DEF KidStep, KidOK, HasStatus, Grown
    <3>2. CASE kid.st = "reaped"
      BY <1>2, <3>2 DEF ExitInv, DeferredTrue, KidStep, Grown
    <3> QED BY <3>1, <3>2 DEF KidStep, Grown
  <2> QED BY <2>1, <2>2 DEF DeferredTrue
<1>5. Ending'
  BY <1>2 DEF Ending, Loop, Closing
<1>6. ExitCodeFaithful'
  BY <1>4 DEF ExitCodeFaithful, Child!ExitCodeFaithful, DeferredTrue, Loop, Closing
<1> QED BY <1>3, <1>4, <1>5, <1>6 DEF ExitInv

\* The world goes on, the daemon stays where it is.
LEMMA OutsideStep ==
  ASSUME ExitInv, KidStep, UNCHANGED <<place, outcome, result, deferred>>,
         upgrades' \in Nat, Child!Upgraded => Child!Upgraded', UpgradeCounted'
  PROVE  ExitInv'
<1>1. CASE place # "done"
  <2>1. /\ place \in Loop \cup Closing /\ outcome \in {"none", "exited", "killed", "error"}
        /\ outcome = "none" <=> place \in Loop
        /\ outcome = "exited" => place = "finalize" /\ deferred # Child!NoCode
    BY <1>1 DEF ExitInv, ChildTypeOK, Ending, Loop, Closing
  <2> QED BY <1>1, <2>1, RunningStep
<1>2. CASE place = "done"
  <2>1. KidOK(kid)
    BY DEF ExitInv, ChildTypeOK, KidOK
  <2>2. kid.st \in {"reaped", "lost"} => kid'.st = kid.st /\ kid'.status = kid.status
    BY DEF KidStep, Grown
  <2>3. ChildTypeOK' /\ HasStatus(kid')
    BY DEF ExitInv, ChildTypeOK, KidStep, KidOK
  <2>4. DeferredTrue' /\ Ending'
    BY <1>2, <2>2 DEF ExitInv, DeferredTrue, Ending
  <2>5. ExitCodeFaithful'
    BY <1>2, <2>2, <2>4 DEF ExitInv, ExitCodeFaithful, Child!ExitCodeFaithful, DeferredTrue, Ending
  <2> QED BY <2>3, <2>4, <2>5 DEF ExitInv
<1> QED BY <1>1, <1>2

\* A child that is left alone.
LEMMA Unmoved ==
  ASSUME KidOK(kid), UNCHANGED <<kid, deferred>>
  PROVE  KidStep
BY DEF KidStep, Grown

\* The child and those who signal it or the daemon.
LEMMA OutsideKeeps ==
  ASSUME ExitInv, Child!Outside \/ Child!DrainDeadline
  PROVE  ExitInv'
<1>1. KidOK(kid) /\ UpgradeCounted /\ upgrades \in Nat
  BY DEF ExitInv, ChildTypeOK, KidOK
<1> DEFINE Ended(c) == [kid EXCEPT !.st = "zombie", !.evt = "none", !.status = c]
<1>2. ASSUME NEW c \in Child!Codes, kid.st \in {"running", "stopped"}, kid' = Ended(c),
             deferred' = deferred
      PROVE  KidStep
  <2>1. Ended(c) \in Child!Kid /\ Ended(c).st = "zombie" /\ Ended(c).status = c
    BY <1>1 DEF KidOK, Child!Kid
  <2>2. c # Child!NoCode
    BY DEF Child!Codes, Child!NoCode, Child!OwnCode, Child!TermCode, Child!KillCode
  <2> HIDE DEF Ended
  <2> QED BY <1>2, <2>1, <2>2 DEF KidStep, KidOK, HasStatus
<1>3. CASE Child!ChildExit
  <2>1. Child!OwnCode \in Child!Codes /\ kid' = Ended(Child!OwnCode) /\ deferred' = deferred
    BY <1>3 DEF Child!ChildExit, Child!view, Child!Codes
  <2>2. KidStep
    BY <1>2, <1>3, <2>1 DEF Child!ChildExit
  <2> QED BY <1>1, <1>3, <2>2, OutsideStep
      DEF Child!ChildExit, Child!view, UpgradeCounted, Child!Upgraded, Child!Chld
<1>4. ASSUME NEW s, Child!ChildKilled(s) PROVE ExitInv'
  <2> DEFINE c == IF s = "TERM" THEN Child!TermCode ELSE Child!KillCode
  <2>1. /\ c \in Child!Codes /\ kid' = Ended(c) /\ deferred' = deferred
        /\ kid.st \in {"running", "stopped"}
    BY <1>4 DEF Child!ChildKilled, Child!view, Child!Codes
  <2>2. KidStep
    BY <1>2, <2>1
  <2> QED BY <1>1, <1>4, <2>2, OutsideStep
      DEF Child!ChildKilled, Child!view, UpgradeCounted, Child!Upgraded, Child!Chld
<1>5. CASE Child!ChildStop
  <2> DEFINE k == [kid EXCEPT !.st = "stopped", !.evt = "stopped"]
  <2>1. kid' = k /\ deferred' = deferred /\ kid.st = "running"
    BY <1>5 DEF Child!ChildStop, Child!view
  <2>2. k \in Child!Kid /\ k.status = kid.status /\ k.st = "stopped"
    BY <1>1 DEF KidOK, Child!Kid
  <2> HIDE DEF k
  <2>3. KidStep
    BY <1>1, <2>1, <2>2 DEF KidStep, Grown, KidOK, HasStatus
  <2> QED BY <1>1, <1>5, <2>3, OutsideStep
      DEF Child!ChildStop, Child!view, UpgradeCounted, Child!Upgraded, Child!Chld
<1>6. CASE Child!ChildContinued
  <2>1. PICK k \in Child!Continued(kid) : kid' = k /\ sigs' = sigs \cup Child!Raised(kid, k)
    BY <1>6 DEF Child!ChildContinued
  <2>2. KidStep
    BY <1>1, <1>6, <2>1, ContinuedGrows DEF KidStep, Grown, Child!ChildContinued, Child!view
  <2> QED BY <1>1, <1>6, <2>1, <2>2, OutsideStep
          DEF Child!ChildContinued, Child!view, UpgradeCounted, Child!Upgraded, Child!Raised,
              Child!Chld
<1>7. ASSUME NEW s \in ChildSignals, Child!SignalDaemon(s) PROVE ExitInv'
  <2>1. KidStep
    BY <1>1, <1>7, Unmoved DEF Child!SignalDaemon, Child!kernel, Child!view
  <2>2. upgrades' \in Nat /\ (Child!Upgraded => Child!Upgraded') /\ UpgradeCounted'
    BY <1>1, <1>7 DEF Child!SignalDaemon, UpgradeCounted, Child!Upgraded
  <2> QED BY <1>7, <2>1, <2>2, OutsideStep DEF Child!SignalDaemon, Child!view
<1>8. CASE Child!DrainDeadline
  <2>1. KidStep
    BY <1>1, <1>8, Unmoved DEF Child!DrainDeadline, Child!kernel, Child!view
  <2> QED BY <1>1, <1>8, <2>1, OutsideStep
      DEF Child!DrainDeadline, Child!view, UpgradeCounted, Child!Upgraded
<1> QED BY <1>3, <1>4, <1>5, <1>6, <1>7, <1>8 DEF Child!Outside

\* The steps of the loop that leave the child alone.
LEMMA LoopSteps ==
  ASSUME ExitInv,
         \/ Child!ReturnForUpgrade \/ Child!PollReady \/ Child!MasterOutput \/ Child!OtherFrames
         \/ Child!UpgradeFrame
         \/ \E p \in {"notify", "auto-resume"} : Child!SetFrame(p)
  PROVE  ExitInv'
<1>1. KidOK(kid) /\ UpgradeCounted /\ upgrades \in Nat
  BY DEF ExitInv, ChildTypeOK, KidOK
<1>2. /\ place \in Loop /\ place' \in Loop /\ UNCHANGED <<kid, deferred, sigs, outcome>>
      /\ upgrades' \in {upgrades, upgrades + 1}
      /\ \/ upgrades' = upgrades + 1
         \/ upgrades' = upgrades /\ upgrading' = upgrading /\ (place' = "upgrade" => upgrading)
  BY DEF Child!ReturnForUpgrade, Child!PollReady, Child!Looping, Child!MasterOutput,
         Child!OtherFrames, Child!UpgradeFrame, Child!SetFrame,
         Loop, Child!kernel, Child!view
<1>3. upgrades' \in Nat /\ (Child!Upgraded => Child!Upgraded') /\ UpgradeCounted'
  BY <1>1, <1>2 DEF UpgradeCounted, Child!Upgraded
<1>4. outcome = "none"
  BY <1>2 DEF ExitInv, Ending, Loop
<1>5. place # "done" /\ place' \in Loop \cup Closing
  BY <1>2 DEF Loop
<1> QED BY <1>1, <1>2, <1>3, <1>4, <1>5, Unmoved, RunningStep

\* The steps that look at the child.
LEMMA ObservingSteps ==
  ASSUME ExitInv, Child!EnterLoop \/ Child!ObserveChild \/ Child!PollTimeout \/ Child!MasterClosed
  PROVE  ExitInv'
<1>1. KidOK(kid) /\ UpgradeCounted /\ upgrades \in Nat
  BY DEF ExitInv, ChildTypeOK, KidOK
<1>2. KidStep /\ ("USR1" \in sigs' => "USR1" \in sigs)
  <2>1. CASE Child!EnterLoop \/ Child!ObserveChild
    <3>1. \E o \in Child!Observed : Child!Adopt(o, sigs)
      BY <2>1 DEF Child!EnterLoop, Child!ObserveChild
    <3> QED BY <1>1, <3>1, AdoptSteps
  <2>2. CASE Child!PollTimeout
    <3>1. \E o \in Child!Observed : Child!Adopt(Child!ProcstateChecked(o), sigs)
      BY <2>2 DEF Child!PollTimeout
    <3> QED BY <1>1, <3>1, AdoptSteps
  <2>3. CASE Child!MasterClosed
    <3>1. (UNCHANGED <<kid, deferred, sigs>>) \/ \E o \in Child!Observed : Child!Adopt(o, sigs)
      BY <2>3 DEF Child!MasterClosed, Child!view
    <3> QED BY <1>1, <3>1, AdoptSteps, Unmoved
  <2> QED BY <2>1, <2>2, <2>3
<1>3. /\ place \in Loop /\ place' \in Loop /\ place' # "upgrade"
      /\ UNCHANGED <<outcome, upgrades, upgrading>>
  BY DEF Child!EnterLoop, Child!ObserveChild, Child!PollTimeout, Child!MasterClosed,
         Child!Looping, Loop
<1>4. UpgradeCounted' /\ (Child!Upgraded => Child!Upgraded')
  BY <1>1, <1>2, <1>3 DEF UpgradeCounted, Child!Upgraded
<1>5. outcome = "none"
  BY <1>3 DEF ExitInv, Ending, Loop
<1>6. place # "done" /\ place' \in Loop \cup Closing
  BY <1>3 DEF Loop
<1> QED BY <1>1, <1>2, <1>3, <1>4, <1>5, <1>6, RunningStep

\* The frames and signals that touch the child, and the end of the loop.
LEMMA FrameSteps ==
  ASSUME ExitInv,
         \/ Child!HandleSignals \/ Child!ResumeFrame
         \/ (\E wait \in BOOLEAN : Child!KillFrame(wait))
         \/ Child!TimedOut \/ Child!UntilMatched \/ Child!MasterFailed \/ Child!ReturnChildExited
  PROVE  ExitInv'
<1>1. /\ KidOK(kid) /\ UpgradeCounted /\ upgrades \in Nat
      /\ outcome \in {"none", "exited", "killed", "error"}
  BY DEF ExitInv, ChildTypeOK, KidOK
<1>2. KidStep /\ ("USR1" \in sigs' => "USR1" \in sigs)
  <2>1. CASE Child!HandleSignals
    <3>1. PICK k \in (IF "CONT" \in sigs THEN Child!ContProbe ELSE {kid}) :
            kid' = k /\ sigs' = Child!Raised(kid, k)
      BY <2>1 DEF Child!HandleSignals
    <3>2. deferred' = deferred /\ "USR1" \notin sigs'
      BY <2>1, <3>1 DEF Child!HandleSignals, Child!view, Child!Raised, Child!Chld
    <3>3. CASE k \in Child!ContProbe
      <4>1. /\ KidOK(k)
            /\ Grown(kid, k) \/ (kid.st = "zombie" /\ k.st = "lost" /\ k.status = kid.status)
        BY <1>1, <3>3, ProbeSteps
      <4> QED BY <3>1, <3>2, <4>1 DEF KidStep, Grown
    <3>4. CASE k = kid
      BY <1>1, <3>1, <3>2, <3>4 DEF KidStep, Grown
    <3> QED BY <3>1, <3>2, <3>3, <3>4
  <2>2. CASE Child!ResumeFrame \/ \E wait \in BOOLEAN : Child!KillFrame(wait)
    <3>1. PICK k \in Child!Continued(kid) : kid' = k /\ sigs' = sigs \cup Child!Raised(kid, k)
      BY <2>2 DEF Child!ResumeFrame, Child!KillFrame
    <3>2. deferred' = deferred /\ ("USR1" \in sigs' => "USR1" \in sigs)
      BY <2>2, <3>1 DEF Child!ResumeFrame, Child!KillFrame, Child!view, Child!Raised, Child!Chld
    <3>3. Grown(kid, k)
      BY <1>1, ContinuedGrows
    <3> QED BY <3>1, <3>2, <3>3 DEF KidStep, Grown
  <2>3. CASE Child!TimedOut \/ Child!UntilMatched \/ Child!MasterFailed \/ Child!ReturnChildExited
    <3>1. UNCHANGED <<kid, deferred, sigs>>
      BY <2>3 DEF Child!TimedOut, Child!UntilMatched, Child!MasterFailed, Child!ReturnChildExited,
                  Child!view, Child!kernel
    <3> QED BY <1>1, <3>1, Unmoved
  <2> QED BY <2>1, <2>2, <2>3
<1>3. place \in Loop /\ upgrades' = upgrades
  BY DEF Child!HandleSignals, Child!ResumeFrame, Child!KillFrame, Child!TimedOut,
         Child!UntilMatched, Child!MasterFailed,
         Child!ReturnChildExited, Child!Looping, Loop
<1>4. outcome = "none"
  BY <1>3 DEF ExitInv, Ending, Loop
<1>5. \/ place' \in Loop /\ place' # "upgrade" /\ outcome' = "none"
      \/ place' = "finalize" /\ outcome' \in {"killed", "error"}
      \/ place' = "finalize" /\ outcome' = "exited" /\ deferred # Child!NoCode
  BY <1>4 DEF Child!HandleSignals, Child!ResumeFrame, Child!KillFrame, Child!TimedOut,
              Child!UntilMatched, Child!MasterFailed,
              Child!ReturnChildExited, Loop
<1>6. upgrading' => upgrading \/ "USR1" \in sigs
  BY DEF Child!HandleSignals, Child!ResumeFrame, Child!KillFrame, Child!TimedOut,
         Child!UntilMatched, Child!MasterFailed,
         Child!ReturnChildExited
<1>7. UpgradeCounted' /\ (Child!Upgraded => Child!Upgraded')
  BY <1>1, <1>2, <1>3, <1>5, <1>6 DEF UpgradeCounted, Child!Upgraded
<1>8. /\ place # "done" /\ place' \in Loop \cup Closing
      /\ outcome' \in {"none", "exited", "killed", "error"}
      /\ outcome' = "none" <=> place' \in Loop
      /\ outcome' = "exited" => place' = "finalize" /\ deferred # Child!NoCode
      /\ upgrades' \in Nat
  BY <1>1, <1>3, <1>5 DEF Loop, Closing
<1> QED BY <1>2, <1>7, <1>8, RunningStep

\* An upgrade that fails or succeeds, and one that ends the session.
LEMMA UpgradeSteps ==
  ASSUME ExitInv,
         \/ Child!UpgradePrecheckFailed \/ Child!UpgradeExecFailed \/ Child!UpgradeExec
         \/ Child!UpgradePrepFailed
  PROVE  ExitInv'
<1>1. place = "upgrade" /\ UNCHANGED <<kid, upgrades>>
  BY DEF Child!UpgradePrecheckFailed, Child!UpgradeExecFailed, Child!UpgradeExec,
         Child!UpgradePrepFailed, Child!kernel
<1>2. Child!Upgraded /\ Child!Upgraded' /\ UpgradeCounted' /\ outcome = "none"
  BY <1>1 DEF ExitInv, UpgradeCounted, Child!Upgraded, Ending
<1>3. CASE Child!UpgradePrecheckFailed \/ Child!UpgradeExecFailed \/ Child!UpgradeExec
  <2>1. place' = "start" /\ deferred' = Child!NoCode /\ outcome' = outcome
    BY <1>3 DEF Child!UpgradePrecheckFailed, Child!UpgradeExecFailed, Child!UpgradeExec,
                Child!FreshLoop
  <2>2. ChildTypeOK' /\ HasStatus(kid')
    BY <1>1, <2>1 DEF ExitInv, ChildTypeOK
  <2>3. DeferredTrue' /\ Ending' /\ ExitCodeFaithful'
    BY <1>2, <2>1 DEF DeferredTrue, Ending, ExitCodeFaithful, Child!ExitCodeFaithful
  <2> QED BY <1>2, <2>2, <2>3 DEF ExitInv
<1>4. CASE Child!UpgradePrepFailed
  <2>1. place' = "done" /\ outcome' = "error" /\ deferred' = deferred
    BY <1>4 DEF Child!UpgradePrepFailed, Child!view
  <2>2. ChildTypeOK' /\ HasStatus(kid')
    BY <1>1, <2>1 DEF ExitInv, ChildTypeOK
  <2>3. DeferredTrue' /\ Ending' /\ ExitCodeFaithful'
    BY <1>1, <1>2, <2>1 DEF ExitInv, DeferredTrue, Ending, ExitCodeFaithful, Child!ExitCodeFaithful
  <2> QED BY <1>2, <2>2, <2>3 DEF ExitInv
<1> QED BY <1>3, <1>4

\* finalize_child on its way.
LEMMA FinaleSteps ==
  ASSUME ExitInv, Child!FinalizeTerm \/ Child!GraceOver
  PROVE  ExitInv'
<1>1. /\ KidOK(kid) /\ UpgradeCounted /\ upgrades \in Nat
      /\ outcome \in {"none", "exited", "killed", "error"}
  BY DEF ExitInv, ChildTypeOK, KidOK
<1>2. KidStep
  <2>1. CASE Child!FinalizeTerm
    <3>1. PICK k \in Child!Continued(kid) : kid' = k
      BY <2>1 DEF Child!FinalizeTerm
    <3>2. deferred' = deferred /\ Grown(kid, k)
      BY <1>1, <2>1, ContinuedGrows DEF Child!FinalizeTerm, Child!view
    <3> QED BY <3>1, <3>2 DEF KidStep, Grown
  <2>2. CASE Child!GraceOver
    BY <1>1, <2>2, Unmoved DEF Child!GraceOver, Child!view
  <2> QED BY <2>1, <2>2
<1>3. /\ place \in {"finalize", "grace"} /\ place' \in {"grace", "last"}
      /\ UNCHANGED <<sigs, upgrading, upgrades, outcome>>
  BY DEF Child!FinalizeTerm, Child!GraceOver
<1>4. outcome \notin {"none", "exited"}
  BY DEF Child!FinalizeTerm, Child!GraceOver, ExitInv, Ending
<1>5. UpgradeCounted' /\ (Child!Upgraded => Child!Upgraded')
  BY <1>1, <1>3 DEF UpgradeCounted, Child!Upgraded
<1>6. place # "done" /\ place' \in Loop \cup Closing /\ place' \notin Loop
  BY <1>3 DEF Loop, Closing
<1> QED BY <1>1, <1>2, <1>3, <1>4, <1>5, <1>6, RunningStep

\* serve() returns.
LEMMA ReturnSteps ==
  ASSUME ExitInv, Child!FinalizeExited \/ Child!Reap \/ Child!GiveUp
  PROVE  ExitInv'
<1>1. KidOK(kid) /\ UpgradeCounted /\ ChildTypeOK
  BY DEF ExitInv, ChildTypeOK, KidOK
<1>2. /\ place' = "done" /\ UNCHANGED <<deferred, sigs, upgrading, upgrades, outcome>>
      /\ place \in Closing
  BY DEF Child!FinalizeExited, Child!Reap, Child!GiveUp, Child!view, Closing
<1>3. outcome # "none"
  BY <1>2 DEF ExitInv, Ending, Closing
<1>4. UpgradeCounted'
  BY <1>1, <1>2 DEF UpgradeCounted, Child!Upgraded, Closing
<1>5. CASE Child!FinalizeExited
  <2>1. kid' = kid /\ result' = deferred /\ outcome = "exited"
    BY <1>5 DEF Child!FinalizeExited, Child!kernel
  <2>2. deferred # Child!NoCode /\ kid.st = "reaped" /\ deferred = kid.status
    BY <2>1 DEF ExitInv, Ending, DeferredTrue
  <2>3. ChildTypeOK' /\ HasStatus(kid')
    BY <1>1, <1>2, <2>1 DEF ChildTypeOK, KidOK
  <2>4. DeferredTrue' /\ Ending' /\ ExitCodeFaithful'
    BY <1>2, <2>1, <2>2 DEF DeferredTrue, Ending, ExitCodeFaithful, Child!ExitCodeFaithful
  <2> QED BY <1>4, <2>3, <2>4 DEF ExitInv
<1>6. CASE Child!GiveUp
  <2>1. kid' = kid /\ result' = Child!Unreaped /\ outcome # "exited"
    BY <1>6 DEF Child!GiveUp, Child!kernel, ExitInv, Ending
  <2>2. ChildTypeOK' /\ HasStatus(kid')
    BY <1>1, <1>2, <2>1 DEF ChildTypeOK, KidOK
  <2>3. DeferredTrue' /\ Ending' /\ ExitCodeFaithful'
    BY <1>2, <1>3, <2>1 DEF ExitInv, DeferredTrue, Ending, ExitCodeFaithful, Child!ExitCodeFaithful
  <2> QED BY <1>4, <2>2, <2>3 DEF ExitInv
<1>7. CASE Child!Reap
  <2> DEFINE k == [kid EXCEPT !.st = IF @ = "zombie" THEN "reaped" ELSE @]
  <2>1. /\ kid' = k /\ kid.st \in {"zombie", "reaped", "lost"} /\ outcome # "exited"
        /\ result' = IF kid.st = "zombie" THEN kid.status ELSE Child!TermCode
    BY <1>7 DEF Child!Reap, ExitInv, Ending
  <2>2. /\ k \in Child!Kid /\ k.status = kid.status
        /\ k.st = IF kid.st = "zombie" THEN "reaped" ELSE kid.st
    BY <1>1 DEF KidOK, Child!Kid
  <2> HIDE DEF k
  <2>3. ChildTypeOK' /\ HasStatus(kid')
    BY <1>1, <1>2, <2>1, <2>2 DEF ChildTypeOK, KidOK, HasStatus
  <2>4. DeferredTrue'
    BY <1>2, <2>1, <2>2 DEF ExitInv, DeferredTrue
  <2>5. Ending'
    BY <1>2, <1>3, <2>1, <2>2 DEF Ending
  <2>6. outcome = "killed" /\ deferred = Child!NoCode /\ kid.st # "lost" /\ ~Child!Upgraded
          => kid.st = "zombie"
    BY <1>2, <2>1 DEF ExitInv, DeferredTrue, Closing
  <2>7. ExitCodeFaithful'
    <3>1. outcome' # "error" => outcome' = "killed"
      BY <1>2, <1>3, <2>1 DEF ExitInv, ChildTypeOK
    <3> QED BY <1>2, <2>1, <2>2, <2>4, <2>6, <3>1
        DEF ExitCodeFaithful, Child!ExitCodeFaithful, DeferredTrue, Child!Upgraded
  <2> QED BY <1>4, <2>3, <2>4, <2>5, <2>7 DEF ExitInv
<1> QED BY <1>5, <1>6, <1>7

\* The inductive invariant holds throughout.
LEMMA ExitInvHolds == Child!Spec => []ExitInv
<1>1. Child!Init => ExitInv
  BY DEF Child!Init, ExitInv, ChildTypeOK, Child!Kid, HasStatus, DeferredTrue, UpgradeCounted,
         Ending, ExitCodeFaithful, Child!ExitCodeFaithful, Child!NoCode
<1>2. ExitInv /\ [Child!Next]_(Child!vars) => ExitInv'
  <2> SUFFICES ASSUME ExitInv, [Child!Next]_(Child!vars) PROVE ExitInv'
    OBVIOUS
  <2>1. CASE UNCHANGED Child!vars
    BY <2>1 DEF Child!vars, ExitInv, ChildTypeOK, HasStatus, DeferredTrue, UpgradeCounted, Ending,
                ExitCodeFaithful, Child!ExitCodeFaithful, Child!Upgraded
  <2> QED BY <2>1, OutsideKeeps, LoopSteps, ObservingSteps, FrameSteps, UpgradeSteps, FinaleSteps,
             ReturnSteps DEF Child!Next, Child!Awake
<1> QED BY <1>1, <1>2, PTL DEF Child!Spec

\* Whatever ends the session (pty.rs: poll_with_transition; session.rs: defer_child_exit,
\* finalize_child): serve() returns the status the child ended with, and what it keeps for
\* the drain window is the status of a child that has been reaped.
THEOREM ExitCodeKept == Child!Spec => []ExitCodeFaithful
<1>1. ExitInv => ExitCodeFaithful
  BY DEF ExitInv
<1> QED BY <1>1, ExitInvHolds, PTL

=============================================================================
