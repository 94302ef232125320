------------------------- MODULE WebSupervisorProofs -------------------------
(***************************************************************************)
(* Proofs about WebSupervisor, for any number of units, addresses and      *)
(* commands and any number of requests, crashes and failed starts: the     *)
(* registry stays sound, and the supervisor loses sight of no child.       *)
(***************************************************************************)
EXTENDS WebSupervisor, WellFoundedInduction, TLAPS

-----------------------------------------------------------------------------
(* Types.                                                                  *)

RuntimeType ==
  [st : {"Absent", "Down", "Running", "Stopping"}, pid : Nat, killed : BOOLEAN,
   enabled : BOOLEAN, next : {"none", "now", "later"}]
ChildType == [st : {"up", "term", "kill", "orphan", "dead"}, listen : Addresses \cup {0}]
EntryType == [in : BOOLEAN, enabled : BOOLEAN]
UnitType == [rt : RuntimeType, kids : Seq(ChildType), ent : EntryType]
CmdType ==
  [st : {"idle", "ask", "locked", "written", "erase"},
   op : {"none", "start", "stop", "restart", "add", "remove"},
   req : {"none", "start", "stop", "restart", "reload"},
   u : Units \cup {NoUnit}, listen : Addresses \cup {0}]
Events ==
  [t : {"exit"}, u : Units, n : Nat \ {0}] \cup [t : {"request"}, c : Commands] \cup [t : {"signal"}]

SupervisorTypeOK ==
  /\ reg \in [Units -> EntryType]
  /\ units \in [Units -> RuntimeType]
  /\ child \in [Units -> Seq(ChildType)]
  /\ config \in [Units -> Addresses \cup {0}]
  /\ cmd \in [Commands -> CmdType]
  /\ channel \in Seq(Events)

-----------------------------------------------------------------------------
(* The invariants.                                                         *)

\* A process of the supervisor is the one the Runtime names.
Sound(x) ==
  \A n \in DOMAIN x.kids :
    Own(x.kids[n]) => x.rt.pid = n /\ x.rt.st \in {"Running", "Stopping"}

\* What a handler made of a unit: the entry is where it was, and the dead are dead.
Follows(x, y) ==
  /\ y.ent.in = x.ent.in
  /\ DOMAIN x.kids \subseteq DOMAIN y.kids
  /\ \A n \in DOMAIN x.kids : x.kids[n].st = "dead" => y.kids[n].st = "dead"

\* An exit that is still to be handled is that of a dead process.
ExitsTrue ==
  \A i \in DOMAIN channel :
    channel[i].t = "exit" =>
      /\ channel[i].n \in DOMAIN child[channel[i].u]
      /\ child[channel[i].u][channel[i].n].st = "dead"

ChildrenInv == SupervisorTypeOK /\ NoStrayChild /\ ExitsTrue

\* An add that has passed its checks holds the lock, and what it checked stays true
\* until it has written the unit.
AddGuarded ==
  \A c \in Commands :
    cmd[c].st \in {"locked", "written"} =>
      /\ lock = {c}
      /\ cmd[c].u \in Units /\ ~reg[cmd[c].u].in
      /\ LET a == IF cmd[c].st = "locked" THEN cmd[c].listen ELSE config[cmd[c].u]
         IN a # 0 /\ \A v \in Registered : config[v] # a

RegistryInv == SupervisorTypeOK /\ RegistrySound /\ AddGuarded

-----------------------------------------------------------------------------
(* What the handlers do to one unit.                                       *)

\* x is a sound unit, and what x was made from is y.
Kept(y, x) == x \in UnitType /\ Sound(x) /\ Follows(y, x)

\* Nothing done keeps a unit.
LEMMA KeptRefl ==
  ASSUME NEW x \in UnitType, Sound(x)
  PROVE  Kept(x, x)
BY DEF Kept, Follows

\* SIGTERM to a process leaves the list of processes as long as it was, the dead
\* dead, and makes no process one of the supervisor's that was not.
LEMMA TerminateKeeps ==
  ASSUME NEW kids \in Seq(ChildType), NEW p \in Nat
  PROVE  /\ Terminate(kids, p) \in Seq(ChildType)
         /\ DOMAIN Terminate(kids, p) = DOMAIN kids
         /\ \A n \in DOMAIN kids :
              /\ kids[n].st = "dead" => Terminate(kids, p)[n].st = "dead"
              /\ Own(Terminate(kids, p)[n]) => Own(kids[n])
<1>1. ASSUME NEW n \in DOMAIN kids
      PROVE  /\ Terminate(kids, p)[n] \in ChildType
             /\ kids[n].st = "dead" => Terminate(kids, p)[n].st = "dead"
             /\ Own(Terminate(kids, p)[n]) => Own(kids[n])
  <2>1. kids[n] \in ChildType
    OBVIOUS
  <2>2. CASE n # p
    BY <2>1, <2>2 DEF Terminate
  <2>3. CASE n = p
    <3>1. Terminate(kids, p)[n] = [kids[n] EXCEPT !.st = IF @ = "up" THEN "term" ELSE @]
      BY <2>3 DEF Terminate
    <3> QED BY <2>1, <3>1 DEF ChildType, Own
  <2> QED BY <2>2, <2>3
<1>2. DOMAIN Terminate(kids, p) = DOMAIN kids
  BY DEF Terminate
<1>3. Terminate(kids, p) \in [1..Len(kids) -> ChildType]
  <2> DEFINE e == [kids[p] EXCEPT !.st = IF @ = "up" THEN "term" ELSE @]
  <2>1. kids \in [1..Len(kids) -> ChildType]
    OBVIOUS
  <2>2. Terminate(kids, p) = [kids EXCEPT ![p] = e]
    BY DEF Terminate
  <2>3. p \in 1..Len(kids) => e \in ChildType
    <3>1. p \in 1..Len(kids) => kids[p] \in ChildType
      BY <2>1
    <3>2. \A k \in ChildType : [k EXCEPT !.st = IF @ = "up" THEN "term" ELSE @] \in ChildType
      BY DEF ChildType
    <3> QED BY <3>1, <3>2, Zenon
  <2> HIDE DEF e
  <2> QED BY <2>1, <2>3, <2>2
<1> QED BY <1>1, <1>2, <1>3

\* stop keeps a unit.
LEMMA StopKeeps ==
  ASSUME NEW x \in UnitType, Sound(x)
  PROVE  Kept(x, Stop(x))
<1>1. x.rt \in RuntimeType /\ x.kids \in Seq(ChildType) /\ x.ent \in EntryType /\ x.rt.pid \in Nat
  BY DEF UnitType, RuntimeType
<1>2. CASE x.rt.st = "Running"
  <2> DEFINE k == Terminate(x.kids, x.rt.pid)
             t == [x.rt EXCEPT !.st = "Stopping", !.next = "none", !.killed = FALSE]
  <2>1. /\ k \in Seq(ChildType) /\ DOMAIN k = DOMAIN x.kids
        /\ \A n \in DOMAIN x.kids :
             (x.kids[n].st = "dead" => k[n].st = "dead") /\ (Own(k[n]) => Own(x.kids[n]))
    BY <1>1, TerminateKeeps
  <2>2. t \in RuntimeType /\ t.pid = x.rt.pid /\ t.st = "Stopping"
    BY <1>1 DEF RuntimeType
  <2> HIDE DEF k, t
  <2>3. Stop(x) = [x EXCEPT !.rt = t, !.kids = k]
    BY <1>2 DEF Stop, k, t
  <2>4. Stop(x).rt = t /\ Stop(x).kids = k /\ Stop(x).ent = x.ent /\ Stop(x) \in UnitType
    BY <1>1, <2>1, <2>2, <2>3 DEF UnitType
  <2> QED BY <2>1, <2>2, <2>4 DEF Kept, Sound, Follows
<1>3. CASE x.rt.st # "Running"
  <2> DEFINE t == [x.rt EXCEPT !.next = "none"]
  <2>1. t \in RuntimeType /\ t.pid = x.rt.pid /\ t.st = x.rt.st
    BY <1>1 DEF RuntimeType
  <2> HIDE DEF t
  <2>2. Stop(x) = [x EXCEPT !.rt = t]
    BY <1>1, <1>3 DEF Stop, t, UnitType
  <2>3. Stop(x).rt = t /\ Stop(x).kids = x.kids /\ Stop(x).ent = x.ent /\ Stop(x) \in UnitType
    BY <1>1, <2>1, <2>2 DEF UnitType
  <2> QED BY <2>1, <2>3 DEF Kept, Sound, Follows
<1> QED BY <1>2, <1>3

\* A unit whose Runtime is given another flag or schedule is kept.
LEMMA RuntimeKeeps ==
  ASSUME NEW x \in UnitType, Sound(x), NEW t \in RuntimeType,
         t.pid = x.rt.pid /\ t.st = x.rt.st
  PROVE  /\ Kept(x, [x EXCEPT !.rt = t])
         /\ [x EXCEPT !.rt = t].rt = t
<1>1. LET y == [x EXCEPT !.rt = t]
      IN y.rt = t /\ y.kids = x.kids /\ y.ent = x.ent /\ y \in UnitType
  BY DEF UnitType
<1> QED BY <1>1 DEF Kept, Sound, Follows

\* set_enabled keeps a unit.
LEMMA SetEnabledKeeps ==
  ASSUME NEW x \in UnitType, Sound(x), NEW e \in BOOLEAN
  PROVE  Kept(x, SetEnabled(x, e))
<1> DEFINE t == [x.rt EXCEPT !.enabled = e]
           d == [x.ent EXCEPT !.enabled = e]
<1>1. x.rt \in RuntimeType /\ x.ent \in EntryType
  BY DEF UnitType
<1>2. t \in RuntimeType /\ t.pid = x.rt.pid /\ t.st = x.rt.st /\ d \in EntryType /\ d.in = x.ent.in
  BY <1>1 DEF RuntimeType, EntryType
<1> HIDE DEF t, d
<1>3. SetEnabled(x, e) = [x EXCEPT !.ent = d, !.rt = t]
  BY <1>1 DEF SetEnabled, t, d, UnitType
<1>4. LET y == SetEnabled(x, e)
      IN y.rt = t /\ y.kids = x.kids /\ y.ent = d /\ y \in UnitType
  BY <1>2, <1>3 DEF UnitType
<1> QED BY <1>2, <1>4 DEF Kept, Sound, Follows

\* The end of apply_start keeps a unit.
LEMMA ScheduleKeeps ==
  ASSUME NEW x \in UnitType, Sound(x)
  PROVE  Kept(x, Schedule(x))
<1> DEFINE t == [x.rt EXCEPT !.next = "now"]
<1>1. t \in RuntimeType /\ t.pid = x.rt.pid /\ t.st = x.rt.st
  BY DEF UnitType, RuntimeType
<1>2. [x EXCEPT !.rt.next = "now"] = [x EXCEPT !.rt = t]
  BY DEF UnitType
<1> HIDE DEF t
<1> QED BY <1>1, <1>2, KeptRefl, RuntimeKeeps DEF Schedule

\* Keeping is transitive.
LEMMA KeptTrans ==
  ASSUME NEW x, NEW y, NEW z, Kept(x, y), Kept(y, z)
  PROVE  Kept(x, z)
BY DEF Kept, Follows

\* reload forgets a unit that left the registry only when it has no process.
LEMMA DroppedKeeps ==
  ASSUME NEW x \in UnitType, Sound(x)
  PROVE  Kept(x, Dropped(x))
<1>1. Kept(x, Stop(x))
  BY StopKeeps
<1>2. CASE Stop(x).rt.st # "Down"
  BY <1>1, <1>2 DEF Dropped
<1>3. CASE Stop(x).rt.st = "Down"
  <2>1. x.rt.st # "Running"
    <3>1. x.rt.st = "Running" => Stop(x).rt.st = "Stopping"
      BY DEF Stop, UnitType, RuntimeType
    <3> QED BY <1>3, <3>1
  <2>2. x.rt.st = "Down"
    BY <1>3, <2>1 DEF Stop, UnitType, RuntimeType
  <2>3. Absent \in RuntimeType
    BY DEF Absent, RuntimeType
  <2>4. LET y == [x EXCEPT !.rt = Absent]
        IN y.rt = Absent /\ y.kids = x.kids /\ y.ent = x.ent /\ y \in UnitType
    BY <2>3 DEF UnitType
  <2>5. \A n \in DOMAIN x.kids : ~Own(x.kids[n])
    BY <2>2 DEF Sound
  <2> QED BY <1>3, <2>4, <2>5 DEF Dropped, Kept, Sound, Follows
<1> QED BY <1>2, <1>3

\* reload creates or updates a listed unit and keeps it.
LEMMA ListedKeeps ==
  ASSUME NEW x \in UnitType, Sound(x)
  PROVE  Kept(x, Listed(x))
<1> DEFINE e == x.ent.enabled
           t == IF x.rt.st = "Absent" THEN NewRuntime(e) ELSE [x.rt EXCEPT !.enabled = e]
           k == [x EXCEPT !.rt = t]
<1>1. x.rt \in RuntimeType /\ e \in BOOLEAN
  BY DEF UnitType, EntryType
<1>2. /\ t \in RuntimeType
      /\ x.rt.st = "Absent" => t.st = "Down"
      /\ x.rt.st # "Absent" => t.st = x.rt.st /\ t.pid = x.rt.pid
  BY <1>1 DEF NewRuntime, Absent, RuntimeType
<1> HIDE DEF t
<1>3. k.rt = t /\ k.kids = x.kids /\ k.ent = x.ent /\ k \in UnitType
  BY <1>2 DEF UnitType
<1>4. k = [x EXCEPT !.rt = IF x.rt.st = "Absent" THEN NewRuntime(e) ELSE [@ EXCEPT !.enabled = e]]
  BY DEF t, UnitType
<1> HIDE DEF k
<1>5. Kept(x, k) /\ Sound(k)
  BY <1>2, <1>3 DEF Kept, Sound, Follows
<1>6. Kept(k, Stop(k))
  BY <1>3, <1>5, StopKeeps
<1>7. Kept(k, [k EXCEPT !.rt.next = "now"])
  <2> DEFINE n == [k.rt EXCEPT !.next = "now"]
  <2>1. n \in RuntimeType /\ n.pid = k.rt.pid /\ n.st = k.rt.st
    BY <1>3 DEF UnitType, RuntimeType
  <2>2. [k EXCEPT !.rt.next = "now"] = [k EXCEPT !.rt = n]
    BY <1>3 DEF UnitType
  <2> HIDE DEF n
  <2> QED BY <1>3, <1>5, <2>1, <2>2, RuntimeKeeps
<1>8. Listed(x) \in {k, [k EXCEPT !.rt.next = "now"], Stop(k)}
  BY <1>4 DEF Listed
<1> QED BY <1>5, <1>6, <1>7, <1>8, KeptTrans

\* The next entry of the channel, and those that stay in it.
LEMMA TailAt ==
  ASSUME NEW T, NEW s \in Seq(T), s # <<>>
  PROVE  /\ Tail(s) \in Seq(T) /\ Head(s) = s[1] /\ 1 \in DOMAIN s
         /\ \A i \in DOMAIN Tail(s) : i + 1 \in DOMAIN s /\ Tail(s)[i] = s[i + 1]
OBVIOUS

\* What the provers need to know of an appended event.
LEMMA AppendAt ==
  ASSUME NEW T, NEW s \in Seq(T), NEW e \in T
  PROVE  /\ Append(s, e) \in Seq(T)
         /\ DOMAIN Append(s, e) = DOMAIN s \cup {Len(s) + 1}
         /\ \A i \in DOMAIN s : Append(s, e)[i] = s[i]
         /\ Append(s, e)[Len(s) + 1] = e
         /\ Len(s) \in Nat /\ DOMAIN s = 1..Len(s)
OBVIOUS

-----------------------------------------------------------------------------
(* What the handlers do to all units.                                      *)

UnitTypes ==
  /\ reg \in [Units -> EntryType]
  /\ units \in [Units -> RuntimeType]
  /\ child \in [Units -> Seq(ChildType)]

UnitsSound == \A u \in Units : Sound(Of(u))

AllKept(x) == \A u \in Units : Kept(Of(u), x[u])

\* What is dead stays dead, and an entry stays where it is.
DeadStay ==
  \A u \in Units :
    /\ DOMAIN child[u] \subseteq DOMAIN child'[u]
    /\ \A n \in DOMAIN child[u] : child[u][n].st = "dead" => child'[u][n].st = "dead"
EntriesStay == \A u \in Units : reg'[u].in = reg[u].in

\* A unit of the state, and what nothing does to it.
LEMMA OfType ==
  ASSUME UnitTypes, UnitsSound, NEW u \in Units
  PROVE  /\ Of(u) \in UnitType /\ Sound(Of(u)) /\ Kept(Of(u), Of(u))
         /\ Of(u).rt = units[u] /\ Of(u).kids = child[u] /\ Of(u).ent = reg[u]
<1>1. Of(u) \in UnitType /\ Of(u).rt = units[u] /\ Of(u).kids = child[u] /\ Of(u).ent = reg[u]
  BY DEF UnitTypes, Of, UnitType
<1>2. Sound(Of(u))
  BY DEF UnitsSound
<1> QED BY <1>1, <1>2, KeptRefl

\* Every handler of a request keeps the units.
LEMMA HandlersKeep ==
  ASSUME UnitTypes, UnitsSound
  PROVE  /\ \A us : AllKept(ApplyStart(us)) /\ AllKept(ApplyStop(us)) /\ AllKept(StopUnits(us))
         /\ AllKept(Reload)
<1>1. ASSUME NEW u \in Units
      PROVE  /\ Kept(Of(u), Of(u)) /\ Kept(Of(u), Stop(Of(u)))
             /\ Kept(Of(u), Schedule(SetEnabled(Of(u), TRUE)))
             /\ Kept(Of(u), Stop(SetEnabled(Of(u), FALSE)))
             /\ Kept(Of(u), Listed(Of(u))) /\ Kept(Of(u), Dropped(Of(u)))
  <2>1. Of(u) \in UnitType /\ Sound(Of(u)) /\ Kept(Of(u), Of(u))
    BY OfType
  <2>2. Kept(Of(u), SetEnabled(Of(u), TRUE)) /\ Kept(Of(u), SetEnabled(Of(u), FALSE))
    BY <2>1, SetEnabledKeeps
  <2>3. /\ Kept(SetEnabled(Of(u), TRUE), Schedule(SetEnabled(Of(u), TRUE)))
        /\ Kept(SetEnabled(Of(u), FALSE), Stop(SetEnabled(Of(u), FALSE)))
    BY <2>2, ScheduleKeeps, StopKeeps DEF Kept
  <2>4. /\ Kept(Of(u), Schedule(SetEnabled(Of(u), TRUE)))
        /\ Kept(Of(u), Stop(SetEnabled(Of(u), FALSE)))
    BY <2>2, <2>3, KeptTrans
  <2> QED BY <2>1, <2>4, StopKeeps, ListedKeeps, DroppedKeeps
<1>2. ASSUME NEW us PROVE AllKept(ApplyStart(us)) /\ AllKept(ApplyStop(us)) /\ AllKept(StopUnits(us))
  BY <1>1 DEF AllKept, ApplyStart, ApplyStop, StopUnits
<1>3. AllKept(Reload)
  BY <1>1 DEF AllKept, Reload
<1> QED BY <1>2, <1>3

\* tick keeps the units: it starts only what is down.
LEMMA TickKeeps ==
  ASSUME UnitTypes, UnitsSound, config \in [Units -> Addresses \cup {0}],
         NEW ready \in SUBSET Wanted("later"), NEW late \in SUBSET Lingering, NEW bad
  PROVE  AllKept(Ticked(Wanted("now") \cup ready, bad, late))
<1> DEFINE go == Wanted("now") \cup ready
<1> SUFFICES ASSUME NEW u \in Units PROVE Kept(Of(u), Ticked(go, bad, late)[u])
  BY DEF AllKept
<1>1. /\ Of(u) \in UnitType /\ Sound(Of(u)) /\ Kept(Of(u), Of(u))
      /\ Of(u).rt = units[u] /\ Of(u).kids = child[u] /\ Of(u).ent = reg[u]
  BY OfType
<1>2. units[u] \in RuntimeType /\ child[u] \in Seq(ChildType) /\ units[u].pid \in Nat
  BY DEF UnitTypes, RuntimeType
<1>3. CASE u \in bad
  <2> DEFINE t == [units[u] EXCEPT !.next = "later"]
  <2>1. t \in RuntimeType /\ t.pid = units[u].pid /\ t.st = units[u].st
    BY <1>2 DEF RuntimeType
  <2>2. Ticked(go, bad, late)[u] = [Of(u) EXCEPT !.rt = t]
    BY <1>3 DEF Ticked, Of
  <2> HIDE DEF t
  <2> QED BY <1>1, <2>1, <2>2, RuntimeKeeps
<1>4. CASE u \notin bad /\ u \in go
  <2> DEFINE t == [units[u] EXCEPT !.st = "Running", !.pid = Len(child[u]) + 1, !.next = "none"]
             new == [st |-> "up", listen |-> config[u]]
             k == Append(child[u], new)
  <2>1. units[u].st = "Down"
    BY <1>4 DEF Wanted
  <2>2. t \in RuntimeType /\ t.pid = Len(child[u]) + 1 /\ t.st = "Running"
    <3>1. Len(child[u]) + 1 \in Nat
      BY <1>2
    <3> QED BY <1>2, <3>1 DEF RuntimeType
  <2>3. new \in ChildType
    BY DEF ChildType
  <2> HIDE DEF new, t
  <2>4. /\ k \in Seq(ChildType) /\ DOMAIN k = DOMAIN child[u] \cup {Len(child[u]) + 1}
        /\ \A i \in DOMAIN child[u] : k[i] = child[u][i]
    BY <1>2, <2>3, AppendAt
  <2>5. Ticked(go, bad, late)[u] = [Of(u) EXCEPT !.rt = t, !.kids = k]
    BY <1>4 DEF Ticked, Of, t, new
  <2> HIDE DEF k
  <2>6. LET y == Ticked(go, bad, late)[u]
        IN y.rt = t /\ y.kids = k /\ y.ent = reg[u] /\ y \in UnitType
    BY <1>1, <2>2, <2>4, <2>5 DEF UnitType
  <2>7. \A n \in DOMAIN child[u] : ~Own(child[u][n])
    BY <1>1, <2>1 DEF Sound
  <2> QED BY <1>1, <2>2, <2>4, <2>6, <2>7, ZenonT(60) DEF Kept, Sound, Follows
<1>5. CASE u \notin bad /\ u \notin go /\ u \in late
  <2> DEFINE p == units[u].pid
             t == [units[u] EXCEPT !.killed = TRUE]
             d == [child[u][p] EXCEPT !.st = IF @ = "dead" THEN @ ELSE "kill"]
             k == [child[u] EXCEPT ![p] = d]
  <2>1. units[u].st = "Stopping"
    BY <1>5 DEF Lingering
  <2>2. t \in RuntimeType /\ t.pid = p /\ t.st = "Stopping"
    BY <1>2, <2>1 DEF RuntimeType
  <2>3. p \in DOMAIN child[u] => d \in ChildType /\ (child[u][p].st = "dead" => d.st = "dead")
    <3>1. p \in DOMAIN child[u] => child[u][p] \in ChildType
      BY <1>2
    <3>2. \A x \in ChildType :
            LET y == [x EXCEPT !.st = IF @ = "dead" THEN @ ELSE "kill"]
            IN y \in ChildType /\ (x.st = "dead" => y.st = "dead")
      BY DEF ChildType
    <3> QED BY <3>1, <3>2, Zenon
  <2>4. Ticked(go, bad, late)[u] = [Of(u) EXCEPT !.rt = t, !.kids = k]
    BY <1>5 DEF Ticked, Of
  <2> HIDE DEF d, t
  <2>5. /\ k \in Seq(ChildType) /\ DOMAIN k = DOMAIN child[u]
        /\ \A i \in DOMAIN child[u] : k[i] = IF i = p THEN d ELSE child[u][i]
    <3>1. child[u] \in [1..Len(child[u]) -> ChildType] /\ Len(child[u]) \in Nat
      BY <1>2
    <3>2. k \in [1..Len(child[u]) -> ChildType]
      BY <2>3, <3>1
    <3> QED BY <3>1, <3>2
  <2> HIDE DEF k
  <2>6. LET y == Ticked(go, bad, late)[u]
        IN y.rt = t /\ y.kids = k /\ y.ent = reg[u] /\ y \in UnitType
    BY <1>1, <2>2, <2>4, <2>5 DEF UnitType
  <2>7. \A n \in DOMAIN child[u] : Own(child[u][n]) => p = n
    BY <1>1 DEF Sound
  <2>8. \A n \in DOMAIN k : Own(k[n]) => t.pid = n /\ t.st \in {"Running", "Stopping"}
    BY <2>2, <2>5, <2>7
  <2>9. \A n \in DOMAIN child[u] : child[u][n].st = "dead" => k[n].st = "dead"
    BY <2>3, <2>5
  <2> HIDE DEF p
  <2> QED BY <1>1, <2>5, <2>6, <2>8, <2>9, ZenonT(60) DEF Kept, Sound, Follows
<1>6. CASE u \notin bad /\ u \notin go /\ u \notin late
  BY <1>1, <1>6 DEF Ticked
<1> QED BY <1>3, <1>4, <1>5, <1>6

\* What it means for the state that all units are kept.
LEMMA BecomeKeeps ==
  ASSUME UnitTypes, UnitsSound, NEW x, AllKept(x), Become(x)
  PROVE  UnitTypes' /\ UnitsSound' /\ DeadStay /\ EntriesStay
<1>1. /\ \A u \in Units : units'[u] = x[u].rt /\ child'[u] = x[u].kids /\ reg'[u] = x[u].ent
      /\ units' = [u \in Units |-> x[u].rt] /\ child' = [u \in Units |-> x[u].kids]
      /\ reg' = [u \in Units |-> x[u].ent]
  BY DEF Become
<1>2. ASSUME NEW u \in Units
      PROVE  /\ x[u].rt \in RuntimeType /\ x[u].kids \in Seq(ChildType) /\ x[u].ent \in EntryType
             /\ Sound(x[u]) /\ Follows(Of(u), x[u])
  BY DEF AllKept, Kept, UnitType
<1>3. UnitTypes'
  BY <1>1, <1>2 DEF UnitTypes
<1>4. UnitsSound'
  BY <1>1, <1>2, ZenonT(40) DEF UnitsSound, Sound, Of
<1>5. DeadStay /\ EntriesStay
  BY <1>1, <1>2 DEF DeadStay, EntriesStay, Follows, Of
<1> QED BY <1>3, <1>4, <1>5

-----------------------------------------------------------------------------
(* The steps of the supervisor, its children and its commands.             *)

\* What becomes of the units in a step.
UnitsKept == UnitTypes' /\ UnitsSound' /\ DeadStay

\* A step that leaves units, children and registry alone.
LEMMA PlainKeeps ==
  ASSUME UnitTypes, UnitsSound, UNCHANGED <<units, child, reg>>
  PROVE  UnitsKept /\ EntriesStay
BY DEF UnitsKept, UnitTypes, UnitsSound, Sound, Of, DeadStay, EntriesStay

\* An exit that is handled is that of a process that is dead.
LEMMA ExitKeeps ==
  ASSUME UnitTypes, UnitsSound, NEW u \in Units, NEW n \in DOMAIN child[u],
         child[u][n].st = "dead", units' = ChildExited(u, n), UNCHANGED <<child, reg>>
  PROVE  UnitsKept /\ EntriesStay
<1>1. CASE units' = units
  BY <1>1, PlainKeeps
<1>2. CASE units' # units
  <2> DEFINE t == [units[u] EXCEPT !.st = "Down", !.pid = 0,
                     !.next = IF units[u].st = "Stopping" \/ ~units[u].enabled \/ shutting
                              THEN "none" ELSE "later"]
  <2>1. units[u].pid = n \/ units[u].st = "Down"
    BY <1>2 DEF ChildExited
  <2>2. units' = [units EXCEPT ![u] = t]
    BY <1>2 DEF ChildExited
  <2>3. t \in RuntimeType
    BY ZenonT(40) DEF RuntimeType, UnitTypes
  <2> HIDE DEF t
  <2>4. UnitTypes'
    BY <2>2, <2>3 DEF UnitTypes
  <2>5. \A m \in DOMAIN child[u] : ~Own(child[u][m])
    <3> SUFFICES ASSUME NEW m \in DOMAIN child[u], Own(child[u][m]) PROVE FALSE
      OBVIOUS
    <3>1. units[u].pid = m /\ units[u].st \in {"Running", "Stopping"}
      BY OfType DEF Sound
    <3>2. m = n
      BY <2>1, <3>1
    <3> QED BY <3>2 DEF Own
  <2>6. \A v \in Units : v # u => units'[v] = units[v]
    BY <2>2 DEF UnitTypes
  <2>7. UnitsSound'
    BY <2>5, <2>6 DEF UnitsSound, Sound, Of
  <2> QED BY <2>4, <2>7 DEF UnitsKept, DeadStay, EntriesStay
<1> QED BY <1>1, <1>2

\* An event that is received is handled, and the units are kept.
LEMMA ReceiveKeeps ==
  ASSUME SupervisorTypeOK, UnitsSound, ExitsTrue, Receive
  PROVE  UnitsKept /\ EntriesStay
<1> DEFINE e == Head(channel)
<1>1. UnitTypes
  BY DEF SupervisorTypeOK, UnitTypes
<1>2. e = channel[1] /\ 1 \in DOMAIN channel /\ e \in Events
  BY TailAt DEF Receive, SupervisorTypeOK
<1>3. \/ e.t = "exit" /\ units' = ChildExited(e.u, e.n) /\ UNCHANGED <<child, reg>>
      \/ e.t = "request" /\ ServeRequest(e.c)
      \/ e.t = "signal" /\ BeginShutdown
  BY DEF Receive
<1> HIDE DEF e
<1>4. CASE e.t = "exit" /\ units' = ChildExited(e.u, e.n) /\ UNCHANGED <<child, reg>>
  <2>1. e.u \in Units /\ e.n \in DOMAIN child[e.u] /\ child[e.u][e.n].st = "dead"
    BY <1>2, <1>4 DEF ExitsTrue, Events
  <2> QED BY <1>1, <1>4, <2>1, ExitKeeps
<1>5. CASE ServeRequest(e.c)
  <2> DEFINE c == e.c
             u == cmd[c].u
             x == Stop(SetEnabled(Of(u), TRUE))
             y == Schedule(SetEnabled(Of(u), TRUE))
             Only(z) == [[v \in Units |-> Of(v)] EXCEPT ![u] = z]
  <2>1. \/ UNCHANGED <<units, child, reg>>
        \/ \E us : Become(ApplyStart(us)) \/ Become(ApplyStop(us))
        \/ Become(Reload)
        \/ Become(Only(x)) \/ Become(Only(y))
    BY <1>5 DEF ServeRequest, BeginRestart
  <2>2. ASSUME NEW v \in Units
        PROVE  /\ Kept(Of(v), Stop(SetEnabled(Of(v), TRUE)))
               /\ Kept(Of(v), Schedule(SetEnabled(Of(v), TRUE)))
               /\ Kept(Of(v), Of(v))
    <3>1. Kept(Of(v), SetEnabled(Of(v), TRUE)) /\ Kept(Of(v), Of(v))
      BY <1>1, OfType, SetEnabledKeeps
    <3> QED BY <3>1, StopKeeps, ScheduleKeeps, KeptTrans DEF Kept
  <2>3. AllKept(Only(x)) /\ AllKept(Only(y))
    BY <2>2 DEF AllKept
  <2> HIDE DEF c, x, y, Only
  <2> QED BY <1>1, <2>1, <2>3, HandlersKeep, BecomeKeeps, PlainKeeps DEF UnitsKept
<1>6. CASE BeginShutdown
  <2>1. UNCHANGED <<units, child, reg>> \/ Become(StopUnits(Known))
    BY <1>6 DEF BeginShutdown
  <2> QED BY <1>1, <2>1, HandlersKeep, BecomeKeeps, PlainKeeps DEF UnitsKept
<1> QED BY <1>3, <1>4, <1>5, <1>6

\* A step of the supervisor, its death and its start keep the units.
LEMMA SupervisingKeeps ==
  ASSUME SupervisorTypeOK, UnitsSound, ExitsTrue, Supervising \/ Crash
  PROVE  UnitsKept /\ EntriesStay
<1>1. UnitTypes /\ config \in [Units -> Addresses \cup {0}]
  BY DEF SupervisorTypeOK, UnitTypes
<1>2. CASE Receive
  BY <1>2, ReceiveKeeps
<1>3. CASE Tick \/ Deadline
  <2>1. PICK ready \in SUBSET Wanted("later"), late \in SUBSET Lingering : TickAt(ready, late)
    BY <1>3 DEF Tick, Deadline
  <2>2. PICK bad : Become(Ticked(Wanted("now") \cup ready, bad, late))
    BY <2>1 DEF TickAt
  <2>3. AllKept(Ticked(Wanted("now") \cup ready, bad, late))
    BY <1>1, TickKeeps
  <2> QED BY <1>1, <2>2, <2>3, BecomeKeeps DEF UnitsKept
<1>4. CASE RestartDown
  <2> DEFINE u == Top.u
             t == [units[u] EXCEPT !.next = "now"]
  <2>1. units' = [units EXCEPT ![u] = t] /\ UNCHANGED <<child, reg>>
    BY <1>4 DEF RestartDown
  <2>2. u \in Units => t \in RuntimeType /\ t.pid = units[u].pid /\ t.st = units[u].st
    <3>1. \A r \in RuntimeType :
            LET x == [r EXCEPT !.next = "now"] IN x \in RuntimeType /\ x.pid = r.pid /\ x.st = r.st
      BY DEF RuntimeType
    <3>2. u \in Units => units[u] \in RuntimeType
      BY <1>1 DEF UnitTypes
    <3> QED BY <3>1, <3>2, Zenon
  <2> HIDE DEF t, u
  <2>3. UnitTypes' /\ \A v \in Units : units'[v].pid = units[v].pid /\ units'[v].st = units[v].st
    BY <1>1, <2>1, <2>2 DEF UnitTypes
  <2>4. UnitsSound'
    BY <2>1, <2>3 DEF UnitsSound, Sound, Of
  <2> QED BY <2>1, <2>3, <2>4 DEF UnitsKept, DeadStay, EntriesStay
<1>5. CASE PumpExpires \/ Healthy \/ HealthExpires \/ Exit
  <2>1. UNCHANGED <<units, child, reg>>
    BY <1>5 DEF PumpExpires, Healthy, HealthExpires, Exit
  <2> QED BY <1>1, <2>1, PlainKeeps
<1>6. CASE NextUnit
  <2>1. UNCHANGED <<units, child, reg>> \/ \E us : Become(StopUnits(us))
    BY <1>6 DEF NextUnit
  <2> QED BY <1>1, <2>1, HandlersKeep, BecomeKeeps, PlainKeeps DEF UnitsKept
<1>7. CASE Supervise
  <2>1. Become(Reload)
    BY <1>7 DEF Supervise
  <2> QED BY <1>1, <2>1, HandlersKeep, BecomeKeeps DEF UnitsKept
<1>8. CASE Crash
  <2>1. /\ units' = [u \in Units |-> Absent] /\ UNCHANGED reg
        /\ child' = [u \in Units |-> [n \in DOMAIN child[u] |->
                      [child[u][n] EXCEPT !.st = IF @ = "dead" THEN @ ELSE "orphan"]]]
    BY <1>8 DEF Crash
  <2>2. \A k \in ChildType :
          LET d == [k EXCEPT !.st = IF @ = "dead" THEN @ ELSE "orphan"]
          IN d \in ChildType /\ (k.st = "dead" => d.st = "dead") /\ ~Own(d)
    BY DEF ChildType, Own
  <2>3. ASSUME NEW u \in Units
        PROVE  /\ child'[u] \in Seq(ChildType) /\ DOMAIN child'[u] = DOMAIN child[u]
               /\ \A n \in DOMAIN child[u] :
                    (child[u][n].st = "dead" => child'[u][n].st = "dead") /\ ~Own(child'[u][n])
    <3>1. child[u] \in Seq(ChildType)
      BY <1>1 DEF UnitTypes
    <3>2. /\ DOMAIN child[u] = 1..Len(child[u]) /\ Len(child[u]) \in Nat
          /\ \A n \in DOMAIN child[u] : child[u][n] \in ChildType
      BY <3>1
    <3>3. child'[u] = [n \in DOMAIN child[u] |->
                         [child[u][n] EXCEPT !.st = IF @ = "dead" THEN @ ELSE "orphan"]]
      BY <2>1, Zenon
    <3> DEFINE After(k) == [k EXCEPT !.st = IF @ = "dead" THEN @ ELSE "orphan"]
    <3>4. child'[u] = [n \in DOMAIN child[u] |-> After(child[u][n])]
      BY <3>3
    <3>5. \A k \in ChildType :
            After(k) \in ChildType /\ (k.st = "dead" => After(k).st = "dead") /\ ~Own(After(k))
      BY <2>2
    <3> HIDE DEF After
    <3>6. \A n \in DOMAIN child[u] :
            /\ child'[u][n] = After(child[u][n])
            /\ child'[u][n] \in ChildType
            /\ (child[u][n].st = "dead" => child'[u][n].st = "dead") /\ ~Own(child'[u][n])
      BY <3>2, <3>4, <3>5
    <3>7. DOMAIN child'[u] = DOMAIN child[u] /\ child'[u] \in [1..Len(child[u]) -> ChildType]
      BY <3>2, <3>4, <3>6
    <3> QED BY <3>2, <3>6, <3>7
  <2>4. DOMAIN child' = Units /\ child' = [u \in Units |-> child'[u]]
    BY <2>1
  <2>5. Absent \in RuntimeType
    BY DEF Absent, RuntimeType
  <2>6. UnitTypes'
    <3>1. child' \in [Units -> Seq(ChildType)]
      BY <2>3, <2>4
    <3>2. units' \in [Units -> RuntimeType]
      BY <2>1, <2>5
    <3> QED BY <1>1, <2>1, <3>1, <3>2 DEF UnitTypes
  <2>7. UnitsSound'
    BY <2>3 DEF UnitsSound, Sound, Of
  <2> QED BY <2>1, <2>3, <2>6, <2>7 DEF UnitsKept, DeadStay, EntriesStay
<1> QED BY <1>2, <1>3, <1>4, <1>5, <1>6, <1>7, <1>8 DEF Supervising

\* A child that ends is dead, and no process becomes the supervisor's.
LEMMA ChildEndsKeeps ==
  ASSUME SupervisorTypeOK, UnitsSound, NEW u \in Units, NEW n \in DOMAIN child[u], ChildEnds(u, n)
  PROVE  /\ UnitsKept /\ EntriesStay
         /\ n \in DOMAIN child'[u] /\ child'[u][n].st = "dead"
         /\ \A v \in Units : \A m \in DOMAIN child'[v] :
              m \in DOMAIN child[v] /\ (Own(child'[v][m]) => Own(child[v][m]))
<1> DEFINE d == [child[u][n] EXCEPT !.st = "dead"]
           k == [child[u] EXCEPT ![n] = d]
<1>1. UnitTypes
  BY DEF SupervisorTypeOK, UnitTypes
<1>2. child[u] \in Seq(ChildType)
  BY <1>1 DEF UnitTypes
<1>3. child[u] \in [1..Len(child[u]) -> ChildType] /\ Len(child[u]) \in Nat /\ child[u][n] \in ChildType
  BY <1>2
<1>4. d \in ChildType /\ d.st = "dead" /\ ~Own(d)
  BY <1>3 DEF ChildType, Own
<1>5. child' = [child EXCEPT ![u] = k] /\ UNCHANGED <<units, reg>>
  BY DEF ChildEnds
<1> HIDE DEF d
<1>6. /\ k \in Seq(ChildType) /\ DOMAIN k = DOMAIN child[u] /\ k[n] = d
      /\ \A i \in DOMAIN child[u] : k[i] = IF i = n THEN d ELSE child[u][i]
  <2>1. k \in [1..Len(child[u]) -> ChildType]
    BY <1>3, <1>4
  <2> QED BY <1>3, <2>1
<1> HIDE DEF k
<1>7. child' \in [Units -> Seq(ChildType)] /\ child'[u] = k /\ \A v \in Units : v # u => child'[v] = child[v]
  BY <1>1, <1>5, <1>6 DEF UnitTypes
<1>8. \A v \in Units :
        /\ DOMAIN child'[v] = DOMAIN child[v]
        /\ \A m \in DOMAIN child[v] :
             /\ child[v][m].st = "dead" => child'[v][m].st = "dead"
             /\ Own(child'[v][m]) => Own(child[v][m])
  BY <1>4, <1>6, <1>7
<1>9. UnitsSound'
  BY <1>5, <1>8 DEF UnitsSound, Sound, Of
<1> QED BY <1>1, <1>4, <1>5, <1>6, <1>7, <1>8, <1>9 DEF UnitsKept, UnitTypes, DeadStay, EntriesStay

\* What a command, a signal and a request do to the state of the supervisor's units: nothing.
CommandStep(c) ==
  \/ Commanding(c)
  \/ \E u \in Units \cup {NoUnit}, op \in {"start", "stop", "restart"} : Control(c, op, u)
  \/ \E u \in Units : RemoveBegin(c, u) \/ \E a \in Addresses : AddBegin(c, u, a)

\* A command of the operator changes the registry only, and no child and no unit.
LEMMA CommandKeeps ==
  ASSUME SupervisorTypeOK, UnitsSound, NEW c \in Commands, CommandStep(c) \/ Signal
  PROVE  UnitsKept /\ UNCHANGED <<units, child, pc>>
<1>1. UNCHANGED <<units, child, pc>>
  BY DEF CommandStep, Commanding, AddGenerate, AddWrite, AddFails, RemoveErase, Control,
         RemoveBegin, AddBegin, AddChecked, Signal
<1>2. reg' \in [Units -> EntryType]
  <2>1. [in |-> TRUE, enabled |-> TRUE] \in EntryType /\ Unregistered \in EntryType
    BY DEF EntryType, Unregistered
  <2>2. reg' = reg \/ \E u : \E e \in EntryType : reg' = [reg EXCEPT ![u] = e]
    BY <2>1 DEF CommandStep, Commanding, AddGenerate, AddWrite, AddFails, RemoveErase, Control,
                RemoveBegin, AddBegin, AddChecked, Signal
  <2> QED BY <2>2 DEF SupervisorTypeOK
<1>3. UnitTypes'
  BY <1>1, <1>2 DEF UnitTypes, SupervisorTypeOK
<1>4. UnitsSound'
  BY <1>1 DEF UnitsSound, Sound, Of
<1> QED BY <1>1, <1>3, <1>4 DEF UnitsKept, DeadStay

\* An exit that waits in the channel after a step was there before or is that of a process
\* that is dead now.
ExitsNew ==
  \A i \in DOMAIN channel' :
    channel'[i].t = "exit" =>
      \/ \E j \in DOMAIN channel : channel[j] = channel'[i]
      \/ /\ channel'[i].n \in DOMAIN child'[channel'[i].u]
         /\ child'[channel'[i].u][channel'[i].n].st = "dead"

\* An exit in the channel names a dead child in every step that sends none for a living one.
LEMMA ExitsStep ==
  ASSUME channel' \in Seq(Events), ExitsTrue, DeadStay, ExitsNew
  PROVE  ExitsTrue'
<1> SUFFICES ASSUME NEW i \in DOMAIN channel', channel'[i].t = "exit"
             PROVE  /\ channel'[i].n \in DOMAIN child'[channel'[i].u]
                    /\ child'[channel'[i].u][channel'[i].n].st = "dead"
  BY DEF ExitsTrue
<1>1. channel'[i].u \in Units
  <2>1. channel'[i] \in Events
    OBVIOUS
  <2> QED BY <2>1 DEF Events
<1>2. CASE \E j \in DOMAIN channel : channel[j] = channel'[i]
  BY <1>1, <1>2 DEF ExitsTrue, DeadStay
<1> QED BY <1>2 DEF ExitsNew

\* The channel is left alone, emptied, read at its head, or something is put behind it that
\* is no exit.
LEMMA ChannelQuiet ==
  ASSUME channel \in Seq(Events),
         \/ channel' = channel \/ channel' = <<>>
         \/ channel # <<>> /\ channel' = Tail(channel)
         \/ \E e \in Events : e.t # "exit" /\ channel' = Append(channel, e)
  PROVE  channel' \in Seq(Events) /\ ExitsNew
<1>1. CASE channel' = channel
  BY <1>1 DEF ExitsNew
<1>2. CASE channel' = <<>>
  BY <1>2 DEF ExitsNew
<1>3. CASE channel # <<>> /\ channel' = Tail(channel)
  BY <1>3, TailAt DEF ExitsNew
<1>4. ASSUME NEW e \in Events, e.t # "exit", channel' = Append(channel, e)
      PROVE  channel' \in Seq(Events) /\ ExitsNew
  BY <1>4, AppendAt DEF ExitsNew
<1> QED BY <1>1, <1>2, <1>3, <1>4

\* What a step does to the channel.
LEMMA ChannelStep ==
  ASSUME SupervisorTypeOK, UnitsSound, [Next]_vars
  PROVE  channel' \in Seq(Events) /\ ExitsNew
<1>1. channel \in Seq(Events)
  BY DEF SupervisorTypeOK
<1>2. CASE Supervising \/ Crash
  <2>1. \/ channel' = channel \/ channel' = <<>>
        \/ channel # <<>> /\ channel' = Tail(channel)
    <3>1. Receive => channel # <<>> /\ channel' = Tail(channel)
      BY DEF Receive
    <3>2. Tick \/ Deadline => channel' = channel
      BY DEF Tick, Deadline, TickAt
    <3>3. RestartDown \/ PumpExpires \/ Healthy \/ HealthExpires \/ NextUnit \/ Supervise => channel' = channel
      BY DEF RestartDown, PumpExpires, Healthy, HealthExpires, NextUnit, Supervise
    <3>4. Exit \/ Crash => channel' = <<>>
      BY DEF Exit, Crash
    <3> QED BY <1>2, <3>1, <3>2, <3>3, <3>4 DEF Supervising
  <2> QED BY <1>1, <2>1, ChannelQuiet
<1>3. CASE Signal
  <2>1. [t |-> "signal"] \in Events /\ [t |-> "signal"].t # "exit"
    BY DEF Events
  <2>2. channel' = Append(channel, [t |-> "signal"])
    BY <1>3 DEF Signal
  <2> QED BY <1>1, <2>1, <2>2, ChannelQuiet
<1>4. ASSUME NEW c \in Commands, CommandStep(c)
      PROVE  channel' \in Seq(Events) /\ ExitsNew
  <2>1. [t |-> "request", c |-> c] \in Events /\ [t |-> "request", c |-> c].t # "exit"
    BY DEF Events
  <2>2. channel' = channel \/ channel' = Append(channel, [t |-> "request", c |-> c])
    BY <1>4 DEF CommandStep, Commanding, AddGenerate, AddWrite, AddFails, RemoveErase, Control,
                RemoveBegin, AddBegin, AddChecked, Ask
  <2> QED BY <1>1, <2>1, <2>2, ChannelQuiet
<1>5. ASSUME NEW u \in Units, NEW n \in DOMAIN child[u], ChildEnds(u, n)
      PROVE  channel' \in Seq(Events) /\ ExitsNew
  <2> DEFINE e == [t |-> "exit", u |-> u, n |-> n]
  <2>1. n \in Nat \ {0}
    <3>1. child[u] \in Seq(ChildType)
      BY DEF SupervisorTypeOK
    <3> QED BY <3>1
  <2>2. e \in Events /\ e.t = "exit" /\ e.u = u /\ e.n = n
    BY <2>1 DEF Events
  <2>3. channel' = channel \/ channel' = Append(channel, e)
    BY <1>5 DEF ChildEnds
  <2> HIDE DEF e
  <2>4. CASE channel' = Append(channel, e)
    <3>1. n \in DOMAIN child'[u] /\ child'[u][n].st = "dead"
      BY <1>5, ChildEndsKeeps
    <3> QED BY <1>1, <2>2, <2>4, <3>1, AppendAt DEF ExitsNew
  <2> QED BY <1>1, <2>3, <2>4, ChannelQuiet
<1>6. CASE UNCHANGED vars
  BY <1>1, <1>6, ChannelQuiet DEF vars
<1> QED BY <1>2, <1>3, <1>4, <1>5, <1>6 DEF Next, CommandStep

\* What a step does to the config files.
LEMMA ConfigStep ==
  ASSUME SupervisorTypeOK, [Next]_vars
  PROVE  config' \in [Units -> Addresses \cup {0}]
<1>1. \/ config' = config
      \/ \E u : \E a \in Addresses \cup {0} : config' = [config EXCEPT ![u] = a]
  <2>1. Supervising \/ Crash \/ Signal => config' = config
    BY DEF Supervising, Receive, Deadline, Tick, TickAt, RestartDown, PumpExpires, Healthy,
           HealthExpires, NextUnit, Exit, Supervise, Crash, Signal
  <2>2. ASSUME NEW c \in Commands, CommandStep(c)
        PROVE  \/ config' = config
               \/ \E u : \E a \in Addresses \cup {0} : config' = [config EXCEPT ![u] = a]
    <3>1. cmd[c].listen \in Addresses \cup {0}
      BY DEF SupervisorTypeOK, CmdType
    <3>2. \/ config' = config
          \/ \E u : config' = [config EXCEPT ![u] = cmd[c].listen]
          \/ \E u : config' = [config EXCEPT ![u] = 0]
      BY <2>2 DEF CommandStep, Commanding, AddGenerate, AddWrite, AddFails, RemoveErase, Control,
                  RemoveBegin, AddBegin, AddChecked
    <3> QED BY <3>1, <3>2
  <2>3. (\E u \in Units : \E n \in DOMAIN child[u] : ChildEnds(u, n)) => config' = config
    BY DEF ChildEnds
  <2>4. UNCHANGED vars => config' = config
    BY DEF vars
  <2> QED BY <2>1, <2>2, <2>3, <2>4 DEF Next, CommandStep
<1> QED BY <1>1 DEF SupervisorTypeOK

\* The answer to a command.
LEMMA AnsweredType ==
  ASSUME SupervisorTypeOK, NEW c, Answered(c)
  PROVE  /\ cmd' \in [Commands -> CmdType]
         /\ \A d \in Commands : cmd'[d] = cmd[d] \/ cmd'[d].st \in {"idle", "erase"}
<1>1. Idle \in CmdType
  BY DEF Idle, CmdType, NoUnit
<1>2. \A q \in CmdType : LET r == [q EXCEPT !.st = "erase"] IN r \in CmdType /\ r.st = "erase"
  BY DEF CmdType
<1>3. c \in Commands => [cmd[c] EXCEPT !.st = "erase"] \in CmdType /\ [cmd[c] EXCEPT !.st = "erase"].st = "erase"
  <2>1. c \in Commands => cmd[c] \in CmdType
    BY DEF SupervisorTypeOK
  <2> QED BY <1>2, <2>1, Zenon
<1>4. cmd' = [cmd EXCEPT ![c] = [cmd[c] EXCEPT !.st = "erase"]] \/ cmd' = [cmd EXCEPT ![c] = Idle]
  BY DEF Answered
<1>5. Idle.st = "idle"
  BY DEF Idle
<1> DEFINE r == [cmd[c] EXCEPT !.st = "erase"]
<1> HIDE DEF r, Idle
<1> QED BY <1>1, <1>3, <1>4, <1>5 DEF SupervisorTypeOK, r

\* The supervisor answers commands and closes their connections; it takes no command from its
\* own work.
CmdQuiet == \A d \in Commands : cmd'[d] = cmd[d] \/ cmd'[d].st \in {"idle", "erase"}

\* The supervisor changes a command only by answering it; its crash ends those that wait.
LEMMA SupervisingCmd ==
  ASSUME SupervisorTypeOK, Supervising \/ Crash
  PROVE  cmd' \in [Commands -> CmdType] /\ CmdQuiet
<1>1. \/ cmd' = cmd \/ \E c : Answered(c)
      \/ cmd' = [c \in Commands |-> IF cmd[c].st = "ask" THEN Idle ELSE cmd[c]]
  <2>1. Receive => cmd' = cmd \/ \E c : Answered(c)
    <3>1. ASSUME NEW c, ServeRequest(c) PROVE cmd' = cmd \/ \E d : Answered(d)
      BY <3>1 DEF ServeRequest, BeginRestart, Ends
    <3> QED BY <3>1 DEF Receive, BeginShutdown
  <2>2. Tick \/ Deadline \/ Healthy \/ Supervise => cmd' = cmd
    BY DEF Tick, Deadline, TickAt, Healthy, Supervise
  <2>3. RestartDown \/ PumpExpires \/ HealthExpires \/ NextUnit => cmd' = cmd \/ \E c : Answered(c)
    BY DEF RestartDown, PumpExpires, HealthExpires, NextUnit, Leave, Ends
  <2>4. Exit \/ Crash => cmd' = [c \in Commands |-> IF cmd[c].st = "ask" THEN Idle ELSE cmd[c]]
    BY DEF Exit, Crash
  <2> QED BY <2>1, <2>2, <2>3, <2>4 DEF Supervising
<1>2. CASE cmd' = cmd
  BY <1>2 DEF CmdQuiet, SupervisorTypeOK
<1>3. CASE \E c : Answered(c)
  BY <1>3, AnsweredType DEF CmdQuiet
<1>4. CASE cmd' = [c \in Commands |-> IF cmd[c].st = "ask" THEN Idle ELSE cmd[c]]
  <2>1. Idle \in CmdType /\ Idle.st = "idle"
    BY DEF Idle, CmdType, NoUnit
  <2> HIDE DEF Idle
  <2> QED BY <1>4, <2>1 DEF CmdQuiet, SupervisorTypeOK
<1> QED BY <1>1, <1>2, <1>3, <1>4

\* A command changes its own record.
LEMMA CommandCmd ==
  ASSUME SupervisorTypeOK, NEW c \in Commands, CommandStep(c)
  PROVE  \E q \in CmdType : cmd' = [cmd EXCEPT ![c] = q]
<1>1. cmd[c] \in CmdType
  BY DEF SupervisorTypeOK
<1>2. Idle \in CmdType
  BY DEF Idle, CmdType, NoUnit
<1>3. \A k \in CmdType :
        /\ [k EXCEPT !.st = "written"] \in CmdType
        /\ [k EXCEPT !.st = "ask"] \in CmdType
        /\ [k EXCEPT !.st = "ask", !.req = "reload"] \in CmdType
  BY ZenonT(40) DEF CmdType
<1>4. CASE Commanding(c)
  <2>1. \/ cmd' = [cmd EXCEPT ![c] = [cmd[c] EXCEPT !.st = "written"]]
        \/ cmd' = [cmd EXCEPT ![c] = [cmd[c] EXCEPT !.st = "ask"]]
        \/ cmd' = [cmd EXCEPT ![c] = [cmd[c] EXCEPT !.st = "ask", !.req = "reload"]]
        \/ cmd' = [cmd EXCEPT ![c] = Idle]
    BY <1>4 DEF Commanding, AddGenerate, AddWrite, AddFails, RemoveErase, Ask
  <2>2. /\ [cmd[c] EXCEPT !.st = "written"] \in CmdType
        /\ [cmd[c] EXCEPT !.st = "ask"] \in CmdType
        /\ [cmd[c] EXCEPT !.st = "ask", !.req = "reload"] \in CmdType
    BY <1>1, <1>3, Zenon
  <2> QED BY <1>2, <2>1, <2>2, Zenon
<1>5. ASSUME NEW u \in Units \cup {NoUnit}, NEW op \in {"start", "stop", "restart"}, Control(c, op, u)
      PROVE  \E q \in CmdType : cmd' = [cmd EXCEPT ![c] = q]
  <2> DEFINE q == [st |-> "ask", op |-> op, req |-> op, u |-> u, listen |-> 0]
  <2>1. q \in CmdType
    BY DEF CmdType
  <2>2. cmd' = [cmd EXCEPT ![c] = q]
    BY <1>5 DEF Control, Ask
  <2> QED BY <2>1, <2>2, Zenon
<1>6. ASSUME NEW u \in Units, RemoveBegin(c, u)
      PROVE  \E q \in CmdType : cmd' = [cmd EXCEPT ![c] = q]
  <2> DEFINE q == [st |-> "ask", op |-> "remove", req |-> "stop", u |-> u, listen |-> 0]
             r == [q EXCEPT !.st = "erase", !.req = "none"]
  <2>1. q \in CmdType /\ r \in CmdType
    BY DEF CmdType
  <2>2. cmd' = [cmd EXCEPT ![c] = q] \/ cmd' = [cmd EXCEPT ![c] = r]
    BY <1>6 DEF RemoveBegin, Ask
  <2> QED BY <2>1, <2>2, Zenon
<1>7. ASSUME NEW u \in Units, NEW a \in Addresses, AddBegin(c, u, a)
      PROVE  \E q \in CmdType : cmd' = [cmd EXCEPT ![c] = q]
  <2> DEFINE q == [st |-> IF config[u] = 0 THEN "locked" ELSE "written",
                   op |-> "add", req |-> "reload", u |-> u,
                   listen |-> IF config[u] = 0 THEN a ELSE 0]
  <2>1. q \in CmdType
    BY DEF CmdType
  <2>2. cmd' = [cmd EXCEPT ![c] = q]
    BY <1>7 DEF AddBegin, AddChecked
  <2> QED BY <2>1, <2>2, Zenon
<1> QED BY <1>4, <1>5, <1>6, <1>7 DEF CommandStep

\* Every step keeps the units.
LEMMA UnitsStep ==
  ASSUME SupervisorTypeOK, UnitsSound, ExitsTrue, [Next]_vars
  PROVE  UnitsKept
<1>1. CASE Supervising \/ Crash
  BY <1>1, SupervisingKeeps
<1>2. CASE Signal \/ \E c \in Commands : CommandStep(c)
  <2>1. CASE Commands # {}
    BY <1>2, <2>1, CommandKeeps
  <2>2. CASE Signal
    <3>1. UNCHANGED <<units, child, reg>>
      BY <2>2 DEF Signal
    <3> QED BY <3>1, PlainKeeps DEF SupervisorTypeOK, UnitTypes
  <2> QED BY <1>2, <2>1, <2>2
<1>3. CASE \E u \in Units : \E n \in DOMAIN child[u] : ChildEnds(u, n)
  BY <1>3, ChildEndsKeeps
<1>4. CASE UNCHANGED vars
  BY <1>4, PlainKeeps DEF vars, SupervisorTypeOK, UnitTypes
<1> QED BY <1>1, <1>2, <1>3, <1>4 DEF Next, CommandStep

\* Every step keeps the types.
LEMMA SupervisorTypeStep ==
  ASSUME SupervisorTypeOK, UnitsSound, ExitsTrue, [Next]_vars
  PROVE  SupervisorTypeOK'
<1>1. UnitTypes'
  BY UnitsStep DEF UnitsKept
<1>2. cmd' \in [Commands -> CmdType]
  <2>1. CASE Supervising \/ Crash
    BY <2>1, SupervisingCmd
  <2>2. ASSUME NEW c \in Commands, CommandStep(c) PROVE cmd' \in [Commands -> CmdType]
    BY <2>2, CommandCmd DEF SupervisorTypeOK
  <2>3. CASE Signal \/ (\E u \in Units : \E n \in DOMAIN child[u] : ChildEnds(u, n)) \/ UNCHANGED vars
    <3>1. cmd' = cmd
      BY <2>3 DEF Signal, ChildEnds, vars
    <3> QED BY <3>1 DEF SupervisorTypeOK
  <2> QED BY <2>1, <2>2, <2>3 DEF Next, CommandStep
<1> QED BY <1>1, <1>2, ConfigStep, ChannelStep DEF SupervisorTypeOK, UnitTypes

-----------------------------------------------------------------------------
(* No child is lost from sight.                                            *)

NoneOwn == \A u \in Units : \A n \in DOMAIN child[u] : ~Own(child[u][n])
EndsAlone == pc = "exited" => NoneOwn

\* The property, unit by unit.
LEMMA NoStrayParts == NoStrayChild <=> UnitsSound /\ EndsAlone
BY DEF NoStrayChild, UnitsSound, EndsAlone, NoneOwn, Sound, Of

\* The same after a step.
LEMMA NoStrayPartsNext == NoStrayChild' <=> UnitsSound' /\ EndsAlone'
BY DEF NoStrayChild, UnitsSound, EndsAlone, NoneOwn, Sound, Of

\* A supervisor that has finished has no process, and after its end nothing is started.
LEMMA EndsAloneStep ==
  ASSUME SupervisorTypeOK, UnitsSound, EndsAlone, [Next]_vars
  PROVE  EndsAlone'
<1>1. CASE Supervising \/ Crash
  <2>1. CASE Exit
    <3>1. \A u \in Units : units[u].st \in {"Absent", "Down"}
      BY <2>1 DEF Exit, Finished, Known
    <3>2. NoneOwn
      BY <3>1 DEF NoneOwn, UnitsSound, Sound, Of
    <3>3. child' = child
      BY <2>1 DEF Exit
    <3> QED BY <3>2, <3>3 DEF EndsAlone, NoneOwn
  <2>2. Receive => pc' # "exited"
    BY DEF Receive, ServeRequest, BeginRestart, BeginShutdown, Ends
  <2>3. Tick \/ Deadline => pc' # "exited"
    BY DEF Tick, Deadline, TickAt
  <2>4. RestartDown \/ PumpExpires \/ Healthy \/ HealthExpires \/ NextUnit \/ Supervise \/ Crash
          => pc' # "exited"
    BY DEF RestartDown, PumpExpires, Waiting, Healthy, HealthExpires, NextUnit, Supervise, Crash, Leave, Ends
  <2> QED BY <1>1, <2>1, <2>2, <2>3, <2>4 DEF Supervising, EndsAlone
<1>2. CASE Signal \/ (\E c \in Commands : CommandStep(c)) \/ UNCHANGED vars
  <2>1. UNCHANGED <<child, pc>>
    BY <1>2, ZenonT(40) DEF CommandStep, Commanding, AddGenerate, AddWrite, AddFails, RemoveErase, Control,
                RemoveBegin, AddBegin, AddChecked, Signal, vars
  <2> QED BY <2>1 DEF EndsAlone, NoneOwn
<1>3. ASSUME NEW u \in Units, NEW n \in DOMAIN child[u], ChildEnds(u, n) PROVE EndsAlone'
  <2>1. pc' = pc
    BY <1>3 DEF ChildEnds
  <2> QED BY <1>3, <2>1, ChildEndsKeeps DEF EndsAlone, NoneOwn
<1> QED BY <1>1, <1>2, <1>3 DEF Next, CommandStep

\* Min of a set of numbers is one of them.
LEMMA MinIn ==
  ASSUME NEW S, S \subseteq Nat, S # {}
  PROVE  Min(S) \in S
<1> DEFINE R == OpToRel(<, Nat)
<1>1. PICK x \in S : \A y \in S : ~ (<<y, x>> \in R)
  <2>1. IsWellFoundedOn(R, Nat)
    BY NatLessThanWellFounded
  <2> HIDE DEF R
  <2> QED BY <2>1, WFMin
<1>2. \A y \in S : x <= y
  <2> TAKE y \in S
  <2>1. ~ (y < x)
    BY <1>1 DEF OpToRel
  <2> QED BY <2>1
<1> QED BY <1>2 DEF Min

\* The inductive invariant of the children: it holds before the first supervisor starts.
LEMMA ChildrenInvInit == Init => ChildrenInv
<1> SUFFICES ASSUME Init PROVE ChildrenInv
  OBVIOUS
<1>1. units = [u \in Units |-> Absent] /\ child = [u \in Units |-> <<>>] /\ channel = <<>>
  BY DEF Init
<1>2. reg \in [Units -> EntryType]
  BY DEF Init, EntryType, Unregistered
<1>3. config \in [Units -> Addresses \cup {0}]
  <2>1. Min(Addresses) \in Addresses
    BY UnitsAssumption, MinIn
  <2> QED BY <2>1 DEF Init
<1>4. cmd \in [Commands -> CmdType]
  <2>1. Idle \in CmdType
    BY DEF Idle, CmdType, NoUnit
  <2> QED BY <2>1 DEF Init
<1>5. SupervisorTypeOK
  <2>1. Absent \in RuntimeType
    BY DEF Absent, RuntimeType
  <2> QED BY <1>1, <1>2, <1>3, <1>4, <2>1 DEF SupervisorTypeOK
<1>6. NoStrayChild /\ ExitsTrue
  BY <1>1 DEF NoStrayChild, ExitsTrue
<1> QED BY <1>5, <1>6 DEF ChildrenInv

\* Every step keeps it.
LEMMA ChildrenInvStep == ChildrenInv /\ [Next]_vars => ChildrenInv'
<1> SUFFICES ASSUME ChildrenInv, [Next]_vars PROVE ChildrenInv'
  OBVIOUS
<1>1. SupervisorTypeOK /\ ExitsTrue /\ UnitsSound /\ EndsAlone
  BY NoStrayParts DEF ChildrenInv
<1>2. SupervisorTypeOK'
  BY <1>1, SupervisorTypeStep
<1>3. UnitsSound' /\ DeadStay
  BY <1>1, UnitsStep DEF UnitsKept
<1>4. EndsAlone'
  BY <1>1, EndsAloneStep
<1>5. ExitsTrue'
  BY <1>1, <1>3, ChannelStep, ExitsStep
<1> QED BY <1>2, <1>3, <1>4, <1>5, NoStrayPartsNext DEF ChildrenInv

\* And so it holds throughout.
LEMMA ChildrenInvHolds == Spec => []ChildrenInv
BY ChildrenInvInit, ChildrenInvStep, PTL DEF Spec

\* Whatever is asked of the supervisor, however restarts nest, however often it dies and
\* starts again (supervisor.rs: start, stop, child_exited, reload): every process it has
\* started and not buried is the one its Runtime names, and it leaves none behind.
THEOREM NoneAstray == Spec => []NoStrayChild
<1>1. ChildrenInv => NoStrayChild
  BY DEF ChildrenInv
<1> QED BY <1>1, ChildrenInvHolds, PTL

-----------------------------------------------------------------------------
(* The registry stays sound.                                               *)

\* What no step of the supervisor disturbs.
LEMMA RegistryFrame ==
  ASSUME RegistryInv, SupervisorTypeOK', EntriesStay, CmdQuiet, UNCHANGED <<config, lock>>
  PROVE  RegistrySound' /\ AddGuarded'
<1>1. \A u \in Units : u \in Registered' <=> u \in Registered
  BY DEF EntriesStay, Registered
<1>2. RegistrySound'
  BY <1>1 DEF RegistryInv, RegistrySound, Registered
<1>3. AddGuarded'
  <2> SUFFICES ASSUME NEW c \in Commands, cmd'[c].st \in {"locked", "written"}
               PROVE  /\ lock' = {c}
                      /\ cmd'[c].u \in Units /\ ~reg'[cmd'[c].u].in
                      /\ LET a == IF cmd'[c].st = "locked" THEN cmd'[c].listen ELSE config'[cmd'[c].u]
                         IN a # 0 /\ \A v \in Registered' : config'[v] # a
    BY DEF AddGuarded
  <2>1. cmd'[c] = cmd[c]
    BY DEF CmdQuiet
  <2>2. /\ lock = {c} /\ cmd[c].u \in Units /\ ~reg[cmd[c].u].in
        /\ LET a == IF cmd[c].st = "locked" THEN cmd[c].listen ELSE config[cmd[c].u]
           IN a # 0 /\ \A v \in Registered : config[v] # a
    BY <2>1 DEF RegistryInv, AddGuarded
  <2>3. Registered' = Registered
    BY <1>1 DEF Registered
  <2> QED BY <2>1, <2>2, <2>3 DEF EntriesStay
<1> QED BY <1>2, <1>3

\* No two adds have passed their checks.
LEMMA OneAdd ==
  ASSUME AddGuarded, NEW c \in Commands, NEW d \in Commands,
         cmd[c].st \in {"locked", "written"}, cmd[d].st \in {"locked", "written"}
  PROVE  c = d
<1>1. lock = {c} /\ lock = {d}
  BY DEF AddGuarded
<1> QED BY <1>1

\* An add that has passed its checks.
LEMMA AddHolds ==
  ASSUME RegistryInv, NEW c \in Commands, cmd[c].st \in {"locked", "written"}
  PROVE  /\ cmd[c].u \in Units /\ ~reg[cmd[c].u].in /\ lock = {c}
         /\ cmd[c].st = "locked" => cmd[c].listen # 0 /\ \A v \in Registered : config[v] # cmd[c].listen
         /\ cmd[c].st = "written" =>
              config[cmd[c].u] # 0 /\ \A v \in Registered : config[v] # config[cmd[c].u]
         /\ \A d \in Commands : d # c => cmd[d].st \notin {"locked", "written"}
<1>1. \A d \in Commands : d # c => cmd[d].st \notin {"locked", "written"}
  BY OneAdd DEF RegistryInv
<1> QED BY <1>1 DEF RegistryInv, AddGuarded

\* add writes the config file it checked, takes it back, or writes the unit.
LEMMA AddStep ==
  ASSUME RegistryInv, NEW c \in Commands, AddGenerate(c) \/ AddWrite(c) \/ AddFails(c)
  PROVE  RegistrySound' /\ AddGuarded'
<1> DEFINE u == cmd[c].u
<1>1. /\ cmd \in [Commands -> CmdType] /\ reg \in [Units -> EntryType]
      /\ config \in [Units -> Addresses \cup {0}]
  BY DEF RegistryInv, SupervisorTypeOK
<1>2. cmd[c].st \in {"locked", "written"}
  BY DEF AddGenerate, AddWrite, AddFails
<1>3. /\ u \in Units /\ ~reg[u].in /\ lock = {c} /\ u \notin Registered
      /\ cmd[c].st = "locked" => cmd[c].listen # 0 /\ \A v \in Registered : config[v] # cmd[c].listen
      /\ cmd[c].st = "written" => config[u] # 0 /\ \A v \in Registered : config[v] # config[u]
      /\ \A d \in Commands : d # c => cmd[d].st \notin {"locked", "written"}
  BY <1>2, AddHolds DEF Registered
<1>4. CASE AddGenerate(c)
  <2>1. /\ config' = [config EXCEPT ![u] = cmd[c].listen] /\ UNCHANGED <<reg, lock>>
        /\ cmd' = [cmd EXCEPT ![c] = [cmd[c] EXCEPT !.st = "written"]] /\ cmd[c].st = "locked"
    BY <1>4 DEF AddGenerate
  <2>2. LET q == [cmd[c] EXCEPT !.st = "written"] IN q.u = u /\ q.st = "written"
    <3>1. cmd[c] \in CmdType
      BY <1>1
    <3> QED BY <3>1 DEF CmdType
  <2>3. cmd'[c].u = u /\ cmd'[c].st = "written" /\ \A d \in Commands : d # c => cmd'[d] = cmd[d]
    BY <1>1, <2>1, <2>2
  <2>4. /\ config'[u] = cmd[c].listen /\ Registered' = Registered
        /\ \A v \in Registered : v # u /\ config'[v] = config[v]
    BY <1>1, <1>3, <2>1 DEF Registered
  <2>5. RegistrySound'
    BY <2>4 DEF RegistryInv, RegistrySound
  <2> HIDE DEF u
  <2>6. AddGuarded'
    BY <1>3, <2>1, <2>3, <2>4 DEF AddGuarded
  <2> QED BY <2>5, <2>6
<1>5. CASE AddWrite(c)
  <2>1. /\ config' = config /\ reg' = [reg EXCEPT ![u] = [in |-> TRUE, enabled |-> TRUE]]
        /\ cmd[c].st = "written"
        /\ cmd' = [cmd EXCEPT ![c] = [cmd[c] EXCEPT !.st = "ask"]] \/ cmd' = [cmd EXCEPT ![c] = Idle]
    BY <1>5 DEF AddWrite, Ask
  <2>2. \A v \in Units : v \in Registered' <=> v \in Registered \/ v = u
    BY <1>1, <1>3, <2>1 DEF Registered
  <2>3. RegistrySound'
    BY <1>3, <2>1, <2>2 DEF RegistryInv, RegistrySound, Registered
  <2>4. [cmd[c] EXCEPT !.st = "ask"].st = "ask" /\ Idle.st = "idle"
    <3>1. cmd[c] \in CmdType
      BY <1>1
    <3> QED BY <3>1 DEF CmdType, Idle
  <2>5. cmd'[c].st \in {"ask", "idle"} /\ \A d \in Commands : d # c => cmd'[d] = cmd[d]
    BY <1>1, <2>1, <2>4
  <2>6. AddGuarded'
    BY <1>3, <2>5 DEF AddGuarded
  <2> QED BY <2>3, <2>6
<1>6. CASE AddFails(c)
  <2>1. /\ config' = config \/ config' = [config EXCEPT ![u] = 0]
        /\ reg' = reg /\ cmd' = [cmd EXCEPT ![c] = Idle]
    BY <1>6 DEF AddFails
  <2>2. Registered' = Registered /\ \A v \in Registered : config'[v] = config[v]
    BY <1>1, <1>3, <2>1 DEF Registered
  <2>3. RegistrySound'
    BY <2>2 DEF RegistryInv, RegistrySound
  <2>4. cmd'[c].st = "idle" /\ \A d \in Commands : d # c => cmd'[d] = cmd[d]
    BY <1>1, <2>1 DEF Idle
  <2>5. AddGuarded'
    BY <1>3, <2>4 DEF AddGuarded
  <2> QED BY <2>3, <2>5
<1> QED BY <1>4, <1>5, <1>6

\* add begins: it holds the lock when it checks, so no other add has passed its checks.
LEMMA AddBeginStep ==
  ASSUME RegistryInv, NEW c \in Commands, NEW u \in Units, NEW a \in Addresses, AddBegin(c, u, a)
  PROVE  RegistrySound' /\ AddGuarded'
<1> DEFINE q == [st |-> IF config[u] = 0 THEN "locked" ELSE "written",
                 op |-> "add", req |-> "reload", u |-> u,
                 listen |-> IF config[u] = 0 THEN a ELSE 0]
<1>1. /\ cmd \in [Commands -> CmdType] /\ a # 0
  BY UnitsAssumption DEF RegistryInv, SupervisorTypeOK
<1>2. /\ lock = {} /\ lock' = {c} /\ UNCHANGED <<reg, config>> /\ cmd' = [cmd EXCEPT ![c] = q]
      /\ ~reg[u].in /\ config[u] \in {0, a} /\ \A v \in Registered : config[v] # a
  BY DEF AddBegin, AddChecked, ListenFree, LockFree
<1>3. RegistrySound'
  BY <1>2 DEF RegistryInv, RegistrySound, Registered
<1>4. \A d \in Commands : cmd[d].st \notin {"locked", "written"}
  BY <1>2 DEF RegistryInv, AddGuarded
<1>5. /\ q.u = u /\ q.st = (IF config[u] = 0 THEN "locked" ELSE "written")
      /\ q.listen = (IF config[u] = 0 THEN a ELSE 0)
  OBVIOUS
<1> HIDE DEF q
<1>6. cmd'[c] = q /\ \A d \in Commands : d # c => cmd'[d] = cmd[d]
  BY <1>1, <1>2
<1>7. Registered' = Registered
  BY <1>2 DEF Registered
<1>8. AddGuarded'
  <2> SUFFICES ASSUME NEW d \in Commands, cmd'[d].st \in {"locked", "written"}
               PROVE  /\ lock' = {d}
                      /\ cmd'[d].u \in Units /\ ~reg'[cmd'[d].u].in
                      /\ LET b == IF cmd'[d].st = "locked" THEN cmd'[d].listen ELSE config'[cmd'[d].u]
                         IN b # 0 /\ \A v \in Registered' : config'[v] # b
    BY DEF AddGuarded
  <2>1. d = c
    BY <1>4, <1>6
  <2> QED BY <1>1, <1>2, <1>5, <1>6, <1>7, <2>1
<1> QED BY <1>3, <1>8

\* The commands that only ask, and the end of a removal, which waits for the lock.
LEMMA OtherCommandStep ==
  ASSUME RegistryInv, NEW c \in Commands,
         \/ RemoveErase(c) \/ (\E u \in Units : RemoveBegin(c, u))
         \/ \E u \in Units \cup {NoUnit}, op \in {"start", "stop", "restart"} : Control(c, op, u)
  PROVE  RegistrySound' /\ AddGuarded'
<1>1. cmd[c] \in CmdType /\ cmd \in [Commands -> CmdType] /\ reg \in [Units -> EntryType]
  BY DEF RegistryInv, SupervisorTypeOK
<1>2. CASE RemoveErase(c)
  <2>1. lock = {} /\ UNCHANGED <<config, lock>> /\ reg' = [reg EXCEPT ![cmd[c].u] = Unregistered]
    BY <1>2 DEF RemoveErase, LockFree
  <2>2. Registered' \subseteq Registered
    BY <1>1, <2>1 DEF Registered, Unregistered
  <2>3. \A d \in Commands : cmd[d].st \notin {"locked", "written"}
    BY <2>1 DEF RegistryInv, AddGuarded
  <2>4. LET r == [cmd[c] EXCEPT !.st = "ask", !.req = "reload"] IN r.st = "ask" /\ Idle.st = "idle"
    BY <1>1 DEF CmdType, Idle
  <2>5. cmd' = [cmd EXCEPT ![c] = [cmd[c] EXCEPT !.st = "ask", !.req = "reload"]]
        \/ cmd' = [cmd EXCEPT ![c] = Idle]
    BY <1>2 DEF RemoveErase, Ask
  <2>6. \A d \in Commands : cmd'[d].st \notin {"locked", "written"}
    BY <1>1, <2>3, <2>4, <2>5
  <2> QED BY <2>1, <2>2, <2>6 DEF RegistryInv, RegistrySound, AddGuarded
<1>3. CASE \/ \E u \in Units : RemoveBegin(c, u)
           \/ \E u \in Units \cup {NoUnit}, op \in {"start", "stop", "restart"} : Control(c, op, u)
  <2>1. UNCHANGED <<config, lock, reg>>
    BY <1>3 DEF RemoveBegin, Control
  <2>2. ASSUME NEW q, q.st \in {"ask", "erase"}, cmd' = [cmd EXCEPT ![c] = q]
        PROVE  \A d \in Commands : cmd'[d] = cmd[d] \/ cmd'[d].st \in {"ask", "erase"}
    BY <1>1, <2>2
  <2>3. \A d \in Commands : cmd'[d] = cmd[d] \/ cmd'[d].st \in {"ask", "erase"}
    <3>1. ASSUME NEW u \in Units, RemoveBegin(c, u)
          PROVE  \A d \in Commands : cmd'[d] = cmd[d] \/ cmd'[d].st \in {"ask", "erase"}
      <4> DEFINE q == [st |-> "ask", op |-> "remove", req |-> "stop", u |-> u, listen |-> 0]
                 r == [q EXCEPT !.st = "erase", !.req = "none"]
      <4>1. q.st = "ask" /\ r.st = "erase"
        OBVIOUS
      <4>2. cmd' = [cmd EXCEPT ![c] = q] \/ cmd' = [cmd EXCEPT ![c] = r]
        BY <3>1 DEF RemoveBegin, Ask
      <4> HIDE DEF q, r
      <4> QED BY <2>2, <4>1, <4>2
    <3>2. ASSUME NEW u, NEW op, Control(c, op, u)
          PROVE  \A d \in Commands : cmd'[d] = cmd[d] \/ cmd'[d].st \in {"ask", "erase"}
      <4> DEFINE q == [st |-> "ask", op |-> op, req |-> op, u |-> u, listen |-> 0]
      <4>1. q.st = "ask" /\ cmd' = [cmd EXCEPT ![c] = q]
        BY <3>2 DEF Control, Ask
      <4> HIDE DEF q
      <4> QED BY <2>2, <4>1
    <3> QED BY <1>3, <3>1, <3>2
  <2>4. Registered' = Registered
    BY <2>1 DEF Registered
  <2>5. RegistrySound'
    BY <2>1, <2>4 DEF RegistryInv, RegistrySound
  <2>6. AddGuarded'
    BY <2>1, <2>3, <2>4 DEF RegistryInv, AddGuarded
  <2> QED BY <2>5, <2>6
<1> QED BY <1>2, <1>3

\* Every step keeps the registry sound.
LEMMA RegistryStep ==
  ASSUME RegistryInv, ChildrenInv, [Next]_vars
  PROVE  RegistryInv'
<1>1. SupervisorTypeOK /\ UnitsSound /\ ExitsTrue
  BY NoStrayParts DEF ChildrenInv
<1>2. SupervisorTypeOK'
  BY <1>1, SupervisorTypeStep
<1>3. CASE Supervising \/ Crash
  <2>1. EntriesStay /\ CmdQuiet
    BY <1>1, <1>3, SupervisingKeeps, SupervisingCmd
  <2>2. UNCHANGED <<config, lock>>
    BY <1>3 DEF Supervising, Receive, Deadline, Tick, TickAt, RestartDown, PumpExpires, Healthy,
                HealthExpires, NextUnit, Exit, Supervise, Crash
  <2> QED BY <1>2, <2>1, <2>2, RegistryFrame DEF RegistryInv
<1>4. CASE Signal \/ (\E u \in Units : \E n \in DOMAIN child[u] : ChildEnds(u, n)) \/ UNCHANGED vars
  <2>1. UNCHANGED <<reg, config, lock, cmd>>
    BY <1>4 DEF Signal, ChildEnds, vars
  <2>2. EntriesStay /\ CmdQuiet
    BY <2>1 DEF EntriesStay, CmdQuiet
  <2> QED BY <1>2, <2>1, <2>2, RegistryFrame DEF RegistryInv
<1>5. ASSUME NEW c \in Commands, CommandStep(c) PROVE RegistrySound' /\ AddGuarded'
  BY <1>5, AddStep, AddBeginStep, OtherCommandStep DEF CommandStep, Commanding
<1> QED BY <1>2, <1>3, <1>4, <1>5 DEF Next, CommandStep, RegistryInv

\* The registry the first command finds is sound: it names one unit at most.
LEMMA RegistryInit == Init => RegistryInv
<1> SUFFICES ASSUME Init PROVE RegistryInv
  OBVIOUS
<1>1. SupervisorTypeOK
  BY ChildrenInvInit DEF ChildrenInv
<1>2. Min(Addresses) # 0
  BY UnitsAssumption, MinIn
<1>3. PICK s : /\ s \in {{}, {Min(Units)}}
               /\ reg = [u \in Units |-> IF u \in s THEN [in |-> TRUE, enabled |-> TRUE] ELSE Unregistered]
               /\ config = [u \in Units |-> IF u \in s THEN Min(Addresses) ELSE 0]
  BY DEF Init
<1>4. \A u \in Registered : u \in s
  BY <1>3 DEF Registered, Unregistered
<1>5. RegistrySound
  BY <1>2, <1>3, <1>4 DEF RegistrySound, Registered
<1>6. AddGuarded
  BY DEF Init, AddGuarded, Idle
<1> QED BY <1>1, <1>5, <1>6 DEF RegistryInv

\* However many processes add and remove at the same time, and wherever an add fails
\* (mod.rs: add, GeneratedConfig, remove_command, under units.lock): every registered unit
\* has its config file, and no two name the same address.
THEOREM RegistryKept == Spec => []RegistrySound
<1>1. Init => RegistryInv
  BY RegistryInit
<1>2. RegistryInv /\ ChildrenInv /\ [Next]_vars => RegistryInv'
  BY RegistryStep
<1>3. RegistryInv => RegistrySound
  BY DEF RegistryInv
<1> QED BY <1>1, <1>2, <1>3, ChildrenInvHolds, PTL DEF Spec

=============================================================================
