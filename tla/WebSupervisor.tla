---------------------------- MODULE WebSupervisor ----------------------------
(***************************************************************************)
(* The supervisor of the web gateways (hyoui-cli/src/web_daemon): one      *)
(* thread that takes requests, exits of its children and signals from one  *)
(* channel, and keeps what runs in line with the registry of units.        *)
(*                                                                         *)
(* `hyoui web daemon add`, `remove`, `start`, `stop` and `restart` are     *)
(* processes of their own.  They share the registry, guarded by a file     *)
(* lock, and send requests.  A restart waits for the old child by reading  *)
(* the same channel, so requests are handled inside requests: `stack`      *)
(* holds the restarts that have been entered and not left.                 *)
(*                                                                         *)
(* Times are abstract: a back-off, a grace period and a waiting limit end  *)
(* at some moment the environment chooses, in the order the code imposes.  *)
(***************************************************************************)
EXTENDS Naturals, Sequences, FiniteSets, FiniteSetsExt, SequencesExt

CONSTANTS
  Units,        \* names of units; numbers, because the code goes through them in order
  Addresses,    \* listen addresses
  Commands,     \* command processes that may be running at a time
  Ops,          \* what they may be asked to do
  MaxOps,       \* bound: commands issued in all
  MaxFaults     \* bound: children that fall, starts that fail, binaries that hang when asked
                \* for their version, and crashes of the supervisor

\* 0 stands for no unit and for no config file.
ASSUME UnitsAssumption ==
  /\ Units \subseteq Nat \ {0} /\ IsFiniteSet(Units)
  /\ Addresses \subseteq Nat \ {0} /\ Addresses # {}

VARIABLES
  reg,      \* the registry: the unit files
  config,   \* the address in each unit's own config file; 0 where there is no file
  lock,     \* the command that holds units.lock
  cmd,      \* the command processes
  ops,      \* commands issued so far
  units,    \* the supervisor's Runtime of each unit
  child,    \* child[u][n]: the n-th process started for unit u
  faults,   \* faults so far
  channel,  \* events not yet received
  stack,    \* restarts under way, the innermost last
  pc,       \* where the supervisor is: off, loop, tick, exited; hung, or stuck on the way there
  shutting  \* shutting_down

vars == <<reg, config, lock, cmd, ops, units, child, faults, channel, stack, pc, shutting>>

NoUnit == 0

Absent == [st |-> "Absent", pid |-> 0, killed |-> FALSE, enabled |-> FALSE, next |-> "none"]
NewRuntime(e) == [Absent EXCEPT !.st = "Down", !.enabled = e]
Unregistered == [in |-> FALSE, enabled |-> FALSE]
Idle == [st |-> "idle", op |-> "none", req |-> "none", u |-> NoUnit, listen |-> 0]

Known == {u \in Units : units[u].st # "Absent"}
Registered == {u \in Units : reg[u].in}
Live(p) == p.st \in {"up", "term", "kill", "orphan"}
Own(p) == p.st \in {"up", "term", "kill"}
Resolve(u) == IF u = NoUnit THEN Known ELSE {u} \cap Known

\* Registry::lock and try_lock
LockFree == lock = {}

-----------------------------------------------------------------------------
(* What a handler does to one unit: x = [rt, kids, ent] is its Runtime, its *)
(* processes and its entry in the registry.                                *)

Of(u) == [rt |-> units[u], kids |-> child[u], ent |-> reg[u]]

Become(x) ==
  /\ units' = [u \in Units |-> x[u].rt]
  /\ child' = [u \in Units |-> x[u].kids]
  /\ reg' = [u \in Units |-> x[u].ent]

\* send_signal(SIGTERM) to process n
Terminate(kids, n) == [kids EXCEPT ![n].st = IF @ = "up" THEN "term" ELSE @]

\* stop: SIGTERM now, SIGKILL when the grace period is over (see Ticked).
Stop(x) ==
  IF x.rt.st = "Running"
  THEN [x EXCEPT !.rt = [@ EXCEPT !.st = "Stopping", !.next = "none", !.killed = FALSE],
                 !.kids = Terminate(@, x.rt.pid)]
  ELSE [x EXCEPT !.rt.next = "none"]

\* Mutant of SetEnabled: the Runtime keeps the unit it had read before.
SetEnabledFileOnlyMutant(x, e) == [x EXCEPT !.ent.enabled = e]

\* Supervisor::set_enabled with Registry::set_enabled
SetEnabled(x, e) == [x EXCEPT !.ent.enabled = e, !.rt.enabled = e]

\* The part of apply_start that follows set_enabled.
Schedule(x) == IF x.rt.st = "Running" THEN x ELSE [x EXCEPT !.rt.next = "now"]

\* apply_start and apply_stop for the units us; set_enabled fails for one not in the registry.
ApplyStart(us) ==
  [u \in Units |-> IF u \in us /\ reg[u].in THEN Schedule(SetEnabled(Of(u), TRUE)) ELSE Of(u)]
ApplyStop(us) ==
  [u \in Units |-> IF u \in us /\ reg[u].in THEN Stop(SetEnabled(Of(u), FALSE)) ELSE Of(u)]

\* Mutant of Dropped: a unit that left the registry is forgotten while its child still stops.
DroppedAtOnceMutant(x) == [Stop(x) EXCEPT !.rt = Absent]

\* reload: a unit that left the registry is stopped, and forgotten once it is down.
Dropped(x) == IF Stop(x).rt.st = "Down" THEN [x EXCEPT !.rt = Absent] ELSE Stop(x)

\* reload: a listed unit is created or updated, and started or stopped as it says.
Listed(x) ==
  LET e == x.ent.enabled
      k == [x EXCEPT !.rt = IF x.rt.st = "Absent" THEN NewRuntime(e) ELSE [@ EXCEPT !.enabled = e]]
  IN IF shutting THEN k
     ELSE IF e /\ k.rt.st # "Running" /\ k.rt.next = "none" THEN [k EXCEPT !.rt.next = "now"]
     ELSE IF ~e /\ k.rt.st = "Running" THEN Stop(k)
     ELSE k

Reload ==
  [u \in Units |-> IF u \in Registered THEN Listed(Of(u))
                   ELSE IF u \in Known THEN Dropped(Of(u)) ELSE Of(u)]

StopUnits(us) == [u \in Units |-> IF u \in us THEN Stop(Of(u)) ELSE Of(u)]

\* child_exited: a stop leaves the unit down, a crash schedules a start after the back-off.
ChildExited(u, n) ==
  IF units[u].st = "Absent" \/ (units[u].pid # n /\ units[u].st # "Down") THEN units
  ELSE [units EXCEPT ![u] =
         [@ EXCEPT !.st = "Down", !.pid = 0,
                   !.next = IF units[u].st = "Stopping" \/ ~units[u].enabled \/ shutting
                            THEN "none" ELSE "later"]]

-----------------------------------------------------------------------------
(* The main loop and the loop of pump_until, which share the channel.      *)

Busy == stack # <<>>
Top == Last(stack)

\* The condition a pump waits for; while it waits for /healthz there is none.
PumpDone == Busy /\ Top.phase = "down" /\ units[Top.u].st = "Down"

\* finished
Finished == shutting /\ \A u \in Known : units[u].st = "Down"

\* The loop is about to wait for an event.
Waiting == pc = "loop" /\ ~PumpDone /\ (Busy => Top.phase # "next") /\ (Busy \/ ~Finished)

\* The answer to command c; `remove` goes on with its own work.
Answered(c) ==
  cmd' = [cmd EXCEPT ![c] = IF @.op = "remove" /\ @.req = "stop" THEN [@ EXCEPT !.st = "erase"] ELSE Idle]

\* The handler of c ends with status_response, which asks the binary of every unit it
\* describes for its --version and waits without a limit.  The answer goes out, or the
\* only thread never comes back: it is `hung', or `stuck' until its tick is over.
Ends(c, described, then, lost) ==
  \/ Answered(c) /\ pc' = then /\ UNCHANGED faults
  \/ /\ described # {} /\ faults < MaxFaults
     /\ faults' = faults + 1
     /\ pc' = lost
     /\ UNCHANGED cmd

\* apply_restart for one name or for all.
BeginRestart(c) ==
  LET u == cmd[c].u
      Only(x) == [[v \in Units |-> Of(v)] EXCEPT ![u] = x]
  IN \/ /\ u # NoUnit /\ ~reg[u].in
        /\ Ends(c, {u}, "tick", "hung")
        /\ UNCHANGED <<units, child, reg, stack>>
     \/ /\ u # NoUnit /\ reg[u].in /\ units[u].st = "Running"
        /\ Become(Only(Stop(SetEnabled(Of(u), TRUE))))
        /\ stack' = Append(stack, [c |-> c, u |-> u, rest |-> {}, phase |-> "down"])
        /\ pc' = "tick"
        /\ UNCHANGED <<cmd, faults>>
     \/ /\ u # NoUnit /\ reg[u].in /\ units[u].st # "Running"
        /\ Become(Only(Schedule(SetEnabled(Of(u), TRUE))))
        /\ Ends(c, {u}, "tick", "stuck")
        /\ UNCHANGED stack
     \/ /\ u = NoUnit
        /\ stack' = Append(stack, [c |-> c, u |-> NoUnit, rest |-> Known, phase |-> "next"])
        /\ pc' = "tick"
        /\ UNCHANGED <<cmd, units, child, reg, faults>>

\* serve_request
ServeRequest(c) ==
  LET q == cmd[c]
      us == Resolve(q.u)
      unknown == q.u # NoUnit /\ us = {}
  IN /\ q.req # "reload" => LockFree \/ unknown
     /\ \/ /\ unknown /\ q.req # "reload"
           /\ Answered(c) /\ pc' = "tick"
           /\ UNCHANGED <<units, child, reg, stack, faults>>
        \/ ~unknown /\ q.req = "start" /\ Become(ApplyStart(us)) /\ Ends(c, us, "tick", "stuck") /\ UNCHANGED stack
        \/ ~unknown /\ q.req = "stop" /\ Become(ApplyStop(us)) /\ Ends(c, us, "tick", "hung") /\ UNCHANGED stack
        \/ q.req = "reload" /\ Become(Reload) /\ Ends(c, Known', "tick", "hung") /\ UNCHANGED stack
        \/ ~unknown /\ q.req = "restart" /\ BeginRestart(c)

\* begin_shutdown
BeginShutdown ==
  /\ shutting' = TRUE
  /\ IF shutting THEN UNCHANGED <<units, child, reg>> ELSE Become(StopUnits(Known))
  /\ pc' = "tick"
  /\ UNCHANGED <<cmd, stack, faults>>

\* One event is received and handled.
Receive ==
  /\ Waiting /\ channel # <<>>
  /\ channel' = Tail(channel)
  /\ LET e == Head(channel) IN
       \/ /\ e.t = "exit" /\ units' = ChildExited(e.u, e.n) /\ pc' = "tick"
          /\ UNCHANGED <<cmd, child, reg, stack, shutting, faults>>
       \/ e.t = "request" /\ ServeRequest(e.c) /\ UNCHANGED shutting
       \/ e.t = "signal" /\ BeginShutdown
  /\ UNCHANGED <<config, lock, ops>>

\* Units that tick would start: asked for now, or waiting for a back-off to end.
Wanted(when) ==
  {u \in Units : units[u].st = "Down" /\ ~shutting /\ units[u].enabled /\ units[u].next = when}
Lingering == {u \in Units : units[u].st = "Stopping" /\ ~units[u].killed}

\* Mutant of Ticked: SIGKILL is never sent.
NoKillMutant(go, bad, late) ==
  [u \in Units |->
     IF u \in bad THEN [Of(u) EXCEPT !.rt.next = "later"]
     ELSE IF u \in go
     THEN [Of(u) EXCEPT !.rt = [@ EXCEPT !.st = "Running", !.pid = Len(child[u]) + 1, !.next = "none"],
                        !.kids = Append(@, [st |-> "up", listen |-> config[u]])]
     ELSE IF u \in late THEN [Of(u) EXCEPT !.rt.killed = TRUE]
     ELSE Of(u)]

\* tick and start: the units in go are started (those in bad fail to), those in late are killed.
Ticked(go, bad, late) ==
  [u \in Units |->
     IF u \in bad THEN [Of(u) EXCEPT !.rt.next = "later"]
     ELSE IF u \in go
     THEN [Of(u) EXCEPT !.rt = [@ EXCEPT !.st = "Running", !.pid = Len(child[u]) + 1, !.next = "none"],
                        !.kids = Append(@, [st |-> "up", listen |-> config[u]])]
     ELSE IF u \in late
     THEN [Of(u) EXCEPT !.rt.killed = TRUE, !.kids[units[u].pid].st = IF @ = "dead" THEN @ ELSE "kill"]
     ELSE Of(u)]

\* tick at a moment when the back-offs of ready and the grace periods of late are over.
TickAt(ready, late) ==
  \E bad \in SUBSET (Wanted("now") \cup ready) :
    /\ faults + Cardinality(bad) <= MaxFaults
    /\ faults' = faults + Cardinality(bad)
    /\ Become(Ticked(Wanted("now") \cup ready, bad, late))
    /\ pc' = IF pc = "stuck" THEN "hung" ELSE "loop"
    /\ UNCHANGED <<config, lock, cmd, ops, channel, stack, shutting>>

\* The tick that follows an event.
Tick ==
  /\ pc \in {"tick", "stuck"}
  /\ \E ready \in SUBSET Wanted("later"), late \in SUBSET Lingering : TickAt(ready, late)

\* recv_timeout ends at next_deadline, with nothing in the channel, and tick follows.
Deadline ==
  /\ Waiting /\ channel = <<>>
  /\ \E ready \in SUBSET Wanted("later"), late \in SUBSET Lingering :
       Wanted("now") \cup ready \cup late # {} /\ TickAt(ready, late)

-----------------------------------------------------------------------------
(* The rest of a restart, after its pump has ended.                        *)

Leave(then, lost) == stack' = Front(stack) /\ Ends(Top.c, Resolve(cmd[Top.c].u), then, lost)

\* Down: the unit may start.  Named restarts end with the tick, --all waits for /healthz.
RestartDown ==
  /\ pc = "loop" /\ PumpDone
  /\ units' = [units EXCEPT ![Top.u].next = "now"]
  /\ \/ cmd[Top.c].u # NoUnit /\ Leave("tick", "stuck")
     \/ /\ cmd[Top.c].u = NoUnit
        /\ stack' = [stack EXCEPT ![Len(stack)].phase = "health"]
        /\ pc' = "tick"
        /\ UNCHANGED <<cmd, faults>>
  /\ UNCHANGED <<config, reg, lock, ops, child, channel, shutting>>

\* Twice the grace period went by: SIGKILL was sent long ago.
PumpExpires ==
  /\ Waiting /\ Busy /\ Top.phase = "down"
  /\ units[Top.u].st = "Stopping" => units[Top.u].killed
  /\ Leave("loop", "hung")
  /\ UNCHANGED <<config, reg, lock, ops, units, child, channel, shutting>>

\* wait_for_healthz succeeds only while a child is there to answer.
Healthy ==
  /\ pc = "loop" /\ Busy /\ Top.phase = "health"
  /\ \E n \in DOMAIN child[Top.u] : Live(child[Top.u][n])
  /\ stack' = [stack EXCEPT ![Len(stack)].phase = "next"]
  /\ UNCHANGED <<config, reg, lock, cmd, ops, units, child, channel, pc, shutting, faults>>

HealthExpires ==
  /\ pc = "loop" /\ Busy /\ Top.phase = "health"
  /\ Leave("loop", "hung")
  /\ UNCHANGED <<config, reg, lock, ops, units, child, channel, shutting>>

\* restart --all goes to its next unit and skips the ones that are not enabled.
NextUnit ==
  /\ pc = "loop" /\ Busy /\ Top.phase = "next"
  /\ UNCHANGED <<config, lock, ops, channel, shutting>>
  /\ \/ Top.rest = {} /\ Leave("loop", "hung") /\ UNCHANGED <<reg, units, child>>
     \/ /\ Top.rest # {}
        /\ LET u == Min(Top.rest)
               go == units[u].enabled
           IN /\ stack' = [stack EXCEPT ![Len(stack)] =
                             [@ EXCEPT !.u = IF go THEN u ELSE @, !.rest = @ \ {u},
                                       !.phase = IF go THEN "down" ELSE @]]
              /\ Become(StopUnits(IF go THEN {u} ELSE {}))
              /\ UNCHANGED <<cmd, pc, faults>>

\* run returns; connections that wait for an answer are closed.
Exit ==
  /\ pc = "loop" /\ ~Busy /\ Finished
  /\ pc' = "exited" /\ channel' = <<>>
  /\ cmd' = [c \in Commands |-> IF cmd[c].st = "ask" THEN Idle ELSE cmd[c]]
  /\ UNCHANGED <<config, reg, lock, ops, units, child, stack, shutting, faults>>

\* The control socket takes a request, whether or not the thread will ever read it.
Reachable == pc \in {"loop", "tick", "stuck", "hung"}

\* SIGKILL to the supervisor: its children stay, as orphans.
Crash ==
  /\ Reachable /\ faults < MaxFaults /\ faults' = faults + 1
  /\ pc' = "off" /\ channel' = <<>> /\ stack' = <<>> /\ shutting' = FALSE
  /\ units' = [u \in Units |-> Absent]
  /\ child' = [u \in Units |-> [n \in DOMAIN child[u] |->
                 [child[u][n] EXCEPT !.st = IF @ = "dead" THEN @ ELSE "orphan"]]]
  /\ cmd' = [c \in Commands |-> IF cmd[c].st = "ask" THEN Idle ELSE cmd[c]]
  /\ UNCHANGED <<config, reg, lock, ops>>

\* supervise: the control socket is bound (a dead supervisor's is replaced), then reload.
Supervise ==
  /\ pc = "off"
  /\ Become(Reload)
  /\ pc' = "loop"
  /\ UNCHANGED <<config, lock, cmd, ops, channel, stack, shutting, faults>>

-----------------------------------------------------------------------------
(* Commands.                                                               *)

Ask(c, q) == /\ channel' = Append(channel, [t |-> "request", c |-> c])
             /\ cmd' = [cmd EXCEPT ![c] = q]

\* control_command: without a supervisor it only fails.
Control(c, op, u) ==
  /\ cmd[c].st = "idle" /\ ops < MaxOps /\ Reachable
  /\ op \in {"start", "stop", "restart"} \cap Ops
  /\ Ask(c, [st |-> "ask", op |-> op, req |-> op, u |-> u, listen |-> 0])
  /\ ops' = ops + 1
  /\ UNCHANGED <<config, reg, lock, units, child, stack, pc, shutting, faults>>

\* find_listen_conflict and check_listen_free
ListenFree(a) ==
  /\ \A v \in Registered : config[v] # a
  /\ \A v \in Units : \A n \in DOMAIN child[v] : Live(child[v][n]) => child[v][n].listen # a

AddChecked(c, u, a) ==
  /\ cmd[c].st = "idle" /\ ops < MaxOps /\ "add" \in Ops
  /\ ~reg[u].in /\ config[u] \in {0, a} /\ ListenFree(a)
  /\ cmd' = [cmd EXCEPT ![c] = [st |-> IF config[u] = 0 THEN "locked" ELSE "written",
                                op |-> "add", req |-> "reload", u |-> u,
                                listen |-> IF config[u] = 0 THEN a ELSE 0]]
  /\ ops' = ops + 1
  /\ UNCHANGED <<reg, config, units, child, channel, stack, pc, shutting, faults>>

\* Mutant of AddBegin: the checks are made without the lock.
AddUnlockedMutant(c, u, a) == AddChecked(c, u, a) /\ UNCHANGED lock

\* add: try_lock, then the checks of name and address.  cmd.listen is not 0 when the
\* config file has to be generated.
AddBegin(c, u, a) == LockFree /\ lock' = {c} /\ AddChecked(c, u, a)

\* write_unit_config
AddGenerate(c) ==
  /\ cmd[c].st = "locked"
  /\ config' = [config EXCEPT ![cmd[c].u] = cmd[c].listen]
  /\ cmd' = [cmd EXCEPT ![c].st = "written"]
  /\ UNCHANGED <<reg, lock, ops, units, child, channel, stack, pc, shutting, faults>>

\* add: add_locked, keep the config, drop(lock), and the request to reload.
AddWrite(c) ==
  /\ cmd[c].st = "written"
  /\ reg' = [reg EXCEPT ![cmd[c].u] = [in |-> TRUE, enabled |-> TRUE]]
  /\ lock' = lock \ {c}
  /\ IF Reachable THEN Ask(c, [cmd[c] EXCEPT !.st = "ask"])
     ELSE cmd' = [cmd EXCEPT ![c] = Idle] /\ UNCHANGED channel
  /\ UNCHANGED <<config, ops, units, child, stack, pc, shutting, faults>>

\* add fails to write the unit: the Drop of GeneratedConfig takes back the file it wrote.
AddFails(c) ==
  /\ cmd[c].st = "written" /\ faults < MaxFaults
  /\ config' = IF cmd[c].listen = 0 THEN config ELSE [config EXCEPT ![cmd[c].u] = 0]
  /\ cmd' = [cmd EXCEPT ![c] = Idle]
  /\ lock' = lock \ {c}
  /\ faults' = faults + 1
  /\ UNCHANGED <<reg, ops, units, child, channel, stack, pc, shutting>>

\* remove_command: a reachable supervisor is asked to stop the unit first; `req' stays
\* "stop" when it was.
RemoveBegin(c, u) ==
  /\ cmd[c].st = "idle" /\ ops < MaxOps /\ "remove" \in Ops
  /\ reg[u].in
  /\ LET q == [st |-> "ask", op |-> "remove", req |-> "stop", u |-> u, listen |-> 0]
     IN IF Reachable THEN Ask(c, q)
        ELSE cmd' = [cmd EXCEPT ![c] = [q EXCEPT !.st = "erase", !.req = "none"]] /\ UNCHANGED channel
  /\ ops' = ops + 1
  /\ UNCHANGED <<config, reg, lock, units, child, stack, pc, shutting, faults>>

\* Registry::remove, then the request to reload, if that to stop was answered: a
\* supervisor that was started since then keeps the unit.
RemoveErase(c) ==
  /\ cmd[c].st = "erase" /\ LockFree
  /\ reg' = [reg EXCEPT ![cmd[c].u] = Unregistered]
  /\ IF cmd[c].req = "stop" /\ Reachable /\ reg[cmd[c].u].in
     THEN Ask(c, [cmd[c] EXCEPT !.st = "ask", !.req = "reload"])
     ELSE cmd' = [cmd EXCEPT ![c] = Idle] /\ UNCHANGED channel
  /\ UNCHANGED <<config, lock, ops, units, child, stack, pc, shutting, faults>>

-----------------------------------------------------------------------------
(* Children and signals.                                                   *)

\* A child ends, and the thread that waits for it sends the event.
ChildEnds(u, n) ==
  /\ Live(child[u][n])
  /\ child[u][n].st = "up" => faults < MaxFaults
  /\ faults' = IF child[u][n].st = "up" THEN faults + 1 ELSE faults
  /\ child' = [child EXCEPT ![u][n].st = "dead"]
  /\ channel' = IF Own(child[u][n]) THEN Append(channel, [t |-> "exit", u |-> u, n |-> n]) ELSE channel
  /\ UNCHANGED <<config, reg, lock, cmd, ops, units, stack, pc, shutting>>

\* SIGTERM or SIGINT arrives once.
Signal ==
  /\ Reachable /\ "shutdown" \in Ops /\ ~shutting
  /\ \A i \in DOMAIN channel : channel[i].t # "signal"
  /\ channel' = Append(channel, [t |-> "signal"])
  /\ UNCHANGED <<config, reg, lock, cmd, ops, units, child, stack, pc, shutting, faults>>

-----------------------------------------------------------------------------
Init ==
  /\ \E some \in {{}, {Min(Units)}} :
       /\ reg = [u \in Units |-> IF u \in some THEN [in |-> TRUE, enabled |-> TRUE] ELSE Unregistered]
       /\ config = [u \in Units |-> IF u \in some THEN Min(Addresses) ELSE 0]
  /\ lock = {} /\ cmd = [c \in Commands |-> Idle] /\ ops = 0
  /\ units = [u \in Units |-> Absent] /\ child = [u \in Units |-> <<>>] /\ faults = 0
  /\ channel = <<>> /\ stack = <<>> /\ pc = "off" /\ shutting = FALSE

Supervising == Receive \/ Deadline \/ Tick \/ RestartDown \/ PumpExpires \/ Healthy \/ HealthExpires
               \/ NextUnit \/ Exit \/ Supervise

Commanding(c) == AddGenerate(c) \/ AddWrite(c) \/ AddFails(c) \/ RemoveErase(c)

Next ==
  \/ Supervising \/ Crash \/ Signal
  \/ \E c \in Commands :
       \/ Commanding(c)
       \/ \E u \in Units \cup {NoUnit}, op \in {"start", "stop", "restart"} : Control(c, op, u)
       \/ \E u \in Units : RemoveBegin(c, u) \/ \E a \in Addresses : AddBegin(c, u, a)
  \/ \E u \in Units : \E n \in DOMAIN child[u] : ChildEnds(u, n)

KilledEnds == \E u \in Units : \E n \in DOMAIN child[u] : child[u][n].st = "kill" /\ ChildEnds(u, n)

\* The thread runs and its timeouts end, unless it is hung; commands go on, and SIGKILL
\* ends a process.
Fairness ==
  /\ WF_vars(Supervising) /\ WF_vars(\E c \in Commands : Commanding(c))
  /\ WF_vars(KilledEnds)

Spec == Init /\ [][Next]_vars /\ Fairness

-----------------------------------------------------------------------------
(* Properties.                                                             *)

\* Every process the supervisor has started and not buried is the one its Runtime names
\* (supervisor.rs: start, stop, child_exited, reload): none is started beside another,
\* and none is lost from sight by a stop, a reload or a restart inside a restart.  A
\* supervisor that was told to end leaves none of its children behind (run, finished).
NoStrayChild ==
  \A u \in Units : \A n \in DOMAIN child[u] :
    Own(child[u][n]) =>
      pc # "exited" /\ units[u].pid = n /\ units[u].st \in {"Running", "Stopping"}

\* Every registered unit has its config file, and no two the same address: parallel adds
\* neither pass each other's checks nor clean up the file another unit's entry names
\* (mod.rs: add, GeneratedConfig, under units.lock).
RegistrySound ==
  /\ \A u \in Registered : config[u] # 0
  /\ \A u, v \in Registered : u # v => config[u] # config[v]

\* A command that has asked the supervisor gets an answer or a closed connection,
\* however requests nest in restarts and whoever holds units.lock, and a supervisor
\* that was signalled ends; or the thread is hung in an answer, because the binary of a
\* unit does not come back from --version (probe.rs has no time-out), which only a kill
\* of the supervisor ends.
RequestsEnd ==
  LET pending ==
        \/ \E c \in Commands : cmd[c].st = "ask"
        \/ shutting /\ pc \notin {"exited", "off"}
  IN []<>(~pending \/ pc = "hung")

\* A unit that stays stopped ends up without a process of the supervisor, whatever restarts
\* were under way (apply_stop, apply_restart, tick), again unless the thread is hung.
StoppedStays ==
  \A u \in Units :
    <>[](reg[u].in /\ ~reg[u].enabled) => <>[](pc = "hung" \/ \A n \in DOMAIN child[u] : ~Own(child[u][n]))

=============================================================================
