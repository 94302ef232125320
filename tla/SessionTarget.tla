--------------------------- MODULE SessionTarget ---------------------------
(***************************************************************************)
(* Which session a command is about: the selectors of the CLI (an id, an   *)
(* index of the live sessions, a socket path, the session of the shell),   *)
(* the scans behind kill --all and list, and the gateway's lookup of one   *)
(* session, shared by the requests that arrive while it runs.              *)
(* A scan is not atomic: the directory is read, each socket is probed and  *)
(* its mtime read while sessions start, end, crash and hang.               *)
(***************************************************************************)
EXTENDS Integers, FiniteSets

CONSTANTS
  Sessions,    \* 1 .. n: names of session sockets, in the order of their first use
  Legacy,      \* those whose name is not a UUID (an older hyoui)
  Requests,    \* HTTP requests of the gateway for one session
  MaxChanges   \* bound: sessions that start, end, crash or hang during a command

None == 0
Looked == 1    \* the session the requests ask for
Uuid == Sessions \ Legacy

\* "status" stands for every command on one session but attach: kill_command_single
\* selects its target as resolve_target_socket does for the others.
Verbs == {"attach", "status", "kill --all", "list", "GET"}

\* The arguments of a command: at most one selector; an alias is another path to
\* the same socket (a symbolic link).
Selectors ==
  [kind : {"id", "path", "alias"}, s : Sessions] \cup [kind : {"index"}, i : -2 .. 2]
    \cup {[kind |-> "none"]}

VARIABLES
  verb, sel,   \* the command
  env,         \* HYOUI_SESSION_ID of its shell: a session or None
  dirOk,       \* the sessions directory has the right owner and mode
  state,       \* [Sessions -> "new", "live", "hung", "left" (a socket without a daemon), "gone"]
  mtime,       \* [Sessions -> Nat] of the socket
  pc,          \* "start", "scan", "env", "resolve", "connect", "kill", "query", "done"
  seen,        \* sessions the scan has read
  found,       \* [sessions the scan takes -> mtime]
  statting,    \* the session probed whose mtime is not read yet, or None
  target, code,
  acted,       \* sessions the command has reached
  failures,    \* kill --all: sessions it could not signal
  stayed, was, \* sessions that were live all through the command, and at some time of it
  req,         \* [Requests -> [pc, of, val]]
  inflight,    \* the lookup in the map, or None
  work,        \* [lookups -> "run", "panicked", "sent" or its result]
  changes

local == <<pc, seen, found, statting, target, code, acted, failures>>
gateway == <<req, inflight, work>>
world == <<state, mtime, stayed, was, changes>>
vars == <<verb, sel, env, dirOk, local, gateway, world>>

Up(s) == state[s] \in {"live", "hung"}
File(s) == state[s] \in {"live", "hung", "left"}

\* The sessions the command looks at; the others do not matter to it.
Relevant ==
  IF verb = "GET" THEN {Looked}
  ELSE IF sel.kind \in {"id", "path", "alias"} THEN {sel.s, env} \ {None}
  ELSE IF sel.kind = "index" THEN Uuid
  ELSE IF sel.kind = "none" /\ verb \in {"attach", "status"} THEN {env} \ {None}
  ELSE Sessions

Init ==
  /\ verb \in Verbs
  /\ env \in Sessions \cup {None}
  /\ sel \in IF verb \in {"attach", "status"} THEN Selectors ELSE {[kind |-> "none"]}
  /\ dirOk \in BOOLEAN
  /\ sel.kind \in {"id", "index"} => dirOk
  /\ env # None => verb = "attach" \/ sel.kind = "none"
  /\ verb = "attach" /\ sel.kind = "index" => env \in Uuid   \* else as "status"
  /\ \E up \in SUBSET Relevant :
       /\ env \in up \cup {None}
       /\ state = [s \in Sessions |-> IF s \in up THEN "live" ELSE "new"]
       /\ mtime = [s \in Sessions |-> IF s \in up THEN s ELSE 0]
       /\ stayed = up /\ was = up
  /\ pc = IF verb = "GET" THEN "done" ELSE "start"
  /\ seen = {} /\ found = <<>> /\ statting = None
  /\ target = None /\ code = "none" /\ acted = {} /\ failures = 0
  /\ req = [r \in Requests |-> [pc |-> "idle", of |-> None, val |-> "none"]]
  /\ inflight = None /\ work = <<>>
  /\ changes = 0

-----------------------------------------------------------------------------
(* The command.                                                            *)

Exit(c) == pc' = "done" /\ code' = c

Keep == UNCHANGED <<verb, sel, env, dirOk, gateway>>

\* The selector: a socket path is taken as it is, an index needs a scan, no
\* selector means the shell's session, for all but attach.
Begin ==
  /\ pc = "start"
  /\ \/ /\ verb \in {"kill --all", "list"} /\ pc' = "scan" /\ UNCHANGED <<code, target>>
     \/ /\ verb \in {"attach", "status"}
        /\ CASE sel.kind \in {"path", "alias"} -> pc' = "path" /\ target' = sel.s /\ UNCHANGED code
             [] sel.kind = "index" ->
                  /\ IF sel.i = 0 THEN Exit("1") ELSE pc' = "scan" /\ UNCHANGED code
                  /\ UNCHANGED target
             [] sel.kind = "id" -> pc' = "resolve" /\ target' = sel.s /\ UNCHANGED code
             [] sel.kind = "none" ->
                  /\ UNCHANGED target
                  /\ IF verb = "attach" \/ env = None THEN Exit("2") ELSE pc' = "env" /\ UNCHANGED code
  /\ UNCHANGED <<seen, found, statting, acted, failures, world>> /\ Keep

\* socket_path_is_self: canonical paths are compared while both exist.
PathIsSelf ==
  /\ env # None /\ env \in Uuid /\ dirOk
  /\ sel.s = env
  /\ sel.kind = "alias" => File(sel.s)

GivenPath ==
  /\ pc = "path"
  /\ IF verb = "attach" /\ PathIsSelf THEN Exit("2") ELSE pc' = "connect" /\ UNCHANGED code
  /\ UNCHANGED <<seen, found, statting, target, acted, failures, world>> /\ Keep

\* resolve_session_from_env: an old id or a session that is not up is an error,
\* never another session.
FromEnv ==
  /\ pc = "env"
  /\ \/ (env \notin Uuid \/ ~dirOk \/ ~Up(env)) /\ Exit("1") /\ UNCHANGED target
     \/ env \in Uuid /\ dirOk /\ Up(env) /\ pc' = "resolve" /\ target' = env /\ UNCHANGED code
  /\ UNCHANGED <<seen, found, statting, acted, failures, world>> /\ Keep

\* One entry of read_dir: a socket named by a UUID, and a connect tells whether a
\* daemon listens (the backlog of a hung one may be full).  list reads the mtime only.
ScanEntry(s) ==
  /\ pc = "scan" /\ statting = None /\ s \notin seen /\ File(s)
  /\ seen' = seen \cup {s}
  /\ \/ s \in Uuid /\ (verb = "list" \/ Up(s)) /\ statting' = s
     \/ (s \in Legacy \/ (verb # "list" /\ state[s] \in {"hung", "left"})) /\ UNCHANGED statting
  /\ UNCHANGED <<pc, found, target, code, acted, failures, world>> /\ Keep

\* The mtime, or the epoch if the socket has been removed since.
ScanStat ==
  /\ statting # None
  /\ found' = [s \in DOMAIN found \cup {statting} |->
                 IF s # statting THEN found[s] ELSE IF File(s) THEN mtime[s] ELSE 0]
  /\ statting' = None
  /\ UNCHANGED <<pc, seen, target, code, acted, failures, world>> /\ Keep

\* Mutant of Ranked: -1 is taken for the second last.
RankedMutant(i) ==
  LET n == Cardinality(DOMAIN found)
      k == IF i > 0 THEN i ELSE n + i
  IN {s \in DOMAIN found : /\ k <= n
                           /\ Cardinality({t \in DOMAIN found : found[t] < found[s]}) < k
                           /\ k <= Cardinality({t \in DOMAIN found : found[t] <= found[s]})}

\* The entries that sort_by_key may leave at index i: 1 is the oldest, -1 the newest.
Ranked(i) ==
  LET n == Cardinality(DOMAIN found)
      k == IF i > 0 THEN i ELSE n + 1 + i
  IN {s \in DOMAIN found : /\ k <= n
                           /\ Cardinality({t \in DOMAIN found : found[t] < found[s]}) < k
                           /\ k <= Cardinality({t \in DOMAIN found : found[t] <= found[s]})}

\* A directory stream returns every entry that stays, and perhaps the ones that come.
ScanEnd ==
  /\ pc = "scan" /\ statting = None
  /\ {s \in Sessions : File(s) /\ mtime[s] <= Cardinality(Sessions)} \subseteq seen
  /\ CASE verb = "list" -> pc' = "query" /\ UNCHANGED <<code, target>>
       [] verb = "kill --all" ->
            /\ IF DOMAIN found = {} THEN Exit("0") ELSE pc' = "kill" /\ UNCHANGED code
            /\ UNCHANGED target
       [] OTHER ->
            IF Ranked(sel.i) = {} THEN Exit("1") /\ UNCHANGED target
            ELSE pc' = "resolve" /\ target' \in Ranked(sel.i) /\ UNCHANGED code
  /\ UNCHANGED <<seen, found, statting, acted, failures, world>> /\ Keep

\* attach refuses the shell's own session; socket_path::resolve refuses a name that
\* is no UUID and a directory that is not the user's own.
Resolve ==
  /\ pc = "resolve"
  /\ CASE verb = "attach" /\ target = env -> Exit("2")
       [] target \notin Uuid \/ ~dirOk -> Exit("1")
       [] OTHER -> pc' = "connect" /\ UNCHANGED code
  /\ UNCHANGED <<seen, found, statting, target, acted, failures, world>> /\ Keep

\* The connection: a hung daemon's socket accepts it, or not.
Connect ==
  /\ pc = "connect"
  /\ \/ Up(target) /\ acted' = acted \cup {target} /\ Exit("0")
     \/ state[target] # "live" /\ Exit("1") /\ UNCHANGED acted
  /\ UNCHANGED <<seen, found, statting, target, failures, world>> /\ Keep

\* kill_command_single for the oldest session left: refused or gone is a failure.
\* A hung daemon may hold the command, which has no deadline, for ever.
KillNext ==
  /\ pc = "kill" /\ DOMAIN found # {}
  /\ \E s \in Ranked(1) :
       /\ found' = [t \in DOMAIN found \ {s} |-> found[t]]
       /\ \/ state[s] = "live" /\ dirOk /\ acted' = acted \cup {s} /\ UNCHANGED failures
          \/ (state[s] # "live" \/ ~dirOk) /\ failures' = failures + 1 /\ UNCHANGED acted
  /\ UNCHANGED <<pc, seen, statting, target, code, world>> /\ Keep

KillAllEnd ==
  /\ pc = "kill" /\ DOMAIN found = {}
  /\ Exit(IF failures > 0 THEN "1" ELSE "0")
  /\ UNCHANGED <<seen, found, statting, target, acted, failures, world>> /\ Keep

\* The file of a daemon that is gone is removed under the locks of its name.
Pruned(s) == state' = IF state[s] = "left" THEN [state EXCEPT ![s] = "gone"] ELSE state

\* enrich_entries_with_status: one thread per entry, each with its own deadline;
\* entries that turn out to be gone are left out.
Query(s) ==
  /\ pc = "query" /\ s \in DOMAIN found \ acted
  /\ IF Up(s) THEN acted' = acted \cup {s} /\ UNCHANGED found
     ELSE found' = [t \in DOMAIN found \ {s} |-> found[t]] /\ UNCHANGED acted
  /\ Pruned(s)
  /\ UNCHANGED <<pc, seen, statting, target, code, failures, mtime, stayed, was, changes>> /\ Keep

ListEnd ==
  /\ pc = "query" /\ DOMAIN found \subseteq acted
  /\ Exit("0")
  /\ UNCHANGED <<seen, found, statting, target, acted, failures, world>> /\ Keep

Command ==
  \/ Begin \/ GivenPath \/ FromEnv \/ ScanStat \/ ScanEnd \/ Resolve \/ Connect \/ KillNext
  \/ KillAllEnd \/ ListEnd
  \/ \E s \in Sessions : ScanEntry(s) \/ Query(s)

-----------------------------------------------------------------------------
(* The gateway: GET of one session, SingleFlight.                          *)

KeepCommand == UNCHANGED <<verb, sel, env, dirOk, local>>

\* join: the lookup that is under way, or a new one.
Join(r) ==
  /\ verb = "GET" /\ req[r].pc = "idle"
  /\ LET new == Cardinality(DOMAIN work) + 1
         of == IF inflight # None THEN inflight ELSE new
     IN /\ req' = [req EXCEPT ![r] = [pc |-> "wait", of |-> of, val |-> "none"]]
        /\ inflight' = of
        /\ work' = IF inflight # None THEN work
                   ELSE [w \in DOMAIN work \cup {new} |-> IF w = new THEN "run" ELSE work[w]]
  /\ UNCHANGED world /\ KeepCommand

\* find_session_in and probe: not found, no response, or live; the task may panic.
Lookup(w) ==
  /\ work[w] = "run" /\ inflight = w
  /\ \/ work' = [work EXCEPT ![w] = IF Looked \in Legacy \/ ~Up(Looked) THEN "absent" ELSE state[Looked]]
        /\ IF Looked \in Legacy THEN UNCHANGED state ELSE Pruned(Looked)
     \/ work' = [work EXCEPT ![w] = "panicked"] /\ UNCHANGED state
  /\ UNCHANGED <<req, inflight, mtime, stayed, was, changes>> /\ KeepCommand

\* The entry leaves the map, whether the task returned or panicked.
Remove(w) ==
  /\ inflight = w /\ work[w] # "run"
  /\ inflight' = None
  /\ UNCHANGED <<req, work, world>> /\ KeepCommand

\* resolve_socket: the response to a lookup's result.
Response(result) ==
  CASE result = "live" -> "socket" [] result = "hung" -> "no response"
    [] result = "absent" -> "not found" [] result = "panicked" -> "aborted"

\* send_replace wakes the waiters of this lookup; the drop of the sender tells
\* them that it was abandoned.
Deliver(w) ==
  /\ inflight # w /\ work[w] \notin {"run", "sent"}
  /\ work' = [work EXCEPT ![w] = "sent"]
  /\ req' = [r \in Requests |-> IF req[r].pc = "wait" /\ req[r].of = w
                                THEN [req[r] EXCEPT !.pc = "done", !.val = Response(work[w])] ELSE req[r]]
  /\ UNCHANGED <<inflight, world>> /\ KeepCommand

\* The browser goes away: the lookup goes on for the others.
Cancel(r) ==
  /\ req[r].pc = "wait"
  /\ req' = [req EXCEPT ![r].pc = "done", ![r].val = "cancelled"]
  /\ UNCHANGED <<inflight, work, world>> /\ KeepCommand

Gateway ==
  \/ \E r \in Requests : Join(r) \/ Cancel(r)
  \/ \E w \in DOMAIN work : Lookup(w) \/ Remove(w) \/ Deliver(w)

-----------------------------------------------------------------------------
(* Sessions come and go.                                                   *)

Become(s, to) ==
  /\ s \in Relevant /\ (verb = "GET" \/ pc # "done")
  /\ changes < MaxChanges /\ changes' = changes + 1
  /\ state' = [state EXCEPT ![s] = to]
  /\ stayed' = stayed \ {s}
  /\ was' = IF to = "live" THEN was \cup {s} ELSE was
  /\ mtime' = IF to = "live"
              THEN [mtime EXCEPT ![s] = 1 + Cardinality(Sessions) + changes] ELSE mtime
  /\ KeepCommand /\ UNCHANGED gateway

Start(s) == state[s] = "new" /\ Become(s, "live")
End(s) == state[s] = "live" /\ Become(s, "gone")
Crash(s) == Up(s) /\ Become(s, "left")
Hang(s) == state[s] = "live" /\ Become(s, "hung")

World == \E s \in Sessions : Start(s) \/ End(s) \/ Crash(s) \/ Hang(s)

Next == Command \/ Gateway \/ World

Fairness == \A w \in 1 .. Cardinality(Requests) :
              WF_vars(w \in DOMAIN work /\ (Lookup(w) \/ Remove(w) \/ Deliver(w)))

Spec == Init /\ [][Next]_vars /\ Fairness

-----------------------------------------------------------------------------
(* Properties.                                                             *)

\* A command that reached a session reached the one it names: the given one, for
\* no selector the shell's own, and for an index a session whose rank among the
\* live ones it was at some moment of the scan, although the scan is not atomic
\* and sessions start and end while it runs.  An entry whose socket vanished
\* between the probe and its mtime sorts first and moves the others by one, so
\* sessions that ended count as older ones, and one that ended may itself be the
\* target (the connection then fails).  attach never reaches the session it
\* runs in (only by a socket path, with an old id or an unusable directory).
\* kill --all that reports success, and list, have dealt with every session that
\* was live from the start of the command to its end: none is lost between the
\* directory, the probe, the sort and the loop.
TargetRight ==
  /\ (pc = "done" /\ code = "0" /\ verb \in {"kill --all", "list"})
       => \A s \in stayed \cap Uuid : s \in acted
  /\ verb \in {"attach", "status"} =>
    /\ \A s \in acted :
         /\ sel.kind \in {"id", "path", "alias"} => s = sel.s
         /\ sel.kind = "none" => s = env
         /\ verb = "attach" /\ s = env => sel.kind \in {"path", "alias"} /\ (s \in Legacy \/ ~dirOk)
    /\ sel.kind = "index" /\ target # None =>
         LET all == was \cap Uuid
             ended == {t \in all : ~Up(t)}
             older(set) == {t \in set \cap Uuid : mtime[t] < mtime[target]}
             newer(set) == {t \in set \cap Uuid : mtime[t] > mtime[target]}
         IN /\ target \in all
            /\ \/ target \in ended
               \/ /\ sel.i > 0
                  /\ Cardinality(older(stayed)) < sel.i
                  /\ sel.i <= Cardinality(older(all) \cup ended) + 1
               \/ /\ sel.i < 0
                  /\ Cardinality(newer(stayed)) < -sel.i
                  /\ -sel.i <= Cardinality(newer(all)) + 1

\* A request of the gateway waits for the lookup it began or joined.
Waiting == \E r \in Requests : req[r].pc = "wait"

=============================================================================
