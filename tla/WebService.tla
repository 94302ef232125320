------------------------------ MODULE WebService ------------------------------
(***************************************************************************)
(* hyoui web service (web_service.rs): how the supervisor is put under     *)
(* launchd or systemd.  A command is a sequence of file operations and     *)
(* launchctl / systemctl calls; each of them may fail, the command may be  *)
(* killed between two of them, and meanwhile the user logs out and in and  *)
(* the supervisor crashes and is brought back by its manager.  One command *)
(* runs at a time; each is given by a shell with locations of its own.     *)
(*                                                                         *)
(* A definition is the locations and the PATH it pins (pinned_env).        *)
(***************************************************************************)
EXTENDS Naturals, Sequences

CONSTANTS
  Managers,    \* subset of {"launchd", "systemd"}
  Locations,   \* values of the location variables a shell may have
  SocketOf(_), \* the control socket that locations lead to
  Paths        \* values of PATH

VARIABLES
  manager,     \* who keeps the supervisor: backend()
  file,        \* the definition file, or NoDef
  loaded,      \* the definition the manager has read, or NoDef
  running,     \* the definition the supervisor was started from, or NoDef
  disabled,    \* the manager does not start it at login
  session,     \* the user is logged in
  cmd,         \* the command in progress, or NoCommand
  report,      \* how the last command ended
  stale,       \* a failed call left a job of an earlier definition behind
  kept         \* a stop succeeded completely and nothing asked for a start since

vars == <<manager, file, loaded, running, disabled, session, cmd, report, stale, kept>>
system == <<file, loaded, running, disabled, stale>>

NoDef == [loc |-> "none", path |-> "none"]
Defs == [loc : Locations, path : Paths]
NoCommand == [verb |-> "none", def |-> NoDef, force |-> FALSE, todo |-> <<>>, err |-> FALSE]
NoReport == [verb |-> "none", ok |-> FALSE, changed |-> FALSE, def |-> NoDef, warned |-> FALSE]

\* pinned_location_drift: PATH is not compared.
Drift(registered, current) == registered.loc # current.loc

\* Status::loaded.  systemd reads a unit file when it is asked about it.
IsLoaded == IF manager = "launchd" THEN loaded # NoDef ELSE file # NoDef \/ loaded # NoDef

-----------------------------------------------------------------------------
(* The steps of each command.  A step that starts with "try" has its       *)
(* result ignored by the code.                                             *)

InstallSteps == IF manager = "launchd"
                THEN <<"try-bootout", "write", "try-enable", "bootstrap">>
                ELSE <<"write", "reload", "enable", "restart">>

UnregisterSteps == IF manager = "launchd"
                   THEN <<"try-bootout", "remove", "try-enable">>
                   ELSE <<"try-disable-now", "remove">>
                        \o IF file = NoDef THEN <<>> ELSE <<"reload">>

StartSteps == IF manager = "launchd"
              THEN <<"need-file", "try-enable", "bootstrap-or-kick">>
              ELSE <<"start">>

StopSteps == IF manager = "launchd" THEN <<"bootout", "try-disable">> ELSE <<"stop">>

RestartSteps == IF manager = "launchd"
                THEN <<"need-file", "stop-ignored">> \o StartSteps
                ELSE <<"need-file", "restart">>

-----------------------------------------------------------------------------
Begin(verb, def, force, todo) ==
  cmd' = [verb |-> verb, def |-> def, force |-> force, todo |-> todo, err |-> FALSE]

Refused(verb, def) ==
  report' = [NoReport EXCEPT !.verb = verb, !.def = def]

\* Mutant of AlreadyThere: the text alone decides.
AlreadyThereMutant(def) == file = def

\* register: the same text, and loaded.
AlreadyThere(def) == file = def /\ IsLoaded

\* register_command, register_checked and register up to backend.install.
Register(def, force) ==
  /\ session /\ cmd = NoCommand
  /\ IF ~force /\ file # NoDef /\ Drift(file, def)
     THEN Refused("register", def) /\ UNCHANGED <<cmd, kept>>
     ELSE IF AlreadyThere(def)
     THEN report' = [NoReport EXCEPT !.verb = "register", !.ok = TRUE, !.def = def]
          /\ UNCHANGED <<cmd, kept>>
     ELSE Begin("register", def, force, InstallSteps) /\ report' = NoReport /\ kept' = FALSE
  /\ UNCHANGED <<manager, session, system>>

\* unregister_command, control_command.
Command(verb, steps) ==
  /\ session /\ cmd = NoCommand
  /\ Begin(verb, NoDef, FALSE, steps) /\ report' = NoReport
  /\ kept' = (kept /\ verb = "stop")
  /\ UNCHANGED <<manager, session, system>>

\* registered_location_warnings, and location_drift of a supervisor that answers.
Warned(loc) ==
  \/ file # NoDef /\ file.loc # loc
  \/ running # NoDef /\ SocketOf(running.loc) = SocketOf(loc) /\ running.loc # loc

\* status_command: running is whether the control socket answers.
Status(loc) ==
  /\ session /\ cmd = NoCommand
  /\ report' = [NoReport EXCEPT !.verb = "status", !.warned = Warned(loc), !.def.loc = loc,
                   !.ok = running # NoDef /\ SocketOf(running.loc) = SocketOf(loc)]
  /\ UNCHANGED <<manager, session, system, cmd, kept>>

-----------------------------------------------------------------------------
(* What the calls do.  launchd keeps a loaded job running; systemd keeps a *)
(* started one running.                                                    *)

Unload == loaded' = NoDef /\ running' = NoDef /\ stale' = FALSE
Same == UNCHANGED <<loaded, running, stale>>

\* launchctl bootstrap: a disabled or loaded label is refused.
CanBootstrap == ~disabled /\ loaded = NoDef /\ file # NoDef
Load == loaded' = file /\ running' = file /\ stale' = FALSE

\* The call succeeds with its effect.
Effect(step) ==
  CASE step \in {"bootout", "try-bootout"} ->
         loaded # NoDef /\ Unload /\ UNCHANGED <<file, disabled>>
    [] step = "stop-ignored" ->
         loaded # NoDef /\ Unload /\ disabled' \in {disabled, TRUE} /\ UNCHANGED file
    [] step = "write" -> file' = cmd.def /\ Same /\ UNCHANGED disabled
    [] step = "remove" -> file' = NoDef /\ Same /\ UNCHANGED disabled
    [] step \in {"enable", "try-enable"} ->
         (manager = "systemd" => file # NoDef) /\ disabled' = FALSE /\ Same /\ UNCHANGED file
    [] step = "try-disable" -> disabled' = TRUE /\ Same /\ UNCHANGED file
    [] step = "bootstrap" -> CanBootstrap /\ Load /\ UNCHANGED <<file, disabled>>
    [] step = "bootstrap-or-kick" ->
         \/ CanBootstrap /\ Load /\ UNCHANGED <<file, disabled>>
         \/ loaded # NoDef /\ running' = loaded /\ UNCHANGED <<file, disabled, loaded, stale>>
    [] step = "reload" ->
         loaded' = file /\ UNCHANGED <<file, disabled, running, stale>>
    [] step \in {"restart", "start"} ->
         LET now == IF loaded = NoDef THEN file ELSE loaded IN
         /\ now # NoDef /\ loaded' = now
         /\ running' = IF step = "start" /\ running # NoDef THEN running ELSE now
         /\ UNCHANGED <<file, disabled, stale>>
    [] step = "stop" ->
         (file # NoDef \/ loaded # NoDef) /\ running' = NoDef /\ UNCHANGED <<file, disabled, loaded, stale>>
    [] step = "try-disable-now" ->
         file # NoDef /\ running' = NoDef /\ disabled' = TRUE /\ UNCHANGED <<file, loaded, stale>>
    [] step = "need-file" -> file # NoDef /\ Same /\ UNCHANGED <<file, disabled>>

Ignored == {"try-bootout", "try-enable", "try-disable", "try-disable-now", "stop-ignored"}

Ends(ok) ==
  /\ cmd' = NoCommand
  /\ report' = [NoReport EXCEPT !.verb = cmd.verb, !.ok = ok /\ ~cmd.err, !.changed = TRUE,
                                !.def = cmd.def]

Succeed ==
  /\ cmd # NoCommand
  /\ Effect(Head(cmd.todo))
  /\ IF Len(cmd.todo) = 1 THEN Ends(TRUE)
     ELSE cmd' = [cmd EXCEPT !.todo = Tail(@)] /\ UNCHANGED report
  /\ kept' = (kept \/ (manager = "launchd" /\ Head(cmd.todo) = "try-disable"))
  /\ UNCHANGED <<manager, session>>

\* The call fails: the command goes on where the result is ignored, or where
\* it is only reported at the end (remove on launchd), else it ends here.  A
\* bootout that fails leaves the old job in place.
Fail ==
  /\ cmd # NoCommand
  /\ LET step == Head(cmd.todo) IN
     /\ step # "need-file" \/ file = NoDef
     /\ stale' = (stale \/ (step \in {"try-bootout", "stop-ignored"} /\ loaded # NoDef))
     /\ IF step \notin Ignored /\ ~(manager = "launchd" /\ step = "remove") THEN Ends(FALSE)
        ELSE IF Len(cmd.todo) = 1 THEN Ends(TRUE)
        ELSE /\ cmd' = [cmd EXCEPT !.todo = Tail(@), !.err = @ \/ step \notin Ignored]
             /\ UNCHANGED report
  /\ UNCHANGED <<manager, session, file, loaded, running, disabled, kept>>

\* The command is killed between two calls.
Killed ==
  /\ cmd # NoCommand
  /\ cmd' = NoCommand /\ report' = NoReport
  /\ UNCHANGED <<manager, session, system, kept>>

-----------------------------------------------------------------------------
(* The manager.                                                            *)

\* KeepAlive of a loaded job, Restart=always of a started unit: a supervisor
\* that ended comes back from the definition that is loaded.
KeepAlive ==
  /\ running # NoDef \/ (manager = "launchd" /\ loaded # NoDef)
  /\ running # loaded /\ loaded # NoDef
  /\ running' = loaded
  /\ UNCHANGED <<manager, session, file, loaded, disabled, cmd, report, stale, kept>>

\* systemd forgets a unit that is not active.
Collect ==
  /\ manager = "systemd" /\ running = NoDef /\ loaded # NoDef
  /\ loaded' = NoDef
  /\ UNCHANGED <<manager, session, file, running, disabled, cmd, report, stale, kept>>

Logout ==
  /\ session
  /\ session' = FALSE /\ loaded' = NoDef /\ running' = NoDef /\ stale' = FALSE
  /\ cmd' = NoCommand /\ report' = NoReport
  /\ UNCHANGED <<manager, file, disabled, kept>>

\* RunAtLoad, WantedBy=default.target.
Login ==
  /\ ~session
  /\ session' = TRUE
  /\ IF disabled \/ file = NoDef THEN UNCHANGED <<loaded, running>>
     ELSE loaded' = file /\ running' = file
  /\ UNCHANGED <<manager, file, disabled, cmd, report, stale, kept>>

-----------------------------------------------------------------------------
Init ==
  /\ manager \in Managers
  /\ file = NoDef /\ loaded = NoDef /\ running = NoDef
  /\ disabled = (manager = "systemd")
  /\ session = TRUE
  /\ cmd = NoCommand /\ report = NoReport /\ stale = FALSE /\ kept = FALSE

Next ==
  \/ \E def \in Defs, force \in BOOLEAN : Register(def, force)
  \/ \E loc \in Locations : Status(loc)
  \/ Command("unregister", UnregisterSteps)
  \/ Command("start", StartSteps)
  \/ Command("stop", StopSteps)
  \/ Command("restart", RestartSteps)
  \/ Succeed \/ Fail \/ Killed
  \/ KeepAlive \/ Collect \/ Logout \/ Login

Spec == Init /\ [][Next]_vars

-----------------------------------------------------------------------------
(* Properties.                                                             *)

\* A register that reports success has taken hold: the file pins this shell's
\* locations, and the supervisor is kept from this definition now and at the
\* next login - whatever failed, was killed or was stopped before it.  Excepted
\* are a job launchd refused to boot out, and an unchanged definition on
\* systemd, which is reported without a look at its enablement.
RegisterTakesHold ==
  report.verb = "register" /\ report.ok =>
    /\ file = report.def
    /\ manager = "launchd" /\ ~stale => loaded = file /\ ~disabled
    /\ manager = "systemd" /\ report.changed => loaded = file /\ running = file /\ ~disabled

\* After a stop whose disable succeeded the supervisor stays down on launchd,
\* through KeepAlive and logins, until a register, start, restart or unregister
\* (which enables the label again).
StopHolds == kept => loaded = NoDef /\ running = NoDef

=============================================================================
