---------------------------- MODULE SessionChild ----------------------------
(***************************************************************************)
(* The life of the wrapped child as the daemon sees it: the kernel's child *)
(* state and its one-shot wait events, the signals that reach the daemon   *)
(* through the self-pipe, the stop latch of daemon/pty.rs, the exit drain  *)
(* window of serve_loop, the re-entry after a graceful upgrade, and        *)
(* finalize_child.                                                         *)
(*                                                                         *)
(* Time is abstract: a deadline may pass at any moment and, for the two    *)
(* deadlines liveness rests on, does pass eventually.                      *)
(***************************************************************************)
EXTENDS Naturals, FiniteSets

CONSTANTS
  Signals,        \* signals other processes may send to the daemon
  TimeoutSet,     \* --timeout or --idle-timeout is configured
  UntilSet,       \* --until is configured
  KillWaits,      \* a client may send kill with wait
  InitialPolicy,  \* on-child-suspend of the configuration
  MaxUpgrades,    \* bound: upgrades requested in one behaviour
  MaxConts,       \* bound: SIGCONTs sent to the daemon (poll never times out in a storm of them)
  SilentContinue  \* the kernel may not report that a child it saw stopped was continued

\* Exit codes: the child's own, 128 + SIGTERM, 128 + SIGKILL, EXIT_CHILD_UNREAPED.
OwnCode == 7
TermCode == 143
KillCode == 137
Unreaped == 125
NoCode == 1000
Codes == {OwnCode, TermCode, KillCode}

VARIABLES
  kid,        \* the kernel's view: [st, evt, status]
  doom,       \* fatal signals posted to the child and not yet taken
  sigs,       \* bytes in the self-pipe
  pc,         \* where the daemon is
  latched,    \* ChildLifecycle.stopped
  shown,      \* SessionState.child_stopped
  policy,     \* SessionState.child_suspend_policy
  conts,      \* SIGCONTs sent to the daemon so far
  piped,      \* the process has its self-pipe; otherwise poll wakes every 500 ms
  deferred,   \* deferred_exit
  expired,    \* the drain deadline has passed
  drained,    \* master_drained
  upgrading,  \* SessionState.upgrade_pending
  upgrades,   \* upgrades requested so far
  outcome,    \* RelayOutcome
  result      \* exit code of serve()

kernel == <<kid, doom>>
view == <<latched, shown, deferred>>
settings == <<policy, piped, conts>>
vars == <<kid, doom, sigs, pc, latched, shown, policy, piped, conts, deferred, expired,
          drained, upgrading, upgrades, outcome, result>>

\* lost: reaped where nobody looked at the status.
Kid == [st : {"running", "stopped", "zombie", "reaped", "lost"},
        evt : {"none", "stopped", "continued"},
        status : Codes \cup {NoCode}]

Init ==
  /\ kid = [st |-> "running", evt |-> "none", status |-> NoCode]
  /\ doom = {} /\ sigs = {}
  /\ pc = "start"
  /\ latched = FALSE /\ shown = FALSE /\ policy = InitialPolicy /\ piped \in BOOLEAN
  /\ conts = 0
  /\ deferred = NoCode /\ expired = FALSE /\ drained = FALSE
  /\ upgrading = FALSE /\ upgrades = 0
  /\ outcome = "none" /\ result = NoCode

-----------------------------------------------------------------------------
(* The kernel and the world outside.                                       *)

\* Forms of the child record after SIGCONT: the continue event may stay
\* unreported (procstate.rs), which also means that no SIGCHLD is raised.
Continued(k) ==
  IF k.st # "stopped" THEN {k}
  ELSE {[k EXCEPT !.st = "running", !.evt = "continued"]}
       \cup (IF SilentContinue THEN {[k EXCEPT !.st = "running", !.evt = "none"]} ELSE {})

\* A SIGCHLD reaches the loop only through the self-pipe.
Chld == IF piped THEN {"CHLD"} ELSE {}

Raised(old, new) == IF new.evt = "continued" /\ old.evt # "continued" THEN Chld ELSE {}

\* The child ends on its own.
ChildExit ==
  /\ kid.st = "running"
  /\ kid' = [kid EXCEPT !.st = "zombie", !.evt = "none", !.status = OwnCode]
  /\ sigs' = sigs \cup Chld
  /\ UNCHANGED <<doom, pc, view, settings, expired, drained, upgrading, upgrades, outcome, result>>

\* A fatal signal posted to the child takes effect; SIGTERM may be ignored,
\* waits while the child is stopped, and SIGKILL may hang in the kernel.
ChildKilled(s) ==
  /\ s \in doom
  /\ kid.st = "running" \/ (kid.st = "stopped" /\ s = "KILL")
  /\ kid' = [kid EXCEPT !.st = "zombie", !.evt = "none",
                        !.status = IF s = "TERM" THEN TermCode ELSE KillCode]
  /\ sigs' = sigs \cup Chld
  /\ UNCHANGED <<doom, pc, view, settings, expired, drained, upgrading, upgrades, outcome, result>>

\* Ctrl-Z, kill -STOP, a client's signal frame.
ChildStop ==
  /\ kid.st = "running"
  /\ kid' = [kid EXCEPT !.st = "stopped", !.evt = "stopped"]
  /\ sigs' = sigs \cup Chld
  /\ UNCHANGED <<doom, pc, view, settings, expired, drained, upgrading, upgrades, outcome, result>>

\* Somebody else continues the child.
ChildContinued ==
  /\ kid.st = "stopped"
  /\ \E k \in Continued(kid) : kid' = k /\ sigs' = sigs \cup Raised(kid, k)
  /\ UNCHANGED <<doom, pc, view, settings, expired, drained, upgrading, upgrades, outcome, result>>

\* A process signals the daemon; SIGUSR1 is the hidden upgrade trigger.  Without
\* the self-pipe no handler is installed (a SIGTERM then kills the process).
SignalDaemon(s) ==
  /\ s \in Signals /\ piped
  /\ pc # "done"
  /\ s = "USR1" => upgrades < MaxUpgrades
  /\ s = "CONT" => conts < MaxConts
  /\ sigs' = sigs \cup {s}
  /\ upgrades' = IF s = "USR1" THEN upgrades + 1 ELSE upgrades
  /\ conts' = IF s = "CONT" THEN conts + 1 ELSE conts
  /\ UNCHANGED <<kernel, pc, view, policy, piped, expired, drained, upgrading, outcome, result>>

\* EXIT_DRAIN_BUDGET runs out.
DrainDeadline ==
  /\ deferred # NoCode /\ ~expired
  /\ expired' = TRUE
  /\ UNCHANGED <<kernel, sigs, pc, view, settings, drained, upgrading, upgrades, outcome, result>>

-----------------------------------------------------------------------------
(* observe_child_transition: one waitpid and what follows from it.  Seen   *)
(* is the set of possible [kid, latched, shown, deferred] afterwards.      *)

\* notify_child_stopped with the policy: auto-resume sends SIGCONT.
NotifyChildStopped(k) == IF policy = "auto-resume" THEN Continued(k) ELSE {k}

\* Mutant of Observed: a signaled child is reported without the 128 offset.
ObservedOffsetMutant ==
  {[kid |-> IF kid.st = "zombie" THEN [kid EXCEPT !.st = "reaped"] ELSE kid,
    latched |-> latched, shown |-> shown,
    deferred |-> IF kid.st = "zombie" THEN kid.status % 128 ELSE deferred]}

\* ChildLifecycle::poll_with_transition, defer_child_exit,
\* notify_child_stopped and record_child_continued.
Observed ==
  LET quiet == [kid EXCEPT !.evt = "none"]
      now(k, l, s, d) == [kid |-> k, latched |-> l, shown |-> s, deferred |-> d]
  IN CASE kid.st = "zombie" ->
            {now([quiet EXCEPT !.st = "reaped"], FALSE, shown,
                 IF deferred = NoCode THEN kid.status ELSE deferred)}
       [] kid.st # "zombie" /\ kid.evt = "stopped" ->
            {now(k, TRUE, TRUE, deferred) : k \in NotifyChildStopped(quiet)}
       [] kid.st # "zombie" /\ kid.evt = "continued" ->
            {now(quiet, FALSE, FALSE, deferred)}
       [] OTHER -> {now(kid, latched, shown, deferred)}

\* Mutant of ProcstateChecked: waitpid alone decides.
NoProcstateMutant(o) == o

\* The process-state check of the timeout arm: a latched stop is cleared when
\* the kernel says the child runs.
ProcstateChecked(o) ==
  IF o.latched /\ o.kid.st \in {"running", "zombie"}
  THEN [o EXCEPT !.latched = FALSE, !.shown = FALSE] ELSE o

Adopt(o, old) ==
  /\ kid' = o.kid /\ latched' = o.latched /\ shown' = o.shown /\ deferred' = o.deferred
  /\ sigs' = old \cup Raised(kid, o.kid)

-----------------------------------------------------------------------------
(* serve_loop.                                                             *)

\* Mutant of EnterLoop: no poll of the child on (re-)entry.
EnterBlindMutant ==
  /\ pc = "start"
  /\ pc' = "top"
  /\ UNCHANGED <<kernel, sigs, view, settings, expired, drained, upgrading, upgrades, outcome, result>>

\* Entry of serve_loop: a child that ended or stopped before is noticed.
EnterLoop ==
  /\ pc = "start"
  /\ \E o \in Observed : Adopt(o, sigs)
  /\ pc' = "top"
  /\ UNCHANGED <<doom, settings, expired, drained, upgrading, upgrades, outcome, result>>

\* The queues are flushed (or UPGRADE_FLUSH_BUDGET ran out): UpgradeRequested.
ReturnForUpgrade ==
  /\ pc = "top" /\ upgrading
  /\ pc' = "upgrade"
  /\ UNCHANGED <<kernel, sigs, view, settings, expired, drained, upgrading, upgrades, outcome, result>>

\* The drain window is over: return the child's exit.
ReturnChildExited ==
  /\ pc = "top" /\ ~upgrading
  /\ deferred # NoCode /\ expired
  /\ outcome' = "exited" /\ pc' = "finalize"
  /\ UNCHANGED <<kernel, sigs, view, settings, expired, drained, upgrading, upgrades, result>>

Looping == pc = "top" /\ ~upgrading /\ ~(deferred # NoCode /\ expired)

\* eval_timeout: a session with --timeout or --idle-timeout may meet it in any
\* pass (nothing here measures how long that takes).
TimeoutDue == TimeoutSet

\* --timeout / --idle-timeout: SIGTERM to the child, then the finale.
TimedOut ==
  /\ Looping /\ TimeoutDue
  /\ doom' = doom \cup {"TERM"}
  /\ outcome' = "killed" /\ pc' = "finalize"
  /\ UNCHANGED <<kid, sigs, view, settings, expired, drained, upgrading, upgrades, result>>

\* child_is_stopped_via_waitpid on SIGCONT, when nothing is latched: a stop
\* is taken and answered with SIGCONT, an exit status is reaped and ignored.
ContProbe ==
  CASE latched -> Continued(kid)
    [] ~latched /\ kid.st = "zombie" -> {[kid EXCEPT !.st = "lost", !.evt = "none"]}
    [] ~latched /\ kid.st # "zombie" /\ kid.evt = "stopped" -> Continued([kid EXCEPT !.evt = "none"])
    [] OTHER -> {kid}

\* The self-pipe is drained and its signals are handled.
HandleSignals ==
  /\ Looping /\ sigs # {}
  /\ \E k \in (IF "CONT" \in sigs THEN ContProbe ELSE {kid}) :
       kid' = k /\ sigs' = Raised(kid, k)
  /\ IF "TERM" \in sigs
     THEN doom' = doom \cup {"TERM"} /\ outcome' = "killed" /\ pc' = "finalize"
     ELSE /\ UNCHANGED <<doom, outcome>>
          /\ pc' = IF "USR1" \in sigs THEN "top" ELSE "observe"
  /\ upgrading' = (upgrading \/ "USR1" \in sigs)
  /\ UNCHANGED <<view, settings, expired, drained, upgrades, result>>

\* Whatever the signals were, the child is polled next; an interrupted poll
\* starts over, a ready one goes on with the master and the frames.
ObserveChild ==
  /\ pc = "observe"
  /\ \E o \in Observed : Adopt(o, sigs)
  /\ pc' \in {"top", "master"}
  /\ UNCHANGED <<doom, settings, expired, drained, upgrading, upgrades, outcome, result>>

\* poll is given a timeout at which the child is looked at: every 500 ms without
\* a self-pipe, every 200 ms while a stop is latched.  (The other caps wake the
\* loop for the drain deadline and for --timeout: DrainDeadline, TimedOut.)
PollCapped == ~piped \/ latched

\* poll times out.
PollTimeout ==
  /\ Looping /\ sigs = {}
  /\ PollCapped
  /\ \E o \in Observed : Adopt(ProcstateChecked(o), sigs)
  /\ UNCHANGED <<doom, pc, settings, expired, drained, upgrading, upgrades, outcome, result>>

\* Something else than a signal is ready.
PollReady ==
  /\ Looping /\ sigs = {}
  /\ pc' = "master"
  /\ UNCHANGED <<kernel, sigs, view, settings, expired, drained, upgrading, upgrades, outcome, result>>

\* The PTY master has output, or nothing.
MasterOutput ==
  /\ pc = "master"
  /\ pc' = "frames"
  /\ UNCHANGED <<kernel, sigs, view, settings, expired, drained, upgrading, upgrades, outcome, result>>

\* --until matches the output, unless the child's exit is already deferred.
UntilMatched ==
  /\ pc = "master" /\ ~drained
  /\ UntilSet /\ deferred = NoCode
  /\ doom' = doom \cup {"TERM"}
  /\ outcome' = "killed" /\ pc' = "finalize"
  /\ UNCHANGED <<kid, sigs, view, settings, expired, drained, upgrading, upgrades, result>>

\* The master reports end of file or EIO.
MasterClosed ==
  /\ pc = "master" /\ ~drained
  /\ IF deferred # NoCode
     THEN drained' = TRUE /\ UNCHANGED <<kid, view, sigs>>
     ELSE \E o \in Observed : Adopt(o, sigs) /\ drained' = (o.deferred # NoCode)
  /\ pc' = "frames"
  /\ UNCHANGED <<doom, settings, expired, upgrading, upgrades, outcome, result>>

\* Reading the master fails in any other way.
MasterFailed ==
  /\ pc = "master" /\ ~drained
  /\ outcome' = "error" /\ pc' = "finalize"
  /\ UNCHANGED <<kernel, sigs, view, settings, expired, drained, upgrading, upgrades, result>>

\* The frames of this pass touch the child in no way.
OtherFrames ==
  /\ pc = "frames"
  /\ pc' = "top"
  /\ UNCHANGED <<kernel, sigs, view, settings, expired, drained, upgrading, upgrades, outcome, result>>

\* kill: SIGCONT, then the signal; with wait the loop returns.
KillFrame(wait) ==
  /\ pc = "frames"
  /\ wait => KillWaits
  /\ \E k \in Continued(kid) : kid' = k /\ sigs' = sigs \cup Raised(kid, k)
  /\ doom' = doom \cup {"TERM"}
  /\ outcome' = IF wait THEN "killed" ELSE outcome
  /\ pc' = IF wait THEN "finalize" ELSE "top"
  /\ UNCHANGED <<view, settings, expired, drained, upgrading, upgrades, result>>

\* session.child.resume.request.
ResumeFrame ==
  /\ pc = "frames"
  /\ \E k \in Continued(kid) : kid' = k /\ sigs' = sigs \cup Raised(kid, k)
  /\ pc' = "top"
  /\ UNCHANGED <<doom, view, settings, expired, drained, upgrading, upgrades, outcome, result>>

\* set on-child-suspend.
SetFrame(p) ==
  /\ pc = "frames"
  /\ policy' = p
  /\ pc' = "top"
  /\ UNCHANGED <<kernel, sigs, view, piped, conts, expired, drained, upgrading, upgrades, outcome, result>>

\* upgrade.request that passed its pre-check.
UpgradeFrame ==
  /\ pc = "frames"
  /\ upgrades < MaxUpgrades
  /\ upgrades' = upgrades + 1
  /\ upgrading' = TRUE
  /\ pc' = "top"
  /\ UNCHANGED <<kernel, sigs, view, settings, expired, drained, outcome, result>>

-----------------------------------------------------------------------------
(* serve(): the upgrade, and the finale.                                   *)

\* Everything serve_loop keeps on its stack starts afresh.
FreshLoop ==
  /\ pc' = "start"
  /\ upgrading' = FALSE
  /\ latched' = FALSE /\ deferred' = NoCode /\ expired' = FALSE /\ drained' = FALSE

\* acquire_sigchld_selfpipe: it may be taken, or the handler cannot be installed.
AcquireSelfPipe == piped' \in BOOLEAN

\* The second pre-check fails: the same process goes on.
UpgradePrecheckFailed ==
  /\ pc = "upgrade"
  /\ FreshLoop
  /\ UNCHANGED <<kernel, sigs, shown, settings, upgrades, outcome, result>>

\* execve fails: as above, but the self-pipe was dropped and is made anew.
UpgradeExecFailed ==
  /\ pc = "upgrade"
  /\ FreshLoop
  /\ sigs' = {} /\ AcquireSelfPipe
  /\ UNCHANGED <<kernel, shown, policy, conts, upgrades, outcome, result>>

\* execve succeeds: a new process with the same child; what was shown of the
\* child and a policy that was set at run time are not handed over.
UpgradeExec ==
  /\ pc = "upgrade"
  /\ FreshLoop
  /\ sigs' = {} /\ AcquireSelfPipe
  /\ shown' = FALSE /\ policy' = InitialPolicy
  /\ UNCHANGED <<kernel, conts, upgrades, outcome, result>>

\* Preparing the exec fails (state file): serve returns the error at once.
UpgradePrepFailed ==
  /\ pc = "upgrade"
  /\ outcome' = "error" /\ pc' = "done"
  /\ UNCHANGED <<kernel, sigs, view, settings, expired, drained, upgrading, upgrades, result>>

\* finalize_child after the child's exit: its code is the result.
FinalizeExited ==
  /\ pc = "finalize" /\ outcome = "exited"
  /\ result' = deferred
  /\ pc' = "done"
  /\ UNCHANGED <<kernel, sigs, view, settings, expired, drained, upgrading, upgrades, outcome>>

\* finalize_child otherwise: SIGCONT and SIGTERM, then a grace period.
FinalizeTerm ==
  /\ pc = "finalize" /\ outcome # "exited"
  /\ \E k \in Continued(kid) : kid' = k
  /\ doom' = doom \cup {"TERM"}
  /\ pc' = "grace"
  /\ UNCHANGED <<sigs, view, settings, expired, drained, upgrading, upgrades, outcome, result>>

\* reap_until: an exit status, or ECHILD which counts as killed by SIGTERM.
Reap ==
  /\ pc \in {"grace", "last"}
  /\ kid.st \in {"zombie", "reaped", "lost"}
  /\ result' = IF kid.st = "zombie" THEN kid.status ELSE TermCode
  /\ kid' = [kid EXCEPT !.st = IF @ = "zombie" THEN "reaped" ELSE @]
  /\ pc' = "done"
  /\ UNCHANGED <<doom, sigs, view, settings, expired, drained, upgrading, upgrades, outcome>>

\* FINALIZE_TERM_GRACE runs out: SIGKILL.
GraceOver ==
  /\ pc = "grace" /\ kid.st \in {"running", "stopped"}
  /\ doom' = doom \cup {"KILL"}
  /\ pc' = "last"
  /\ UNCHANGED <<kid, sigs, view, settings, expired, drained, upgrading, upgrades, outcome, result>>

\* FINALIZE_KILL_DEADLINE runs out: give up on the child.
GiveUp ==
  /\ pc = "last" /\ kid.st \in {"running", "stopped"}
  /\ result' = Unreaped
  /\ pc' = "done"
  /\ UNCHANGED <<kernel, sigs, view, settings, expired, drained, upgrading, upgrades, outcome>>

-----------------------------------------------------------------------------
Outside ==
  \/ ChildExit \/ ChildStop \/ ChildContinued
  \/ \E s \in {"TERM", "KILL"} : ChildKilled(s)
  \/ \E s \in Signals : SignalDaemon(s)

\* Steps the daemon takes by itself once it is awake or a timer wakes it.
Awake ==
  \/ EnterLoop \/ ReturnForUpgrade \/ ReturnChildExited
  \/ HandleSignals \/ ObserveChild \/ PollTimeout
  \/ MasterOutput \/ UntilMatched \/ MasterClosed \/ MasterFailed
  \/ OtherFrames \/ \E wait \in BOOLEAN : KillFrame(wait)
  \/ ResumeFrame \/ UpgradeFrame
  \/ \E p \in {"notify", "auto-resume"} : SetFrame(p)
  \/ UpgradePrecheckFailed \/ UpgradeExecFailed \/ UpgradeExec \/ UpgradePrepFailed
  \/ FinalizeExited \/ FinalizeTerm \/ Reap \/ GraceOver \/ GiveUp

Next == Outside \/ DrainDeadline \/ TimedOut \/ PollReady \/ Awake

\* The daemon runs whenever it has something to do, and clocks advance.
Fairness == WF_vars(Awake) /\ WF_vars(DrainDeadline)

Spec == Init /\ [][Next]_vars /\ Fairness

\* As Spec, when the descriptors are quiet for the length of the poll cap again
\* and again (no output that never pauses), so that poll does time out.
SpecIdle == Spec /\ SF_vars(PollTimeout)

-----------------------------------------------------------------------------
(* Properties.                                                             *)

\* An upgrade throws away what the loop keeps on its stack (FreshLoop): the
\* exit deferred in the drain window, a signal still in the self-pipe, the stop
\* latch.  What the daemon owes to those is stated up to the first upgrade.
Upgraded == upgrades > 0

\* serve() returns the status the child really ended with, unless the child
\* could not be reaped at all (serve: "child exits, is reaped, its exit code
\* is returned"), and what it keeps for the drain window is the status of a child
\* that has been reaped.  A session that is killed while the exit is already
\* deferred, or after the probe on SIGCONT has reaped it, finds nothing to reap
\* and reports SIGTERM: those windows are left out.
ExitCodeFaithful ==
  /\ (/\ pc = "done" /\ outcome # "error" /\ result # Unreaped
      /\ outcome = "killed" => deferred = NoCode /\ kid.st # "lost" /\ ~Upgraded) => result = kid.status
  /\ deferred # NoCode => kid.st = "reaped" /\ deferred = kid.status

\* The daemon does not outlive its child: once the child has ended, serve() ends
\* too, attached clients or not, with a self-pipe or without (DESIGN.md 1.3), but
\* for an exit that the probe on SIGCONT swallowed.  An exit that is not yet reaped
\* when the daemon leaves the loop for an upgrade is noticed by whichever process
\* goes on.  A SIGTERM to the daemon ends the session in any case.
SessionEnds ==
  /\ kid.st \in {"zombie", "reaped"} ~> (pc = "done" \/ kid.st = "lost" \/ Upgraded)
  /\ (pc = "upgrade" /\ kid.st = "zombie") ~> (pc = "done" \/ kid.st = "lost")
  /\ "TERM" \in sigs ~> (pc = "done" \/ Upgraded)

\* What status and handshakes report follows the child: one that stays stopped
\* is reported as stopped, and one that runs again is not for ever, even when
\* the kernel reports no continue event.  Under auto-resume a stop of the child
\* does not last.
StopFollowed ==
  /\ kid.st = "stopped" ~> (shown \/ kid.st # "stopped" \/ pc = "done" \/ Upgraded)
  /\ (shown /\ kid.st = "running") ~> (~shown \/ kid.st # "running" \/ pc = "done" \/ Upgraded)
  /\ (kid.st = "stopped" /\ policy = "auto-resume" /\ kid.evt = "stopped")
       ~> (kid.st # "stopped" \/ policy # "auto-resume" \/ pc = "done" \/ Upgraded)

=============================================================================
