----------------------------- MODULE SessionStart -----------------------------
(***************************************************************************)
(* Starting, finding, upgrading and ending the daemons of ONE session id.  *)
(*                                                                         *)
(* A session id is two files in the sessions directory: the socket and the *)
(* lock file beside it.  A daemon owns the id while it holds an flock on    *)
(* the lock file; the files are created, removed and compared under the     *)
(* flock on .dir.lock (sys/socket.rs).  `hyoui list` removes what a killed  *)
(* daemon left behind (discovery.rs), `hyoui run` waits on a pipe for the   *)
(* daemon's ready byte (daemonize.rs), and an upgrade carries listener and  *)
(* lock over an execve (upgrade.rs).  Any process may be killed between two *)
(* steps.                                                                  *)
(*                                                                         *)
(* An inode is named after the process that created it: the socket of       *)
(* daemon d is d, the lock file d created is d.                            *)
(***************************************************************************)
EXTENDS Naturals, FiniteSets

CONSTANTS
    Daemons,        \* daemon processes started with this session id
    Legacy,         \* one that may already serve, of a version without lock files
    Listers,        \* processes that run query_status (hyoui list, index lookup)
    None,           \* no file, no holder
    RefusesWhenFull,\* connect to a full backlog answers ECONNREFUSED (macOS)
    MaxCrashes,     \* bound on kills
    MaxUpgrades     \* bound on self-exec attempts

ASSUME StartAssumption ==
    /\ Legacy \subseteq Daemons
    /\ Cardinality(Legacy) <= 1
    /\ Daemons \cap Listers = {}
    /\ None \notin Daemons \cup Listers
    /\ RefusesWhenFull \in BOOLEAN
    /\ MaxCrashes \in Nat /\ MaxUpgrades \in Nat

VARIABLES
    sock,       \* <id>.sock: the daemon whose listener it is bound to, or None
    lockf,      \* <id>.lock: the inode at that path, or None
    dirLock,    \* the process holding the flock on .dir.lock, or None
    phase,      \* [Daemons -> where the daemon is in listen/start/serve/drop]
    flock,      \* [Daemons \cup Listers -> the lock inode it has flocked, or None]
    created,    \* [Daemons -> the lock file did not exist before its listen]
    child,      \* [Daemons -> its PTY child runs]
    pipe,       \* [Daemons -> the ready byte is in the pipe]
    starter,    \* [Daemons -> where its `hyoui run` process is, or what it found out]
    knock,      \* [Daemons -> the lingering daemon its `hyoui attach` connected to, or None]
    probe,      \* [Listers -> where it is in query_status]
    seen,       \* [Listers -> what its last query_status returned]
    crashes,    \* kills so far
    upgrades    \* self-exec attempts so far

vars == <<sock, lockf, dirLock, phase, flock, created, child, pipe, starter,
          knock, probe, seen, crashes, upgrades>>

files == <<sock, lockf>>
startVars == <<child, pipe, starter, knock>>
runVars == <<starter, knock>>
listVars == <<probe, seen>>
bounds == <<crashes, upgrades>>

Phases == {"off", "launched", "want", "opening", "binding", "bound", "listening", "spawned",
           "serving", "resumed", "relock", "lingering", "ending", "unlinking", "dead"}

\* The daemon's listener answers connects: from listen() on, over an execve, and
\* until its fd is closed after the Drop.
Listening(d) == phase[d] \in {"listening", "spawned", "serving", "resumed",
                              "relock", "lingering", "ending", "unlinking"}

\* The daemon that has the inode flocked.
Busy(i) == \E p \in Daemons \cup Listers : flock[p] = i

Init ==
    /\ sock \in Legacy \cup {None}
    /\ lockf = None
    /\ dirLock = None
    /\ phase = [d \in Daemons |-> CASE d = sock -> "serving"
                                     [] d \in Legacy \ {sock} -> "dead"
                                     [] OTHER -> "off"]
    /\ flock = [p \in Daemons \cup Listers |-> None]
    /\ created = [d \in Daemons |-> FALSE]
    /\ child = [d \in Daemons |-> d = sock]
    /\ pipe = [d \in Daemons |-> FALSE]
    /\ starter = [d \in Daemons |-> IF d \in Legacy THEN "ready" ELSE "idle"]
    /\ knock = [d \in Daemons |-> None]
    /\ probe = [l \in Listers |-> "idle"]
    /\ seen = [l \in Listers |-> "none"]
    /\ crashes = 0
    /\ upgrades = 0

-----------------------------------------------------------------------------
(* `hyoui run`: the process that starts a daemon *)

\* The pipe is made, the daemon child spawned with its write end, and the
\* starter's own copy of the write end is closed; it then polls the read end.
Start(d) ==
    /\ starter[d] = "idle"
    /\ starter' = [starter EXCEPT ![d] = "waiting"]
    /\ phase' = [phase EXCEPT ![d] = "launched"]
    /\ UNCHANGED <<files, dirLock, flock, created, child, pipe, knock, listVars, bounds>>

\* run_command returns before it starts anything: the config file has a removed
\* key or cannot be read, or a client dump is asked for with --detached.
RunRefused(d) ==
    /\ starter[d] = "idle"
    /\ starter' = [starter EXCEPT ![d] = "failed"]
    /\ UNCHANGED <<files, dirLock, phase, flock, created, child, pipe, knock, listVars, bounds>>

\* Before the byte is written the daemon has the write end; its PTY child is
\* forked without CLOEXEC on it and keeps it as well.
HasWriter(d) == phase[d] \notin {"off", "dead"} \/ child[d]

\* With --detached the id is printed and the run is over (ready); otherwise `hyoui
\* attach` is to be executed in place of this process.
ReadReady(d) ==
    /\ starter[d] = "waiting"
    /\ \/ /\ pipe[d]
          /\ \E next \in {"ready", "attach"} : starter' = [starter EXCEPT ![d] = next]
       \/ ~pipe[d] /\ ~HasWriter(d) /\ starter' = [starter EXCEPT ![d] = "eof"]
    /\ UNCHANGED <<files, dirLock, phase, flock, created, child, pipe, knock, listVars, bounds>>

\* READY_TIMEOUT: the deadline is looked at before the pipe is.
ReadyTimeout(d) ==
    /\ starter[d] = "waiting"
    /\ starter' = [starter EXCEPT ![d] = "failed"]
    /\ UNCHANGED <<files, dirLock, phase, flock, created, child, pipe, knock, listVars, bounds>>

\* `hyoui attach <id>` of a foreground run: it connects to whichever daemon has
\* the name now.  One that serves, or will again after its execve, takes it as a
\* client (ready); one that lingers has its handshake to finish; with one that
\* ends, as after a failed exec or connect, the run has failed.
RunAttach(d) ==
    /\ starter[d] = "attach"
    /\ \/ /\ sock # None /\ Listening(sock)
          /\ phase[sock] \notin {"lingering", "ending", "unlinking"}
          /\ starter' = [starter EXCEPT ![d] = "ready"]
          /\ UNCHANGED knock
       \/ /\ sock # None /\ phase[sock] = "lingering"
          /\ starter' = [starter EXCEPT ![d] = "knocking"]
          /\ knock' = [knock EXCEPT ![d] = sock]
       \/ /\ starter' = [starter EXCEPT ![d] = "failed"]
          /\ UNCHANGED knock
    /\ UNCHANGED <<files, dirLock, phase, flock, created, child, pipe, listVars, bounds>>

-----------------------------------------------------------------------------
(* UnixSock::listen, under the directory lock *)

\* run_daemon_child up to Session::start: reads its init from the environment,
\* takes over stdin, leaves the caller's session; any of it may fail, and the
\* process exits.
Prologue(d) ==
    /\ phase[d] = "launched"
    /\ \E next \in {"want", "dead"} : phase' = [phase EXCEPT ![d] = next]
    /\ UNCHANGED <<files, dirLock, flock, created, startVars, listVars, bounds>>

TakeDirLock(p) == dirLock = None /\ dirLock' = p

\* A parent directory that is not private fails the listen at once.
ListenBegin(d) ==
    /\ phase[d] = "want"
    /\ \/ TakeDirLock(d) /\ phase' = [phase EXCEPT ![d] = "opening"]
       \/ phase' = [phase EXCEPT ![d] = "dead"] /\ UNCHANGED dirLock
    /\ UNCHANGED <<files, flock, created, startVars, listVars, bounds>>

\* acquire_name_lock: open or create the lock file, flock it without waiting.
\* EWOULDBLOCK is SocketExists; the process exits without a ready byte.
ListenLock(d) ==
    /\ phase[d] = "opening"
    /\ \/ /\ lockf # None /\ Busy(lockf)
          /\ phase' = [phase EXCEPT ![d] = "dead"]
          /\ dirLock' = None
          /\ UNCHANGED <<files, flock, created>>
       \/ /\ ~(lockf # None /\ Busy(lockf))
          /\ lockf' = IF lockf = None THEN d ELSE lockf
          /\ flock' = [flock EXCEPT ![d] = lockf']
          /\ created' = [created EXCEPT ![d] = lockf = None]
          /\ phase' = [phase EXCEPT ![d] = "binding"]
          /\ UNCHANGED <<sock, dirLock>>
    /\ UNCHANGED <<startVars, listVars, bounds>>

\* A failed listen removes the socket it bound and the lock file it created,
\* then gives up its locks.
ListenFails(d, bound) ==
    /\ sock' = IF bound THEN None ELSE sock
    /\ lockf' = IF created[d] THEN None ELSE lockf
    /\ flock' = [flock EXCEPT ![d] = None]
    /\ dirLock' = None
    /\ phase' = [phase EXCEPT ![d] = "dead"]
    /\ UNCHANGED created

\* bind() creates the socket file; EADDRINUSE if any file has the name.
ListenBind(d) ==
    /\ phase[d] = "binding"
    /\ IF sock # None
       THEN ListenFails(d, FALSE)
       ELSE /\ sock' = d
            /\ phase' = [phase EXCEPT ![d] = "bound"]
            /\ UNCHANGED <<lockf, dirLock, flock, created>>
    /\ UNCHANGED <<startVars, listVars, bounds>>

ListenDone(d) ==
    /\ phase[d] = "bound"
    /\ \/ /\ phase' = [phase EXCEPT ![d] = "listening"]
          /\ dirLock' = None
          /\ UNCHANGED <<files, flock, created>>
       \/ ListenFails(d, TRUE)
    /\ UNCHANGED <<startVars, listVars, bounds>>

-----------------------------------------------------------------------------
(* Session::start_with_child_stdin after the listen, and run_daemon_child *)

\* (wrong) The ready byte is written before the child is spawned.
SpawnReadyFirstMutant(d) ==
    /\ phase[d] = "listening"
    /\ pipe' = [pipe EXCEPT ![d] = TRUE]
    /\ \/ /\ phase' = [phase EXCEPT ![d] = "spawned"]
          /\ child' = [child EXCEPT ![d] = TRUE]
       \/ /\ phase' = [phase EXCEPT ![d] = "ending"]
          /\ UNCHANGED child
    /\ UNCHANGED <<files, dirLock, flock, created, runVars, listVars, bounds>>

\* The PTY child is forked, or the spawn fails and the listener is dropped.
Spawn(d) ==
    /\ phase[d] = "listening"
    /\ \/ /\ phase' = [phase EXCEPT ![d] = "spawned"]
          /\ child' = [child EXCEPT ![d] = TRUE]
       \/ /\ phase' = [phase EXCEPT ![d] = "ending"]
          /\ UNCHANGED child
    /\ UNCHANGED <<files, dirLock, flock, created, pipe, runVars, listVars, bounds>>

\* stderr is moved to the log file, the byte is written, serve() begins.
Ready(d) ==
    /\ phase[d] = "spawned"
    /\ pipe' = [pipe EXCEPT ![d] = TRUE]
    /\ phase' = [phase EXCEPT ![d] = "serving"]
    /\ UNCHANGED <<files, dirLock, flock, created, child, runVars, listVars, bounds>>

\* The serve loop ends (child exited, kill, timeout, error): see SessionChild.
\* After an exit of the child the daemon lingers for an attach that comes late.
ServeEnds(d) ==
    /\ phase[d] = "serving"
    /\ \E next \in {"lingering", "ending"} : phase' = [phase EXCEPT ![d] = next]
    /\ child' = [child EXCEPT ![d] = FALSE]
    /\ UNCHANGED <<files, dirLock, flock, created, pipe, runVars, listVars, bounds>>

\* The clients that connected to daemon d when it stops lingering: those whose
\* handshake is finished have been sent the exit status, the others see the connection close.
KnockAnswered(d, finished) ==
    starter' = [e \in Daemons |->
        IF starter[e] = "knocking" /\ knock[e] = d
        THEN IF e \in finished THEN "exit" ELSE "failed"
        ELSE starter[e]]

\* linger_for_late_attach: it goes on until a handshake is finished, in the same
\* pass perhaps several, or until LINGER_DURATION is over.
LingerOver(d) ==
    /\ phase[d] = "lingering"
    /\ \E finished \in SUBSET {e \in Daemons : starter[e] = "knocking" /\ knock[e] = d} :
         KnockAnswered(d, finished)
    /\ phase' = [phase EXCEPT ![d] = "ending"]
    /\ UNCHANGED <<files, dirLock, flock, created, child, pipe, knock, listVars, bounds>>

\* The PTY child of a killed daemon is hung up by the kernel.
ChildGone(d) ==
    /\ phase[d] = "dead" /\ child[d]
    /\ child' = [child EXCEPT ![d] = FALSE]
    /\ UNCHANGED <<files, dirLock, phase, flock, created, pipe, runVars, listVars, bounds>>

-----------------------------------------------------------------------------
(* perform_self_exec and run_upgrade_resume_child *)

\* A serving daemon left its loop for an upgrade (SessionChild says when).
UpgradeAttempt(d) ==
    /\ phase[d] = "serving"
    /\ upgrades < MaxUpgrades
    /\ upgrades' = upgrades + 1
    /\ UNCHANGED <<files, dirLock, created, startVars, listVars, crashes>>

\* The target is not a file of ours that can be executed, or the execve or what
\* comes right before it fails: the old process serves on with what it had.
UpgradeFails(d) == UpgradeAttempt(d) /\ UNCHANGED <<phase, flock>>

\* The state file cannot be written: the session ends.
UpgradePrepFails(d) ==
    /\ UpgradeAttempt(d)
    /\ phase' = [phase EXCEPT ![d] = "ending"]
    /\ UNCHANGED flock

\* (wrong) CLOEXEC is not cleared on the lock: the new image does not have it.
SelfExecDropsLockMutant(d) ==
    /\ UpgradeAttempt(d)
    /\ phase' = [phase EXCEPT ![d] = "resumed"]
    /\ flock' = [flock EXCEPT ![d] = None]

\* CLOEXEC is cleared on the PTY master, the listener and, where there is one,
\* the flocked lock file; the new image finds them by their numbers.
SelfExec(d) ==
    /\ UpgradeAttempt(d)
    /\ phase' = [phase EXCEPT ![d] = "resumed"]
    /\ UNCHANGED flock

\* resume_inherited: an inherited lock is kept; without one the directory lock
\* is taken to acquire the name lock.
Resume(d) ==
    /\ phase[d] = "resumed"
    /\ \/ /\ flock[d] # None
          /\ phase' = [phase EXCEPT ![d] = "serving"]
          /\ UNCHANGED dirLock
       \/ /\ flock[d] = None
          /\ TakeDirLock(d)
          /\ phase' = [phase EXCEPT ![d] = "relock"]
    /\ UNCHANGED <<files, flock, created, startVars, listVars, bounds>>

\* The environment of the new image cannot be read, or the inherited descriptors
\* cannot be used: the process exits, and nothing removes the two files.
ResumeFails(d) ==
    /\ phase[d] = "resumed"
    /\ phase' = [phase EXCEPT ![d] = "dead"]
    /\ flock' = [flock EXCEPT ![d] = None]
    /\ UNCHANGED <<files, dirLock, created, startVars, listVars, bounds>>

ResumeLock(d) ==
    /\ phase[d] = "relock"
    /\ IF lockf # None /\ Busy(lockf)
       THEN UNCHANGED <<lockf, flock>>
       ELSE /\ lockf' = IF lockf = None THEN d ELSE lockf
            /\ flock' = [flock EXCEPT ![d] = lockf']
    /\ dirLock' = None
    /\ phase' = [phase EXCEPT ![d] = "serving"]
    /\ UNCHANGED <<sock, created, startVars, listVars, bounds>>

-----------------------------------------------------------------------------
(* Drop for UnixSock *)

DropBegin(d) ==
    /\ phase[d] = "ending"
    /\ TakeDirLock(d)
    /\ phase' = [phase EXCEPT ![d] = "unlinking"]
    /\ UNCHANGED <<files, flock, created, startVars, listVars, bounds>>

\* The lock file at the path must be the inode this process has locked; then
\* the socket is removed, and after it the lock file (a kill may fall between).
SameLock(d) == flock[d] # None /\ lockf = flock[d]

DropEnd(d) ==
    /\ phase[d] = "unlinking"
    /\ \/ /\ SameLock(d) /\ sock # None
          /\ sock' = None
          /\ UNCHANGED <<lockf, dirLock, phase, flock>>
       \/ /\ ~(SameLock(d) /\ sock # None)
          /\ lockf' = IF SameLock(d) THEN None ELSE lockf
          /\ flock' = [flock EXCEPT ![d] = None]
          /\ dirLock' = None
          /\ phase' = [phase EXCEPT ![d] = "dead"]
          /\ UNCHANGED sock
    /\ UNCHANGED <<created, startVars, listVars, bounds>>

-----------------------------------------------------------------------------
(* discovery::query_status *)

Returns(l, what) ==
    /\ probe' = [probe EXCEPT ![l] = "idle"]
    /\ seen' = [seen EXCEPT ![l] = what]

\* What becomes of an accepted connection: the status, a daemon that did not
\* answer in LIST_RESPONSE_TIMEOUT, or an error.
StatusAnswer == {"live", "hung", "error"}

\* connect: no file, a listener, or refused.
Connect(l) ==
    /\ probe[l] = "idle"
    /\ \/ sock = None /\ Returns(l, "gone")
       \/ /\ sock # None /\ Listening(sock) /\ phase[sock] # "lingering"
          /\ \E what \in StatusAnswer : Returns(l, what)
       \/ /\ sock # None /\ (~Listening(sock) \/ RefusesWhenFull)
          /\ probe' = [probe EXCEPT ![l] = "refused"]
          /\ UNCHANGED seen
    /\ UNCHANGED <<files, dirLock, phase, flock, created, startVars, bounds>>

\* A lingering daemon takes the status query for the client it lingers for: it
\* sends the exit status, which is no answer to the query, and ends.
ConnectLingering(l) ==
    /\ probe[l] = "idle"
    /\ sock # None /\ phase[sock] = "lingering"
    /\ Returns(l, "error")
    /\ phase' = [phase EXCEPT ![sock] = "ending"]
    /\ \E finished \in SUBSET {e \in Daemons : starter[e] = "knocking" /\ knock[e] = sock} :
         KnockAnswered(sock, finished)
    /\ UNCHANGED <<files, dirLock, flock, created, child, pipe, knock, bounds>>

PruneBegin(l) ==
    /\ probe[l] = "refused"
    /\ TakeDirLock(l)
    /\ probe' = [probe EXCEPT ![l] = "checking"]
    /\ UNCHANGED <<files, phase, flock, created, startVars, seen, bounds>>

\* (wrong) The refused connect is taken for proof enough: the lock is not tried.
PruneCheckNoLockMutant(l) ==
    /\ probe[l] = "checking"
    /\ \/ lockf = None /\ Returns(l, "stale") /\ dirLock' = None
       \/ /\ lockf # None
          /\ probe' = [probe EXCEPT ![l] = "pruning"]
          /\ UNCHANGED <<seen, dirLock>>
    /\ UNCHANGED <<files, flock, phase, created, startVars, bounds>>

\* No lock file: whether a daemon lives cannot be told, the socket is kept.
\* A busy lock: a daemon lives.  A free lock: what is there is removed.
PruneCheck(l) ==
    /\ probe[l] = "checking"
    /\ \/ lockf = None /\ Returns(l, "stale") /\ dirLock' = None /\ UNCHANGED flock
       \/ /\ lockf # None /\ Busy(lockf)
          /\ Returns(l, "hung") /\ dirLock' = None /\ UNCHANGED flock
       \/ /\ lockf # None /\ ~Busy(lockf)
          /\ flock' = [flock EXCEPT ![l] = lockf]
          /\ probe' = [probe EXCEPT ![l] = "pruning"]
          /\ UNCHANGED <<seen, dirLock>>
    /\ UNCHANGED <<files, phase, created, startVars, bounds>>

\* (wrong) Only the lock file is removed.
PruneKeepsSockMutant(l) ==
    /\ probe[l] = "pruning"
    /\ lockf' = None
    /\ Returns(l, "gone")
    /\ flock' = [flock EXCEPT ![l] = None]
    /\ dirLock' = None
    /\ UNCHANGED <<sock, phase, created, startVars, bounds>>

\* The socket, if there still is one, and then the lock file.
Prune(l) ==
    /\ probe[l] = "pruning"
    /\ \/ /\ sock # None
          /\ sock' = None
          /\ probe' = [probe EXCEPT ![l] = "unlock"]
          /\ UNCHANGED <<lockf, dirLock, flock, seen>>
       \/ /\ sock = None
          /\ Returns(l, "gone")
          /\ flock' = [flock EXCEPT ![l] = None]
          /\ dirLock' = None
          /\ UNCHANGED files
    /\ UNCHANGED <<phase, created, startVars, bounds>>

PruneLock(l) ==
    /\ probe[l] = "unlock"
    /\ lockf' = None
    /\ Returns(l, "gone")
    /\ flock' = [flock EXCEPT ![l] = None]
    /\ dirLock' = None
    /\ UNCHANGED <<sock, phase, created, startVars, bounds>>

-----------------------------------------------------------------------------
(* SIGKILL between two steps: every flock of the process goes, files stay *)

Release(p) ==
    /\ flock' = [flock EXCEPT ![p] = None]
    /\ dirLock' = IF dirLock = p THEN None ELSE dirLock

KillDaemon(d) ==
    /\ phase[d] \notin {"off", "dead"}
    /\ crashes < MaxCrashes
    /\ crashes' = crashes + 1
    /\ Release(d)
    /\ phase' = [phase EXCEPT ![d] = "dead"]
    /\ KnockAnswered(d, {})
    /\ UNCHANGED <<files, created, child, pipe, knock, listVars, upgrades>>

KillLister(l) ==
    /\ probe[l] # "idle"
    /\ crashes < MaxCrashes
    /\ crashes' = crashes + 1
    /\ Release(l)
    /\ probe' = [probe EXCEPT ![l] = "idle"]
    /\ UNCHANGED <<files, phase, created, startVars, seen, upgrades>>

-----------------------------------------------------------------------------
StarterStep(d) == ReadReady(d) \/ ReadyTimeout(d) \/ RunAttach(d)

ListenStep(d) == ListenBegin(d) \/ ListenLock(d) \/ ListenBind(d) \/ ListenDone(d)

DaemonStep(d) ==
    \/ Prologue(d) \/ ListenStep(d) \/ Spawn(d) \/ Ready(d)
    \/ Resume(d) \/ ResumeLock(d) \/ LingerOver(d) \/ DropBegin(d) \/ DropEnd(d)

ListerStep(l) ==
    \/ Connect(l) \/ ConnectLingering(l) \/ PruneBegin(l) \/ PruneCheck(l) \/ Prune(l)
    \/ PruneLock(l)

Next ==
    \/ \E d \in Daemons :
         \/ Start(d) \/ RunRefused(d) \/ StarterStep(d) \/ DaemonStep(d)
         \/ ServeEnds(d) \/ ChildGone(d) \/ KillDaemon(d)
         \/ UpgradeFails(d) \/ UpgradePrepFails(d) \/ SelfExec(d) \/ ResumeFails(d)
    \/ \E l \in Listers : ListerStep(l) \/ KillLister(l)

\* Processes that are not killed run (so that the holder of the directory lock
\* gives it back), somebody goes on listing sessions, and the kernel does not
\* pass over a waiter of the directory lock for ever.  Nothing makes a serve loop
\* end, a user start a daemon or an upgrade happen.
Spec ==
    /\ Init /\ [][Next]_vars
    /\ \A d \in Daemons : WF_vars(DaemonStep(d))
    /\ \A l \in Listers : WF_vars(ListerStep(l)) /\ SF_vars(PruneBegin(l))

-----------------------------------------------------------------------------
(* Properties *)

\* A daemon that is up is found under its name, whatever starts, lists, upgrades
\* and kills went on around it.  If it holds a name lock, the socket file is its
\* own and the lock file is the one it has locked.  A daemon of a version without
\* lock files keeps its socket as long as nothing was killed: a start that fails
\* on that socket removes the lock file it had created, so that no list takes the
\* daemon for dead.
NameHeld ==
    /\ \A d \in Daemons \ (IF crashes = 0 THEN {} ELSE Legacy) :
         (/\ phase[d] \in {"listening", "spawned", "serving", "resumed", "lingering"}
          /\ flock[d] # None) => sock = d /\ lockf = flock[d]
    /\ \A d \in Legacy : (phase[d] = "serving" /\ crashes = 0) => sock = d

\* `hyoui run` reports what is true: the id, or an attach, only for a daemon that
\* got to serve; a failed start (end of file) only when no process of it is left;
\* an exit status, got by attaching late, only from a daemon whose child is gone.
StartTruthful ==
    \A d \in Daemons \ Legacy :
        /\ starter[d] \in {"ready", "attach", "knocking", "exit"} =>
             /\ pipe[d]
             /\ phase[d] \in {"serving", "resumed", "relock", "lingering", "ending",
                              "unlinking", "dead"}
        /\ starter[d] = "eof" => phase[d] = "dead" /\ ~child[d]
        /\ starter[d] = "exit" => knock[d] # None /\ ~child[knock[d]]

\* A socket left by a killed daemon does not block its session id for ever: while
\* somebody lists sessions it is removed.
LeftoverPruned ==
  LET leftover == \E d \in Daemons \ Legacy : sock = d /\ phase[d] = "dead"
  IN leftover ~> ~leftover

\* The daemon the name leads to: the socket is its own, and it has the lock file.
Owner ==
    IF \E d \in Daemons : sock = d /\ flock[d] # None /\ lockf = flock[d] THEN sock ELSE None

Over == {d \in Daemons : phase[d] \in {"ending", "unlinking", "dead"}}
Told == {d \in Daemons : pipe[d]}

\* The files, locks and processes implement the ownership of a name.
Registry == INSTANCE NameOwner WITH owner <- Owner, ended <- Over, told <- Told

NameOwnerSpec == Registry!Spec
=============================================================================
