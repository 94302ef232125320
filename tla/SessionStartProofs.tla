------------------------- MODULE SessionStartProofs -------------------------
(***************************************************************************)
(* Proofs about SessionStart, for any number of daemons and listers and    *)
(* any number of kills and upgrades: the files, flocks and processes of a  *)
(* session id implement NameOwner, a daemon that is up is found under its  *)
(* name, and what `hyoui run' reports is true.  And about SessionTarget,   *)
(* for any number of sessions that come and go: a command reaches the      *)
(* session its selector names.                                             *)
(***************************************************************************)
EXTENDS SessionStart, TargetChoice, FiniteSetTheorems, TLAPS

-----------------------------------------------------------------------------
(* The invariant.                                                          *)

Processes == Daemons \cup Listers

\* Before the bind a daemon has nothing that another process could see.
Early == {"off", "launched", "want", "opening", "binding"}

\* The name is this daemon's socket.
Named == {"bound", "listening", "spawned", "serving", "resumed", "lingering", "ending"}

\* From serve() on.
Late == {"serving", "resumed", "relock", "lingering", "ending", "unlinking", "dead"}

StartTypeOK ==
  /\ sock \in Daemons \cup {None} /\ lockf \in Daemons \cup {None}
  /\ dirLock \in Processes \cup {None}
  /\ phase \in [Daemons -> Phases]
  /\ flock \in [Processes -> Daemons \cup {None}]
  /\ created \in [Daemons -> BOOLEAN] /\ child \in [Daemons -> BOOLEAN]
  /\ pipe \in [Daemons -> BOOLEAN]
  /\ starter \in [Daemons -> {"idle", "waiting", "ready", "attach", "eof", "failed",
                              "knocking", "exit"}]
  /\ knock \in [Daemons -> Daemons \cup {None}]
  /\ probe \in [Listers -> {"idle", "refused", "checking", "pruning", "unlock"}]
  /\ crashes \in Nat

\* Whoever is between taking and giving back the directory lock holds it.
DirLocked ==
  /\ \A d \in Daemons :
       phase[d] \in {"opening", "binding", "bound", "relock", "unlinking"} => dirLock = d
  /\ \A l \in Listers : probe[l] \in {"checking", "pruning", "unlock"} => dirLock = l

\* Nobody holds a lock file that is not the one at the path, so that no two
\* processes hold one.
OneLock ==
  /\ \A p \in Processes : flock[p] # None => flock[p] = lockf
  /\ \A p, q \in Processes : flock[p] # None /\ flock[q] # None => p = q

\* Who holds the lock file: a daemon from its open of the file to its end, an old
\* daemon perhaps after an upgrade, a lister while it prunes.
LockPhases ==
  /\ \A d \in Daemons \ Legacy :
       phase[d] \notin {"off", "launched", "want", "opening", "dead"} => flock[d] # None
  /\ \A d \in Daemons :
       phase[d] \in {"off", "launched", "want", "opening", "relock", "dead"} => flock[d] = None
  /\ \A l \in Listers : probe[l] \in {"pruning", "unlock"} <=> flock[l] # None

\* The socket of a daemon with a lock file stays its own, and a daemon that has
\* not bound has none.
SockPhases ==
  /\ \A d \in Daemons \ Legacy : phase[d] \in Named => sock = d
  /\ \A d \in Daemons \ Legacy : phase[d] = "unlinking" => sock \in {d, None}
  /\ \A d \in Daemons : sock = d => phase[d] \notin Early

\* A daemon without lock files was there before all others.
LegacyPhases == \A d \in Legacy : phase[d] \in Late /\ ~pipe[d]

\* A daemon process is started once.
Unstarted == \A d \in Daemons : starter[d] = "idle" => phase[d] = "off"

LocksInv ==
  /\ StartTypeOK /\ DirLocked /\ OneLock /\ LockPhases /\ SockPhases /\ LegacyPhases
  /\ Unstarted

\* As long as nothing was killed, a lock file beside the socket of an old daemon
\* is locked, by the daemon itself or by a start that is about to remove it.
LegacyKept ==
  crashes = 0 =>
    \A d \in Legacy :
      phase[d] \in {"serving", "resumed", "relock", "lingering"} =>
        /\ sock = d
        /\ lockf # None => \E p \in Daemons :
             flock[p] # None /\ (p = d \/ (phase[p] = "binding" /\ created[p]))

\* What the ready byte, the end of the pipe and a late attach are worth.
ReportsInv ==
  /\ \A d \in Daemons : pipe[d] => phase[d] \in Late
  /\ \A d \in Daemons : starter[d] = "waiting" => phase[d] # "off"
  /\ \A d \in Daemons \ Legacy : starter[d] \in {"ready", "attach", "knocking", "exit"} => pipe[d]
  /\ \A d \in Daemons : phase[d] = "lingering" => ~child[d]
  /\ \A d \in Daemons \ Legacy : starter[d] = "eof" => phase[d] = "dead" /\ ~child[d]
  /\ \A d \in Daemons :
       /\ starter[d] = "knocking" => knock[d] # None /\ phase[knock[d]] = "lingering"
       /\ starter[d] = "exit" =>
            knock[d] # None /\ phase[knock[d]] \in {"ending", "unlinking", "dead"} /\ ~child[knock[d]]

StartInv == LocksInv /\ LegacyKept /\ ReportsInv

-----------------------------------------------------------------------------
(* Steps, in groups of those that touch the same state.                    *)

\* Steps that leave files, locks and phases alone.
Report(d) == Start(d) \/ RunRefused(d) \/ StarterStep(d) \/ ChildGone(d) \/ UpgradeFails(d)

\* Steps that only move a daemon on, with neither file nor lock touched.
Move(d) ==
  \/ Prologue(d) \/ Spawn(d) \/ Ready(d) \/ ServeEnds(d) \/ LingerOver(d)
  \/ UpgradePrepFails(d) \/ SelfExec(d)

\* Every step keeps the types.
LEMMA TypeStep ==
  ASSUME StartTypeOK, Next
  PROVE  StartTypeOK'
<1> USE StartAssumption DEF StartTypeOK, Processes, Phases, files, startVars, runVars, listVars, bounds
<1>1. ASSUME NEW d \in Daemons, Report(d) PROVE StartTypeOK'
  <2>1. CASE Start(d)
    BY <2>1 DEF Start
  <2>2. CASE RunRefused(d)
    BY <2>2 DEF RunRefused
  <2>3. CASE ReadReady(d)
    BY <2>3 DEF ReadReady, HasWriter
  <2>4. CASE ReadyTimeout(d)
    BY <2>4 DEF ReadyTimeout
  <2>5. CASE RunAttach(d)
    BY <2>5 DEF RunAttach
  <2>6. CASE ChildGone(d)
    BY <2>6 DEF ChildGone
  <2>7. CASE UpgradeFails(d)
    BY <2>7 DEF UpgradeFails, UpgradeAttempt
  <2> QED BY <1>1, <2>1, <2>2, <2>3, <2>4, <2>5, <2>6, <2>7 DEF Report, StarterStep
<1>2. ASSUME NEW d \in Daemons, Move(d) PROVE StartTypeOK'
  <2>1. CASE Prologue(d)
    BY <2>1 DEF Prologue
  <2>2. CASE Spawn(d)
    BY <2>2 DEF Spawn
  <2>3. CASE Ready(d)
    BY <2>3 DEF Ready
  <2>4. CASE ServeEnds(d)
    BY <2>4 DEF ServeEnds
  <2>5. CASE LingerOver(d)
    BY <2>5 DEF LingerOver, KnockAnswered
  <2>6. CASE UpgradePrepFails(d)
    BY <2>6 DEF UpgradePrepFails, UpgradeAttempt
  <2>7. CASE SelfExec(d)
    BY <2>7 DEF SelfExec, UpgradeAttempt
  <2> QED BY <1>2, <2>1, <2>2, <2>3, <2>4, <2>5, <2>6, <2>7 DEF Move
<1>3. ASSUME NEW d \in Daemons, ListenBegin(d) PROVE StartTypeOK'
  BY <1>3 DEF ListenBegin, TakeDirLock
<1>4. ASSUME NEW d \in Daemons, ListenLock(d) PROVE StartTypeOK'
  <2>1. created' \in [Daemons -> BOOLEAN]
    <3>1. (lockf = None) \in BOOLEAN
      OBVIOUS
    <3> QED BY <1>4, <3>1, Zenon DEF ListenLock
  <2> QED BY <1>4, <2>1 DEF ListenLock
<1>5. ASSUME NEW d \in Daemons, ListenBind(d) PROVE StartTypeOK'
  BY <1>5 DEF ListenBind, ListenFails
<1>6. ASSUME NEW d \in Daemons, ListenDone(d) PROVE StartTypeOK'
  BY <1>6 DEF ListenDone, ListenFails
<1>7. ASSUME NEW d \in Daemons, Resume(d) PROVE StartTypeOK'
  BY <1>7 DEF Resume, TakeDirLock
<1>8. ASSUME NEW d \in Daemons, ResumeFails(d) PROVE StartTypeOK'
  BY <1>8 DEF ResumeFails
<1>9. ASSUME NEW d \in Daemons, ResumeLock(d) PROVE StartTypeOK'
  BY <1>9 DEF ResumeLock, Busy
<1>10. ASSUME NEW d \in Daemons, DropBegin(d) PROVE StartTypeOK'
  BY <1>10 DEF DropBegin, TakeDirLock
<1>11. ASSUME NEW d \in Daemons, DropEnd(d) PROVE StartTypeOK'
  BY <1>11 DEF DropEnd, SameLock
<1>12. ASSUME NEW d \in Daemons, KillDaemon(d) PROVE StartTypeOK'
  BY <1>12 DEF KillDaemon, Release, KnockAnswered
<1>13. ASSUME NEW l \in Listers, Connect(l) PROVE StartTypeOK'
  BY <1>13 DEF Connect, Returns, StatusAnswer
<1>14. ASSUME NEW l \in Listers, ConnectLingering(l) PROVE StartTypeOK'
  BY <1>14 DEF ConnectLingering, Returns, KnockAnswered
<1>15. ASSUME NEW l \in Listers, PruneBegin(l) PROVE StartTypeOK'
  BY <1>15 DEF PruneBegin, TakeDirLock
<1>16. ASSUME NEW l \in Listers, PruneCheck(l) PROVE StartTypeOK'
  BY <1>16 DEF PruneCheck, Returns, Busy
<1>17. ASSUME NEW l \in Listers, Prune(l) PROVE StartTypeOK'
  BY <1>17 DEF Prune, Returns
<1>18. ASSUME NEW l \in Listers, PruneLock(l) PROVE StartTypeOK'
  BY <1>18 DEF PruneLock, Returns
<1>19. ASSUME NEW l \in Listers, KillLister(l) PROVE StartTypeOK'
  BY <1>19 DEF KillLister, Release
<1> QED
  BY <1>1, <1>2, <1>3, <1>4, <1>5, <1>6, <1>7, <1>8, <1>9, <1>10,
     <1>11, <1>12, <1>13, <1>14, <1>15, <1>16, <1>17, <1>18, <1>19
     DEF Next, DaemonStep, ListenStep, ListerStep, Report, Move

\* The directory lock is given back before the holder goes on.
LEMMA DirLockedStep ==
  ASSUME LocksInv, Next
  PROVE  DirLocked'
<1> USE StartAssumption DEF LocksInv, StartTypeOK, Processes, DirLocked, OneLock, LockPhases, SockPhases,
            LegacyPhases, Unstarted, Early, Named, Late, Phases, files, startVars, runVars, listVars, bounds
<1>1. ASSUME NEW d \in Daemons, Report(d) PROVE DirLocked'
  <2>1. CASE Start(d)
    BY <2>1 DEF Start
  <2>2. CASE RunRefused(d)
    BY <2>2 DEF RunRefused
  <2>3. CASE ReadReady(d)
    BY <2>3 DEF ReadReady, HasWriter
  <2>4. CASE ReadyTimeout(d)
    BY <2>4 DEF ReadyTimeout
  <2>5. CASE RunAttach(d)
    BY <2>5 DEF RunAttach
  <2>6. CASE ChildGone(d)
    BY <2>6 DEF ChildGone
  <2>7. CASE UpgradeFails(d)
    BY <2>7 DEF UpgradeFails, UpgradeAttempt
  <2> QED BY <1>1, <2>1, <2>2, <2>3, <2>4, <2>5, <2>6, <2>7 DEF Report, StarterStep
<1>2. ASSUME NEW d \in Daemons, Move(d) PROVE DirLocked'
  <2>1. CASE Prologue(d)
    BY <2>1 DEF Prologue
  <2>2. CASE Spawn(d)
    BY <2>2 DEF Spawn
  <2>3. CASE Ready(d)
    BY <2>3 DEF Ready
  <2>4. CASE ServeEnds(d)
    BY <2>4 DEF ServeEnds
  <2>5. CASE LingerOver(d)
    BY <2>5 DEF LingerOver, KnockAnswered
  <2>6. CASE UpgradePrepFails(d)
    BY <2>6 DEF UpgradePrepFails, UpgradeAttempt
  <2>7. CASE SelfExec(d)
    BY <2>7 DEF SelfExec, UpgradeAttempt
  <2> QED BY <1>2, <2>1, <2>2, <2>3, <2>4, <2>5, <2>6, <2>7 DEF Move
<1>3. ASSUME NEW d \in Daemons, ListenBegin(d) PROVE DirLocked'
  BY <1>3 DEF ListenBegin, TakeDirLock
<1>4. ASSUME NEW d \in Daemons, ListenLock(d) PROVE DirLocked'
  BY <1>4 DEF ListenLock, Busy
<1>5. ASSUME NEW d \in Daemons, ListenBind(d) PROVE DirLocked'
  BY <1>5 DEF ListenBind, ListenFails
<1>6. ASSUME NEW d \in Daemons, ListenDone(d) PROVE DirLocked'
  BY <1>6 DEF ListenDone, ListenFails
<1>7. ASSUME NEW d \in Daemons, Resume(d) PROVE DirLocked'
  BY <1>7 DEF Resume, TakeDirLock
<1>8. ASSUME NEW d \in Daemons, ResumeFails(d) PROVE DirLocked'
  BY <1>8 DEF ResumeFails
<1>9. ASSUME NEW d \in Daemons, ResumeLock(d) PROVE DirLocked'
  BY <1>9 DEF ResumeLock, Busy
<1>10. ASSUME NEW d \in Daemons, DropBegin(d) PROVE DirLocked'
  BY <1>10 DEF DropBegin, TakeDirLock
<1>11. ASSUME NEW d \in Daemons, DropEnd(d) PROVE DirLocked'
  BY <1>11 DEF DropEnd, SameLock
<1>12. ASSUME NEW d \in Daemons, KillDaemon(d) PROVE DirLocked'
  BY <1>12 DEF KillDaemon, Release, KnockAnswered
<1>13. ASSUME NEW l \in Listers, Connect(l) PROVE DirLocked'
  BY <1>13 DEF Connect, Returns, StatusAnswer
<1>14. ASSUME NEW l \in Listers, ConnectLingering(l) PROVE DirLocked'
  BY <1>14 DEF ConnectLingering, Returns, KnockAnswered
<1>15. ASSUME NEW l \in Listers, PruneBegin(l) PROVE DirLocked'
  BY <1>15 DEF PruneBegin, TakeDirLock
<1>16. ASSUME NEW l \in Listers, PruneCheck(l) PROVE DirLocked'
  BY <1>16 DEF PruneCheck, Returns, Busy
<1>17. ASSUME NEW l \in Listers, Prune(l) PROVE DirLocked'
  BY <1>17 DEF Prune, Returns
<1>18. ASSUME NEW l \in Listers, PruneLock(l) PROVE DirLocked'
  BY <1>18 DEF PruneLock, Returns
<1>19. ASSUME NEW l \in Listers, KillLister(l) PROVE DirLocked'
  BY <1>19 DEF KillLister, Release
<1> QED
  BY <1>1, <1>2, <1>3, <1>4, <1>5, <1>6, <1>7, <1>8, <1>9, <1>10,
     <1>11, <1>12, <1>13, <1>14, <1>15, <1>16, <1>17, <1>18, <1>19
     DEF Next, DaemonStep, ListenStep, ListerStep, Report, Move

\* A lock file is held in its phases.
LEMMA LockPhasesStep ==
  ASSUME LocksInv, Next
  PROVE  LockPhases'
<1> USE StartAssumption DEF LocksInv, StartTypeOK, Processes, DirLocked, OneLock, LockPhases, SockPhases,
            LegacyPhases, Unstarted, Early, Named, Late, Phases, files, startVars, runVars, listVars, bounds
<1>1. ASSUME NEW d \in Daemons, Report(d) PROVE LockPhases'
  <2>1. CASE Start(d)
    BY <2>1 DEF Start
  <2>2. CASE RunRefused(d)
    BY <2>2 DEF RunRefused
  <2>3. CASE ReadReady(d)
    BY <2>3 DEF ReadReady, HasWriter
  <2>4. CASE ReadyTimeout(d)
    BY <2>4 DEF ReadyTimeout
  <2>5. CASE RunAttach(d)
    BY <2>5 DEF RunAttach
  <2>6. CASE ChildGone(d)
    BY <2>6 DEF ChildGone
  <2>7. CASE UpgradeFails(d)
    BY <2>7 DEF UpgradeFails, UpgradeAttempt
  <2> QED BY <1>1, <2>1, <2>2, <2>3, <2>4, <2>5, <2>6, <2>7 DEF Report, StarterStep
<1>2. ASSUME NEW d \in Daemons, Move(d) PROVE LockPhases'
  <2>1. CASE Prologue(d)
    BY <2>1 DEF Prologue
  <2>2. CASE Spawn(d)
    BY <2>2 DEF Spawn
  <2>3. CASE Ready(d)
    BY <2>3 DEF Ready
  <2>4. CASE ServeEnds(d)
    BY <2>4 DEF ServeEnds
  <2>5. CASE LingerOver(d)
    BY <2>5 DEF LingerOver, KnockAnswered
  <2>6. CASE UpgradePrepFails(d)
    BY <2>6 DEF UpgradePrepFails, UpgradeAttempt
  <2>7. CASE SelfExec(d)
    BY <2>7 DEF SelfExec, UpgradeAttempt
  <2> QED BY <1>2, <2>1, <2>2, <2>3, <2>4, <2>5, <2>6, <2>7 DEF Move
<1>3. ASSUME NEW d \in Daemons, ListenBegin(d) PROVE LockPhases'
  BY <1>3 DEF ListenBegin, TakeDirLock
<1>4. ASSUME NEW d \in Daemons, ListenLock(d) PROVE LockPhases'
  BY <1>4 DEF ListenLock, Busy
<1>5. ASSUME NEW d \in Daemons, ListenBind(d) PROVE LockPhases'
  BY <1>5 DEF ListenBind, ListenFails
<1>6. ASSUME NEW d \in Daemons, ListenDone(d) PROVE LockPhases'
  BY <1>6 DEF ListenDone, ListenFails
<1>7. ASSUME NEW d \in Daemons, Resume(d) PROVE LockPhases'
  BY <1>7 DEF Resume, TakeDirLock
<1>8. ASSUME NEW d \in Daemons, ResumeFails(d) PROVE LockPhases'
  BY <1>8 DEF ResumeFails
<1>9. ASSUME NEW d \in Daemons, ResumeLock(d) PROVE LockPhases'
  BY <1>9 DEF ResumeLock, Busy
<1>10. ASSUME NEW d \in Daemons, DropBegin(d) PROVE LockPhases'
  BY <1>10 DEF DropBegin, TakeDirLock
<1>11. ASSUME NEW d \in Daemons, DropEnd(d) PROVE LockPhases'
  BY <1>11 DEF DropEnd, SameLock
<1>12. ASSUME NEW d \in Daemons, KillDaemon(d) PROVE LockPhases'
  BY <1>12 DEF KillDaemon, Release, KnockAnswered
<1>13. ASSUME NEW l \in Listers, Connect(l) PROVE LockPhases'
  BY <1>13 DEF Connect, Returns, StatusAnswer
<1>14. ASSUME NEW l \in Listers, ConnectLingering(l) PROVE LockPhases'
  BY <1>14 DEF ConnectLingering, Returns, KnockAnswered
<1>15. ASSUME NEW l \in Listers, PruneBegin(l) PROVE LockPhases'
  BY <1>15 DEF PruneBegin, TakeDirLock
<1>16. ASSUME NEW l \in Listers, PruneCheck(l) PROVE LockPhases'
  BY <1>16 DEF PruneCheck, Returns, Busy
<1>17. ASSUME NEW l \in Listers, Prune(l) PROVE LockPhases'
  BY <1>17 DEF Prune, Returns
<1>18. ASSUME NEW l \in Listers, PruneLock(l) PROVE LockPhases'
  BY <1>18 DEF PruneLock, Returns
<1>19. ASSUME NEW l \in Listers, KillLister(l) PROVE LockPhases'
  BY <1>19 DEF KillLister, Release
<1> QED
  BY <1>1, <1>2, <1>3, <1>4, <1>5, <1>6, <1>7, <1>8, <1>9, <1>10,
     <1>11, <1>12, <1>13, <1>14, <1>15, <1>16, <1>17, <1>18, <1>19
     DEF Next, DaemonStep, ListenStep, ListerStep, Report, Move

\* A lock file is replaced only while nobody else holds one.
LEMMA OneLockStep ==
  ASSUME LocksInv, Next
  PROVE  OneLock'
<1> USE StartAssumption DEF LocksInv, StartTypeOK, Processes, DirLocked, OneLock, LockPhases, SockPhases,
            LegacyPhases, Unstarted, Early, Named, Late, Phases, files, startVars, runVars, listVars, bounds
<1>1. ASSUME NEW d \in Daemons, Report(d) PROVE OneLock'
  <2>1. CASE Start(d)
    BY <2>1 DEF Start
  <2>2. CASE RunRefused(d)
    BY <2>2 DEF RunRefused
  <2>3. CASE ReadReady(d)
    BY <2>3 DEF ReadReady, HasWriter
  <2>4. CASE ReadyTimeout(d)
    BY <2>4 DEF ReadyTimeout
  <2>5. CASE RunAttach(d)
    BY <2>5 DEF RunAttach
  <2>6. CASE ChildGone(d)
    BY <2>6 DEF ChildGone
  <2>7. CASE UpgradeFails(d)
    BY <2>7 DEF UpgradeFails, UpgradeAttempt
  <2> QED BY <1>1, <2>1, <2>2, <2>3, <2>4, <2>5, <2>6, <2>7 DEF Report, StarterStep
<1>2. ASSUME NEW d \in Daemons, Move(d) PROVE OneLock'
  <2>1. CASE Prologue(d)
    BY <2>1 DEF Prologue
  <2>2. CASE Spawn(d)
    BY <2>2 DEF Spawn
  <2>3. CASE Ready(d)
    BY <2>3 DEF Ready
  <2>4. CASE ServeEnds(d)
    BY <2>4 DEF ServeEnds
  <2>5. CASE LingerOver(d)
    BY <2>5 DEF LingerOver, KnockAnswered
  <2>6. CASE UpgradePrepFails(d)
    BY <2>6 DEF UpgradePrepFails, UpgradeAttempt
  <2>7. CASE SelfExec(d)
    BY <2>7 DEF SelfExec, UpgradeAttempt
  <2> QED BY <1>2, <2>1, <2>2, <2>3, <2>4, <2>5, <2>6, <2>7 DEF Move
<1>3. ASSUME NEW d \in Daemons, ListenBegin(d) PROVE OneLock'
  BY <1>3 DEF ListenBegin, TakeDirLock
<1>4. ASSUME NEW d \in Daemons, ListenLock(d) PROVE OneLock'
  BY <1>4 DEF ListenLock, Busy
<1>5. ASSUME NEW d \in Daemons, ListenBind(d) PROVE OneLock'
  BY <1>5 DEF ListenBind, ListenFails
<1>6. ASSUME NEW d \in Daemons, ListenDone(d) PROVE OneLock'
  BY <1>6 DEF ListenDone, ListenFails
<1>7. ASSUME NEW d \in Daemons, Resume(d) PROVE OneLock'
  BY <1>7 DEF Resume, TakeDirLock
<1>8. ASSUME NEW d \in Daemons, ResumeFails(d) PROVE OneLock'
  BY <1>8 DEF ResumeFails
<1>9. ASSUME NEW d \in Daemons, ResumeLock(d) PROVE OneLock'
  BY <1>9 DEF ResumeLock, Busy
<1>10. ASSUME NEW d \in Daemons, DropBegin(d) PROVE OneLock'
  BY <1>10 DEF DropBegin, TakeDirLock
<1>11. ASSUME NEW d \in Daemons, DropEnd(d) PROVE OneLock'
  BY <1>11 DEF DropEnd, SameLock
<1>12. ASSUME NEW d \in Daemons, KillDaemon(d) PROVE OneLock'
  BY <1>12 DEF KillDaemon, Release, KnockAnswered
<1>13. ASSUME NEW l \in Listers, Connect(l) PROVE OneLock'
  BY <1>13 DEF Connect, Returns, StatusAnswer
<1>14. ASSUME NEW l \in Listers, ConnectLingering(l) PROVE OneLock'
  BY <1>14 DEF ConnectLingering, Returns, KnockAnswered
<1>15. ASSUME NEW l \in Listers, PruneBegin(l) PROVE OneLock'
  BY <1>15 DEF PruneBegin, TakeDirLock
<1>16. ASSUME NEW l \in Listers, PruneCheck(l) PROVE OneLock'
  BY <1>16 DEF PruneCheck, Returns, Busy
<1>17. ASSUME NEW l \in Listers, Prune(l) PROVE OneLock'
  BY <1>17 DEF Prune, Returns
<1>18. ASSUME NEW l \in Listers, PruneLock(l) PROVE OneLock'
  BY <1>18 DEF PruneLock, Returns
<1>19. ASSUME NEW l \in Listers, KillLister(l) PROVE OneLock'
  BY <1>19 DEF KillLister, Release
<1> QED
  BY <1>1, <1>2, <1>3, <1>4, <1>5, <1>6, <1>7, <1>8, <1>9, <1>10,
     <1>11, <1>12, <1>13, <1>14, <1>15, <1>16, <1>17, <1>18, <1>19
     DEF Next, DaemonStep, ListenStep, ListerStep, Report, Move

\* Only its owner, or one that holds the lock of a dead daemon, removes a socket.
LEMMA SockPhasesStep ==
  ASSUME LocksInv, Next
  PROVE  SockPhases'
<1> USE StartAssumption DEF LocksInv, StartTypeOK, Processes, DirLocked, OneLock, LockPhases, SockPhases,
            LegacyPhases, Unstarted, Early, Named, Late, Phases, files, startVars, runVars, listVars, bounds
<1>1. ASSUME NEW d \in Daemons, Report(d) PROVE SockPhases'
  <2>1. CASE Start(d)
    BY <2>1 DEF Start
  <2>2. CASE RunRefused(d)
    BY <2>2 DEF RunRefused
  <2>3. CASE ReadReady(d)
    BY <2>3 DEF ReadReady, HasWriter
  <2>4. CASE ReadyTimeout(d)
    BY <2>4 DEF ReadyTimeout
  <2>5. CASE RunAttach(d)
    BY <2>5 DEF RunAttach
  <2>6. CASE ChildGone(d)
    BY <2>6 DEF ChildGone
  <2>7. CASE UpgradeFails(d)
    BY <2>7 DEF UpgradeFails, UpgradeAttempt
  <2> QED BY <1>1, <2>1, <2>2, <2>3, <2>4, <2>5, <2>6, <2>7 DEF Report, StarterStep
<1>2. ASSUME NEW d \in Daemons, Move(d) PROVE SockPhases'
  <2>1. CASE Prologue(d)
    BY <2>1 DEF Prologue
  <2>2. CASE Spawn(d)
    BY <2>2 DEF Spawn
  <2>3. CASE Ready(d)
    BY <2>3 DEF Ready
  <2>4. CASE ServeEnds(d)
    BY <2>4 DEF ServeEnds
  <2>5. CASE LingerOver(d)
    BY <2>5 DEF LingerOver, KnockAnswered
  <2>6. CASE UpgradePrepFails(d)
    BY <2>6 DEF UpgradePrepFails, UpgradeAttempt
  <2>7. CASE SelfExec(d)
    BY <2>7 DEF SelfExec, UpgradeAttempt
  <2> QED BY <1>2, <2>1, <2>2, <2>3, <2>4, <2>5, <2>6, <2>7 DEF Move
<1>3. ASSUME NEW d \in Daemons, ListenBegin(d) PROVE SockPhases'
  BY <1>3 DEF ListenBegin, TakeDirLock
<1>4. ASSUME NEW d \in Daemons, ListenLock(d) PROVE SockPhases'
  BY <1>4 DEF ListenLock, Busy
<1>5. ASSUME NEW d \in Daemons, ListenBind(d) PROVE SockPhases'
  BY <1>5 DEF ListenBind, ListenFails
<1>6. ASSUME NEW d \in Daemons, ListenDone(d) PROVE SockPhases'
  BY <1>6 DEF ListenDone, ListenFails
<1>7. ASSUME NEW d \in Daemons, Resume(d) PROVE SockPhases'
  BY <1>7 DEF Resume, TakeDirLock
<1>8. ASSUME NEW d \in Daemons, ResumeFails(d) PROVE SockPhases'
  BY <1>8 DEF ResumeFails
<1>9. ASSUME NEW d \in Daemons, ResumeLock(d) PROVE SockPhases'
  BY <1>9 DEF ResumeLock, Busy
<1>10. ASSUME NEW d \in Daemons, DropBegin(d) PROVE SockPhases'
  BY <1>10 DEF DropBegin, TakeDirLock
<1>11. ASSUME NEW d \in Daemons, DropEnd(d) PROVE SockPhases'
  BY <1>11 DEF DropEnd, SameLock
<1>12. ASSUME NEW d \in Daemons, KillDaemon(d) PROVE SockPhases'
  BY <1>12 DEF KillDaemon, Release, KnockAnswered
<1>13. ASSUME NEW l \in Listers, Connect(l) PROVE SockPhases'
  BY <1>13 DEF Connect, Returns, StatusAnswer
<1>14. ASSUME NEW l \in Listers, ConnectLingering(l) PROVE SockPhases'
  BY <1>14 DEF ConnectLingering, Returns, KnockAnswered
<1>15. ASSUME NEW l \in Listers, PruneBegin(l) PROVE SockPhases'
  BY <1>15 DEF PruneBegin, TakeDirLock
<1>16. ASSUME NEW l \in Listers, PruneCheck(l) PROVE SockPhases'
  BY <1>16 DEF PruneCheck, Returns, Busy
<1>17. ASSUME NEW l \in Listers, Prune(l) PROVE SockPhases'
  BY <1>17 DEF Prune, Returns
<1>18. ASSUME NEW l \in Listers, PruneLock(l) PROVE SockPhases'
  BY <1>18 DEF PruneLock, Returns
<1>19. ASSUME NEW l \in Listers, KillLister(l) PROVE SockPhases'
  BY <1>19 DEF KillLister, Release
<1> QED
  BY <1>1, <1>2, <1>3, <1>4, <1>5, <1>6, <1>7, <1>8, <1>9, <1>10,
     <1>11, <1>12, <1>13, <1>14, <1>15, <1>16, <1>17, <1>18, <1>19
     DEF Next, DaemonStep, ListenStep, ListerStep, Report, Move

\* No daemon, and no old one in particular, is started twice.
LEMMA LegacyPhasesStep ==
  ASSUME LocksInv, Next
  PROVE  LegacyPhases' /\ Unstarted'
<1> USE StartAssumption DEF LocksInv, StartTypeOK, Processes, DirLocked, OneLock, LockPhases, SockPhases,
            LegacyPhases, Unstarted, Early, Named, Late, Phases, files, startVars, runVars, listVars, bounds
<1>1. ASSUME NEW d \in Daemons, Report(d) PROVE LegacyPhases' /\ Unstarted'
  <2>1. CASE Start(d)
    BY <2>1 DEF Start
  <2>2. CASE RunRefused(d)
    BY <2>2 DEF RunRefused
  <2>3. CASE ReadReady(d)
    BY <2>3 DEF ReadReady, HasWriter
  <2>4. CASE ReadyTimeout(d)
    BY <2>4 DEF ReadyTimeout
  <2>5. CASE RunAttach(d)
    BY <2>5 DEF RunAttach
  <2>6. CASE ChildGone(d)
    BY <2>6 DEF ChildGone
  <2>7. CASE UpgradeFails(d)
    BY <2>7 DEF UpgradeFails, UpgradeAttempt
  <2> QED BY <1>1, <2>1, <2>2, <2>3, <2>4, <2>5, <2>6, <2>7 DEF Report, StarterStep
<1>2. ASSUME NEW d \in Daemons, Move(d) PROVE LegacyPhases' /\ Unstarted'
  <2>1. CASE Prologue(d)
    BY <2>1 DEF Prologue
  <2>2. CASE Spawn(d)
    BY <2>2 DEF Spawn
  <2>3. CASE Ready(d)
    BY <2>3 DEF Ready
  <2>4. CASE ServeEnds(d)
    BY <2>4 DEF ServeEnds
  <2>5. CASE LingerOver(d)
    BY <2>5 DEF LingerOver, KnockAnswered
  <2>6. CASE UpgradePrepFails(d)
    BY <2>6 DEF UpgradePrepFails, UpgradeAttempt
  <2>7. CASE SelfExec(d)
    BY <2>7 DEF SelfExec, UpgradeAttempt
  <2> QED BY <1>2, <2>1, <2>2, <2>3, <2>4, <2>5, <2>6, <2>7 DEF Move
<1>3. ASSUME NEW d \in Daemons, ListenBegin(d) PROVE LegacyPhases' /\ Unstarted'
  BY <1>3 DEF ListenBegin, TakeDirLock
<1>4. ASSUME NEW d \in Daemons, ListenLock(d) PROVE LegacyPhases' /\ Unstarted'
  BY <1>4 DEF ListenLock, Busy
<1>5. ASSUME NEW d \in Daemons, ListenBind(d) PROVE LegacyPhases' /\ Unstarted'
  BY <1>5 DEF ListenBind, ListenFails
<1>6. ASSUME NEW d \in Daemons, ListenDone(d) PROVE LegacyPhases' /\ Unstarted'
  BY <1>6 DEF ListenDone, ListenFails
<1>7. ASSUME NEW d \in Daemons, Resume(d) PROVE LegacyPhases' /\ Unstarted'
  BY <1>7 DEF Resume, TakeDirLock
<1>8. ASSUME NEW d \in Daemons, ResumeFails(d) PROVE LegacyPhases' /\ Unstarted'
  BY <1>8 DEF ResumeFails
<1>9. ASSUME NEW d \in Daemons, ResumeLock(d) PROVE LegacyPhases' /\ Unstarted'
  BY <1>9 DEF ResumeLock, Busy
<1>10. ASSUME NEW d \in Daemons, DropBegin(d) PROVE LegacyPhases' /\ Unstarted'
  BY <1>10 DEF DropBegin, TakeDirLock
<1>11. ASSUME NEW d \in Daemons, DropEnd(d) PROVE LegacyPhases' /\ Unstarted'
  BY <1>11 DEF DropEnd, SameLock
<1>12. ASSUME NEW d \in Daemons, KillDaemon(d) PROVE LegacyPhases' /\ Unstarted'
  BY <1>12 DEF KillDaemon, Release, KnockAnswered
<1>13. ASSUME NEW l \in Listers, Connect(l) PROVE LegacyPhases' /\ Unstarted'
  BY <1>13 DEF Connect, Returns, StatusAnswer
<1>14. ASSUME NEW l \in Listers, ConnectLingering(l) PROVE LegacyPhases' /\ Unstarted'
  BY <1>14 DEF ConnectLingering, Returns, KnockAnswered
<1>15. ASSUME NEW l \in Listers, PruneBegin(l) PROVE LegacyPhases' /\ Unstarted'
  BY <1>15 DEF PruneBegin, TakeDirLock
<1>16. ASSUME NEW l \in Listers, PruneCheck(l) PROVE LegacyPhases' /\ Unstarted'
  BY <1>16 DEF PruneCheck, Returns, Busy
<1>17. ASSUME NEW l \in Listers, Prune(l) PROVE LegacyPhases' /\ Unstarted'
  BY <1>17 DEF Prune, Returns
<1>18. ASSUME NEW l \in Listers, PruneLock(l) PROVE LegacyPhases' /\ Unstarted'
  BY <1>18 DEF PruneLock, Returns
<1>19. ASSUME NEW l \in Listers, KillLister(l) PROVE LegacyPhases' /\ Unstarted'
  BY <1>19 DEF KillLister, Release
<1> QED
  BY <1>1, <1>2, <1>3, <1>4, <1>5, <1>6, <1>7, <1>8, <1>9, <1>10,
     <1>11, <1>12, <1>13, <1>14, <1>15, <1>16, <1>17, <1>18, <1>19
     DEF Next, DaemonStep, ListenStep, ListerStep, Report, Move

\* While nothing is killed, no start and no list takes the socket of an old daemon.
LEMMA LegacyKeptStep ==
  ASSUME LocksInv, LegacyKept, StartTypeOK', Next
  PROVE  LegacyKept'
<1> USE StartAssumption DEF LocksInv, LegacyKept, StartTypeOK, Processes, DirLocked, OneLock, LockPhases,
            SockPhases, LegacyPhases, Unstarted, Early, Named, Late, Phases, files, startVars, runVars, listVars, bounds
<1>1. ASSUME NEW d \in Daemons, Report(d) PROVE LegacyKept'
  <2>1. CASE Start(d)
    BY <2>1 DEF Start
  <2>2. CASE RunRefused(d)
    BY <2>2 DEF RunRefused
  <2>3. CASE ReadReady(d)
    BY <2>3 DEF ReadReady, HasWriter
  <2>4. CASE ReadyTimeout(d)
    BY <2>4 DEF ReadyTimeout
  <2>5. CASE RunAttach(d)
    BY <2>5 DEF RunAttach
  <2>6. CASE ChildGone(d)
    BY <2>6 DEF ChildGone
  <2>7. CASE UpgradeFails(d)
    BY <2>7 DEF UpgradeFails, UpgradeAttempt
  <2> QED BY <1>1, <2>1, <2>2, <2>3, <2>4, <2>5, <2>6, <2>7 DEF Report, StarterStep
<1>2. ASSUME NEW d \in Daemons, Move(d) PROVE LegacyKept'
  <2>1. CASE Prologue(d)
    BY <2>1 DEF Prologue
  <2>2. CASE Spawn(d)
    BY <2>2 DEF Spawn
  <2>3. CASE Ready(d)
    BY <2>3 DEF Ready
  <2>4. CASE ServeEnds(d)
    BY <2>4 DEF ServeEnds
  <2>5. CASE LingerOver(d)
    BY <2>5 DEF LingerOver, KnockAnswered
  <2>6. CASE UpgradePrepFails(d)
    BY <2>6 DEF UpgradePrepFails, UpgradeAttempt
  <2>7. CASE SelfExec(d)
    BY <2>7 DEF SelfExec, UpgradeAttempt
  <2> QED BY <1>2, <2>1, <2>2, <2>3, <2>4, <2>5, <2>6, <2>7 DEF Move
<1>3. ASSUME NEW d \in Daemons, ListenBegin(d) PROVE LegacyKept'
  BY <1>3 DEF ListenBegin, TakeDirLock
<1>4. ASSUME NEW d \in Daemons, ListenLock(d) PROVE LegacyKept'
  BY <1>4 DEF ListenLock, Busy
<1>5. ASSUME NEW d \in Daemons, ListenBind(d) PROVE LegacyKept'
  BY <1>5 DEF ListenBind, ListenFails
<1>6. ASSUME NEW d \in Daemons, ListenDone(d) PROVE LegacyKept'
  BY <1>6 DEF ListenDone, ListenFails
<1>7. ASSUME NEW d \in Daemons, Resume(d) PROVE LegacyKept'
  BY <1>7 DEF Resume, TakeDirLock
<1>8. ASSUME NEW d \in Daemons, ResumeFails(d) PROVE LegacyKept'
  BY <1>8 DEF ResumeFails
<1>9. ASSUME NEW d \in Daemons, ResumeLock(d) PROVE LegacyKept'
  BY <1>9 DEF ResumeLock, Busy
<1>10. ASSUME NEW d \in Daemons, DropBegin(d) PROVE LegacyKept'
  BY <1>10 DEF DropBegin, TakeDirLock
<1>11. ASSUME NEW d \in Daemons, DropEnd(d) PROVE LegacyKept'
  BY <1>11 DEF DropEnd, SameLock
<1>12. ASSUME NEW d \in Daemons, KillDaemon(d) PROVE LegacyKept'
  BY <1>12 DEF KillDaemon, Release, KnockAnswered
<1>13. ASSUME NEW l \in Listers, Connect(l) PROVE LegacyKept'
  BY <1>13 DEF Connect, Returns, StatusAnswer
<1>14. ASSUME NEW l \in Listers, ConnectLingering(l) PROVE LegacyKept'
  BY <1>14 DEF ConnectLingering, Returns, KnockAnswered
<1>15. ASSUME NEW l \in Listers, PruneBegin(l) PROVE LegacyKept'
  BY <1>15 DEF PruneBegin, TakeDirLock
<1>16. ASSUME NEW l \in Listers, PruneCheck(l) PROVE LegacyKept'
  BY <1>16 DEF PruneCheck, Returns, Busy
<1>17. ASSUME NEW l \in Listers, Prune(l) PROVE LegacyKept'
  BY <1>17 DEF Prune, Returns
<1>18. ASSUME NEW l \in Listers, PruneLock(l) PROVE LegacyKept'
  BY <1>18 DEF PruneLock, Returns
<1>19. ASSUME NEW l \in Listers, KillLister(l) PROVE LegacyKept'
  BY <1>19 DEF KillLister, Release
<1> QED
  BY <1>1, <1>2, <1>3, <1>4, <1>5, <1>6, <1>7, <1>8, <1>9, <1>10,
     <1>11, <1>12, <1>13, <1>14, <1>15, <1>16, <1>17, <1>18, <1>19
     DEF Next, DaemonStep, ListenStep, ListerStep, Report, Move

\* What was reported stays true.
LEMMA ReportsStep ==
  ASSUME LocksInv, ReportsInv, Next
  PROVE  ReportsInv'
<1> USE StartAssumption DEF LocksInv, ReportsInv, StartTypeOK, Processes,
            LegacyPhases, Unstarted, Late, Phases, files, startVars, runVars, listVars, bounds
<1>1. ASSUME NEW d \in Daemons, Report(d) PROVE ReportsInv'
  <2>1. CASE Start(d)
    BY <2>1 DEF Start
  <2>2. CASE RunRefused(d)
    BY <2>2 DEF RunRefused
  <2>3. CASE ReadReady(d)
    BY <2>3 DEF ReadReady, HasWriter
  <2>4. CASE ReadyTimeout(d)
    BY <2>4 DEF ReadyTimeout
  <2>5. CASE RunAttach(d)
    BY <2>5 DEF RunAttach
  <2>6. CASE ChildGone(d)
    BY <2>6 DEF ChildGone
  <2>7. CASE UpgradeFails(d)
    BY <2>7 DEF UpgradeFails, UpgradeAttempt
  <2> QED BY <1>1, <2>1, <2>2, <2>3, <2>4, <2>5, <2>6, <2>7 DEF Report, StarterStep
<1>2. ASSUME NEW d \in Daemons, Move(d) PROVE ReportsInv'
  <2>1. CASE Prologue(d)
    BY <2>1 DEF Prologue
  <2>2. CASE Spawn(d)
    BY <2>2 DEF Spawn
  <2>3. CASE Ready(d)
    BY <2>3 DEF Ready
  <2>4. CASE ServeEnds(d)
    BY <2>4 DEF ServeEnds
  <2>5. CASE LingerOver(d)
    BY <2>5 DEF LingerOver, KnockAnswered
  <2>6. CASE UpgradePrepFails(d)
    BY <2>6 DEF UpgradePrepFails, UpgradeAttempt
  <2>7. CASE SelfExec(d)
    BY <2>7 DEF SelfExec, UpgradeAttempt
  <2> QED BY <1>2, <2>1, <2>2, <2>3, <2>4, <2>5, <2>6, <2>7 DEF Move
<1>3. ASSUME NEW d \in Daemons, ListenBegin(d) PROVE ReportsInv'
  BY <1>3 DEF ListenBegin, TakeDirLock
<1>4. ASSUME NEW d \in Daemons, ListenLock(d) PROVE ReportsInv'
  BY <1>4 DEF ListenLock, Busy
<1>5. ASSUME NEW d \in Daemons, ListenBind(d) PROVE ReportsInv'
  BY <1>5 DEF ListenBind, ListenFails
<1>6. ASSUME NEW d \in Daemons, ListenDone(d) PROVE ReportsInv'
  BY <1>6 DEF ListenDone, ListenFails
<1>7. ASSUME NEW d \in Daemons, Resume(d) PROVE ReportsInv'
  BY <1>7 DEF Resume, TakeDirLock
<1>8. ASSUME NEW d \in Daemons, ResumeFails(d) PROVE ReportsInv'
  BY <1>8 DEF ResumeFails
<1>9. ASSUME NEW d \in Daemons, ResumeLock(d) PROVE ReportsInv'
  BY <1>9 DEF ResumeLock, Busy
<1>10. ASSUME NEW d \in Daemons, DropBegin(d) PROVE ReportsInv'
  BY <1>10 DEF DropBegin, TakeDirLock
<1>11. ASSUME NEW d \in Daemons, DropEnd(d) PROVE ReportsInv'
  BY <1>11 DEF DropEnd, SameLock
<1>12. ASSUME NEW d \in Daemons, KillDaemon(d) PROVE ReportsInv'
  BY <1>12 DEF KillDaemon, Release, KnockAnswered
<1>13. ASSUME NEW l \in Listers, Connect(l) PROVE ReportsInv'
  BY <1>13 DEF Connect, Returns, StatusAnswer
<1>14. ASSUME NEW l \in Listers, ConnectLingering(l) PROVE ReportsInv'
  BY <1>14 DEF ConnectLingering, Returns, KnockAnswered
<1>15. ASSUME NEW l \in Listers, PruneBegin(l) PROVE ReportsInv'
  BY <1>15 DEF PruneBegin, TakeDirLock
<1>16. ASSUME NEW l \in Listers, PruneCheck(l) PROVE ReportsInv'
  BY <1>16 DEF PruneCheck, Returns, Busy
<1>17. ASSUME NEW l \in Listers, Prune(l) PROVE ReportsInv'
  BY <1>17 DEF Prune, Returns
<1>18. ASSUME NEW l \in Listers, PruneLock(l) PROVE ReportsInv'
  BY <1>18 DEF PruneLock, Returns
<1>19. ASSUME NEW l \in Listers, KillLister(l) PROVE ReportsInv'
  BY <1>19 DEF KillLister, Release
<1> QED
  BY <1>1, <1>2, <1>3, <1>4, <1>5, <1>6, <1>7, <1>8, <1>9, <1>10,
     <1>11, <1>12, <1>13, <1>14, <1>15, <1>16, <1>17, <1>18, <1>19
     DEF Next, DaemonStep, ListenStep, ListerStep, Report, Move

-----------------------------------------------------------------------------
(* The invariant holds throughout.                                         *)

\* The initial states satisfy the invariant.
LEMMA StartInvInit == Init => StartInv
BY StartAssumption
   DEF Init, StartInv, LocksInv, LegacyKept, ReportsInv, StartTypeOK, Processes, DirLocked, OneLock,
       LockPhases, SockPhases, LegacyPhases, Unstarted, Early, Named, Late, Phases

\* The invariant is inductive.
LEMMA StartInvStep == StartInv /\ [Next]_vars => StartInv'
<1> SUFFICES ASSUME StartInv, [Next]_vars PROVE StartInv'
  OBVIOUS
<1>1. CASE Next
  <2>1. StartTypeOK'
    BY <1>1, TypeStep DEF StartInv, LocksInv
  <2>2. LocksInv'
    BY <1>1, <2>1, DirLockedStep, LockPhasesStep, OneLockStep, SockPhasesStep, LegacyPhasesStep
       DEF StartInv, LocksInv
  <2> QED BY <1>1, <2>1, <2>2, LegacyKeptStep, ReportsStep DEF StartInv
<1>2. CASE UNCHANGED vars
  BY <1>2 DEF vars, StartInv, LocksInv, LegacyKept, ReportsInv, StartTypeOK, Processes, DirLocked,
              OneLock, LockPhases, SockPhases, LegacyPhases, Unstarted
<1> QED BY <1>1, <1>2

\* Every reachable state satisfies the invariant.
LEMMA StartInvHolds == Spec => []StartInv
BY StartInvInit, StartInvStep, PTL DEF Spec

\* A daemon that is up is found under its name, for any number of daemons, lists,
\* upgrades and kills (with an old daemon beside them, as long as nothing is killed).
THEOREM NameIsHeld == Spec => []NameHeld
<1>1. ASSUME StartInv PROVE NameHeld
  <2>1. ASSUME NEW d \in Daemons, flock[d] # None PROVE lockf = flock[d]
    BY <1>1, <2>1 DEF StartInv, LocksInv, OneLock, Processes
  <2>2. ASSUME NEW d \in Daemons \ Legacy,
               phase[d] \in {"listening", "spawned", "serving", "resumed", "lingering"}
        PROVE  sock = d
    BY <1>1, <2>2 DEF StartInv, LocksInv, SockPhases, Named
  <2>3. ASSUME NEW d \in Legacy, crashes = 0,
               phase[d] \in {"listening", "spawned", "serving", "resumed", "lingering"}
        PROVE  sock = d
    BY <1>1, <2>3 DEF StartInv, LocksInv, LegacyKept, LegacyPhases, Late
  <2> QED BY <2>1, <2>2, <2>3, StartAssumption DEF NameHeld
<1> QED BY <1>1, StartInvHolds, PTL

\* `hyoui run' reports an id, an attach, a failed start or an exit status only
\* when it is true.
THEOREM ReportsTrue == Spec => []StartTruthful
<1>1. StartInv => StartTruthful
  BY DEF StartInv, ReportsInv, StartTruthful, Late
<1> QED BY <1>1, StartInvHolds, PTL

-----------------------------------------------------------------------------
(* The refinement.                                                         *)

\* The owner of the name is the daemon whose socket it is and which holds a lock.
LEMMA OwnerIs ==
  ASSUME StartTypeOK, OneLock
  PROVE  /\ Owner \in Daemons \cup {None}
         /\ \A d \in Daemons : Owner = d <=> sock = d /\ flock[d] # None
BY StartAssumption DEF Owner, StartTypeOK, OneLock, Processes

\* Every step takes, tells, ends or gives up the name, or is none of it.
LEMMA OwnerStep ==
  ASSUME StartInv, StartInv', Next
  PROVE  [Registry!Next]_<<Owner, Over, Told>>
<1>1. /\ StartTypeOK /\ OneLock /\ LockPhases /\ SockPhases /\ LegacyPhases /\ DirLocked /\ Unstarted
      /\ ReportsInv /\ StartTypeOK'
  BY DEF StartInv, LocksInv
<1>2. /\ Owner \in Daemons \cup {None}
      /\ \A d \in Daemons : Owner = d <=> sock = d /\ flock[d] # None
  BY OwnerIs DEF StartInv, LocksInv
<1>3. /\ Owner' \in Daemons \cup {None}
      /\ \A d \in Daemons : Owner' = d <=> sock' = d /\ flock'[d] # None
  <2>1. ASSUME StartTypeOK', OneLock'
        PROVE  /\ Owner' \in Daemons \cup {None}
               /\ \A d \in Daemons : Owner' = d <=> sock' = d /\ flock'[d] # None
    BY <2>1, StartAssumption DEF Owner, StartTypeOK, OneLock, Processes
  <2> QED BY <2>1 DEF StartInv, LocksInv
<1> DEFINE Stays == Owner' = Owner /\ Over' = Over /\ Told' = Told
<1> DEFINE A(d) == Registry!Take(d) \/ Registry!Tell(d) \/ Registry!End(d) \/ Registry!GiveUp(d)
<1> USE DEF StartTypeOK, Processes, Phases, files, startVars, runVars, listVars, bounds, Over, Told
<1>4. ASSUME NEW d \in Daemons, Report(d) PROVE Stays
  <2>1. CASE Start(d)
    BY <1>1, <1>2, <1>3, <1>4, <2>1, StartAssumption DEF Start, Unstarted
  <2>2. CASE RunRefused(d)
    BY <1>1, <1>2, <1>3, <1>4, <2>2, StartAssumption DEF RunRefused
  <2>3. CASE ReadReady(d)
    BY <1>1, <1>2, <1>3, <1>4, <2>3, StartAssumption DEF ReadReady, HasWriter
  <2>4. CASE ReadyTimeout(d)
    BY <1>1, <1>2, <1>3, <1>4, <2>4, StartAssumption DEF ReadyTimeout
  <2>5. CASE RunAttach(d)
    BY <1>1, <1>2, <1>3, <1>4, <2>5, StartAssumption DEF RunAttach
  <2>6. CASE ChildGone(d)
    BY <1>1, <1>2, <1>3, <1>4, <2>6, StartAssumption DEF ChildGone
  <2>7. CASE UpgradeFails(d)
    BY <1>1, <1>2, <1>3, <1>4, <2>7, StartAssumption DEF UpgradeFails, UpgradeAttempt
  <2> QED BY <1>4, <2>1, <2>2, <2>3, <2>4, <2>5, <2>6, <2>7 DEF Report, StarterStep
<1>5. ASSUME NEW d \in Daemons, Prologue(d) PROVE Stays \/ Registry!End(d)
  BY <1>1, <1>2, <1>3, <1>5, StartAssumption DEF Prologue, Registry!End
<1>6. ASSUME NEW d \in Daemons, ListenBegin(d) PROVE Stays \/ Registry!End(d)
  BY <1>1, <1>2, <1>3, <1>6, StartAssumption DEF ListenBegin, TakeDirLock, Registry!End
<1>7. ASSUME NEW d \in Daemons, ListenLock(d) PROVE Stays \/ Registry!End(d)
  BY <1>1, <1>2, <1>3, <1>7, StartAssumption DEF ListenLock, Busy, Registry!End, OneLock,
       SockPhases, Early
<1>8. ASSUME NEW d \in Daemons, ListenBind(d) PROVE Registry!Take(d) \/ Registry!End(d)
  BY <1>1, <1>2, <1>3, <1>8, StartAssumption DEF ListenBind, ListenFails, Registry!Take,
       Registry!End, OneLock, LockPhases, LegacyPhases, SockPhases, Early, Late
<1>9. ASSUME NEW d \in Daemons, ListenDone(d) PROVE Stays \/ Registry!End(d)
  BY <1>1, <1>2, <1>3, <1>9, StartAssumption DEF ListenDone, ListenFails, Registry!End, OneLock,
       LockPhases, LegacyPhases, SockPhases, Named, Late
<1>10. ASSUME NEW d \in Daemons, Spawn(d) PROVE Stays \/ Registry!End(d)
  BY <1>1, <1>2, <1>3, <1>10, StartAssumption DEF Spawn, Registry!End
<1>11. ASSUME NEW d \in Daemons, Ready(d) PROVE Registry!Tell(d)
  BY <1>1, <1>2, <1>3, <1>11, StartAssumption DEF Ready, Registry!Tell, LockPhases,
       LegacyPhases, SockPhases, Named, Late, ReportsInv
<1>12. ASSUME NEW d \in Daemons, ServeEnds(d) PROVE Stays \/ Registry!End(d)
  BY <1>1, <1>2, <1>3, <1>12, StartAssumption DEF ServeEnds, Registry!End
<1>13. ASSUME NEW d \in Daemons, LingerOver(d) PROVE Registry!End(d)
  BY <1>1, <1>2, <1>3, <1>13, StartAssumption DEF LingerOver, KnockAnswered, Registry!End
<1>14. ASSUME NEW d \in Daemons, UpgradePrepFails(d) PROVE Registry!End(d)
  BY <1>1, <1>2, <1>3, <1>14, StartAssumption DEF UpgradePrepFails, UpgradeAttempt, Registry!End
<1>15. ASSUME NEW d \in Daemons, SelfExec(d) PROVE Stays
  BY <1>1, <1>2, <1>3, <1>15, StartAssumption DEF SelfExec, UpgradeAttempt
<1>16. ASSUME NEW d \in Daemons, Resume(d) PROVE Stays
  BY <1>1, <1>2, <1>3, <1>16, StartAssumption DEF Resume, TakeDirLock
<1>17. ASSUME NEW d \in Daemons, ResumeFails(d) PROVE Registry!End(d)
  BY <1>1, <1>2, <1>3, <1>17, StartAssumption DEF ResumeFails, Registry!End, OneLock
<1>18. ASSUME NEW d \in Daemons, ResumeLock(d) PROVE Stays \/ Registry!Take(d)
  BY <1>1, <1>2, <1>3, <1>18, StartAssumption DEF ResumeLock, Busy, Registry!Take, OneLock
<1>19. ASSUME NEW d \in Daemons, DropBegin(d) PROVE Stays
  BY <1>1, <1>2, <1>3, <1>19, StartAssumption DEF DropBegin, TakeDirLock
<1>20. ASSUME NEW d \in Daemons, DropEnd(d) PROVE Stays \/ Registry!GiveUp(d)
  BY <1>1, <1>2, <1>3, <1>20, StartAssumption DEF DropEnd, SameLock, Registry!GiveUp, OneLock
<1>21. ASSUME NEW d \in Daemons, KillDaemon(d) PROVE Stays \/ Registry!End(d) \/ Registry!GiveUp(d)
  BY <1>1, <1>2, <1>3, <1>21, StartAssumption DEF KillDaemon, Release, KnockAnswered,
       Registry!End, Registry!GiveUp, OneLock
<1>22. ASSUME NEW l \in Listers, Connect(l) PROVE Stays
  BY <1>1, <1>2, <1>3, <1>22, StartAssumption DEF Connect, Returns, StatusAnswer
<1>23. ASSUME NEW l \in Listers, ConnectLingering(l) PROVE \E d \in Daemons : Registry!End(d)
  <2>1. PICK d \in Daemons : sock = d /\ phase[d] = "lingering"
    BY <1>1, <1>23 DEF ConnectLingering
  <2>2. Registry!End(d)
    BY <1>1, <1>2, <1>3, <1>23, <2>1, StartAssumption DEF ConnectLingering, Returns, KnockAnswered,
         Registry!End
  <2> QED BY <2>2
<1>24. ASSUME NEW l \in Listers, PruneBegin(l) PROVE Stays
  BY <1>1, <1>2, <1>3, <1>24, StartAssumption DEF PruneBegin, TakeDirLock
<1>25. ASSUME NEW l \in Listers, PruneCheck(l) PROVE Stays
  BY <1>1, <1>2, <1>3, <1>25, StartAssumption DEF PruneCheck, Returns, Busy, OneLock, LockPhases
<1>26. ASSUME NEW l \in Listers, Prune(l) PROVE Stays
  BY <1>1, <1>2, <1>3, <1>26, StartAssumption DEF Prune, Returns, OneLock, LockPhases
<1>27. ASSUME NEW l \in Listers, PruneLock(l) PROVE Stays
  BY <1>1, <1>2, <1>3, <1>27, StartAssumption DEF PruneLock, Returns, OneLock, LockPhases
<1>28. ASSUME NEW l \in Listers, KillLister(l) PROVE Stays
  BY <1>1, <1>2, <1>3, <1>28, StartAssumption DEF KillLister, Release, OneLock, LockPhases
<1>29. Stays => [Registry!Next]_<<Owner, Over, Told>>
  BY DEF Registry!Next
<1>30. (\E d \in Daemons : A(d)) => [Registry!Next]_<<Owner, Over, Told>>
  BY DEF Registry!Next
<1> HIDE DEF Stays, A
<1>31. ASSUME NEW d \in Daemons,
             \/ Start(d) \/ RunRefused(d) \/ StarterStep(d) \/ DaemonStep(d)
             \/ ServeEnds(d) \/ ChildGone(d) \/ KillDaemon(d)
             \/ UpgradeFails(d) \/ UpgradePrepFails(d) \/ SelfExec(d) \/ ResumeFails(d)
      PROVE  Stays \/ A(d)
  BY <1>31, <1>4, <1>5, <1>6, <1>7, <1>8, <1>9, <1>10, <1>11, <1>12, <1>13, <1>14, <1>15, <1>16,
       <1>17, <1>18, <1>19, <1>20, <1>21 DEF A, DaemonStep, ListenStep, Report
<1>32. ASSUME NEW l \in Listers, ListerStep(l) \/ KillLister(l)
      PROVE  Stays \/ \E d \in Daemons : A(d)
  BY <1>32, <1>22, <1>24, <1>25, <1>26, <1>27, <1>28, <1>23 DEF A, ListerStep
<1> QED BY <1>29, <1>30, <1>31, <1>32 DEF Next

\* The files, locks and processes of a session id implement the ownership of a name:
\* at most one daemon has it, keeps it until it ends, and only then can the next one.
THEOREM NameOwnership == Spec => NameOwnerSpec
<1>1. Init => Registry!Init
  BY StartAssumption DEF Init, Registry!Init, Owner, Over, Told
<1>2. ASSUME StartInv, StartInv', [Next]_vars PROVE [Registry!Next]_<<Owner, Over, Told>>
  <2>1. CASE Next
    BY <1>2, <2>1, OwnerStep
  <2>2. CASE UNCHANGED vars
    BY <2>2 DEF vars, Owner, Over, Told
  <2> QED BY <1>2, <2>1, <2>2
<1> QED BY <1>1, <1>2, StartInvHolds, PTL DEF Spec, NameOwnerSpec, Registry!Spec

-----------------------------------------------------------------------------
(* The inductive invariant of SessionTarget.                               *)

Uuid == Choice!Uuid

ChoiceTypeOK ==
  /\ verb \in Choice!Verbs /\ sel \in Choice!Selectors
  /\ env \in Sessions \cup {0} /\ dirOk \in BOOLEAN
  /\ state \in [Sessions -> {"new", "live", "hung", "left", "gone"}]
  /\ mtime \in [Sessions -> Nat]
  /\ scanned \subseteq Sessions /\ DOMAIN found \subseteq Sessions
  /\ statting \in Sessions \cup {0} /\ target \in Sessions \cup {0}
  /\ acted \subseteq Sessions /\ failures \in Nat
  /\ stayed \subseteq was /\ was \subseteq Sessions /\ changes \in Nat

\* Where each command may be.
StepsOK ==
  /\ verb = "GET" => step = "done"
  /\ verb = "kill --all" => step \in {"start", "scan", "kill", "done"}
  /\ verb = "list" => step \in {"start", "scan", "query", "done"}
  /\ verb \in {"attach", "status"} =>
       step \in {"start", "scan", "path", "env", "resolve", "connect", "done"}

\* A session that was ever up has an mtime of its own; one that stayed is live, and
\* was from the start; the shell's session was.
WorldOK ==
  /\ \A s \in Sessions : s \in was <=> state[s] # "new"
  /\ \A s \in stayed : state[s] = "live" /\ mtime[s] <= Cardinality(Sessions)
  /\ \A s \in was : mtime[s] \in 1 .. (Cardinality(Sessions) + changes)
  /\ \A s, t \in was : mtime[s] = mtime[t] => s = t
  /\ env # 0 => env \in was

\* What a scan takes was up; its mtime is right, or its file is gone.  It has passed
\* over none that stayed.
ScanOK ==
  /\ \A s \in DOMAIN found :
       /\ s \in was \cap Uuid
       /\ found[s] = mtime[s] \/ (found[s] = 0 /\ ~Choice!File(s))
  /\ statting # 0 => step = "scan" /\ statting \in was \cap Uuid
  /\ step \in {"start", "scan"} =>
       \A s \in scanned \cap stayed \cap Uuid : s \in DOMAIN found \cup {statting}

\* kill --all and list: whatever stayed is still to be dealt with, or has been.
LoopOK ==
  /\ step \in {"kill", "query"} =>
       failures > 0 \/ \A s \in stayed \cap Uuid : s \in DOMAIN found \cup acted
  /\ step = "query" => failures = 0
  /\ step \in {"start", "scan"} => failures = 0
  /\ step = "done" /\ result = "0" /\ verb \in {"kill --all", "list"} =>
       \A s \in stayed \cap Uuid : s \in acted

\* One session: the target is the one its selector names.
NamedOK ==
  verb \in {"attach", "status"} =>
    /\ step \in {"start", "scan", "env"} => target = 0
    /\ step \in {"path", "resolve", "connect"} => target # 0
    /\ step = "scan" => sel.kind = "index" /\ sel.i # 0
    /\ step = "path" => sel.kind \in {"path", "alias"}
    /\ step = "env" => sel.kind = "none"
    /\ target # 0 => /\ sel.kind \in {"id", "path", "alias"} => target = sel.s
                     /\ sel.kind = "none" => target = env
    /\ step # "done" => acted = {}
    /\ acted \subseteq {target}

\* attach gets as far as its own session only by a path.
SelfOK ==
  verb = "attach" =>
    /\ step = "connect" /\ target = env =>
         /\ sel.kind \in {"path", "alias"}
         /\ env \in OldSessions \/ ~dirOk \/ ~Choice!File(env)
    /\ env \in acted => sel.kind \in {"path", "alias"} /\ (env \in OldSessions \/ ~dirOk)

Older(set, g) == {t \in set \cap Uuid : mtime[t] < mtime[g]}
Newer(set, g) == {t \in set \cap Uuid : mtime[t] > mtime[g]}
Ended == {t \in was \cap Uuid : ~Choice!Up(t)}

\* g has ended, or rank i among the live sessions is one it had.
RankOf(g, i) ==
  /\ g \in was \cap Uuid
  /\ \/ g \in Ended
     \/ /\ i > 0
        /\ Cardinality(Older(stayed, g)) < i
        /\ i <= Cardinality(Older(was, g) \cup Ended) + 1
     \/ /\ i < 0
        /\ Cardinality(Newer(stayed, g)) < -i
        /\ -i <= Cardinality(Newer(was, g)) + 1

RankOK ==
  verb \in {"attach", "status"} /\ sel.kind = "index" /\ target # 0 => RankOf(target, sel.i)

ChoiceInv ==
  /\ ChoiceTypeOK /\ StepsOK /\ WorldOK /\ ScanOK /\ LoopOK /\ NamedOK /\ SelfOK /\ RankOK

-----------------------------------------------------------------------------
(* SessionTarget: the invariant holds.                                     *)

States == {"new", "live", "hung", "left", "gone"}
Given == <<verb, sel, env, dirOk>>

\* What a step does to the sessions: a socket without a daemon may be removed, or one
\* session starts, ends, crashes or hangs.
Prunes ==
  /\ UNCHANGED <<mtime, stayed, was, changes>>
  /\ state' \in [Sessions -> States]
  /\ \A t \in Sessions : state'[t] = state[t] \/ (state[t] = "left" /\ state'[t] = "gone")

Becomes ==
  \E s \in Sessions, to \in States \ {"new"} :
    /\ state[s] \in {"new", "live", "hung"}
    /\ to = "live" <=> state[s] = "new"
    /\ state' = [state EXCEPT ![s] = to]
    /\ stayed' = stayed \ {s}
    /\ was' = IF to = "live" THEN was \cup {s} ELSE was
    /\ mtime' = IF to = "live"
                THEN [mtime EXCEPT ![s] = 1 + Cardinality(Sessions) + changes] ELSE mtime
    /\ changes' = changes + 1

\* A session that was ever up keeps its mtime, and one that is down stays down.
Evolves ==
  /\ was \subseteq was' /\ stayed' \subseteq stayed
  /\ \A s \in was : /\ mtime'[s] = mtime[s]
                    /\ ~Choice!Up(s) => ~Choice!Up(s)'
                    /\ ~Choice!File(s) => ~Choice!File(s)'

\* SessionTarget counts as the theorems about finite sets do.
LEMMA SameCount == \A S : Choice!Cardinality(S) = Cardinality(S)
BY DEF Choice!Cardinality, Cardinality, Choice!IsFiniteSet, IsFiniteSet

\* The number of sessions is a number, and 0 is none of them.
LEMMA SessionsFinite ==
  /\ IsFiniteSet(Sessions) /\ Cardinality(Sessions) \in Nat
  /\ 0 \notin Sessions /\ 1 \in Sessions /\ Sessions \subseteq Nat
<1>1. IsFiniteSet(Sessions) /\ Sessions # {} /\ Sessions = 1 .. Cardinality(Sessions)
  BY ChoiceAssumption
<1>2. Cardinality(Sessions) \in Nat
  BY <1>1, FS_CardinalityType
<1> QED BY <1>1, <1>2

\* The removal of a file leaves every other session as it is.
LEMMA PrunedOne ==
  ASSUME ChoiceTypeOK, NEW s, Choice!Pruned(s)
  PROVE  /\ state' \in [Sessions -> States]
         /\ \A t \in Sessions : state'[t] = state[t] \/ (state[t] = "left" /\ state'[t] = "gone")
BY DEF ChoiceTypeOK, Choice!Pruned, States

\* Every step changes the sessions in one of these ways, and no argument.
LEMMA StepOfWorld ==
  ASSUME ChoiceTypeOK, Choice!Next
  PROVE  /\ UNCHANGED Given
         /\ Prunes \/ (Becomes /\ UNCHANGED Choice!local)
<1> USE DEF Given
<1>1. CASE UNCHANGED Choice!world /\ UNCHANGED Given
  BY <1>1 DEF Choice!world, Prunes, ChoiceTypeOK, States
<1>2. ASSUME NEW s, Choice!Query(s)
      PROVE  Prunes /\ UNCHANGED Given
  BY <1>2, PrunedOne DEF Choice!Query, Choice!Keep, Prunes
<1>3. CASE Choice!Command
  <2>1. CASE \E s \in Sessions : Choice!Query(s)
    BY <1>2, <2>1
  <2>2. CASE UNCHANGED Choice!world /\ UNCHANGED Given
    BY <1>1, <2>2
  <2>3. ASSUME NEW s, Choice!ScanEntry(s)
        PROVE  UNCHANGED Choice!world /\ UNCHANGED Given
    BY <2>3 DEF Choice!ScanEntry, Choice!Keep
  <2>4. Choice!Begin \/ Choice!GivenPath \/ Choice!FromEnv \/ Choice!ScanStat
          => UNCHANGED Choice!world /\ UNCHANGED Given
    BY DEF Choice!Begin, Choice!GivenPath, Choice!FromEnv, Choice!ScanStat, Choice!Keep
  <2>5. Choice!ScanEnd \/ Choice!Resolve \/ Choice!Connect
          => UNCHANGED Choice!world /\ UNCHANGED Given
    BY DEF Choice!ScanEnd, Choice!Resolve, Choice!Connect, Choice!Keep
  <2>6. Choice!KillNext \/ Choice!KillAllEnd \/ Choice!ListEnd
          => UNCHANGED Choice!world /\ UNCHANGED Given
    BY DEF Choice!KillNext, Choice!KillAllEnd, Choice!ListEnd, Choice!Keep
  <2> QED BY <1>3, <2>1, <2>2, <2>3, <2>4, <2>5, <2>6 DEF Choice!Command
<1>4. CASE Choice!Gateway
  <2>1. ASSUME NEW w, Choice!Lookup(w)
        PROVE  Prunes /\ UNCHANGED Given
    <3>1. UNCHANGED Given /\ UNCHANGED <<mtime, stayed, was, changes>>
      BY <2>1 DEF Choice!Lookup, Choice!KeepCommand
    <3>2. UNCHANGED state \/ Choice!Pruned(Choice!Looked)
      BY <2>1 DEF Choice!Lookup
    <3> QED BY <3>1, <3>2, PrunedOne DEF Prunes, ChoiceTypeOK, States
  <2>2. ASSUME NEW r, Choice!Join(r) \/ Choice!Cancel(r)
        PROVE  UNCHANGED Choice!world /\ UNCHANGED Given
    BY <2>2 DEF Choice!Join, Choice!Cancel, Choice!KeepCommand
  <2>3. ASSUME NEW w, Choice!Remove(w) \/ Choice!Deliver(w)
        PROVE  UNCHANGED Choice!world /\ UNCHANGED Given
    BY <2>3 DEF Choice!Remove, Choice!Deliver, Choice!KeepCommand
  <2> QED BY <1>1, <1>4, <2>1, <2>2, <2>3 DEF Choice!Gateway
<1>5. CASE Choice!World
  <2>1. PICK s \in Sessions : Choice!Start(s) \/ Choice!End(s) \/ Choice!Crash(s) \/ Choice!Hang(s)
    BY <1>5 DEF Choice!World
  <2>2. PICK to \in States \ {"new"} :
          /\ Choice!Become(s, to)
          /\ state[s] \in {"new", "live", "hung"}
          /\ to = "live" <=> state[s] = "new"
    BY <2>1 DEF Choice!Start, Choice!End, Choice!Crash, Choice!Hang, Choice!Up, States
  <2>3. Becomes
    <3>1. /\ state' = [state EXCEPT ![s] = to] /\ stayed' = stayed \ {s}
          /\ was' = IF to = "live" THEN was \cup {s} ELSE was
          /\ mtime' = IF to = "live"
                      THEN [mtime EXCEPT ![s] = 1 + Cardinality(Sessions) + changes] ELSE mtime
          /\ changes' = changes + 1
      BY <2>2, SameCount DEF Choice!Become
    <3> QED BY <2>2, <3>1, Zenon DEF Becomes
  <2> QED BY <2>2, <2>3 DEF Choice!Become, Choice!KeepCommand
<1> QED BY <1>3, <1>4, <1>5 DEF Choice!Next

\* Whichever of them happens, the sessions stay in order.
LEMMA WorldKept ==
  ASSUME ChoiceTypeOK, WorldOK, UNCHANGED Given, Prunes \/ Becomes
  PROVE  /\ WorldOK' /\ Evolves
         /\ state' \in [Sessions -> States] /\ mtime' \in [Sessions -> Nat]
         /\ stayed' \subseteq was' /\ was' \subseteq Sessions /\ changes' \in Nat
<1> USE DEF ChoiceTypeOK, WorldOK, Given, States
<1>1. CASE Prunes
  BY <1>1 DEF Prunes, Evolves, Choice!Up, Choice!File
<1>2. CASE Becomes
  <2> DEFINE n == Cardinality(Sessions)
  <2>1. n \in Nat /\ changes \in Nat
    BY SessionsFinite
  <2>2. PICK s \in Sessions, to \in States \ {"new"} :
          /\ state[s] \in {"new", "live", "hung"}
          /\ to = "live" <=> state[s] = "new"
          /\ state' = [state EXCEPT ![s] = to]
          /\ stayed' = stayed \ {s}
          /\ was' = IF to = "live" THEN was \cup {s} ELSE was
          /\ mtime' = IF to = "live" THEN [mtime EXCEPT ![s] = 1 + n + changes] ELSE mtime
          /\ changes' = changes + 1
    BY <1>2 DEF Becomes
  <2> HIDE DEF n
  <2>3. \A t \in was : mtime'[t] = mtime[t] /\ mtime[t] < 1 + n + changes
    BY <2>1, <2>2 DEF n
  <2>4. \A t \in was' : t \in was \/ (t = s /\ to = "live" /\ mtime'[s] = 1 + n + changes)
    BY <2>1, <2>2
  <2>5. /\ state' \in [Sessions -> States] /\ mtime' \in [Sessions -> Nat]
        /\ stayed' \subseteq was' /\ was' \subseteq Sessions /\ changes' \in Nat
    BY <2>1, <2>2
  <2>6. \A t \in Sessions : t \in was' <=> state'[t] # "new"
    BY <2>2
  <2>7. \A t \in stayed' : state'[t] = "live" /\ mtime'[t] <= n
    BY <2>2, <2>3 DEF n
  <2>8. \A t \in was' : mtime'[t] \in 1 .. (n + changes')
    <3> SUFFICES ASSUME NEW t \in was' PROVE mtime'[t] \in 1 .. (n + changes')
      OBVIOUS
    <3>1. CASE t \in was
      <4>1. mtime[t] \in 1 .. (n + changes)
        BY <3>1 DEF n
      <4> QED BY <3>1, <4>1, <2>1, <2>2, <2>3
    <3> QED BY <3>1, <2>1, <2>2, <2>4
  <2>9. \A t, u \in was' : mtime'[t] = mtime'[u] => t = u
    <3> SUFFICES ASSUME NEW t \in was', NEW u \in was', mtime'[t] = mtime'[u] PROVE t = u
      OBVIOUS
    <3>0. \A v \in was : mtime[v] \in Nat
      OBVIOUS
    <3>1. CASE t \in was /\ u \in was
      BY <3>1, <2>3
    <3>2. CASE t \notin was /\ u \in was
      BY <3>0, <3>2, <2>1, <2>3, <2>4
    <3>3. CASE u \notin was /\ t \in was
      BY <3>0, <3>3, <2>1, <2>3, <2>4
    <3> QED BY <3>1, <3>2, <3>3, <2>4
  <2>10. \A t \in was : ~Choice!Up(t) => ~Choice!Up(t)'
    BY <2>2 DEF Choice!Up
  <2>11. \A t \in was : ~Choice!File(t) => ~Choice!File(t)'
    BY <2>2 DEF Choice!File
  <2>12. Evolves
    BY <2>2, <2>3, <2>10, <2>11 DEF Evolves
  <2>13. env' # 0 => env' \in was'
    BY <2>2
  <2> QED BY <2>5, <2>6, <2>7, <2>8, <2>9, <2>12, <2>13 DEF n
<1> QED BY <1>1, <1>2

\* A set of sessions that is part of another has no more of them.
LEMMA Fewer ==
  ASSUME NEW S, NEW T, S \subseteq T, T \subseteq Sessions
  PROVE  /\ Cardinality(S) \in Nat /\ Cardinality(T) \in Nat
         /\ Cardinality(S) <= Cardinality(T)
<1>1. IsFiniteSet(T)
  BY SessionsFinite, FS_Subset
<1>2. IsFiniteSet(S) /\ Cardinality(S) <= Cardinality(T)
  BY <1>1, FS_Subset
<1> QED BY <1>1, <1>2, FS_CardinalityType

\* A part of a set and one element more.
LEMMA OneMore ==
  ASSUME NEW S, NEW T, NEW g \in Sessions, S \subseteq T \cup {g}, T \subseteq Sessions
  PROVE  /\ Cardinality(S) \in Nat /\ Cardinality(T) \in Nat
         /\ Cardinality(S) <= Cardinality(T) + 1
<1>1. IsFiniteSet(T)
  BY SessionsFinite, FS_Subset
<1>2. /\ Cardinality(T) \in Nat
      /\ Cardinality(T \cup {g}) = IF g \in T THEN Cardinality(T) ELSE Cardinality(T) + 1
  BY <1>1, FS_AddElement, FS_CardinalityType
<1>3. Cardinality(S) \in Nat /\ Cardinality(S) <= Cardinality(T \cup {g})
  BY Fewer
<1> QED BY <1>2, <1>3

\* The elements of F that are not in S.
LEMMA TheRest ==
  ASSUME NEW F, NEW S, S \subseteq F, F \subseteq Sessions
  PROVE  /\ Cardinality(F \ S) \in Nat /\ Cardinality(S) \in Nat /\ Cardinality(F) \in Nat
         /\ Cardinality(F \ S) = Cardinality(F) - Cardinality(S)
<1>1. IsFiniteSet(F)
  BY SessionsFinite, FS_Subset
<1>2. Cardinality(F \ S) = Cardinality(F) - Cardinality(F \cap S)
  BY <1>1, FS_Difference
<1>3. F \cap S = S
  OBVIOUS
<1> QED BY <1>2, <1>3, Fewer

\* What a sort of the scan's result may leave at index i has, if it is still up, had
\* rank i among the live sessions.
LEMMA RankedRight ==
  ASSUME ChoiceTypeOK, WorldOK, ScanOK, \A s \in stayed \cap Uuid : s \in DOMAIN found,
         NEW i \in Int, i # 0, NEW g \in Choice!Ranked(i)
  PROVE  RankOf(g, i)
<1> DEFINE F == DOMAIN found
           less == {t \in F : found[t] < found[g]}
           leq == {t \in F : found[t] <= found[g]}
           n == Cardinality(F)
           k == IF i > 0 THEN i ELSE n + 1 + i
<1>1. g \in F /\ k <= n /\ Cardinality(less) < k /\ k <= Cardinality(leq)
  BY SameCount DEF Choice!Ranked
<1>2. g \in was \cap Uuid /\ F \subseteq Sessions /\ was \subseteq Sessions /\ stayed \subseteq was
  BY <1>1 DEF ScanOK, ChoiceTypeOK
<1>3. SUFFICES ASSUME Choice!Up(g)
               PROVE  \/ /\ i > 0
                         /\ Cardinality(Older(stayed, g)) < i
                         /\ i <= Cardinality(Older(was, g) \cup Ended) + 1
                      \/ /\ i < 0
                         /\ Cardinality(Newer(stayed, g)) < -i
                         /\ -i <= Cardinality(Newer(was, g)) + 1
  BY <1>2 DEF RankOf, Ended
<1>4. \A t \in Sessions : Choice!Up(t) => Choice!File(t)
  BY DEF Choice!Up, Choice!File
<1>5. found[g] = mtime[g] /\ mtime[g] \in Nat /\ mtime[g] > 0
  <2>1. found[g] = mtime[g]
    BY <1>1, <1>2, <1>3, <1>4 DEF ScanOK
  <2>2. mtime[g] \in 1 .. (Cardinality(Sessions) + changes) /\ changes \in Nat
    BY <1>2 DEF WorldOK, ChoiceTypeOK
  <2> QED BY <2>1, <2>2, SessionsFinite
<1>6. \A t \in F : /\ t \in was \cap Uuid /\ mtime[t] \in Nat /\ found[t] \in Nat
                   /\ found[t] = mtime[t] \/ (found[t] = 0 /\ t \in Ended)
  BY <1>2, <1>4 DEF ScanOK, ChoiceTypeOK, Ended
<1>7. \A t \in stayed \cap Uuid : t \in F /\ found[t] = mtime[t]
  <2>1. \A t \in stayed : Choice!File(t)
    BY DEF WorldOK, Choice!File
  <2> QED BY <2>1 DEF ScanOK
<1>8. \A t \in F : found[t] = mtime[t] /\ found[t] = found[g] => t = g
  BY <1>1, <1>2, <1>5, <1>6 DEF WorldOK
<1>9. Older(stayed, g) \subseteq less
  BY <1>5, <1>7 DEF Older
<1>10. leq \subseteq (Older(was, g) \cup Ended) \cup {g}
  BY <1>5, <1>6, <1>8 DEF Older
<1>11. Newer(stayed, g) \subseteq F \ leq
  BY <1>5, <1>6, <1>7 DEF Newer
<1>12. F \ less \subseteq Newer(was, g) \cup {g}
  BY <1>5, <1>6, <1>8 DEF Newer
<1>13. less \subseteq F /\ leq \subseteq F
  OBVIOUS
<1>14. /\ Older(was, g) \cup Ended \subseteq Sessions /\ Newer(was, g) \subseteq Sessions
  BY <1>2 DEF Older, Newer, Ended
<1> HIDE DEF F, less, leq
<1>15. n \in Nat
  BY <1>2, Fewer
<1>16. CASE i > 0
  <2>1. Cardinality(Older(stayed, g)) \in Nat /\ Cardinality(less) \in Nat
        /\ Cardinality(Older(stayed, g)) <= Cardinality(less)
    BY <1>2, <1>9, <1>13, Fewer
  <2>2. /\ Cardinality(leq) \in Nat /\ Cardinality(Older(was, g) \cup Ended) \in Nat
        /\ Cardinality(leq) <= Cardinality(Older(was, g) \cup Ended) + 1
    BY <1>2, <1>10, <1>14, OneMore
  <2> QED BY <1>1, <1>16, <2>1, <2>2
<1>17. CASE i < 0
  <2>1. /\ Cardinality(F \ leq) \in Nat /\ Cardinality(leq) \in Nat
        /\ Cardinality(F \ leq) = n - Cardinality(leq)
    BY <1>2, <1>13, TheRest
  <2>2. /\ Cardinality(F \ less) \in Nat /\ Cardinality(less) \in Nat
        /\ Cardinality(F \ less) = n - Cardinality(less)
    BY <1>2, <1>13, TheRest
  <2>3. Cardinality(Newer(stayed, g)) \in Nat /\ Cardinality(Newer(stayed, g)) <= Cardinality(F \ leq)
    BY <1>2, <1>11, Fewer
  <2>4. /\ Cardinality(Newer(was, g)) \in Nat
        /\ Cardinality(F \ less) <= Cardinality(Newer(was, g)) + 1
    BY <1>2, <1>12, <1>14, OneMore
  <2>5. k = n + 1 + i
    BY <1>17
  <2> HIDE DEF n, k
  <2>6. -i <= Cardinality(F \ less)
    BY <1>1, <1>15, <2>2, <2>5
  <2>7. Cardinality(F \ leq) < -i
    BY <1>1, <1>15, <2>1, <2>5
  <2> QED BY <1>17, <2>1, <2>2, <2>3, <2>4, <2>6, <2>7
<1> QED BY <1>16, <1>17

\* Once a session has had rank i it keeps it, as far as sessions come and go.
LEMMA RankKept ==
  ASSUME ChoiceTypeOK, Evolves, was' \subseteq Sessions, NEW g, NEW i \in Int, RankOf(g, i)
  PROVE  /\ g \in was' \cap Uuid
         /\ \/ g \in Ended'
            \/ /\ i > 0
               /\ Cardinality({t \in stayed' \cap Uuid : mtime'[t] < mtime'[g]}) < i
               /\ i <= Cardinality({t \in was' \cap Uuid : mtime'[t] < mtime'[g]} \cup Ended') + 1
            \/ /\ i < 0
               /\ Cardinality({t \in stayed' \cap Uuid : mtime'[t] > mtime'[g]}) < -i
               /\ -i <= Cardinality({t \in was' \cap Uuid : mtime'[t] > mtime'[g]}) + 1
<1> DEFINE older(set) == {t \in set \cap Uuid : mtime'[t] < mtime'[g]}
           newer(set) == {t \in set \cap Uuid : mtime'[t] > mtime'[g]}
<1>1. /\ g \in was \cap Uuid /\ was \subseteq was' /\ stayed' \subseteq stayed /\ stayed \subseteq was
      /\ \A t \in was : mtime'[t] = mtime[t]
  BY DEF RankOf, Evolves, ChoiceTypeOK
<1>2. Ended \subseteq Ended'
  BY <1>1 DEF Ended, Evolves, Uuid, Choice!Uuid
<1>3. older(stayed') \subseteq Older(stayed, g) /\ newer(stayed') \subseteq Newer(stayed, g)
  BY <1>1 DEF Older, Newer
<1>4. Older(was, g) \subseteq older(was') /\ Newer(was, g) \subseteq newer(was')
  BY <1>1 DEF Older, Newer
<1>5. /\ older(was') \cup Ended' \subseteq Sessions /\ newer(was') \subseteq Sessions
      /\ Older(stayed, g) \subseteq Sessions /\ Newer(stayed, g) \subseteq Sessions
  BY <1>1 DEF Older, Newer, Ended, Uuid, Choice!Uuid
<1>6. Older(was, g) \cup Ended \subseteq older(was') \cup Ended'
  BY <1>2, <1>4
<1> HIDE DEF older, newer
<1>7. /\ Cardinality(older(stayed')) \in Nat /\ Cardinality(Older(stayed, g)) \in Nat
      /\ Cardinality(older(stayed')) <= Cardinality(Older(stayed, g))
  BY <1>3, <1>5, Fewer
<1>8. /\ Cardinality(newer(stayed')) \in Nat /\ Cardinality(Newer(stayed, g)) \in Nat
      /\ Cardinality(newer(stayed')) <= Cardinality(Newer(stayed, g))
  BY <1>3, <1>5, Fewer
<1>9. /\ Cardinality(Older(was, g) \cup Ended) \in Nat
      /\ Cardinality(older(was') \cup Ended') \in Nat
      /\ Cardinality(Older(was, g) \cup Ended) <= Cardinality(older(was') \cup Ended')
  BY <1>5, <1>6, Fewer
<1>10. /\ Cardinality(Newer(was, g)) \in Nat /\ Cardinality(newer(was')) \in Nat
       /\ Cardinality(Newer(was, g)) <= Cardinality(newer(was'))
  BY <1>4, <1>5, Fewer
<1>11. \/ g \in Ended'
       \/ /\ i > 0
          /\ Cardinality(older(stayed')) < i
          /\ i <= Cardinality(older(was') \cup Ended') + 1
       \/ /\ i < 0
          /\ Cardinality(newer(stayed')) < -i
          /\ -i <= Cardinality(newer(was')) + 1
  BY <1>2, <1>7, <1>8, <1>9, <1>10 DEF RankOf
<1> QED BY <1>1, <1>11 DEF older, newer

LocalTypeOK ==
  /\ scanned \subseteq Sessions /\ DOMAIN found \subseteq Sessions
  /\ statting \in Sessions \cup {0} /\ target \in Sessions \cup {0}
  /\ acted \subseteq Sessions /\ failures \in Nat

LocalInv == LocalTypeOK /\ StepsOK /\ ScanOK /\ LoopOK /\ NamedOK /\ SelfOK /\ RankOK

\* The command does not move: what it knows stays true while sessions come and go.
LEMMA CommandWaits ==
  ASSUME ChoiceInv, UNCHANGED Given, UNCHANGED Choice!local, Evolves, was' \subseteq Sessions
  PROVE  LocalInv'
<1> USE DEF Given, Choice!local
<1>1. LocalTypeOK' /\ StepsOK' /\ LoopOK' /\ NamedOK'
  BY DEF ChoiceInv, ChoiceTypeOK, LocalTypeOK, StepsOK, LoopOK, NamedOK, Evolves, Uuid, Choice!Uuid
<1>2. ScanOK'
  <2>1. ASSUME NEW s \in DOMAIN found
        PROVE  s \in was' /\ s \in Uuid /\ (found[s] = mtime'[s] \/ (found[s] = 0 /\ ~Choice!File(s)'))
    BY <2>1 DEF ChoiceInv, ScanOK, Evolves
  <2> QED BY <2>1 DEF ChoiceInv, ScanOK, Evolves, Uuid, Choice!Uuid, Choice!File
<1>3. SelfOK'
  <2>1. verb = "attach" /\ step = "connect" /\ target = env => env \in was
    BY DEF ChoiceInv, NamedOK, WorldOK
  <2>2. env \in was /\ ~Choice!File(env) => ~Choice!File(env)'
    BY DEF Evolves, Choice!File
  <2> QED BY <2>1, <2>2 DEF ChoiceInv, SelfOK
<1>4. RankOK'
  <2> SUFFICES ASSUME verb \in {"attach", "status"}, sel.kind = "index", target # 0
               PROVE  RankOf(target, sel.i)'
    BY DEF RankOK
  <2>1. RankOf(target, sel.i) /\ sel.i \in Int
    BY DEF ChoiceInv, RankOK, ChoiceTypeOK, Choice!Selectors
  <2> QED BY <2>1, RankKept DEF RankOf, Older, Newer, ChoiceInv, Uuid, Choice!Uuid
<1> QED BY <1>1, <1>2, <1>3, <1>4 DEF LocalInv

\* What a selector is.
LEMMA SelectorTypes ==
  ASSUME sel \in Choice!Selectors
  PROVE  /\ sel.kind \in {"id", "path", "alias", "index", "none"}
         /\ sel.kind \in {"id", "path", "alias"} => sel.s \in Sessions
         /\ sel.kind = "index" => sel.i \in Int
BY DEF Choice!Selectors

\* The selector is read.
LEMMA BeginStep ==
  ASSUME ChoiceInv, Choice!Begin
  PROVE  LocalInv'
<1>1. /\ step = "start"
      /\ UNCHANGED Given
      /\ UNCHANGED <<scanned, found, statting, acted, failures>>
      /\ UNCHANGED <<state, mtime, stayed, was, changes>>
  BY DEF Choice!Begin, Choice!Keep, Choice!world, Given
<1>2. \/ verb \in {"kill --all", "list"} /\ step' = "scan" /\ target' = target
      \/ /\ verb \in {"attach", "status"}
         /\ \/ sel.kind \in {"path", "alias"} /\ step' = "path" /\ target' = sel.s
            \/ sel.kind = "index" /\ step' = "done" /\ target' = target
            \/ sel.kind = "index" /\ sel.i # 0 /\ step' = "scan" /\ target' = target
            \/ sel.kind = "id" /\ step' = "resolve" /\ target' = sel.s
            \/ sel.kind = "none" /\ step' = "done" /\ target' = target
            \/ sel.kind = "none" /\ verb = "status" /\ env # 0 /\ step' = "env" /\ target' = target
  <2>1. CASE verb \in {"kill --all", "list"}
    BY <2>1 DEF Choice!Begin
  <2>2. CASE verb \in {"attach", "status"}
    <3>1. CASE sel.kind \in {"path", "alias"}
      BY <2>2, <3>1 DEF Choice!Begin
    <3>2. CASE sel.kind = "index"
      BY <2>2, <3>2 DEF Choice!Begin, Choice!Exit
    <3>3. CASE sel.kind = "id"
      BY <2>2, <3>3 DEF Choice!Begin
    <3>4. CASE sel.kind = "none"
      BY <2>2, <3>4 DEF Choice!Begin, Choice!Exit, Choice!None
    <3> QED BY <2>2, <3>1, <3>2, <3>3, <3>4, SelectorTypes DEF ChoiceInv, ChoiceTypeOK
  <2> QED BY <2>1, <2>2 DEF Choice!Begin
<1>3. ChoiceTypeOK /\ StepsOK /\ WorldOK /\ ScanOK /\ LoopOK /\ NamedOK /\ SelfOK /\ RankOK
  BY DEF ChoiceInv
<1>4. sel.kind \in {"id", "path", "alias"} => sel.s \in Sessions
  BY <1>3, SelectorTypes DEF ChoiceTypeOK
<1>5. 0 \notin Sessions
  BY SessionsFinite
<1> USE DEF Given
<1>6. LocalTypeOK' /\ StepsOK'
  BY <1>1, <1>2, <1>3, <1>4 DEF LocalTypeOK, ChoiceTypeOK, StepsOK
<1>7. ScanOK'
  BY <1>1, <1>2, <1>3 DEF ScanOK, Choice!File, Uuid, Choice!Uuid
<1>8. LoopOK'
  BY <1>1, <1>2, <1>3 DEF LoopOK
<1>9. NamedOK' /\ SelfOK'
  BY <1>1, <1>2, <1>3, <1>4, <1>5 DEF NamedOK, SelfOK, ChoiceTypeOK
<1>10. RankOK'
  BY <1>1, <1>2, <1>3 DEF RankOK, NamedOK
<1> QED BY <1>6, <1>7, <1>8, <1>9, <1>10 DEF LocalInv

\* A socket path is taken as it is, unless attach sees that it is its own.
LEMMA GivenPathStep ==
  ASSUME ChoiceInv, Choice!GivenPath
  PROVE  LocalInv'
<1>1. /\ UNCHANGED Given
      /\ UNCHANGED <<scanned, found, statting, target, acted, failures>>
      /\ UNCHANGED <<state, mtime, stayed, was, changes>>
  BY DEF Choice!GivenPath, Choice!Keep, Choice!world, Given
<1>2. /\ step = "path"
      /\ \/ step' = "done" /\ verb = "attach"
         \/ step' = "connect" /\ ~(verb = "attach" /\ Choice!PathIsSelf)
  BY DEF Choice!GivenPath, Choice!Exit
<1>3. ChoiceTypeOK /\ StepsOK /\ WorldOK /\ ScanOK /\ LoopOK /\ NamedOK /\ SelfOK /\ RankOK
  BY DEF ChoiceInv
<1>4. /\ sel.kind \in {"id", "path", "alias"} => sel.s \in Sessions
      /\ sel.kind = "index" => sel.i \in Int
  BY <1>3, SelectorTypes DEF ChoiceTypeOK
<1>5. 0 \notin Sessions
  BY SessionsFinite
<1> USE DEF Given
<1>6. LocalTypeOK' /\ StepsOK'
  BY <1>1, <1>2, <1>3, <1>4, <1>5 DEF LocalTypeOK, ChoiceTypeOK, StepsOK
<1>7. ScanOK'
  BY <1>1, <1>2, <1>3, <1>4, <1>5 DEF ScanOK, Choice!File, Uuid, Choice!Uuid
<1>8. LoopOK'
  BY <1>1, <1>2, <1>3, <1>4, <1>5 DEF LoopOK, StepsOK, Uuid, Choice!Uuid
<1>9. NamedOK'
  BY <1>1, <1>2, <1>3, <1>4, <1>5 DEF NamedOK, StepsOK, ChoiceTypeOK
<1>10. SelfOK'
  <2>1. verb = "attach" => target = sel.s /\ target # 0 /\ sel.kind \in {"path", "alias"} /\ acted = {}
    BY <1>2, <1>3 DEF NamedOK
  <2>2. ASSUME verb = "attach", target = env, ~Choice!PathIsSelf
        PROVE  env \in OldSessions \/ ~dirOk \/ ~Choice!File(env)
    BY <1>3, <2>1, <2>2 DEF Choice!PathIsSelf, Choice!Uuid, Choice!None, ChoiceTypeOK
  <2> QED BY <1>1, <1>2, <2>1, <2>2 DEF SelfOK, Choice!File
<1>11. RankOK'
  BY <1>1, <1>2, <1>3, <1>4, <1>5 DEF RankOK, NamedOK, RankOf, Older, Newer, Ended, Choice!Up, Uuid, Choice!Uuid
<1> QED BY <1>6, <1>7, <1>8, <1>9, <1>10, <1>11 DEF LocalInv

\* The shell's session, or an error.
LEMMA FromEnvStep ==
  ASSUME ChoiceInv, Choice!FromEnv
  PROVE  LocalInv'
<1>1. /\ UNCHANGED Given
      /\ UNCHANGED <<scanned, found, statting, acted, failures>>
      /\ UNCHANGED <<state, mtime, stayed, was, changes>>
  BY DEF Choice!FromEnv, Choice!Keep, Choice!world, Given
<1>2. /\ step = "env"
      /\ \/ step' = "done" /\ target' = target
         \/ step' = "resolve" /\ target' = env /\ env \in Uuid
  BY DEF Choice!FromEnv, Choice!Exit, Uuid
<1>3. ChoiceTypeOK /\ StepsOK /\ WorldOK /\ ScanOK /\ LoopOK /\ NamedOK /\ SelfOK /\ RankOK
  BY DEF ChoiceInv
<1>4. /\ sel.kind \in {"id", "path", "alias"} => sel.s \in Sessions
      /\ sel.kind = "index" => sel.i \in Int
  BY <1>3, SelectorTypes DEF ChoiceTypeOK
<1>5. 0 \notin Sessions /\ Uuid \subseteq Sessions
  BY SessionsFinite DEF Uuid, Choice!Uuid
<1> USE DEF Given
<1>6. LocalTypeOK' /\ StepsOK'
  BY <1>1, <1>2, <1>3, <1>4, <1>5 DEF LocalTypeOK, ChoiceTypeOK, StepsOK
<1>7. ScanOK'
  BY <1>1, <1>2, <1>3, <1>4, <1>5 DEF ScanOK, Choice!File, Uuid, Choice!Uuid
<1>8. LoopOK'
  BY <1>1, <1>2, <1>3, <1>4, <1>5 DEF LoopOK, StepsOK, Uuid, Choice!Uuid
<1>9. NamedOK'
  BY <1>1, <1>2, <1>3, <1>4, <1>5 DEF NamedOK, StepsOK, ChoiceTypeOK
<1>10. SelfOK'
  BY <1>1, <1>2, <1>3, <1>4, <1>5 DEF SelfOK, NamedOK, ChoiceTypeOK, Choice!File
<1>11. RankOK'
  BY <1>1, <1>2, <1>3, <1>4, <1>5 DEF RankOK, NamedOK, RankOf, Older, Newer, Ended, Choice!Up, Uuid, Choice!Uuid
<1> QED BY <1>6, <1>7, <1>8, <1>9, <1>10, <1>11 DEF LocalInv

\* One entry of the directory: a session that stayed is live, and is taken.
LEMMA ScanEntryStep ==
  ASSUME ChoiceInv, NEW s \in Sessions, Choice!ScanEntry(s)
  PROVE  LocalInv'
<1>1. /\ UNCHANGED Given
      /\ UNCHANGED <<step, found, target, acted, failures>>
      /\ UNCHANGED <<state, mtime, stayed, was, changes>>
  BY DEF Choice!ScanEntry, Choice!Keep, Choice!world, Given
<1>2. /\ step = "scan" /\ statting = 0 /\ Choice!File(s) /\ scanned' = scanned \cup {s}
      /\ \/ s \in Uuid /\ statting' = s
         \/ statting' = statting /\ ~(s \in Uuid /\ state[s] = "live")
  BY DEF Choice!ScanEntry, Choice!None, Choice!Uuid, Choice!Up, Uuid
<1>3. ChoiceTypeOK /\ StepsOK /\ WorldOK /\ ScanOK /\ LoopOK /\ NamedOK /\ SelfOK /\ RankOK
  BY DEF ChoiceInv
<1>4. /\ sel.kind \in {"id", "path", "alias"} => sel.s \in Sessions
      /\ sel.kind = "index" => sel.i \in Int
  BY <1>3, SelectorTypes DEF ChoiceTypeOK
<1>5. 0 \notin Sessions /\ s \in was
  BY <1>2, <1>3, SessionsFinite DEF WorldOK, Choice!File
<1> USE DEF Given
<1>6. LocalTypeOK' /\ StepsOK'
  BY <1>1, <1>2, <1>3, <1>4, <1>5 DEF LocalTypeOK, ChoiceTypeOK, StepsOK
<1>7. ScanOK'
  BY <1>1, <1>2, <1>3, <1>4, <1>5 DEF ScanOK, WorldOK, Choice!File, Uuid, Choice!Uuid
<1>8. LoopOK'
  BY <1>1, <1>2, <1>3, <1>4, <1>5 DEF LoopOK, StepsOK, Uuid, Choice!Uuid
<1>9. NamedOK'
  BY <1>1, <1>2, <1>3, <1>4, <1>5 DEF NamedOK, StepsOK, ChoiceTypeOK
<1>10. SelfOK'
  BY <1>1, <1>2, <1>3, <1>4, <1>5 DEF SelfOK, NamedOK, ChoiceTypeOK, Choice!File
<1>11. RankOK'
  BY <1>1, <1>2, <1>3, <1>4, <1>5 DEF RankOK, NamedOK, RankOf, Older, Newer, Ended, Choice!Up, Uuid, Choice!Uuid
<1> QED BY <1>6, <1>7, <1>8, <1>9, <1>10, <1>11 DEF LocalInv

\* The mtime is read, or the socket is gone.
LEMMA ScanStatStep ==
  ASSUME ChoiceInv, Choice!ScanStat
  PROVE  LocalInv'
<1>1. /\ UNCHANGED Given
      /\ UNCHANGED <<step, scanned, target, acted, failures>>
      /\ UNCHANGED <<state, mtime, stayed, was, changes>>
  BY DEF Choice!ScanStat, Choice!Keep, Choice!world, Given
<1>2. /\ statting # 0 /\ statting' = 0
      /\ found' = [s \in DOMAIN found \cup {statting} |->
                     IF s # statting THEN found[s] ELSE IF Choice!File(s) THEN mtime[s] ELSE 0]
  BY DEF Choice!ScanStat, Choice!None
<1>3. ChoiceTypeOK /\ StepsOK /\ WorldOK /\ ScanOK /\ LoopOK /\ NamedOK /\ SelfOK /\ RankOK
  BY DEF ChoiceInv
<1>4. /\ sel.kind \in {"id", "path", "alias"} => sel.s \in Sessions
      /\ sel.kind = "index" => sel.i \in Int
  BY <1>3, SelectorTypes DEF ChoiceTypeOK
<1>5. 0 \notin Sessions
  BY SessionsFinite
<1> USE DEF Given
<1>6. LocalTypeOK' /\ StepsOK'
  BY <1>1, <1>2, <1>3, <1>4, <1>5 DEF LocalTypeOK, ChoiceTypeOK, StepsOK
<1>7. ScanOK'
  BY <1>1, <1>2, <1>3, <1>4, <1>5 DEF ScanOK, Choice!File, Uuid, Choice!Uuid
<1>8. LoopOK'
  BY <1>1, <1>2, <1>3, <1>4, <1>5 DEF LoopOK, ScanOK, StepsOK, Uuid, Choice!Uuid
<1>9. NamedOK'
  BY <1>1, <1>2, <1>3, <1>4, <1>5 DEF NamedOK, StepsOK, ChoiceTypeOK
<1>10. SelfOK'
  BY <1>1, <1>2, <1>3, <1>4, <1>5 DEF SelfOK, NamedOK, ChoiceTypeOK, Choice!File
<1>11. RankOK'
  BY <1>1, <1>2, <1>3, <1>4, <1>5 DEF RankOK, NamedOK, RankOf, Older, Newer, Ended, Choice!Up, Uuid, Choice!Uuid
<1> QED BY <1>6, <1>7, <1>8, <1>9, <1>10, <1>11 DEF LocalInv

\* The end of the scan: none that stayed was missed, and the index is the rank asked for.
LEMMA ScanEndStep ==
  ASSUME ChoiceInv, Choice!ScanEnd
  PROVE  LocalInv'
<1>1. /\ UNCHANGED Given
      /\ UNCHANGED <<scanned, found, statting, acted, failures>>
      /\ UNCHANGED <<state, mtime, stayed, was, changes>>
  BY DEF Choice!ScanEnd, Choice!Keep, Choice!world, Given
<1>2. step = "scan" /\ statting = 0
  BY DEF Choice!ScanEnd, Choice!None
<1>12. \A s \in stayed \cap Uuid : s \in DOMAIN found
  <2>1. \A s \in stayed : s \in Sessions /\ Choice!File(s) /\ mtime[s] <= Cardinality(Sessions)
    BY DEF ChoiceInv, ChoiceTypeOK, WorldOK, Choice!File
  <2>2. {s \in Sessions : Choice!File(s) /\ mtime[s] <= Cardinality(Sessions)} \subseteq scanned
    BY SameCount DEF Choice!ScanEnd
  <2> QED BY <1>2, <2>1, <2>2, SessionsFinite DEF ChoiceInv, ScanOK, ChoiceTypeOK
<1>13. \/ verb = "list" /\ step' = "query" /\ target' = target
       \/ verb = "kill --all" /\ DOMAIN found = {} /\ step' = "done" /\ target' = target
       \/ verb = "kill --all" /\ step' = "kill" /\ target' = target
       \/ /\ verb \in {"attach", "status"}
          /\ \/ step' = "done" /\ target' = target
             \/ step' = "resolve" /\ target' \in Choice!Ranked(sel.i)
  <2>1. CASE verb = "list"
    BY <2>1 DEF Choice!ScanEnd
  <2>2. CASE verb = "kill --all"
    BY <2>2 DEF Choice!ScanEnd, Choice!Exit
  <2>3. CASE verb \in {"attach", "status"}
    BY <2>3 DEF Choice!ScanEnd, Choice!Exit
  <2> QED BY <1>2, <2>1, <2>2, <2>3 DEF ChoiceInv, ChoiceTypeOK, StepsOK, Choice!Verbs
<1>3. ChoiceTypeOK /\ StepsOK /\ WorldOK /\ ScanOK /\ LoopOK /\ NamedOK /\ SelfOK /\ RankOK
  BY DEF ChoiceInv
<1>4. /\ sel.kind \in {"id", "path", "alias"} => sel.s \in Sessions
      /\ sel.kind = "index" => sel.i \in Int
  BY <1>3, SelectorTypes DEF ChoiceTypeOK
<1>5. 0 \notin Sessions
  BY SessionsFinite
<1> USE DEF Given
<1>14. target' \in Choice!Ranked(sel.i) => target' \in DOMAIN found
  BY DEF Choice!Ranked
<1>6. LocalTypeOK' /\ StepsOK'
  BY <1>1, <1>2, <1>3, <1>4, <1>5, <1>12, <1>13, <1>14 DEF LocalTypeOK, ChoiceTypeOK, StepsOK
<1>7. ScanOK'
  BY <1>1, <1>2, <1>3, <1>4, <1>5, <1>12, <1>13, <1>14 DEF ScanOK, Choice!File, Uuid, Choice!Uuid
<1>8. LoopOK'
  BY <1>1, <1>2, <1>3, <1>4, <1>5, <1>12, <1>13, <1>14 DEF LoopOK, StepsOK, Uuid, Choice!Uuid
<1>9. NamedOK'
  BY <1>1, <1>2, <1>3, <1>4, <1>5, <1>12, <1>13, <1>14 DEF NamedOK, StepsOK, ChoiceTypeOK
<1>10. SelfOK'
  BY <1>1, <1>2, <1>3, <1>4, <1>5, <1>12, <1>13, <1>14 DEF SelfOK, NamedOK, ChoiceTypeOK, Choice!File
<1>11. RankOK'
  <2> SUFFICES ASSUME verb \in {"attach", "status"}, sel.kind = "index", target' # 0
               PROVE  RankOf(target, sel.i)'
    BY <1>1 DEF RankOK
  <2>1. target' \in Choice!Ranked(sel.i) /\ sel.i \in Int /\ sel.i # 0
    BY <1>2, <1>3, <1>4, <1>13 DEF NamedOK
  <2>2. PICK g : g = target' /\ RankOf(g, sel.i)
    BY <1>3, <1>12, <2>1, RankedRight
  <2> QED BY <1>1, <2>2 DEF RankOf, Older, Newer, Ended, Choice!Up, Uuid, Choice!Uuid
<1> QED BY <1>6, <1>7, <1>8, <1>9, <1>10, <1>11 DEF LocalInv

\* attach refuses the session it runs in, and an old name is refused.
LEMMA ResolveStep ==
  ASSUME ChoiceInv, Choice!Resolve
  PROVE  LocalInv'
<1>1. /\ UNCHANGED Given
      /\ UNCHANGED <<scanned, found, statting, target, acted, failures>>
      /\ UNCHANGED <<state, mtime, stayed, was, changes>>
  BY DEF Choice!Resolve, Choice!Keep, Choice!world, Given
<1>2. /\ step = "resolve"
      /\ step' = "done" \/ (step' = "connect" /\ ~(verb = "attach" /\ target = env))
  BY DEF Choice!Resolve, Choice!Exit
<1>3. ChoiceTypeOK /\ StepsOK /\ WorldOK /\ ScanOK /\ LoopOK /\ NamedOK /\ SelfOK /\ RankOK
  BY DEF ChoiceInv
<1>4. /\ sel.kind \in {"id", "path", "alias"} => sel.s \in Sessions
      /\ sel.kind = "index" => sel.i \in Int
  BY <1>3, SelectorTypes DEF ChoiceTypeOK
<1>5. 0 \notin Sessions
  BY SessionsFinite
<1> USE DEF Given
<1>6. LocalTypeOK' /\ StepsOK'
  BY <1>1, <1>2, <1>3, <1>4, <1>5 DEF LocalTypeOK, ChoiceTypeOK, StepsOK
<1>7. ScanOK'
  BY <1>1, <1>2, <1>3, <1>4, <1>5 DEF ScanOK, Choice!File, Uuid, Choice!Uuid
<1>8. LoopOK'
  BY <1>1, <1>2, <1>3, <1>4, <1>5 DEF LoopOK, StepsOK, Uuid, Choice!Uuid
<1>9. NamedOK'
  BY <1>1, <1>2, <1>3, <1>4, <1>5 DEF NamedOK, StepsOK, ChoiceTypeOK
<1>10. SelfOK'
  BY <1>1, <1>2, <1>3, <1>4, <1>5 DEF SelfOK, NamedOK, ChoiceTypeOK, Choice!File
<1>11. RankOK'
  BY <1>1, <1>2, <1>3, <1>4, <1>5 DEF RankOK, NamedOK, RankOf, Older, Newer, Ended, Choice!Up, Uuid, Choice!Uuid
<1> QED BY <1>6, <1>7, <1>8, <1>9, <1>10, <1>11 DEF LocalInv

\* The connection.
LEMMA ConnectStep ==
  ASSUME ChoiceInv, Choice!Connect
  PROVE  LocalInv'
<1>1. /\ UNCHANGED Given
      /\ UNCHANGED <<scanned, found, statting, target, failures>>
      /\ UNCHANGED <<state, mtime, stayed, was, changes>>
  BY DEF Choice!Connect, Choice!Keep, Choice!world, Given
<1>2. /\ step = "connect" /\ step' = "done"
      /\ \/ Choice!File(target) /\ acted' = acted \cup {target}
         \/ acted' = acted
  BY DEF Choice!Connect, Choice!Exit, Choice!Up, Choice!File
<1>3. ChoiceTypeOK /\ StepsOK /\ WorldOK /\ ScanOK /\ LoopOK /\ NamedOK /\ SelfOK /\ RankOK
  BY DEF ChoiceInv
<1>4. /\ sel.kind \in {"id", "path", "alias"} => sel.s \in Sessions
      /\ sel.kind = "index" => sel.i \in Int
  BY <1>3, SelectorTypes DEF ChoiceTypeOK
<1>5. 0 \notin Sessions
  BY SessionsFinite
<1> USE DEF Given
<1>6. LocalTypeOK' /\ StepsOK'
  BY <1>1, <1>2, <1>3, <1>4, <1>5 DEF LocalTypeOK, ChoiceTypeOK, NamedOK, StepsOK, Choice!Verbs
<1>7. ScanOK'
  BY <1>1, <1>2, <1>3, <1>4, <1>5 DEF ScanOK, Choice!File, Uuid, Choice!Uuid
<1>8. LoopOK'
  BY <1>1, <1>2, <1>3, <1>4, <1>5 DEF LoopOK, StepsOK, ChoiceTypeOK, Uuid, Choice!Uuid
<1>9. NamedOK'
  BY <1>1, <1>2, <1>3, <1>4, <1>5 DEF NamedOK, StepsOK, ChoiceTypeOK
<1>10. SelfOK'
  BY <1>1, <1>2, <1>3, <1>4, <1>5 DEF SelfOK, NamedOK, StepsOK, ChoiceTypeOK, Choice!File
<1>11. RankOK'
  BY <1>1, <1>2, <1>3, <1>4, <1>5 DEF RankOK, NamedOK, RankOf, Older, Newer, Ended, Choice!Up, Uuid, Choice!Uuid
<1> QED BY <1>6, <1>7, <1>8, <1>9, <1>10, <1>11 DEF LocalInv

\* kill --all: the oldest that is left is signalled, or counts as a failure.
LEMMA KillNextStep ==
  ASSUME ChoiceInv, Choice!KillNext
  PROVE  LocalInv'
<1>1. /\ UNCHANGED Given
      /\ UNCHANGED <<step, scanned, statting, target, result>>
      /\ UNCHANGED <<state, mtime, stayed, was, changes>>
  BY DEF Choice!KillNext, Choice!Keep, Choice!world, Given
<1>2. PICK s \in DOMAIN found :
        /\ step = "kill"
        /\ found' = [t \in DOMAIN found \ {s} |-> found[t]]
        /\ \/ acted' = acted \cup {s} /\ failures' = failures
           \/ failures' = failures + 1 /\ acted' = acted
  BY DEF Choice!KillNext, Choice!Ranked
<1>3. ChoiceTypeOK /\ StepsOK /\ WorldOK /\ ScanOK /\ LoopOK /\ NamedOK /\ SelfOK /\ RankOK
  BY DEF ChoiceInv
<1>4. /\ sel.kind \in {"id", "path", "alias"} => sel.s \in Sessions
      /\ sel.kind = "index" => sel.i \in Int
  BY <1>3, SelectorTypes DEF ChoiceTypeOK
<1>5. 0 \notin Sessions
  BY SessionsFinite
<1> USE DEF Given
<1>6. LocalTypeOK' /\ StepsOK'
  BY <1>1, <1>2, <1>3, <1>4, <1>5 DEF LocalTypeOK, ChoiceTypeOK, StepsOK
<1>7. ScanOK'
  BY <1>1, <1>2, <1>3, <1>4, <1>5 DEF ScanOK, Choice!File, Uuid, Choice!Uuid
<1>8. LoopOK'
  BY <1>1, <1>2, <1>3, <1>4, <1>5 DEF LoopOK, StepsOK, ChoiceTypeOK, Uuid, Choice!Uuid
<1>9. NamedOK'
  BY <1>1, <1>2, <1>3, <1>4, <1>5 DEF NamedOK, StepsOK, ChoiceTypeOK
<1>10. SelfOK'
  BY <1>1, <1>2, <1>3, <1>4, <1>5 DEF SelfOK, NamedOK, StepsOK, ChoiceTypeOK, Choice!File
<1>11. RankOK'
  BY <1>1, <1>2, <1>3, <1>4, <1>5 DEF RankOK, NamedOK, RankOf, Older, Newer, Ended, Choice!Up, Uuid, Choice!Uuid
<1> QED BY <1>6, <1>7, <1>8, <1>9, <1>10, <1>11 DEF LocalInv

\* kill --all is through.
LEMMA KillAllEndStep ==
  ASSUME ChoiceInv, Choice!KillAllEnd
  PROVE  LocalInv'
<1>1. /\ UNCHANGED Given
      /\ UNCHANGED <<scanned, found, statting, target, acted, failures>>
      /\ UNCHANGED <<state, mtime, stayed, was, changes>>
  BY DEF Choice!KillAllEnd, Choice!Keep, Choice!world, Given
<1>2. /\ step = "kill" /\ step' = "done" /\ DOMAIN found = {}
      /\ result' = "0" => ~(failures > 0)
  BY DEF Choice!KillAllEnd, Choice!Exit
<1>3. ChoiceTypeOK /\ StepsOK /\ WorldOK /\ ScanOK /\ LoopOK /\ NamedOK /\ SelfOK /\ RankOK
  BY DEF ChoiceInv
<1>4. /\ sel.kind \in {"id", "path", "alias"} => sel.s \in Sessions
      /\ sel.kind = "index" => sel.i \in Int
  BY <1>3, SelectorTypes DEF ChoiceTypeOK
<1>5. 0 \notin Sessions
  BY SessionsFinite
<1> USE DEF Given
<1>6. LocalTypeOK' /\ StepsOK'
  BY <1>1, <1>2, <1>3, <1>4, <1>5 DEF LocalTypeOK, ChoiceTypeOK, StepsOK
<1>7. ScanOK'
  BY <1>1, <1>2, <1>3, <1>4, <1>5 DEF ScanOK, Choice!File, Uuid, Choice!Uuid
<1>8. LoopOK'
  BY <1>1, <1>2, <1>3, <1>4, <1>5 DEF LoopOK, StepsOK, ChoiceTypeOK, Uuid, Choice!Uuid
<1>9. NamedOK'
  BY <1>1, <1>2, <1>3, <1>4, <1>5 DEF NamedOK, StepsOK, ChoiceTypeOK
<1>10. SelfOK'
  BY <1>1, <1>2, <1>3, <1>4, <1>5 DEF SelfOK, NamedOK, StepsOK, ChoiceTypeOK, Choice!File
<1>11. RankOK'
  BY <1>1, <1>2, <1>3, <1>4, <1>5 DEF RankOK, NamedOK, RankOf, Older, Newer, Ended, Choice!Up, Uuid, Choice!Uuid
<1> QED BY <1>6, <1>7, <1>8, <1>9, <1>10, <1>11 DEF LocalInv

\* list is through.
LEMMA ListEndStep ==
  ASSUME ChoiceInv, Choice!ListEnd
  PROVE  LocalInv'
<1>1. /\ UNCHANGED Given
      /\ UNCHANGED <<scanned, found, statting, target, acted, failures>>
      /\ UNCHANGED <<state, mtime, stayed, was, changes>>
  BY DEF Choice!ListEnd, Choice!Keep, Choice!world, Given
<1>2. step = "query" /\ step' = "done" /\ DOMAIN found \subseteq acted
  BY DEF Choice!ListEnd, Choice!Exit
<1>3. ChoiceTypeOK /\ StepsOK /\ WorldOK /\ ScanOK /\ LoopOK /\ NamedOK /\ SelfOK /\ RankOK
  BY DEF ChoiceInv
<1>4. /\ sel.kind \in {"id", "path", "alias"} => sel.s \in Sessions
      /\ sel.kind = "index" => sel.i \in Int
  BY <1>3, SelectorTypes DEF ChoiceTypeOK
<1>5. 0 \notin Sessions
  BY SessionsFinite
<1> USE DEF Given
<1>6. LocalTypeOK' /\ StepsOK'
  BY <1>1, <1>2, <1>3, <1>4, <1>5 DEF LocalTypeOK, ChoiceTypeOK, StepsOK
<1>7. ScanOK'
  BY <1>1, <1>2, <1>3, <1>4, <1>5 DEF ScanOK, Choice!File, Uuid, Choice!Uuid
<1>8. LoopOK'
  <2>1. failures = 0 /\ (failures > 0 \/ \A s \in stayed \cap Uuid : s \in DOMAIN found \cup acted)
    BY <1>2, <1>3 DEF LoopOK
  <2>2. \A s \in stayed \cap Uuid : s \in acted
    BY <1>2, <2>1
  <2> QED BY <1>1, <1>2, <2>2 DEF LoopOK, Uuid, Choice!Uuid
<1>9. NamedOK'
  BY <1>1, <1>2, <1>3, <1>4, <1>5 DEF NamedOK, StepsOK, ChoiceTypeOK
<1>10. SelfOK'
  BY <1>1, <1>2, <1>3, <1>4, <1>5 DEF SelfOK, NamedOK, StepsOK, ChoiceTypeOK, Choice!File
<1>11. RankOK'
  BY <1>1, <1>2, <1>3, <1>4, <1>5 DEF RankOK, NamedOK, RankOf, Older, Newer, Ended, Choice!Up, Uuid, Choice!Uuid
<1> QED BY <1>6, <1>7, <1>8, <1>9, <1>10, <1>11 DEF LocalInv

\* list: an entry answers, or turns out to be gone; one that stayed is up.
LEMMA QueryStep ==
  ASSUME ChoiceInv, NEW s, Choice!Query(s), UNCHANGED Given, Evolves, was' \subseteq Sessions
  PROVE  LocalInv'
<1>1. /\ UNCHANGED <<step, scanned, statting, target, result, failures>>
      /\ UNCHANGED <<stayed, was, mtime>>
  BY DEF Choice!Query
<1>2. /\ step = "query" /\ s \in DOMAIN found
      /\ \/ acted' = acted \cup {s} /\ found' = found
         \/ ~Choice!Up(s) /\ acted' = acted /\ found' = [t \in DOMAIN found \ {s} |-> found[t]]
  BY DEF Choice!Query
<1>3. ChoiceTypeOK /\ StepsOK /\ WorldOK /\ ScanOK /\ LoopOK
  BY DEF ChoiceInv
<1>4. verb = "list"
  BY <1>2, <1>3 DEF StepsOK, ChoiceTypeOK, Choice!Verbs
<1>5. statting = 0
  BY <1>2, <1>3 DEF ScanOK
<1> USE DEF Given
<1>6. LocalTypeOK' /\ StepsOK' /\ NamedOK' /\ SelfOK' /\ RankOK'
  BY <1>1, <1>2, <1>3, <1>4
     DEF LocalTypeOK, ChoiceTypeOK, StepsOK, NamedOK, SelfOK, RankOK
<1>7. ScanOK'
  <2>1. ASSUME NEW t \in DOMAIN found'
        PROVE  /\ t \in was' /\ t \in Uuid
               /\ found'[t] = mtime'[t] \/ (found'[t] = 0 /\ ~Choice!File(t)')
    <3>1. t \in DOMAIN found /\ found'[t] = found[t]
      BY <1>2, <2>1
    <3>2. t \in was \cap Uuid /\ (found[t] = mtime[t] \/ (found[t] = 0 /\ ~Choice!File(t)))
      BY <1>3, <3>1 DEF ScanOK
    <3> QED BY <1>1, <3>1, <3>2 DEF Evolves
  <2> QED BY <1>1, <1>2, <1>5, <2>1 DEF ScanOK, Uuid, Choice!Uuid, Choice!File
<1>8. LoopOK'
  <2>1. failures = 0 /\ \A t \in stayed \cap Uuid : t \in DOMAIN found \cup acted
    BY <1>2, <1>3 DEF LoopOK
  <2>2. \A t \in stayed : Choice!Up(t)
    BY <1>3 DEF WorldOK, Choice!Up
  <2>3. \A t \in stayed \cap Uuid : t \in DOMAIN found' \cup acted'
    BY <1>2, <2>1, <2>2
  <2> QED BY <1>1, <1>2, <2>1, <2>3 DEF LoopOK, Uuid, Choice!Uuid
<1> QED BY <1>6, <1>7, <1>8 DEF LocalInv

\* The gateway's requests and the sessions leave the command alone.
LEMMA CommandAlone ==
  ASSUME Choice!Gateway \/ Choice!World
  PROVE  UNCHANGED Choice!local
<1>1. ASSUME NEW w, Choice!Lookup(w) \/ Choice!Remove(w) \/ Choice!Deliver(w)
      PROVE  UNCHANGED Choice!local
  BY <1>1 DEF Choice!Lookup, Choice!Remove, Choice!Deliver, Choice!KeepCommand
<1>2. ASSUME NEW r, Choice!Join(r) \/ Choice!Cancel(r)
      PROVE  UNCHANGED Choice!local
  BY <1>2 DEF Choice!Join, Choice!Cancel, Choice!KeepCommand
<1>3. ASSUME NEW s, Choice!Start(s) \/ Choice!End(s) \/ Choice!Crash(s) \/ Choice!Hang(s)
      PROVE  UNCHANGED Choice!local
  BY <1>3 DEF Choice!Start, Choice!End, Choice!Crash, Choice!Hang, Choice!Become, Choice!KeepCommand
<1> QED BY <1>1, <1>2, <1>3 DEF Choice!Gateway, Choice!World

\* Every command begins with the invariant.
LEMMA ChoiceInit == Choice!Init => ChoiceInv
<1> SUFFICES ASSUME Choice!Init PROVE ChoiceInv
  OBVIOUS
<1>1. PICK up \in SUBSET Choice!Relevant :
        /\ env \in up \cup {0}
        /\ state = [s \in Sessions |-> IF s \in up THEN "live" ELSE "new"]
        /\ mtime = [s \in Sessions |-> IF s \in up THEN s ELSE 0]
        /\ stayed = up /\ was = up
  BY DEF Choice!Init, Choice!None
<1>2. /\ verb \in Choice!Verbs /\ env \in Sessions \cup {0} /\ dirOk \in BOOLEAN
      /\ step = IF verb = "GET" THEN "done" ELSE "start"
      /\ scanned = {} /\ found = <<>> /\ statting = 0
      /\ target = 0 /\ result = "none" /\ acted = {} /\ failures = 0 /\ changes = 0
  BY DEF Choice!Init, Choice!None
<1>3. sel \in Choice!Selectors
  BY DEF Choice!Init, Choice!Selectors
<1>4. up \subseteq Sessions
  <2>1. verb # "GET" /\ sel.kind \in {"id", "path", "alias"} => sel.s \in Sessions
    BY <1>3, SelectorTypes
  <2>2. Choice!Relevant \subseteq Sessions
    BY <1>2, <2>1, SessionsFinite DEF Choice!Relevant, Choice!Looked, Choice!None, Choice!Uuid
  <2> QED BY <2>2
<1>5. ChoiceTypeOK
  BY <1>1, <1>2, <1>3, <1>4, SessionsFinite DEF ChoiceTypeOK
<1>6. StepsOK
  BY <1>2 DEF StepsOK
<1>7. WorldOK
  <2>1. \A s \in up : state[s] = "live" /\ mtime[s] = s /\ s \in 1 .. Cardinality(Sessions)
    BY <1>1, <1>4, ChoiceAssumption
  <2>2. \A s \in Sessions : s \in was <=> state[s] # "new"
    BY <1>1
  <2>3. \A s \in was : mtime[s] \in 1 .. (Cardinality(Sessions) + changes)
    <3>1. Cardinality(Sessions) + changes = Cardinality(Sessions)
      BY <1>2, SessionsFinite
    <3> QED BY <1>1, <2>1, <3>1
  <2>4. \A s \in stayed : state[s] = "live" /\ mtime[s] <= Cardinality(Sessions)
    BY <1>1, <2>1, SessionsFinite
  <2>5. \A s, t \in was : mtime[s] = mtime[t] => s = t
    BY <1>1, <2>1
  <2>6. env # 0 => env \in was
    BY <1>1
  <2> QED BY <2>2, <2>3, <2>4, <2>5, <2>6 DEF WorldOK
<1>8. ScanOK /\ LoopOK /\ NamedOK /\ SelfOK /\ RankOK
  BY <1>2 DEF ScanOK, LoopOK, NamedOK, SelfOK, RankOK
<1> QED BY <1>5, <1>6, <1>7, <1>8 DEF ChoiceInv

\* Every step keeps it.
LEMMA ChoiceStep == ChoiceInv /\ [Choice!Next]_(Choice!vars) => ChoiceInv'
<1> SUFFICES ASSUME ChoiceInv, [Choice!Next]_(Choice!vars) PROVE ChoiceInv'
  OBVIOUS
<1>1. ASSUME LocalInv', WorldOK', UNCHANGED Given,
             state' \in [Sessions -> States], mtime' \in [Sessions -> Nat],
             stayed' \subseteq was', was' \subseteq Sessions, changes' \in Nat
      PROVE  ChoiceInv'
  BY <1>1 DEF ChoiceInv, LocalInv, LocalTypeOK, ChoiceTypeOK, Given, States, Choice!Verbs, Choice!Selectors
<1>2. CASE Choice!Next
  <2>1. UNCHANGED Given /\ (Prunes \/ (Becomes /\ UNCHANGED Choice!local))
    BY <1>2, StepOfWorld DEF ChoiceInv
  <2>2. /\ WorldOK' /\ Evolves
        /\ state' \in [Sessions -> States] /\ mtime' \in [Sessions -> Nat]
        /\ stayed' \subseteq was' /\ was' \subseteq Sessions /\ changes' \in Nat
    BY <2>1, WorldKept DEF ChoiceInv
  <2>3. LocalInv'
    <3>1. CASE Choice!Gateway \/ Choice!World
      BY <2>1, <2>2, <3>1, CommandAlone, CommandWaits
    <3>2. CASE \E s \in Sessions : Choice!ScanEntry(s) \/ Choice!Query(s)
      BY <2>1, <2>2, <3>2, ScanEntryStep, QueryStep
    <3> QED BY <1>2, <3>1, <3>2, BeginStep, GivenPathStep, FromEnvStep, ScanStatStep, ScanEndStep,
               ResolveStep, ConnectStep, KillNextStep, KillAllEndStep, ListEndStep
            DEF Choice!Next, Choice!Command
  <2> QED BY <1>1, <2>1, <2>2, <2>3
<1>3. CASE UNCHANGED Choice!vars
  <2>1. UNCHANGED Given /\ UNCHANGED Choice!local /\ UNCHANGED Choice!world
    BY <1>3 DEF Choice!vars, Given
  <2>2. Prunes
    BY <2>1 DEF Choice!world, Prunes, ChoiceInv, ChoiceTypeOK, States
  <2>3. /\ WorldOK' /\ Evolves
        /\ state' \in [Sessions -> States] /\ mtime' \in [Sessions -> Nat]
        /\ stayed' \subseteq was' /\ was' \subseteq Sessions /\ changes' \in Nat
    BY <2>1, <2>2, WorldKept DEF ChoiceInv
  <2>4. LocalInv'
    BY <2>1, <2>3, CommandWaits
  <2> QED BY <1>1, <2>1, <2>3, <2>4
<1> QED BY <1>2, <1>3

\* While sessions start, end, crash and hang during the scan, a command reaches the session
\* that its selector names (an id, the shell's, or one that had the rank of the index), attach
\* never its own but by a path, and kill --all and list pass over none that stayed.
THEOREM ChoiceRight == Choice!Spec => []TargetRight
<1>1. ChoiceInv => TargetRight
  <2> SUFFICES ASSUME ChoiceInv PROVE TargetRight
    OBVIOUS
  <2>1. step = "done" /\ result = "0" /\ verb \in {"kill --all", "list"}
          => \A s \in stayed \cap Uuid : s \in acted
    BY DEF ChoiceInv, LoopOK
  <2>2. ASSUME verb \in {"attach", "status"}, NEW s \in acted
        PROVE  /\ sel.kind \in {"id", "path", "alias"} => s = sel.s
               /\ sel.kind = "none" => s = env
               /\ verb = "attach" /\ s = env =>
                    sel.kind \in {"path", "alias"} /\ (s \in OldSessions \/ ~dirOk)
    <3>1. s = target /\ target # 0
      BY <2>2, SessionsFinite DEF ChoiceInv, NamedOK, ChoiceTypeOK
    <3> QED BY <2>2, <3>1 DEF ChoiceInv, NamedOK, SelfOK
  <2>3. ASSUME verb \in {"attach", "status"}, sel.kind = "index", target # 0
        PROVE  RankOf(target, sel.i)
    BY <2>3 DEF ChoiceInv, RankOK
  <2>4. ASSUME RankOf(target, sel.i)
        PROVE  LET all == was \cap Choice!Uuid
                   ended == {t \in all : ~Choice!Up(t)}
                   older(set) == {t \in set \cap Choice!Uuid : mtime[t] < mtime[target]}
                   newer(set) == {t \in set \cap Choice!Uuid : mtime[t] > mtime[target]}
               IN /\ target \in all
                  /\ \/ target \in ended
                     \/ /\ sel.i > 0
                        /\ Choice!Cardinality(older(stayed)) < sel.i
                        /\ sel.i <= Choice!Cardinality(older(all) \cup ended) + 1
                     \/ /\ sel.i < 0
                        /\ Choice!Cardinality(newer(stayed)) < -sel.i
                        /\ -sel.i <= Choice!Cardinality(newer(all)) + 1
    <3>1. {t \in (was \cap Choice!Uuid) \cap Choice!Uuid : mtime[t] < mtime[target]} = Older(was, target)
      BY DEF Older, Uuid
    <3>2. {t \in (was \cap Choice!Uuid) \cap Choice!Uuid : mtime[t] > mtime[target]} = Newer(was, target)
      BY DEF Newer, Uuid
    <3> QED BY <2>4, <3>1, <3>2, SameCount DEF RankOf, Older, Newer, Ended, Uuid
  <2> QED BY <2>1, <2>2, <2>3, <2>4 DEF TargetRight, Choice!TargetRight, Choice!None, Uuid
<1> QED BY <1>1, ChoiceInit, ChoiceStep, PTL DEF Choice!Spec

=============================================================================
