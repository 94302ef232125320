------------------------- MODULE AttachClientProofs -------------------------
(***************************************************************************)
(* Proofs about AttachClient, for any configurations, terminal input and   *)
(* sizes, and any number of events: the terminal is in the state its user  *)
(* expects, and the size of the PTY follows the terminal of the leader.    *)
(***************************************************************************)
EXTENDS AttachClient, TLAPS

-----------------------------------------------------------------------------
(* The threads and the terminal.                                           *)

Steps == {"loop", "ended", "joining", "gone", "sleep", "cook", "default", "raise", "register", "raw"}

\* Between TtyGuard::suspend and TtyGuard::resume.
Aside == {"default", "raise", "register", "raw"}
Over == {"ended", "joining", "gone"}

\* A terminal that is not raw has a thread that will make it so, or has been restored at the end.
Restored ==
  /\ tty = "cooked" => pc["main"] \in Aside \/ pc["sig"] \in Aside \/ pc["main"] = "gone"
  /\ pc["main"] = "gone" => tty = "cooked" /\ pc["sig"] = "gone" /\ proc = "gone"
  /\ proc = "gone" => pc["main"] = "gone"

\* From the reset of the terminal to the end, or to the next frame, the child's modes are not set.
ModesReset ==
  /\ outcome = "detached" /\ conf.screen => ~modes
  /\ pc["main"] \in {"cook"} \cup Aside /\ conf.screen => ~modes

\* Without a SIGTSTP from outside the signal thread never suspends the client.
Undisturbed ==
  tstps = 0 =>
    /\ "TSTP" \notin pipe /\ pc["sig"] \in {"sleep", "gone"}
    /\ pc["main"] \in Aside => tty = "cooked"
    /\ pc["main"] = "raise" => disp = "default"
    /\ proc = "stopped" => pc["main"] = "register"

ControlTypeOK ==
  /\ pc \in [Threads -> Steps] /\ pc["main"] # "sleep"
  /\ tty \in {"raw", "cooked"} /\ tstps \in Nat
  /\ outcome # "none" <=> pc["main"] \in Over

ControlInv == ControlTypeOK /\ Restored /\ ModesReset /\ Undisturbed

-----------------------------------------------------------------------------
(* The steps of the threads.                                               *)

\* Nothing the invariant speaks of changes.
LEMMA Calm ==
  ASSUME ControlInv, UNCHANGED <<conf, pc, tty, modes, outcome, proc, disp, tstps>>,
         "TSTP" \in pipe' => "TSTP" \in pipe
  PROVE  ControlInv'
BY DEF ControlInv, ControlTypeOK, Restored, ModesReset, Undisturbed

\* A step of the relay loop: it goes on, ends, or begins a suspension.
Turn ==
  \/ UNCHANGED <<pc, outcome>>
  \/ /\ pc' = [pc EXCEPT !.main = "ended"] /\ outcome' # "none"
     /\ outcome' = "detached" /\ conf.screen => ~modes'
  \/ /\ pc' = [pc EXCEPT !.main = "cook"] /\ outcome' = outcome
     /\ conf.screen => ~modes'

\* A step of the relay loop keeps the control invariant.
LEMMA TurnKeeps ==
  ASSUME ControlInv, Running, Turn, UNCHANGED <<conf, tty, proc, signals, tstps>>
  PROVE  ControlInv'
<1>1. pc["main"] = "loop" /\ outcome = "none" /\ proc = "run"
  BY DEF Running, ControlInv, ControlTypeOK, Over
<1>2. CASE UNCHANGED <<pc, outcome>>
  BY <1>1, <1>2 DEF ControlInv, ControlTypeOK, Restored, ModesReset, Undisturbed, Aside, signals
<1>3. CASE /\ pc' = [pc EXCEPT !.main = "ended"] /\ outcome' # "none"
           /\ outcome' = "detached" /\ conf.screen => ~modes'
  BY <1>1, <1>3 DEF ControlInv, ControlTypeOK, Restored, ModesReset, Undisturbed, Aside, Over,
                    Steps, Threads, signals
<1>4. CASE /\ pc' = [pc EXCEPT !.main = "cook"] /\ outcome' = outcome
           /\ conf.screen => ~modes'
  BY <1>1, <1>4 DEF ControlInv, ControlTypeOK, Restored, ModesReset, Undisturbed, Aside, Over,
                    Steps, Threads, signals
<1> QED BY <1>2, <1>3, <1>4 DEF Turn

\* What the guard, the menu and the prompt do is a turn.
LEMMA X1Turns == X1Action => Turn /\ tty' = tty
BY DEF X1Action, SuspendClient, FinishDetach, Turn

\* Input that goes through the Ctrl+Z guard is such a step ...
LEMMA GuardedTurns ==
  ASSUME NEW chunk, Guarded(chunk)
  PROVE  Turn /\ tty' = tty
<1>1. X1Action \/ NoAction
  BY DEF Guarded
<1> QED BY <1>1, X1Turns DEF NoAction, Turn

\* ... and so is input to the menu or to its prompt ...
LEMMA MenuTurns ==
  ASSUME NEW chunk, MenuInput(chunk) \/ PromptInput(chunk)
  PROVE  Turn /\ tty' = tty
<1>1. SuspendClient("child", TRUE) \/ SuspendClient("child", FALSE) \/ FinishDetach
        \/ UNCHANGED <<pc, outcome, tty>>
  BY DEF MenuInput, PromptInput, NoAction
<1> QED BY <1>1 DEF SuspendClient, FinishDetach, Turn

\* ... and a frame of the daemon.
LEMMA FrameTurns == FrameReady => Turn /\ UNCHANGED <<conf, tty, proc, signals, tstps>> /\ Running
<1> SUFFICES ASSUME FrameReady PROVE Turn /\ UNCHANGED <<conf, tty, proc, signals, tstps>> /\ Running
  OBVIOUS
<1>1. UNCHANGED <<conf, tty, proc, signals, tstps>> /\ Running
  BY DEF FrameReady
<1>2. Turn
  <2>1. CASE OnData
    BY <2>1 DEF OnData, Turn
  <2>2. CASE OnStopped \/ OnLeader(TRUE) \/ OnLeader(FALSE) \/ UNCHANGED <<pc, outcome>>
    BY <2>2 DEF OnStopped, OnLeader, Turn
  <2>3. CASE OnEnd("exited") \/ OnEnd("lost") \/ OnEnd("backpressure")
    BY <2>3 DEF OnEnd, Turn
  <2>4. ASSUME NEW b \in BOOLEAN, OnLeader(b) PROVE Turn
    BY <2>4 DEF OnLeader, Turn
  <2> QED BY <2>1, <2>2, <2>3, <2>4 DEF FrameReady
<1> QED BY <1>1, <1>2

\* The suspension steps of a thread.
LEMMA ThreadSteps ==
  ASSUME ControlInv, NEW t \in Threads,
         Cook(t) \/ InstallDefault(t) \/ Raise(t) \/ Register(t) \/ Raw(t)
  PROVE  ControlInv'
<1>1. pc \in [Threads -> Steps] /\ proc = "run" /\ t \in {"main", "sig"} /\ UNCHANGED <<conf, outcome, modes, tstps>>
  BY DEF ControlInv, ControlTypeOK, Threads, Cook, InstallDefault, Raise, Register, Raw, bounds, term
<1>2. CASE Cook(t)
  BY <1>1, <1>2 DEF Cook, Goto, ControlInv, ControlTypeOK, Restored, ModesReset, Undisturbed, Aside, Over,
                    Steps, Threads, signals
<1>3. CASE InstallDefault(t)
  BY <1>1, <1>3 DEF InstallDefault, Goto, ControlInv, ControlTypeOK, Restored, ModesReset, Undisturbed, Aside, Over,
                    Steps, Threads, term
<1>4. CASE Raise(t)
  BY <1>1, <1>4 DEF Raise, Goto, ControlInv, ControlTypeOK, Restored, ModesReset, Undisturbed, Aside, Over,
                    Steps, Threads, term
<1>5. CASE Register(t)
  BY <1>1, <1>5 DEF Register, Goto, ControlInv, ControlTypeOK, Restored, ModesReset, Undisturbed, Aside, Over,
                    Steps, Threads, term
<1>6. CASE Raw(t)
  BY <1>1, <1>6 DEF Raw, Goto, ControlInv, ControlTypeOK, Restored, ModesReset, Undisturbed, Aside, Over,
                    Steps, Threads, signals
<1> QED BY <1>2, <1>3, <1>4, <1>5, <1>6

\* Every step keeps the control invariant.
LEMMA ControlSteps ==
  ASSUME ControlInv, [Next]_vars
  PROVE  ControlInv'
<1>1. CASE \/ ChildOutput \/ ChildStops \/ ChildContinued \/ SessionEnds \/ ModeChange \/ LeaderMoves
           \/ Resize \/ Expire \/ Serve \/ UNCHANGED vars
  <2>1. UNCHANGED <<conf, pc, tty, modes, outcome, proc, disp, tstps>> /\ ("TSTP" \in pipe' => "TSTP" \in pipe)
    BY <1>1 DEF ChildOutput, ChildStops, ChildContinued, SessionEnds, ModeChange, LeaderMoves, Resize, Expire,
                Serve, vars, term, signals, bounds
  <2> QED BY <2>1, Calm
<1>2. CASE Tstp
  <2>1. UNCHANGED <<conf, pc, tty, modes, outcome, disp>> /\ tstps' = tstps + 1 /\ proc' # "gone" /\ proc = "run"
    BY <1>2 DEF Tstp, term
  <2> QED BY <2>1 DEF ControlInv, ControlTypeOK, Restored, ModesReset, Undisturbed
<1>3. CASE Foreground
  <2>1. UNCHANGED <<conf, pc, tty, modes, outcome, disp, pipe, tstps>> /\ proc = "stopped" /\ proc' = "run"
    BY <1>3 DEF Foreground, term, signals, bounds
  <2> QED BY <2>1 DEF ControlInv, ControlTypeOK, Restored, ModesReset, Undisturbed
<1>4. CASE GuardDeadline
  BY <1>4, GuardedTurns, TurnKeeps DEF GuardDeadline, bounds
<1>5. CASE WinchReady
  <2>1. UNCHANGED <<conf, pc, tty, modes, outcome, proc, disp, tstps, pipe>>
    BY <1>5 DEF WinchReady, term, bounds
  <2> QED BY <2>1, Calm
<1>6. CASE FrameReady
  BY <1>6, FrameTurns, TurnKeeps
<1>7. CASE Input
  <2>1. Running /\ Turn /\ UNCHANGED <<conf, tty, proc, signals, tstps>>
    <3>1. CASE InputEof
      BY <3>1 DEF InputEof, FinishDetach, Turn
    <3>2. ASSUME NEW chunk \in Chunks, InputReady(chunk)
          PROVE  Running /\ Turn /\ UNCHANGED <<conf, tty, proc, signals, tstps>>
      BY <3>2, GuardedTurns, MenuTurns DEF InputReady
    <3> QED BY <1>7, <3>1, <3>2 DEF Input
  <2> QED BY <2>1, TurnKeeps
<1>8. CASE SignalLoop
  BY <1>8 DEF SignalLoop, Goto, ControlInv, ControlTypeOK, Restored, ModesReset, Undisturbed, Aside, Over,
              Steps, Threads, term, bounds
<1>9. CASE Shutdown
  BY <1>9 DEF Shutdown, Goto, ControlInv, ControlTypeOK, Restored, ModesReset, Undisturbed, Aside, Over,
              Steps, Threads, term, signals, bounds
<1>10. CASE Joined
  BY <1>10 DEF Joined, Goto, ControlInv, ControlTypeOK, Restored, ModesReset, Undisturbed, Aside, Over,
               Steps, Threads, signals, bounds
<1>11. CASE \E t \in Threads : Cook(t) \/ InstallDefault(t) \/ Raise(t) \/ Register(t) \/ Raw(t)
  BY <1>11, ThreadSteps
<1> QED BY <1>1, <1>2, <1>3, <1>4, <1>5, <1>6, <1>7, <1>8, <1>9, <1>10, <1>11
        DEF Next, Environment, Relay, SignalThread, Threads

\* The control invariant holds in every behaviour.
LEMMA ControlInvHolds == Spec => []ControlInv
<1>1. Init => ControlInv
  BY DEF Init, Handshaken, TerminalPrepared, ControlInv, ControlTypeOK, Restored, ModesReset, Undisturbed,
         Aside, Over, Steps, Threads
<1>2. ControlInv /\ [Next]_vars => ControlInv'
  BY ControlSteps
<1> QED BY <1>1, <1>2, PTL DEF Spec

\* Whatever signals, deadlines and frames come in whatever order: a client stopped by Ctrl+Z
\* leaves the shell a usable terminal, one that is back reads it raw, and however it ends the
\* terminal is restored (suspend_client, install_attach_signal_thread, attach_command).
THEOREM TerminalKeptSane == Spec => []TerminalSane
<1>1. ControlInv => TerminalSane
  BY DEF ControlInv, ControlTypeOK, Restored, ModesReset, Undisturbed, TerminalSane, Aside, Over, Steps
<1> QED BY <1>1, ControlInvHolds, PTL

-----------------------------------------------------------------------------
(* What the frames under way say of the leader, and of the size.           *)

Frames == {"data", "stopped", "rw", "ro", "leader", "follower", "exit", "eof", "bp"}
Roles == {"leader", "follower"}
Ends == {"exit", "eof", "bp"}
Requests == {"resume", "cont", "int", "kill", "detach"}

Role(b) == IF b THEN "leader" ELSE "follower"

\* The roles in s alternate, the first being a change of l.
Alternates(s, l) ==
  /\ \A i \in DOMAIN s : s[i] \in Roles /\ (\A k \in 1..(i - 1) : s[k] \notin Roles) => s[i] = Role(~l)
  /\ \A i, j \in DOMAIN s :
       i < j /\ s[i] \in Roles /\ s[j] \in Roles /\ (\A k \in (i + 1)..(j - 1) : s[k] \notin Roles)
         => s[i] # s[j]

\* Whoever has l and reads s knows d.
Tells(s, l, d) ==
  \/ \E i \in DOMAIN s : s[i] = Role(d) /\ \A k \in (i + 1)..Len(s) : s[k] \notin Roles
  \/ (\A i \in DOMAIN s : s[i] \notin Roles) /\ l = d

\* The last size in s is z; without one it is w.
Carries(s, w, z) ==
  \/ \E i \in DOMAIN s : s[i] = z /\ \A k \in (i + 1)..Len(s) : s[k] \notin Sizes
  \/ (\A i \in DOMAIN s : s[i] \notin Sizes) /\ w = z

EndsLast(s) == \A i \in DOMAIN s : s[i] \in Ends => i = Len(s)
Endless(s) == \A i \in DOMAIN s : s[i] \notin Ends

\* An element at the end of a sequence, and the first one taken away.
LEMMA AppendAt ==
  ASSUME NEW T, NEW s \in Seq(T), NEW e \in T
  PROVE  /\ Append(s, e) \in Seq(T) /\ Len(s) \in Nat /\ DOMAIN s = 1..Len(s)
         /\ Len(Append(s, e)) = Len(s) + 1 /\ DOMAIN Append(s, e) = 1..(Len(s) + 1)
         /\ \A i \in 1..Len(s) : Append(s, e)[i] = s[i]
         /\ Append(s, e)[Len(s) + 1] = e
OBVIOUS

\* What the provers need to know of the tail of a sequence.
LEMMA TailAt ==
  ASSUME NEW T, NEW s \in Seq(T), s # <<>>
  PROVE  /\ Tail(s) \in Seq(T) /\ Len(s) \in Nat /\ DOMAIN s = 1..Len(s) /\ Len(s) >= 1
         /\ Len(Tail(s)) = Len(s) - 1 /\ DOMAIN Tail(s) = 1..(Len(s) - 1)
         /\ \A i \in 1..(Len(s) - 1) : Tail(s)[i] = s[i + 1]
         /\ Head(s) = s[1] /\ Head(s) \in T
OBVIOUS

\* Another frame behind s changes nothing of what s says ...
LEMMA RolesBehind ==
  ASSUME NEW s \in Seq(Frames), NEW e \in Frames \ Roles, NEW l \in BOOLEAN, NEW d \in BOOLEAN,
         Alternates(s, l), Tells(s, l, d)
  PROVE  Alternates(Append(s, e), l) /\ Tells(Append(s, e), l, d)
<1> DEFINE t == Append(s, e)
           n == Len(s)
<1>1. /\ n \in Nat /\ DOMAIN s = 1..n /\ Len(t) = n + 1 /\ DOMAIN t = 1..(n + 1)
      /\ \A i \in 1..n : t[i] = s[i]
      /\ t[n + 1] = e /\ e \notin Roles
  BY AppendAt
<1> HIDE DEF t, n
<1>2. ASSUME NEW i \in 1..(n + 1), t[i] \in Roles PROVE i \in 1..n /\ t[i] = s[i]
  BY <1>1, <1>2
<1>3. ASSUME NEW i \in 1..(n + 1), t[i] \in Roles, \A k \in 1..(i - 1) : t[k] \notin Roles
      PROVE  t[i] = Role(~l)
  <2>1. i \in 1..n /\ t[i] = s[i]
    BY <1>2, <1>3
  <2>2. \A k \in 1..(i - 1) : s[k] \notin Roles
    BY <1>1, <1>3, <2>1
  <2> QED BY <1>1, <1>3, <2>1, <2>2 DEF Alternates
<1>4. ASSUME NEW i \in 1..(n + 1), NEW j \in 1..(n + 1), i < j, t[i] \in Roles, t[j] \in Roles,
             \A k \in (i + 1)..(j - 1) : t[k] \notin Roles
      PROVE  t[i] # t[j]
  <2>1. i \in 1..n /\ t[i] = s[i] /\ j \in 1..n /\ t[j] = s[j]
    BY <1>2, <1>4
  <2>2. \A k \in (i + 1)..(j - 1) : s[k] \notin Roles
    BY <1>1, <1>4, <2>1
  <2> QED BY <1>1, <1>4, <2>1, <2>2 DEF Alternates
<1>5. Tells(t, l, d)
  <2>1. CASE \A i \in DOMAIN s : s[i] \notin Roles
    <3>1. \A i \in DOMAIN t : t[i] \notin Roles
      BY <1>1, <1>2, <2>1
    <3>2. l = d
      BY <2>1 DEF Tells, Role, Roles
    <3> QED BY <3>1, <3>2 DEF Tells
  <2>2. CASE \E i \in DOMAIN s : s[i] = Role(d) /\ \A k \in (i + 1)..Len(s) : s[k] \notin Roles
    <3>1. PICK i \in 1..n : s[i] = Role(d) /\ \A k \in (i + 1)..n : s[k] \notin Roles
      BY <1>1, <2>2 DEF n
    <3>2. \A k \in (i + 1)..(n + 1) : t[k] \notin Roles
      BY <1>1, <3>1
    <3> QED BY <1>1, <3>1, <3>2 DEF Tells
  <2> QED BY <2>1, <2>2 DEF Tells
<1> QED BY <1>1, <1>3, <1>4, <1>5 DEF Alternates, t

\* ... a change of leadership is what follows ...
LEMMA RoleBehind ==
  ASSUME NEW s \in Seq(Frames), NEW l \in BOOLEAN, NEW d \in BOOLEAN,
         Alternates(s, l), Tells(s, l, d)
  PROVE  LET t == Append(s, Role(~d))
         IN /\ Alternates(t, l) /\ Tells(t, l, ~d)
            /\ \E i \in DOMAIN t : t[i] = Role(~d)
<1> DEFINE e == Role(~d)
           t == Append(s, e)
           n == Len(s)
<1>0. e \in Frames /\ e \in Roles
  BY DEF Role, Frames, Roles
<1>1. /\ n \in Nat /\ DOMAIN s = 1..n /\ Len(t) = n + 1 /\ DOMAIN t = 1..(n + 1)
      /\ \A i \in 1..n : t[i] = s[i]
      /\ t[n + 1] = e
  BY <1>0, AppendAt
<1> HIDE DEF t, n
<1>2. ASSUME NEW i \in 1..(n + 1), t[i] \in Roles, \A k \in 1..(i - 1) : t[k] \notin Roles
      PROVE  t[i] = Role(~l)
  <2>1. CASE i \in 1..n
    <3>1. \A k \in 1..(i - 1) : s[k] \notin Roles
      BY <1>1, <1>2, <2>1
    <3> QED BY <1>1, <1>2, <2>1, <3>1 DEF Alternates
  <2>2. CASE i = n + 1
    <3>1. \A k \in 1..n : s[k] \notin Roles
      BY <1>1, <1>2, <2>2
    <3>2. l = d
      BY <1>1, <3>1 DEF Tells, Role, Roles
    <3> QED BY <1>1, <2>2, <3>2
  <2> QED BY <1>1, <2>1, <2>2
<1>3. ASSUME NEW i \in 1..(n + 1), NEW j \in 1..(n + 1), i < j, t[i] \in Roles, t[j] \in Roles,
             \A k \in (i + 1)..(j - 1) : t[k] \notin Roles
      PROVE  t[i] # t[j]
  <2>1. i \in 1..n /\ t[i] = s[i]
    BY <1>1, <1>3
  <2>2. CASE j \in 1..n
    <3>1. \A k \in (i + 1)..(j - 1) : s[k] \notin Roles
      BY <1>1, <1>3, <2>1, <2>2
    <3> QED BY <1>1, <1>3, <2>1, <2>2, <3>1 DEF Alternates
  <2>3. CASE j = n + 1
    <3>1. \A k \in (i + 1)..n : s[k] \notin Roles
      BY <1>1, <1>3, <2>1, <2>3
    <3>2. PICK h \in 1..n : s[h] = Role(d) /\ \A k \in (h + 1)..n : s[k] \notin Roles
      BY <1>1, <1>3, <2>1 DEF Tells, n
    <3>3. s[h] \in Roles /\ s[i] \in Roles
      BY <1>3, <2>1, <3>2 DEF Role, Roles
    <3>4. h = i
      BY <1>1, <2>1, <3>1, <3>2, <3>3
    <3> QED BY <1>1, <2>1, <2>3, <3>2, <3>4 DEF Role
  <2> QED BY <1>1, <2>2, <2>3
<1>4. Tells(t, l, ~d) /\ \E i \in DOMAIN t : t[i] = e
  BY <1>1 DEF Tells
<1> QED BY <1>1, <1>2, <1>3, <1>4 DEF Alternates, t

\* ... and the first frame may be taken, if its role is.
LEMMA FrontTaken ==
  ASSUME NEW s \in Seq(Frames), s # <<>>, NEW l \in BOOLEAN, NEW d \in BOOLEAN,
         Alternates(s, l), Tells(s, l, d)
  PROVE  LET m == IF Head(s) \in Roles THEN Head(s) = "leader" ELSE l
         IN /\ Alternates(Tail(s), m) /\ Tells(Tail(s), m, d)
            /\ Head(s) \in Roles => Head(s) = Role(~l)
<1> DEFINE t == Tail(s)
           n == Len(s)
           h == Head(s)
           m == IF h \in Roles THEN h = "leader" ELSE l
<1>1. /\ n \in Nat /\ n >= 1 /\ DOMAIN s = 1..n /\ Len(t) = n - 1 /\ DOMAIN t = 1..(n - 1)
      /\ \A i \in 1..(n - 1) : t[i] = s[i + 1]
      /\ h = s[1] /\ h \in Frames
  BY TailAt
<1> HIDE DEF t, n, h
<1>2. h \in Roles => h = Role(~l)
  <2>1. \A k \in 1..(1 - 1) : s[k] \notin Roles
    OBVIOUS
  <2> QED BY <1>1, <2>1 DEF Alternates
<1>3. m \in BOOLEAN /\ (h \in Roles => m = ~l /\ h = Role(m))
  BY <1>2 DEF Role
<1> HIDE DEF m
<1>4. ASSUME NEW i \in 1..(n - 1), t[i] \in Roles, \A k \in 1..(i - 1) : t[k] \notin Roles
      PROVE  t[i] = Role(~m)
  <2>1. i + 1 \in 1..n /\ t[i] = s[i + 1]
    BY <1>1
  <2>2. \A k \in 2..i : s[k] \notin Roles
    <3> TAKE k \in 2..i
    <3>1. k - 1 \in 1..(i - 1) /\ k - 1 \in 1..(n - 1) /\ (k - 1) + 1 = k
      BY <1>1
    <3> QED BY <1>1, <1>4, <3>1
  <2>3. CASE h \in Roles
    <3>1. s[1] # s[i + 1]
      <4>1. 1 \in 1..n /\ 1 < i + 1 /\ \A k \in (1 + 1)..((i + 1) - 1) : s[k] \notin Roles
        BY <1>1, <2>2
      <4>2. s[1] \in Roles /\ s[i + 1] \in Roles
        BY <1>1, <1>4, <2>1, <2>3
      <4> QED BY <1>1, <2>1, <4>1, <4>2 DEF Alternates
    <3> QED BY <1>1, <1>3, <1>4, <2>1, <2>3, <3>1 DEF Role, Roles
  <2>4. CASE h \notin Roles
    <3>1. \A k \in 1..((i + 1) - 1) : s[k] \notin Roles
      <4> TAKE k \in 1..((i + 1) - 1)
      <4>1. k = 1 \/ k \in 2..i
        OBVIOUS
      <4> QED BY <1>1, <2>2, <2>4, <4>1
    <3>2. m = l
      BY <2>4 DEF m
    <3> QED BY <1>1, <1>4, <2>1, <3>1, <3>2 DEF Alternates
  <2> QED BY <2>3, <2>4
<1>5. ASSUME NEW i \in 1..(n - 1), NEW j \in 1..(n - 1), i < j, t[i] \in Roles, t[j] \in Roles,
             \A k \in (i + 1)..(j - 1) : t[k] \notin Roles
      PROVE  t[i] # t[j]
  <2>1. i + 1 \in 1..n /\ t[i] = s[i + 1] /\ j + 1 \in 1..n /\ t[j] = s[j + 1] /\ i + 1 < j + 1
    BY <1>1, <1>5
  <2>2. \A k \in ((i + 1) + 1)..((j + 1) - 1) : s[k] \notin Roles
    <3> TAKE k \in ((i + 1) + 1)..((j + 1) - 1)
    <3>1. k - 1 \in (i + 1)..(j - 1) /\ k - 1 \in 1..(n - 1) /\ (k - 1) + 1 = k
      BY <1>1
    <3> QED BY <1>1, <1>5, <3>1
  <2> QED BY <1>1, <1>5, <2>1, <2>2 DEF Alternates
<1>6. Tells(t, m, d)
  <2>1. CASE \A i \in DOMAIN s : s[i] \notin Roles
    <3>1. \A i \in DOMAIN t : t[i] \notin Roles
      <4> TAKE i \in DOMAIN t
      <4>1. i + 1 \in DOMAIN s /\ t[i] = s[i + 1]
        BY <1>1
      <4> QED BY <2>1, <4>1
    <3>2. l = d /\ m = l
      BY <1>1, <2>1 DEF Tells, Role, Roles, m
    <3> QED BY <3>1, <3>2 DEF Tells
  <2>2. CASE \E i \in DOMAIN s : s[i] = Role(d) /\ \A k \in (i + 1)..Len(s) : s[k] \notin Roles
    <3>1. PICK i \in 1..n : s[i] = Role(d) /\ \A k \in (i + 1)..n : s[k] \notin Roles
      BY <1>1, <2>2 DEF n
    <3>2. CASE i = 1
      <4>1. \A j \in DOMAIN t : t[j] \notin Roles
        <5> TAKE j \in DOMAIN t
        <5>1. j + 1 \in 2..n /\ t[j] = s[j + 1]
          BY <1>1
        <5> QED BY <3>1, <3>2, <5>1
      <4>2. m = d
        BY <1>1, <1>3, <3>1, <3>2 DEF Role, Roles
      <4> QED BY <4>1, <4>2 DEF Tells
    <3>3. CASE i # 1
      <4>1. i - 1 \in 1..(n - 1) /\ t[i - 1] = Role(d)
        BY <1>1, <3>1, <3>3
      <4>2. \A k \in ((i - 1) + 1)..(n - 1) : t[k] \notin Roles
        <5> TAKE k \in ((i - 1) + 1)..(n - 1)
        <5>1. k + 1 \in (i + 1)..n /\ t[k] = s[k + 1]
          BY <1>1, <4>1
        <5> QED BY <3>1, <5>1
      <4> QED BY <1>1, <4>1, <4>2 DEF Tells
    <3> QED BY <3>2, <3>3
  <2> QED BY <2>1, <2>2 DEF Tells
<1> QED BY <1>1, <1>2, <1>4, <1>5, <1>6 DEF Alternates, t, h, m

\* A request behind s, which is a size or not.
LEMMA SizeBehind ==
  ASSUME NEW T, NEW s \in Seq(T), NEW e \in T, NEW w, NEW z
  PROVE  /\ e \notin Sizes /\ Carries(s, w, z) => Carries(Append(s, e), w, z)
         /\ e = z => Carries(Append(s, e), w, z)
<1> DEFINE t == Append(s, e)
           n == Len(s)
<1>1. /\ n \in Nat /\ DOMAIN s = 1..n /\ Len(t) = n + 1 /\ DOMAIN t = 1..(n + 1)
      /\ \A i \in 1..n : t[i] = s[i]
      /\ t[n + 1] = e
  BY AppendAt
<1>2. n = Len(s)
  OBVIOUS
<1> HIDE DEF t, n
<1>3. ASSUME e \notin Sizes, Carries(s, w, z) PROVE Carries(t, w, z)
  <2>1. CASE (\A i \in DOMAIN s : s[i] \notin Sizes) /\ w = z
    <3>1. \A i \in DOMAIN t : t[i] \notin Sizes
      BY <1>1, <1>3, <2>1
    <3> QED BY <2>1, <3>1 DEF Carries
  <2>2. CASE \E i \in DOMAIN s : s[i] = z /\ \A k \in (i + 1)..Len(s) : s[k] \notin Sizes
    <3>1. PICK i \in 1..n : s[i] = z /\ \A k \in (i + 1)..n : s[k] \notin Sizes
      BY <1>1, <1>2, <2>2
    <3>2. \A k \in (i + 1)..(n + 1) : t[k] \notin Sizes
      BY <1>1, <1>3, <3>1
    <3> QED BY <1>1, <3>1, <3>2 DEF Carries
  <2> QED BY <1>3, <2>1, <2>2 DEF Carries
<1>4. ASSUME e = z PROVE Carries(t, w, z)
  BY <1>1, <1>4 DEF Carries
<1> QED BY <1>3, <1>4 DEF t

\* The first request is served.
LEMMA SizeServed ==
  ASSUME NEW T, NEW s \in Seq(T), s # <<>>, NEW w, NEW z \in Sizes, Carries(s, w, z)
  PROVE  Carries(Tail(s), IF Head(s) \in Sizes THEN Head(s) ELSE w, z)
<1> DEFINE t == Tail(s)
           n == Len(s)
           v == IF Head(s) \in Sizes THEN Head(s) ELSE w
<1>1. /\ n \in Nat /\ n >= 1 /\ DOMAIN s = 1..n /\ Len(t) = n - 1 /\ DOMAIN t = 1..(n - 1)
      /\ \A i \in 1..(n - 1) : t[i] = s[i + 1]
      /\ Head(s) = s[1]
  BY TailAt
<1>2. n = Len(s)
  OBVIOUS
<1> HIDE DEF t, n
<1>3. CASE (\A i \in DOMAIN s : s[i] \notin Sizes) /\ w = z
  <2>1. \A i \in DOMAIN t : t[i] \notin Sizes
    <3> TAKE i \in DOMAIN t
    <3>1. i + 1 \in DOMAIN s /\ t[i] = s[i + 1]
      BY <1>1
    <3> QED BY <1>3, <3>1
  <2>2. v = z
    BY <1>1, <1>3
  <2> QED BY <2>1, <2>2 DEF Carries, t
<1>4. CASE \E i \in DOMAIN s : s[i] = z /\ \A k \in (i + 1)..Len(s) : s[k] \notin Sizes
  <2>1. PICK i \in 1..n : s[i] = z /\ \A k \in (i + 1)..n : s[k] \notin Sizes
    BY <1>1, <1>2, <1>4
  <2>2. CASE i = 1 /\ z \in Sizes
    <3>1. \A j \in DOMAIN t : t[j] \notin Sizes
      <4> TAKE j \in DOMAIN t
      <4>1. j + 1 \in 2..n /\ t[j] = s[j + 1]
        BY <1>1
      <4> QED BY <2>1, <2>2, <4>1
    <3>2. v = z
      BY <1>1, <2>1, <2>2
    <3> QED BY <3>1, <3>2 DEF Carries, t
  <2>3. CASE i # 1
    <3>1. i - 1 \in 1..(n - 1) /\ t[i - 1] = z
      BY <1>1, <2>1, <2>3
    <3>2. \A k \in ((i - 1) + 1)..(n - 1) : t[k] \notin Sizes
      <4> TAKE k \in ((i - 1) + 1)..(n - 1)
      <4>1. k + 1 \in (i + 1)..n /\ t[k] = s[k + 1]
        BY <1>1, <3>1
      <4> QED BY <2>1, <4>1
    <3> QED BY <1>1, <3>1, <3>2 DEF Carries, t
  <2> QED BY <2>2, <2>3
<1> QED BY <1>3, <1>4 DEF Carries

-----------------------------------------------------------------------------
(* The size of the PTY.                                                    *)

Has(s) == \E i \in DOMAIN s : s[i] = "leader"

\* The size of the terminal is on its way to the PTY of the leader, or will be sent.
Sized == "WINCH" \in pipe \/ notify \/ Has(rx) \/ Carries(tx, winsize, size)

SizeTypeOK ==
  /\ rx \in Seq(Frames) /\ tx \in Seq(Requests \cup Sizes)
  /\ size \in Sizes /\ leader \in BOOLEAN /\ lead \in BOOLEAN
  /\ notify \in BOOLEAN
  /\ EndsLast(rx)

\* While the connection lasts, the frames that have not been read tell the client whether it
\* leads, each of its roles being a change.
SizeInv ==
  /\ SizeTypeOK
  /\ outcome = "none" /\ Endless(rx) =>
       /\ Alternates(rx, leader) /\ Tells(rx, leader, lead)
       /\ lead /\ ~missed => Sized

\* Nothing comes from the daemon.
LEMMA RxSame ==
  ASSUME SizeInv, UNCHANGED <<rx, leader, lead, outcome>>, size' \in Sizes,
         tx' \in Seq(Requests \cup Sizes),
         notify' \in BOOLEAN,
         outcome = "none" /\ Endless(rx) /\ lead /\ ~missed' => ~missed /\ (Sized => Sized')
  PROVE  SizeInv'
BY DEF SizeInv, SizeTypeOK

\* Something may come from the daemon, but no change of leadership.
LEMMA RxGrows ==
  ASSUME SizeInv, UNCHANGED <<leader, lead, outcome, size, missed, pipe, notify>>,
         tx' \in Seq(Requests \cup Sizes),
         lead /\ Carries(tx, winsize, size) => Carries(tx', winsize', size),
         rx' \in Seq(Frames), EndsLast(rx'),
         outcome = "none" /\ Endless(rx') =>
           /\ Endless(rx) /\ Alternates(rx', leader) /\ Tells(rx', leader, lead)
           /\ Has(rx) => Has(rx')
  PROVE  SizeInv'
<1>1. lead /\ Sized /\ (Has(rx) => Has(rx')) => Sized'
  BY DEF Sized
<1> QED BY <1>1 DEF SizeInv, SizeTypeOK

\* One more frame of the daemon, of any kind but a role, keeps what is said of the frames under way.
LEMMA OneMore ==
  ASSUME NEW s \in Seq(Frames), Endless(s), NEW m \in Frames \ Roles,
         NEW l \in BOOLEAN, NEW d \in BOOLEAN, Alternates(s, l), Tells(s, l, d)
  PROVE  LET t == s \o <<m>>
         IN /\ t \in Seq(Frames) /\ EndsLast(t) /\ (m \notin Ends => Endless(t))
            /\ Alternates(t, l) /\ Tells(t, l, d) /\ (Has(s) => Has(t))
<1> DEFINE t == Append(s, m)
<1>1. s \o <<m>> = t
  OBVIOUS
<1>2. /\ t \in Seq(Frames) /\ Len(s) \in Nat /\ DOMAIN s = 1..Len(s)
      /\ Len(t) = Len(s) + 1 /\ DOMAIN t = 1..(Len(s) + 1)
      /\ \A i \in 1..Len(s) : t[i] = s[i]
      /\ t[Len(s) + 1] = m
  BY AppendAt
<1>3. Alternates(t, l) /\ Tells(t, l, d)
  BY RolesBehind
<1> HIDE DEF t
<1>4. EndsLast(t) /\ (m \notin Ends => Endless(t))
  BY <1>2 DEF EndsLast, Endless
<1>5. Has(s) => Has(t)
  BY <1>2 DEF Has
<1> QED BY <1>1, <1>2, <1>3, <1>4, <1>5

\* Push adds to what is under way as long as the connection lasts.
LEMMA ConnectedIs ==
  ASSUME SizeTypeOK
  PROVE  Connected <=> outcome = "none" /\ Endless(rx)
<1>1. /\ Len(rx) \in Nat /\ DOMAIN rx = 1..Len(rx) /\ (rx = <<>> <=> Len(rx) = 0)
      /\ \A i \in DOMAIN rx : rx[i] \in Ends => i = Len(rx)
  BY DEF SizeTypeOK, EndsLast
<1> QED BY <1>1 DEF Connected, Endless, Ends, Last

\* So does whatever the daemon sends, whether or not the client is still connected.
LEMMA PushGrows ==
  ASSUME SizeInv, NEW ms,
         \/ \E m \in Frames \ Roles : ms = <<m>>
         \/ ms = <<"stopped">> \o <<"data">>
  PROVE  /\ Push(ms) \in Seq(Frames) /\ EndsLast(Push(ms))
         /\ outcome = "none" /\ Endless(Push(ms)) =>
              /\ Endless(rx) /\ Alternates(Push(ms), leader) /\ Tells(Push(ms), leader, lead)
              /\ Has(rx) => Has(Push(ms))
<1>1. CASE ~Connected
  <2>1. Push(ms) = rx
    BY <1>1 DEF Push
  <2> QED BY <2>1 DEF SizeInv, SizeTypeOK
<1>2. CASE Connected
  <2>1. /\ Push(ms) = rx \o ms /\ rx \in Seq(Frames) /\ Endless(rx) /\ leader \in BOOLEAN /\ lead \in BOOLEAN
        /\ Alternates(rx, leader) /\ Tells(rx, leader, lead)
    BY <1>2, ConnectedIs DEF Push, SizeInv, SizeTypeOK
  <2>2. ASSUME NEW m \in Frames \ Roles, ms = <<m>>
        PROVE  /\ rx \o ms \in Seq(Frames) /\ EndsLast(rx \o ms)
               /\ Alternates(rx \o ms, leader) /\ Tells(rx \o ms, leader, lead) /\ (Has(rx) => Has(rx \o ms))
    BY <2>1, <2>2, OneMore
  <2>3. ASSUME ms = <<"stopped">> \o <<"data">>
        PROVE  /\ rx \o ms \in Seq(Frames) /\ EndsLast(rx \o ms)
               /\ Alternates(rx \o ms, leader) /\ Tells(rx \o ms, leader, lead) /\ (Has(rx) => Has(rx \o ms))
    <3> DEFINE s == rx \o <<"stopped">>
               t == s \o <<"data">>
    <3>1. {"stopped", "data"} \subseteq Frames \ Roles /\ "stopped" \notin Ends
      BY DEF Frames, Roles, Ends
    <3>2. rx \o ms = t
      BY <2>1, <2>3, <3>1
    <3>3. /\ s \in Seq(Frames) /\ Endless(s)
          /\ Alternates(s, leader) /\ Tells(s, leader, lead) /\ (Has(rx) => Has(s))
      BY <2>1, <3>1, OneMore
    <3> HIDE DEF s
    <3>4. /\ t \in Seq(Frames) /\ EndsLast(t)
          /\ Alternates(t, leader) /\ Tells(t, leader, lead) /\ (Has(s) => Has(t))
      BY <2>1, <3>1, <3>3, OneMore
    <3> HIDE DEF t
    <3> QED BY <3>2, <3>3, <3>4
  <2> QED BY <2>1, <2>2, <2>3
<1> QED BY <1>1, <1>2

\* The steps of the environment.
LEMMA PushSteps ==
  ASSUME SizeInv, ChildOutput \/ ChildStops \/ SessionEnds \/ ModeChange
  PROVE  SizeInv'
<1>1. UNCHANGED <<leader, lead, outcome, size, missed, pipe, notify, tx, winsize>>
  BY DEF ChildOutput, ChildStops, SessionEnds, ModeChange, client, signals, world, env
<1>2. PICK ms : /\ rx' = Push(ms)
                /\ (\E m \in Frames \ Roles : ms = <<m>>) \/ ms = <<"stopped">> \o <<"data">>
  <2>1. {"data", "stopped", "exit", "eof", "bp", "rw", "ro"} \subseteq Frames \ Roles
    BY DEF Frames, Roles
  <2>2. CASE ChildOutput
    BY <2>1, <2>2 DEF ChildOutput
  <2>3. CASE ChildStops
    <3>1. PICK late \in {<<>>, <<"data">>} : rx' = Push(<<"stopped">> \o late)
      BY <2>3 DEF ChildStops
    <3>2. <<"stopped">> \o <<>> = <<"stopped">>
      OBVIOUS
    <3> QED BY <2>1, <3>1, <3>2
  <2>4. CASE SessionEnds
    BY <2>1, <2>4 DEF SessionEnds
  <2>5. CASE ModeChange
    BY <2>1, <2>5 DEF ModeChange
  <2> QED BY <2>2, <2>3, <2>4, <2>5
<1>3. /\ rx' \in Seq(Frames) /\ EndsLast(rx')
      /\ outcome = "none" /\ Endless(rx') =>
           /\ Endless(rx) /\ Alternates(rx', leader) /\ Tells(rx', leader, lead)
           /\ Has(rx) => Has(rx')
  <2> DEFINE r == Push(ms)
  <2>1. /\ r \in Seq(Frames) /\ EndsLast(r)
        /\ outcome = "none" /\ Endless(r) =>
             /\ Endless(rx) /\ Alternates(r, leader) /\ Tells(r, leader, lead)
             /\ Has(rx) => Has(r)
    BY <1>2, PushGrows
  <2>2. rx' = r
    BY <1>2
  <2> HIDE DEF r
  <2> QED BY <2>1, <2>2
<1>4. tx' \in Seq(Requests \cup Sizes)
  BY <1>1 DEF SizeInv, SizeTypeOK
<1>5. lead /\ Carries(tx, winsize, size) => Carries(tx', winsize', size)
  BY <1>1
<1> QED BY <1>1, <1>3, <1>4, <1>5, RxGrows

\* A change of leader queues the role that follows the last one.
LEMMA LeaderStep ==
  ASSUME SizeInv, LeaderMoves
  PROVE  SizeInv'
<1> DEFINE e == Role(~lead)
           t == Append(rx, e)
<1>1. /\ UNCHANGED <<leader, outcome, size, missed, pipe, notify, tx>>
      /\ lead' = ~lead /\ rx' = Push(<<e>>) /\ leader \in BOOLEAN /\ lead \in BOOLEAN
  BY DEF LeaderMoves, client, signals, world, Role, SizeInv, SizeTypeOK
<1>2. e \in Frames /\ e \notin Ends
  BY DEF Role, Frames, Ends
<1>3. CASE ~Connected
  <2>1. rx' = rx /\ ~(outcome = "none" /\ Endless(rx))
    BY <1>1, <1>3, ConnectedIs DEF Push, SizeInv
  <2> QED BY <1>1, <2>1 DEF SizeInv, SizeTypeOK
<1>4. CASE Connected
  <2>1. rx \in Seq(Frames) /\ Endless(rx) /\ Alternates(rx, leader) /\ Tells(rx, leader, lead)
    BY <1>4, ConnectedIs DEF SizeInv, SizeTypeOK
  <2>2. rx' = t
    <3> HIDE DEF e
    <3> QED BY <1>1, <1>2, <1>4, <2>1 DEF Push
  <2>3. Alternates(t, leader) /\ Tells(t, leader, ~lead) /\ \E i \in DOMAIN t : t[i] = e
    BY <1>1, <2>1, RoleBehind
  <2>4. t \in Seq(Frames) /\ EndsLast(t)
    <3> HIDE DEF e
    <3>1. /\ t \in Seq(Frames) /\ Len(rx) \in Nat /\ DOMAIN rx = 1..Len(rx)
          /\ Len(t) = Len(rx) + 1 /\ DOMAIN t = 1..(Len(rx) + 1)
          /\ \A i \in 1..Len(rx) : t[i] = rx[i]
      BY <1>2, <2>1, AppendAt
    <3> HIDE DEF t
    <3> QED BY <2>1, <3>1 DEF EndsLast, Endless
  <2>5. ~lead => Has(t)
    BY <2>3 DEF Has, Role
  <2> HIDE DEF t
  <2>6. SizeTypeOK'
    BY <1>1, <2>2, <2>4 DEF SizeInv, SizeTypeOK
  <2>7. Alternates(rx', leader') /\ Tells(rx', leader', lead') /\ (lead' => Sized')
    BY <1>1, <2>2, <2>3, <2>5 DEF Sized
  <2> QED BY <2>6, <2>7 DEF SizeInv
<1> QED BY <1>3, <1>4

\* A request that is no size.
LEMMA Requested ==
  ASSUME SizeInv, NEW m \in Requests
  PROVE  /\ Append(tx, m) \in Seq(Requests \cup Sizes) /\ tx \o <<m>> = Append(tx, m)
         /\ \A w : Carries(tx, w, size) => Carries(Append(tx, m), w, size)
<1>1. tx \in Seq(Requests \cup Sizes) /\ m \in Requests \cup Sizes
  BY DEF SizeInv, SizeTypeOK
<1>2. m \notin Sizes
  BY AttachAssumption DEF Requests
<1> QED BY <1>1, <1>2, SizeBehind

\* The daemon serves a request: a resize counts if the client leads.
LEMMA ServeStep ==
  ASSUME SizeInv, Serve
  PROVE  SizeInv'
<1>1. /\ UNCHANGED <<leader, lead, outcome, size, missed, pipe, notify>>
      /\ tx # <<>> /\ tx' = Tail(tx) /\ rx' \in {rx, Push(<<"data">>), Push(<<"exit">>)}
      /\ winsize' = IF Head(tx) \in Sizes /\ lead THEN Head(tx) ELSE winsize
  BY DEF Serve, client, signals, world
<1>2. tx \in Seq(Requests \cup Sizes) /\ size \in Sizes /\ tx' \in Seq(Requests \cup Sizes)
  BY <1>1, TailAt DEF SizeInv, SizeTypeOK
<1>3. lead /\ Carries(tx, winsize, size) => Carries(tx', winsize', size)
  BY <1>1, <1>2, SizeServed
<1>4. {"data", "exit"} \subseteq Frames \ Roles
  BY DEF Frames, Roles
<1>5. ASSUME NEW m \in {"data", "exit"}, rx' = Push(<<m>>) PROVE SizeInv'
  <2> DEFINE r == Push(<<m>>)
  <2>1. /\ r \in Seq(Frames) /\ EndsLast(r)
        /\ outcome = "none" /\ Endless(r) =>
             /\ Endless(rx) /\ Alternates(r, leader) /\ Tells(r, leader, lead)
             /\ Has(rx) => Has(r)
    BY <1>4, PushGrows
  <2>2. rx' = r
    BY <1>5
  <2> HIDE DEF r
  <2> QED BY <1>1, <1>2, <1>3, <2>1, <2>2, RxGrows
<1>6. ASSUME rx' = rx PROVE SizeInv'
  <2>1. /\ rx' \in Seq(Frames) /\ EndsLast(rx')
        /\ outcome = "none" /\ Endless(rx') =>
             /\ Endless(rx) /\ Alternates(rx', leader) /\ Tells(rx', leader, lead)
             /\ Has(rx) => Has(rx')
    BY <1>6 DEF SizeInv, SizeTypeOK
  <2> QED BY <1>1, <1>2, <1>3, <2>1, RxGrows
<1> QED BY <1>1, <1>5, <1>6

\* What the client asks for, besides sizes, before it goes on or has ended.
Asks ==
  /\ tx' \in Seq(Requests \cup Sizes)
  /\ \/ outcome' = outcome /\ (Carries(tx, winsize, size) => Carries(tx', winsize, size))
     \/ outcome' # "none"

\* A step that only adds requests, or ends the session, keeps the size invariant.
LEMMA AsksKeep ==
  ASSUME SizeInv, Asks, UNCHANGED <<rx, leader, lead, size, missed, winsize, notify>>,
         "WINCH" \in pipe => "WINCH" \in pipe'
  PROVE  SizeInv'
<1>1. CASE outcome' = outcome /\ (Carries(tx, winsize, size) => Carries(tx', winsize, size))
  <2>1. Sized => Sized'
    BY <1>1 DEF Sized
  <2> QED BY <1>1, <2>1, RxSame DEF Asks, SizeInv, SizeTypeOK
<1>2. CASE outcome' # "none"
  BY <1>2 DEF Asks, SizeInv, SizeTypeOK
<1> QED BY <1>1, <1>2 DEF Asks

\* One request, two or none, and the detach message.
LEMMA AsksAre ==
  ASSUME SizeInv,
         \/ outcome' = outcome /\ \/ tx' = tx
                                  \/ \E m \in Requests : tx' = Append(tx, m)
                                  \/ \E ms \in {<<"resume">>, <<"kill">>, <<"cont", "int">>} : tx' = tx \o ms
         \/ outcome' # "none" /\ tx' = Append(tx, "detach")
  PROVE  Asks
<1>1. tx \in Seq(Requests \cup Sizes) /\ size \in Sizes
  BY DEF SizeInv, SizeTypeOK
<1>2. {"resume", "kill", "cont", "int", "detach"} \subseteq Requests
  BY DEF Requests
<1>3. CASE outcome' = outcome /\ tx' = tx
  BY <1>1, <1>3 DEF Asks
<1>4. ASSUME NEW m \in Requests, tx' = Append(tx, m), outcome' = outcome \/ outcome' # "none"
      PROVE  Asks
  BY <1>4, Requested DEF Asks
<1>5. ASSUME outcome' = outcome, tx' = tx \o <<"cont", "int">>
      PROVE  Asks
  <2> DEFINE s == Append(tx, "cont")
             t == Append(s, "int")
  <2>1. tx' = t
    BY <1>1, <1>2, <1>5
  <2>2. s \in Seq(Requests \cup Sizes) /\ (Carries(tx, winsize, size) => Carries(s, winsize, size))
    BY <1>2, Requested
  <2> HIDE DEF s
  <2>3. "int" \in Requests \cup Sizes /\ "int" \notin Sizes
    BY AttachAssumption DEF Requests
  <2>4. t \in Seq(Requests \cup Sizes) /\ (Carries(s, winsize, size) => Carries(t, winsize, size))
    BY <2>2, <2>3, SizeBehind
  <2> HIDE DEF t
  <2> QED BY <1>5, <2>1, <2>2, <2>4 DEF Asks
<1>6. ASSUME NEW m \in {"resume", "kill"}, outcome' = outcome, tx' = tx \o <<m>>
      PROVE  Asks
  <2>1. m \in Requests
    BY <1>2
  <2>2. tx' = Append(tx, m)
    BY <1>6, <2>1, Requested
  <2> QED BY <1>4, <1>6, <2>1, <2>2
<1>7. CASE outcome' # "none" /\ tx' = Append(tx, "detach")
  BY <1>2, <1>4, <1>7
<1> QED BY <1>3, <1>4, <1>5, <1>6, <1>7

\* What the guard's suspend leads to only adds requests ...
LEMMA X1Asks ==
  ASSUME SizeInv, X1Action \/ NoAction
  PROVE  Asks
<1>1. \/ outcome' = outcome /\ tx' = tx
      \/ outcome' # "none" /\ tx' = Append(tx, "detach")
  BY DEF X1Action, NoAction, SuspendClient, FinishDetach
<1> QED BY <1>1, AsksAre

\* ... and so do the menu and its prompt.
LEMMA MenuAsks ==
  ASSUME SizeInv, NEW chunk, MenuInput(chunk) \/ PromptInput(chunk)
  PROVE  Asks
<1>1. \/ outcome' = outcome /\ tx' = tx
      \/ outcome' = outcome /\ \E ms \in {<<"resume">>, <<"kill">>, <<"cont", "int">>} : tx' = tx \o ms
      \/ outcome' = outcome /\ tx' = Append(tx, "resume")
      \/ outcome' # "none" /\ tx' = Append(tx, "detach")
  BY DEF MenuInput, PromptInput, NoAction, SuspendClient, FinishDetach
<1>2. "resume" \in Requests
  BY DEF Requests
<1> QED BY <1>1, <1>2, AsksAre

\* The user types, or a deadline of the guard passes.
LEMMA InputSteps ==
  ASSUME SizeInv, GuardDeadline \/ Input
  PROVE  SizeInv'
<1>1. UNCHANGED <<rx, leader, lead, size, missed, winsize, notify, pipe>>
  BY DEF GuardDeadline, Input, InputReady, InputEof, world, env, signals
<1>2. Asks
  <2>1. ASSUME NEW chunk, Guarded(chunk) PROVE Asks
    BY <2>1, X1Asks DEF Guarded
  <2>2. CASE InputEof
    <3>1. outcome' # "none" /\ tx' = Append(tx, "detach")
      BY <2>2 DEF InputEof, FinishDetach
    <3> QED BY <3>1, AsksAre
  <2> QED BY <2>1, <2>2, MenuAsks DEF GuardDeadline, Input, InputReady
<1> QED BY <1>1, <1>2, AsksKeep

\* SIGWINCH: the size is sent, or somebody else has the lead.
LEMMA WinchStep ==
  ASSUME SizeInv, WinchReady
  PROVE  SizeInv'
<1>1. /\ UNCHANGED <<rx, leader, lead, outcome, size, missed, winsize>> /\ notify' = FALSE
      /\ tx' = IF leader THEN Append(tx, size) ELSE tx
  BY DEF WinchReady, client, world, env
<1>2. tx \in Seq(Requests \cup Sizes) /\ size \in Requests \cup Sizes /\ leader \in BOOLEAN
  BY DEF SizeInv, SizeTypeOK
<1>3. tx' \in Seq(Requests \cup Sizes)
  BY <1>1, <1>2
<1>4. ASSUME outcome = "none", Endless(rx), lead PROVE Sized'
  <2>1. CASE leader
    BY <1>1, <1>2, <2>1, SizeBehind DEF Sized
  <2>2. CASE ~leader
    <3>1. Has(rx)
      BY <1>4, <2>2 DEF SizeInv, Tells, Role, Has
    <3> QED BY <1>1, <3>1 DEF Sized
  <2> QED BY <1>2, <2>1, <2>2
<1> QED BY <1>1, <1>3, <1>4, RxSame DEF SizeInv, SizeTypeOK

\* The user resizes the terminal.
LEMMA ResizeStep ==
  ASSUME SizeInv, Resize
  PROVE  SizeInv'
<1>1. /\ UNCHANGED <<rx, leader, lead, outcome, tx, notify>> /\ size' \in Sizes
      /\ (missed' = missed /\ "WINCH" \in pipe') \/ missed'
  BY DEF Resize, client, env
<1> QED BY <1>1, RxSame DEF SizeInv, SizeTypeOK, Sized

\* The signals go from the pipe to the relay loop.
LEMMA SignalStep ==
  ASSUME SizeInv, SignalLoop
  PROVE  SizeInv'
<1>1. UNCHANGED <<rx, leader, lead, outcome, tx, size, missed, winsize>>
  BY DEF SignalLoop, client, world, env
<1>2. \/ UNCHANGED <<pipe, notify>>
      \/ notify' = (notify \/ "WINCH" \in pipe)
  BY DEF SignalLoop
<1>3. notify' \in BOOLEAN /\ (Sized => Sized')
  BY <1>1, <1>2 DEF SizeInv, SizeTypeOK, Sized
<1> QED BY <1>1, <1>3, RxSame DEF SizeInv, SizeTypeOK

\* A frame from the daemon is read.
LEMMA FrameStep ==
  ASSUME SizeInv, ControlInv, FrameReady
  PROVE  SizeInv'
<1> DEFINE h == Head(rx)
           t == Tail(rx)
           n == Len(rx)
<1>1. /\ UNCHANGED <<lead, size, missed, winsize, pipe, notify>> /\ rx # <<>> /\ rx' = t /\ outcome = "none"
  BY DEF FrameReady, Running, world, env, signals, ControlInv, ControlTypeOK, Over
<1>2. /\ rx \in Seq(Frames) /\ tx \in Seq(Requests \cup Sizes) /\ leader \in BOOLEAN /\ lead \in BOOLEAN
      /\ notify \in BOOLEAN /\ size \in Sizes /\ EndsLast(rx)
  BY DEF SizeInv, SizeTypeOK
<1>3. /\ t \in Seq(Frames) /\ n \in Nat /\ n >= 1 /\ DOMAIN rx = 1..n /\ Len(t) = n - 1
      /\ DOMAIN t = 1..(n - 1) /\ h = rx[1] /\ h \in Frames
      /\ \A i \in 1..(n - 1) : t[i] = rx[i + 1]
  BY <1>1, <1>2, TailAt
<1> DEFINE m == IF h \in Roles THEN h = "leader" ELSE leader
<1>4. ASSUME Endless(rx)
      PROVE  /\ Alternates(t, m) /\ Tells(t, m, lead)
             /\ h \in Roles => h = Role(~leader)
    BY <1>1, <1>2, <1>4, FrontTaken DEF SizeInv
<1>5. n = Len(rx)
  OBVIOUS
<1> HIDE DEF h, t, n
<1>6. EndsLast(t)
  <2> SUFFICES ASSUME NEW i \in 1..(n - 1), t[i] \in Ends PROVE i = n - 1
    BY <1>3 DEF EndsLast
  <2>1. i + 1 \in 1..n /\ rx[i + 1] \in Ends
    BY <1>3
  <2>2. i + 1 = n
    BY <1>2, <1>3, <1>5, <2>1 DEF EndsLast
  <2> QED BY <1>3, <2>2
<1>7. Endless(t) /\ h \notin Ends => Endless(rx)
  <2> SUFFICES ASSUME Endless(t), h \notin Ends, NEW i \in 1..n PROVE rx[i] \notin Ends
    BY <1>3 DEF Endless
  <2>1. CASE i = 1
    BY <1>3, <2>1
  <2>2. CASE i # 1
    <3>1. i - 1 \in 1..(n - 1) /\ (i - 1) + 1 = i
      BY <1>3, <2>2
    <3>2. t[i - 1] = rx[i] /\ t[i - 1] \notin Ends
      BY <1>3, <3>1 DEF Endless
    <3> QED BY <3>2
  <2> QED BY <2>1, <2>2
<1>8. Has(rx) /\ h # "leader" => Has(t)
  <2> SUFFICES ASSUME NEW i \in 1..n, rx[i] = "leader", h # "leader" PROVE Has(t)
    BY <1>3 DEF Has
  <2>1. i - 1 \in 1..(n - 1) /\ (i - 1) + 1 = i
    BY <1>3
  <2>2. t[i - 1] = rx[i]
    BY <1>3, <2>1
  <2> QED BY <1>3, <2>1, <2>2 DEF Has
<1>9. ASSUME outcome' # "none", tx' = tx, leader' = leader
      PROVE  SizeInv'
  BY <1>1, <1>2, <1>3, <1>6, <1>9 DEF SizeInv, SizeTypeOK
<1>10. ASSUME outcome' = outcome, leader' = leader, h \notin Ends \cup Roles,
              tx' = tx \/ tx' = Append(tx, "resume")
       PROVE  SizeInv'
  <2>1. "resume" \in Requests
    BY DEF Requests
  <2>2. tx' \in Seq(Requests \cup Sizes) /\ (Carries(tx, winsize, size) => Carries(tx', winsize, size))
    BY <1>2, <1>10, <2>1, Requested
  <2>3. Sized => Sized'
    BY <1>1, <1>8, <1>10, <2>2 DEF Sized, Roles
  <2>4. Endless(t) => Alternates(t, leader) /\ Tells(t, leader, lead) /\ (lead /\ ~missed => Sized)
    BY <1>1, <1>4, <1>7, <1>10 DEF SizeInv
  <2> QED BY <1>1, <1>2, <1>3, <1>6, <1>10, <2>2, <2>3, <2>4 DEF SizeInv, SizeTypeOK
<1>11. ASSUME OnLeader(h = "leader"), h \in Roles
       PROVE  SizeInv'
  <2>1. /\ outcome' = outcome /\ leader' = m /\ m = (h = "leader") /\ m \in BOOLEAN
        /\ tx' = IF h = "leader" /\ ~leader THEN Append(tx, size) ELSE tx
    BY <1>11 DEF OnLeader
  <2> HIDE DEF m
  <2>2. h \notin Ends
    BY <1>11 DEF Roles, Ends
  <2>3. tx' \in Seq(Requests \cup Sizes)
    BY <1>2, <2>1
  <2>4. ASSUME Endless(t), lead, ~missed PROVE Sized'
    <3>1. Endless(rx) /\ h = Role(~leader) /\ Sized
      BY <1>1, <1>4, <1>7, <1>11, <2>2, <2>4 DEF SizeInv
    <3>2. CASE h = "leader"
      <4>1. ~leader
        BY <3>1, <3>2 DEF Role
      <4>2. tx' = Append(tx, size)
        BY <2>1, <3>2, <4>1
      <4>3. Carries(Append(tx, size), winsize, size)
        BY <1>2, SizeBehind
      <4> QED BY <1>1, <4>2, <4>3 DEF Sized
    <3>3. CASE h # "leader"
      BY <1>1, <1>8, <2>1, <3>1, <3>3 DEF Sized
    <3> QED BY <3>2, <3>3
  <2>5. Endless(t) => Alternates(t, m) /\ Tells(t, m, lead)
    BY <1>4, <1>7, <2>2
  <2> QED BY <1>1, <1>2, <1>3, <1>6, <2>1, <2>3, <2>4, <2>5 DEF SizeInv, SizeTypeOK
<1>12. CASE h = "data" /\ OnData
  BY <1>9, <1>10, <1>12 DEF OnData, Ends, Roles
<1>13. CASE h = "stopped" /\ OnStopped
  BY <1>10, <1>13 DEF OnStopped, Ends, Roles
<1>14. CASE h \in {"rw", "ro"} /\ UNCHANGED <<leader, outcome, tx>>
  BY <1>10, <1>14 DEF Ends, Roles
<1>15. CASE OnEnd("exited") \/ OnEnd("lost") \/ OnEnd("backpressure")
  BY <1>9, <1>15 DEF OnEnd, client
<1> QED BY <1>11, <1>12, <1>13, <1>14, <1>15 DEF FrameReady, h, Roles

\* Steps that at most ask for a resume.
LEMMA QuietSteps ==
  ASSUME SizeInv,
         \/ ChildContinued \/ Tstp \/ Foreground \/ Expire \/ Shutdown \/ Joined \/ UNCHANGED vars
         \/ \E t \in Threads : Cook(t) \/ InstallDefault(t) \/ Raise(t) \/ Register(t) \/ Raw(t)
  PROVE  SizeInv'
<1>1. CASE \/ ChildContinued \/ Tstp \/ Foreground \/ Expire \/ Shutdown \/ Joined \/ UNCHANGED vars
  <2>1. /\ UNCHANGED <<rx, leader, lead, size, missed, winsize, notify, outcome, tx>>
        /\ "WINCH" \in pipe => "WINCH" \in pipe'
    BY <1>1 DEF ChildContinued, Tstp, Foreground, Expire, Shutdown, Joined, vars, client, signals, world, env
  <2> QED BY <2>1, AsksAre, AsksKeep
<1>2. ASSUME NEW t \in Threads, Cook(t) \/ InstallDefault(t) \/ Raise(t) \/ Register(t) \/ Raw(t)
      PROVE  SizeInv'
  <2>1. /\ UNCHANGED <<rx, leader, lead, size, missed, winsize, notify, outcome>>
        /\ "WINCH" \in pipe => "WINCH" \in pipe'
    BY <1>2 DEF Cook, InstallDefault, Raise, Register, Raw, client, signals, world, env
  <2>2. "resume" \in Requests /\ (tx' = tx \/ tx' = Append(tx, "resume"))
    BY <1>2 DEF Cook, InstallDefault, Raise, Register, Raw, Requests
  <2> QED BY <2>1, <2>2, AsksAre, AsksKeep
<1> QED BY <1>1, <1>2

\* Every step keeps the size invariant.
LEMMA SizeSteps ==
  ASSUME SizeInv, ControlInv, [Next]_vars
  PROVE  SizeInv'
<1>1. CASE Environment
  BY <1>1, PushSteps, LeaderStep, ResizeStep, QuietSteps DEF Environment
<1>2. CASE Relay
  BY <1>2, InputSteps, WinchStep, FrameStep, QuietSteps DEF Relay, Threads
<1>3. CASE SignalThread
  BY <1>3, SignalStep, QuietSteps DEF SignalThread, Threads
<1> QED BY <1>1, <1>2, <1>3, InputSteps, ServeStep, QuietSteps DEF Next

\* The handshake: the reply is all there is, and a leader has asked for its size.
LEMMA SizeInit == Init => SizeInv
<1> SUFFICES ASSUME Init PROVE SizeInv
  OBVIOUS
<1>1. /\ rx = <<"data">> /\ lead = leader /\ leader \in BOOLEAN /\ notify = FALSE
      /\ size = (CHOOSE s \in Sizes : TRUE) /\ winsize \in Sizes
      /\ \/ tx = <<"resume">> \o (IF leader THEN <<size>> ELSE <<>>)
         \/ tx = <<>> \o (IF leader THEN <<size>> ELSE <<>>)
  BY DEF Init, Handshaken, TerminalPrepared, InitialRequests
<1>2. size \in Sizes
  BY <1>1
<1>3. "resume" \in Requests /\ "data" \in Frames
  BY DEF Requests, Frames
<1>4. ASSUME NEW s \in {<<>>, <<"resume">>}, tx = s \o (IF leader THEN <<size>> ELSE <<>>)
      PROVE  tx \in Seq(Requests \cup Sizes) /\ (leader => Carries(tx, winsize, size))
  <2>1. s \in Seq(Requests \cup Sizes)
    <3> DEFINE T == Requests \cup Sizes
    <3>1. "resume" \in T
      BY <1>3
    <3> HIDE DEF T
    <3>2. <<>> \in Seq(T) /\ <<"resume">> \in Seq(T)
      BY <3>1
    <3> QED BY <3>2 DEF T
  <2>2. CASE leader
    <3>1. tx = Append(s, size)
      BY <1>4, <2>1, <2>2
    <3> QED BY <1>2, <2>1, <3>1, SizeBehind
  <2>3. CASE ~leader
    BY <1>4, <2>1, <2>3
  <2> QED BY <2>2, <2>3
<1>5. tx \in Seq(Requests \cup Sizes) /\ (leader => Carries(tx, winsize, size))
  BY <1>1, <1>4
<1>6. /\ rx \in Seq(Frames) /\ EndsLast(rx)
      /\ Alternates(rx, leader) /\ Tells(rx, leader, lead)
  BY <1>1, <1>3 DEF EndsLast, Alternates, Tells, Ends, Roles, Role
<1> QED BY <1>1, <1>2, <1>5, <1>6 DEF SizeInv, SizeTypeOK, Sized

\* The size invariant holds in every behaviour.
LEMMA SizeInvHolds == Spec => []SizeInv
<1>1. SizeInv /\ ControlInv /\ [Next]_vars => SizeInv'
  BY SizeSteps
<1> QED BY <1>1, SizeInit, ControlInvHolds, PTL DEF Spec

\* However SIGWINCH, the notifications of leadership and the requests of the client cross: when
\* nothing is under way any more, the PTY of a session this client leads has the size of its
\* terminal, unless that changed while the client was stopped (WinchReady, OnLeader, Serve:
\* relay's SIGWINCH and LeaderNotify branches, the daemon's resize).
THEOREM SizeFollowed == Spec => []SizeFollows
<1>1. SizeInv => SizeFollows
  BY DEF SizeInv, SizeTypeOK, SizeFollows, Sized, Has, Carries, Endless
<1> QED BY <1>1, SizeInvHolds, PTL

=============================================================================
