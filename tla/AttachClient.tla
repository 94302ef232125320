---------------------------- MODULE AttachClient ----------------------------
(***************************************************************************)
(* The interactive attach client (client/attach.rs, client/key_decoder.rs, *)
(* attach_command of the CLI): the relay loop, the Ctrl+Z guard with its   *)
(* key decoder, the child action menu and the prompt, the suspension of    *)
(* the client, and the signal thread that shares the terminal guard with   *)
(* the relay loop.  The daemon, the child, the terminal and the user are   *)
(* the environment.                                                        *)
(*                                                                         *)
(* Bytes are letters.  "Z" is the one-byte Ctrl+Z and "E", "R" the two     *)
(* halves of a Ctrl+Z in the kitty encoding; "E" alone is also the Esc     *)
(* key.  Time is abstract: a deadline is not set, set, or due.             *)
(***************************************************************************)
EXTENDS Naturals, Sequences, SequencesExt, FiniteSets

CONSTANTS
  Chunks,       \* what one read of the terminal may return
  Confs,        \* configurations: [setting, x1, guard, delay, screen]
  Sizes,        \* terminal sizes (strings); a resize request is its size
  MaxEvents,    \* bound: events of the environment in one behaviour
  MaxTstp       \* bound: SIGTSTPs from other processes

ASSUME AttachAssumption ==
  /\ Confs \subseteq [setting : {"resume", "menu"}, x1 : {"suspend", "detach", "ask"},
                      guard : BOOLEAN, delay : BOOLEAN, screen : BOOLEAN]
  /\ Sizes \cap {"resume", "cont", "int", "kill", "detach"} = {}
  /\ MaxEvents \in Nat /\ MaxTstp \in Nat

VARIABLES
  conf,      \* AttachConfig, on_child_suspend and outer_tty_raw of this client
  mode,      \* response.mode
  leader,    \* response.leader
  focus,     \* InputFocus: "child", "menu", "prompt"
  initial,   \* initial_attach_redraw_pending
  guard,     \* CtrlzGuard: [pend, part, hold]
  pc,        \* thread -> step: "main" and the signal thread "sig"
  after,     \* resume_after_fg of the suspension in progress
  outcome,   \* RunOutcome
  disp,      \* disposition of SIGTSTP: "pipe" or "default"
  pipe,      \* signals in the self-pipe
  notify,    \* a byte waits in the SIGWINCH notify pipe
  proc,      \* the client process: "run", "stopped", "gone"
  tty,       \* termios of the terminal: "raw", "cooked"
  modes,     \* the terminal holds modes the child's output has set
  size,      \* size of the terminal
  rx, tx,    \* frames on the way to the client and to the daemon
  kid,       \* the child: "run", "stopped", "dead"
  lead,      \* the daemon's leader is this client
  winsize,   \* size of the child's PTY
  typed,     \* bytes read with the focus on the child
  sent,      \* bytes sent to the child
  suspends,  \* times the guard asked for the x1 action
  missed,    \* the terminal changed its size while the client was stopped
  events, tstps

env == <<kid, lead, winsize>>
world == <<size, missed>>
keys == <<typed, sent, suspends>>
term == <<tty, modes>>
signals == <<disp, pipe, notify>>
client == <<mode, leader, focus, initial, guard>>
bounds == <<events, tstps>>
vars == <<conf, client, pc, after, outcome, signals, proc, term, world, rx, tx,
          env, keys, bounds>>

Idle == [pend |-> "no", part |-> <<>>, hold |-> "no"]

-----------------------------------------------------------------------------
(* The key decoder and the Ctrl+Z guard.                                   *)

Encodings == {<<"Z">>, <<"E", "R">>}

\* scan at position i: a Ctrl+Z of some length, a proper prefix of one, or a byte.
Scan(buf, i) ==
  LET rest == SubSeq(buf, i, Len(buf)) IN
  IF \E e \in Encodings : IsPrefix(e, rest)
  THEN [kind |-> "ctrlz", len |-> Len(CHOOSE e \in Encodings : IsPrefix(e, rest))]
  ELSE IF \E e \in Encodings : IsPrefix(rest, e) THEN [kind |-> "incomplete", len |-> 0]
  ELSE [kind |-> "other", len |-> 1]

\* feed: the tokens of the held bytes and the chunk, and the bytes held back.
Feed(g, chunk) ==
  LET expired == g.part # <<>> /\ g.hold = "due"
      buf == (IF expired THEN <<>> ELSE g.part) \o chunk
      from[i \in 1 .. Len(buf) + 1] ==
        IF i > Len(buf) THEN [toks |-> <<>>, part |-> <<>>]
        ELSE LET s == Scan(buf, i) IN
             IF s.kind = "incomplete"
             THEN [toks |-> <<>>, part |-> SubSeq(buf, i, Len(buf))]
             ELSE [from[i + s.len] EXCEPT
                     !.toks = <<[z |-> s.kind = "ctrlz",
                                 bytes |-> SubSeq(buf, i, i + s.len - 1)]>> \o @]
      first == IF expired THEN <<[z |-> FALSE, bytes |-> g.part]>> ELSE <<>>
  IN [toks |-> first \o from[1].toks,
      part |-> from[1].part,
      hold |-> IF from[1].part = <<>> THEN "no"
               ELSE IF chunk = <<>> /\ g.hold # "no" THEN g.hold ELSE "set"]

\* Mutant of Token: every Ctrl+Z of a pair reaches the child.
TokenBothMutant(acc, t) ==
  IF t.z /\ acc.pend = "no"
  THEN [acc EXCEPT !.pend = "set", !.forward = @ \o t.bytes]
  ELSE [acc EXCEPT !.pend = "no", !.forward = @ \o t.bytes]

\* One token of process_ctrlz_guard: the second Ctrl+Z of a pair goes to the
\* child, any other key cancels a pending one.
Token(acc, t) ==
  IF t.z /\ acc.pend = "no"
  THEN IF conf.delay THEN [acc EXCEPT !.pend = "set"] ELSE [acc EXCEPT !.suspend = TRUE]
  ELSE [acc EXCEPT !.pend = "no", !.forward = @ \o t.bytes]

\* process_ctrlz_guard
ProcessGuard(chunk) ==
  IF ~conf.guard
  THEN [guard |-> Idle, forward |-> guard.part \o chunk, suspend |-> FALSE]
  ELSE LET fed == Feed(guard, chunk)
           start == [pend |-> IF guard.pend = "due" THEN "no" ELSE guard.pend,
                     forward |-> <<>>, suspend |-> guard.pend = "due"]
           res == FoldLeft(Token, start, fed.toks)
       IN [guard |-> [pend |-> res.pend, part |-> fed.part, hold |-> fed.hold],
           forward |-> res.forward, suspend |-> res.suspend]

\* stopped_child_action
StoppedChildAction(m) ==
  IF m # "rw" THEN "nothing" ELSE conf.setting

-----------------------------------------------------------------------------
(* attach_command up to the relay loop.                                    *)

\* The handshake: mode, leadership and the state of the child it reports.
Handshaken ==
  /\ mode \in {"rw", "ro"} /\ leader \in {b \in BOOLEAN : b => mode = "rw"}
  /\ lead = leader
  /\ kid \in {"run", "stopped"}
  /\ outcome = "none"
  /\ rx = <<"data">>

\* What is sent before the relay: the resume of a stopped child and the size.
InitialRequests ==
  tx = (IF kid = "stopped" /\ StoppedChildAction(mode) = "resume" THEN <<"resume">> ELSE <<>>)
       \o (IF leader THEN <<size>> ELSE <<>>)

\* Raw mode, the notify pipe and the signal thread.
TerminalPrepared ==
  /\ proc = "run" /\ tty = "raw" /\ modes = FALSE
  /\ size = (CHOOSE s \in Sizes : TRUE) /\ winsize \in Sizes \ {size} /\ missed = FALSE
  /\ disp = "pipe" /\ pipe = {} /\ notify = FALSE

\* The first lines of relay: the menu of a child that is already stopped.
InitialMenu ==
  /\ focus = IF kid = "stopped" /\ StoppedChildAction(mode) = "menu" /\ conf.screen
             THEN "menu" ELSE "child"
  /\ initial = (focus = "menu")
  /\ guard = Idle

Init ==
  /\ conf \in Confs
  /\ Handshaken /\ TerminalPrepared /\ InitialMenu /\ InitialRequests
  /\ pc = [main |-> "loop", sig |-> "sleep"] /\ after = FALSE
  /\ typed = <<>> /\ sent = <<>> /\ suspends = 0
  /\ events = 0 /\ tstps = 0

-----------------------------------------------------------------------------
(* The environment.                                                        *)

Event == outcome = "none" /\ events < MaxEvents /\ events' = events + 1

Connected == outcome = "none" /\ (rx = <<>> \/ Last(rx) \notin {"eof", "bp", "exit"})

Push(frames) == IF Connected THEN rx \o frames ELSE rx

\* The child writes.
ChildOutput ==
  /\ Event /\ kid = "run"
  /\ rx' = Push(<<"data">>)
  /\ UNCHANGED <<conf, client, pc, after, outcome, signals, proc, term, world, tx, env, keys, tstps>>

\* The child stops and the daemon says so; serve_loop reads the PTY after
\* waitpid, so output from before the stop may follow the notification.
ChildStops ==
  /\ Event /\ kid = "run"
  /\ kid' = "stopped"
  /\ \E late \in {<<>>, <<"data">>} : rx' = Push(<<"stopped">> \o late)
  /\ UNCHANGED <<conf, client, pc, after, outcome, signals, proc, term, world, tx, lead, winsize,
                 keys, tstps>>

\* Somebody else continues the child; clients hear nothing of it.
ChildContinued ==
  /\ Event /\ kid = "stopped"
  /\ kid' = "run"
  /\ UNCHANGED <<conf, client, pc, after, outcome, signals, proc, term, world, rx, tx, lead, winsize,
                 keys, tstps>>

\* The child or the connection ends.
SessionEnds ==
  /\ Event
  /\ \E f \in {"exit", "eof", "bp"} :
       /\ rx' = Push(<<f>>)
       /\ f = "exit" => kid = "run"
       /\ kid' = IF f = "exit" THEN "dead" ELSE kid
  /\ UNCHANGED <<conf, client, pc, after, outcome, signals, proc, term, world, tx, lead, winsize,
                 keys, tstps>>

\* set changes the mode of this client.
ModeChange ==
  /\ Event
  /\ \E m \in {"rw", "ro"} : rx' = Push(<<m>>)
  /\ UNCHANGED <<conf, client, pc, after, outcome, signals, proc, term, world, tx, env, keys, tstps>>

\* Leadership moves; a new leader elsewhere sets its own size.
LeaderMoves ==
  /\ Event
  /\ lead' = ~lead
  /\ rx' = Push(<<IF lead' THEN "leader" ELSE "follower">>)
  /\ winsize' \in IF lead' THEN {winsize} ELSE Sizes
  /\ UNCHANGED <<conf, client, pc, after, outcome, signals, proc, term, world, tx, kid, keys, tstps>>

\* The user resizes the terminal: only a process of the foreground group gets SIGWINCH.
Resize ==
  /\ Event
  /\ size' \in Sizes \ {size}
  /\ IF proc = "run" THEN pipe' = pipe \cup {"WINCH"} /\ missed' = missed
     ELSE pipe' = pipe /\ missed' = TRUE
  /\ UNCHANGED <<conf, client, pc, after, outcome, disp, notify, proc, term, rx, tx, env, keys, tstps>>

\* Another process sends SIGTSTP to the client.
Tstp ==
  /\ Event /\ proc = "run" /\ tstps < MaxTstp
  /\ tstps' = tstps + 1
  /\ IF disp = "pipe" THEN pipe' = pipe \cup {"TSTP"} /\ proc' = proc
     ELSE pipe' = pipe /\ proc' = "stopped"
  /\ UNCHANGED <<conf, client, pc, after, outcome, disp, notify, term, world, rx, tx, env, keys>>

\* fg
Foreground ==
  /\ proc = "stopped"
  /\ proc' = "run"
  /\ UNCHANGED <<conf, client, pc, after, outcome, signals, term, world, rx, tx, env, keys, bounds>>

\* A deadline passes.
Expire ==
  /\ proc # "gone"
  /\ \/ guard.pend = "set" /\ guard' = [guard EXCEPT !.pend = "due"]
     \/ guard.hold = "set" /\ guard' = [guard EXCEPT !.hold = "due"]
  /\ UNCHANGED <<conf, mode, leader, focus, initial, pc, after, outcome, signals, proc, term, world,
                 rx, tx, env, keys, bounds>>

\* The daemon serves a request: a resume redraws first and then continues
\* the child, a resize counts from the leader only.
Serve ==
  /\ tx # <<>>
  /\ tx' = Tail(tx)
  /\ LET m == Head(tx) IN
     /\ rx' = CASE m = "resume" -> Push(<<"data">>)
                [] m = "kill" /\ kid # "dead" -> Push(<<"exit">>)
                [] OTHER -> rx
     /\ kid' = CASE m \in {"resume", "cont"} /\ kid = "stopped" -> "run"
                 [] m = "kill" -> "dead"
                 [] OTHER -> kid
     /\ winsize' = IF m \in Sizes /\ lead THEN m ELSE winsize
  /\ UNCHANGED <<conf, client, pc, after, outcome, signals, proc, term, world, lead, keys, bounds>>

-----------------------------------------------------------------------------
(* The relay loop.  Running is what every step of it needs.                *)

Running == proc = "run" /\ pc.main = "loop"

\* finish_detach: the detach message and the reset of the terminal.
FinishDetach ==
  /\ outcome' = "detached" /\ pc' = [pc EXCEPT !.main = "ended"]
  /\ tx' = Append(tx, "detach")
  /\ modes' = IF conf.screen THEN FALSE ELSE modes
  /\ UNCHANGED <<focus, after, tty>>

\* The head of suspend_client.
SuspendClient(f, resume) ==
  /\ modes' = IF conf.screen THEN FALSE ELSE modes
  /\ pc' = [pc EXCEPT !.main = "cook"] /\ after' = resume
  /\ focus' = f
  /\ UNCHANGED <<outcome, tx, tty>>

\* What the guard's suspend leads to: run_ctrlz_x1_action.
X1Action ==
  \/ conf.x1 = "suspend" /\ SuspendClient(focus, FALSE)
  \/ conf.x1 = "detach" /\ FinishDetach
  \/ /\ conf.x1 = "ask"
     /\ modes' = IF conf.screen THEN FALSE ELSE modes
     /\ focus' = "prompt"
     /\ UNCHANGED <<pc, after, outcome, tx, tty>>

NoAction == UNCHANGED <<pc, after, outcome, tx, tty, modes>>

\* A key held back too long is no longer the start of a Ctrl+Z: the history
\* of the keys shows the pause.
Pause == IF guard.part # <<>> /\ guard.hold = "due" THEN <<"pause">> ELSE <<>>

\* Send the forwarded bytes, then act on the suspend.
Guarded(chunk) ==
  LET res == ProcessGuard(chunk) IN
  /\ guard' = res.guard
  /\ typed' = typed \o Pause \o chunk
  /\ sent' = sent \o res.forward
  /\ suspends' = IF res.suspend THEN suspends + 1 ELSE suspends
  /\ IF res.suspend THEN X1Action ELSE NoAction /\ focus' = focus

\* A deadline of the guard ends the poll.
GuardDeadline ==
  /\ Running /\ focus = "child"
  /\ guard.pend = "due" \/ guard.hold = "due"
  /\ Guarded(<<>>)
  /\ UNCHANGED <<conf, mode, leader, initial, signals, proc, world, rx, env, bounds>>

\* SIGWINCH: the leader sends the size the terminal has now.
WinchReady ==
  /\ Running /\ notify
  /\ notify' = FALSE
  /\ tx' = IF leader THEN Append(tx, size) ELSE tx
  /\ UNCHANGED <<conf, client, pc, after, outcome, disp, pipe, proc, term, world, rx, env, keys, bounds>>

\* A frame of output: the attach redraw keeps the menu, later output closes it,
\* the prompt discards it.
OnData ==
  LET closes == focus = "menu" /\ (~initial \/ StoppedChildAction(mode) # "menu" \/ ~conf.screen)
      f == IF closes THEN "child" ELSE focus
  IN /\ initial' = FALSE
     /\ focus' = f
     /\ modes' = (modes \/ f # "prompt")
     /\ guard' = IF f = "menu" THEN Idle ELSE guard
     /\ \/ UNCHANGED <<pc, outcome, events>>
        \/ Event /\ f # "prompt" /\ outcome' = "stdout" /\ pc' = [pc EXCEPT !.main = "ended"]
     /\ UNCHANGED <<mode, leader, tx>>

\* Mutant of OnStopped: no resume is asked for while a Ctrl+Z is pending.
OnStoppedPendingMutant ==
  /\ tx' = IF StoppedChildAction(mode) = "resume" /\ guard.pend = "no" THEN Append(tx, "resume") ELSE tx
  /\ UNCHANGED <<mode, leader, initial, pc, outcome, modes, guard, focus>>

\* SessionChildStoppedNotify
OnStopped ==
  LET act == StoppedChildAction(mode)
      menu == act = "menu" /\ conf.screen
  IN /\ tx' = IF act = "resume" THEN Append(tx, "resume") ELSE tx
     /\ guard' = IF menu THEN Idle ELSE guard
     /\ focus' = IF menu THEN "menu" ELSE focus
     /\ UNCHANGED <<mode, leader, initial, pc, outcome, modes>>

\* Mutant of OnLeader: becoming the leader sends no size.
OnLeaderSilentMutant(now) ==
  /\ leader' = now
  /\ UNCHANGED <<mode, focus, initial, guard, pc, outcome, modes, tx>>

\* LeaderNotify: a new leader sends its size.
OnLeader(now) ==
  /\ leader' = now
  /\ tx' = IF now /\ ~leader THEN Append(tx, size) ELSE tx
  /\ UNCHANGED <<mode, focus, initial, guard, pc, outcome, modes>>

\* The frames that end the relay.
OnEnd(o) ==
  /\ outcome' = o /\ pc' = [pc EXCEPT !.main = "ended"]
  /\ UNCHANGED <<client, modes, tx>>

\* A frame from the daemon.
FrameReady ==
  /\ Running /\ rx # <<>>
  /\ rx' = Tail(rx)
  /\ LET m == Head(rx) IN
     \/ m = "data" /\ OnData
     \/ /\ events' = events
        /\ \/ m = "stopped" /\ OnStopped
           \/ m \in {"rw", "ro"} /\ mode' = m
              /\ UNCHANGED <<leader, focus, initial, guard, pc, outcome, modes, tx>>
           \/ m \in {"leader", "follower"} /\ OnLeader(m = "leader")
           \/ m = "exit" /\ OnEnd("exited")
           \/ m = "eof" /\ OnEnd("lost")
           \/ m = "bp" /\ OnEnd("backpressure")
  /\ UNCHANGED <<conf, after, signals, proc, tty, world, env, keys, tstps>>

\* menu_action_for_input: one byte, one key; "i" also stands for "h" (SIGHUP).
MenuActionForInput(chunk) ==
  CASE chunk \in {<<"c">>, <<"E">>} -> "resume"
    [] chunk = <<"z">> -> "suspend"
    [] chunk = <<"d">> -> "detach"
    [] chunk = <<"i">> -> "int"
    [] chunk = <<"k">> -> "kill"
    [] OTHER -> "none"

\* run_menu_action, send_terminating_signal; other input is discarded.
MenuInput(chunk) ==
  LET act == MenuActionForInput(chunk)
      request(ms) == tx' = tx \o ms /\ focus' = "child" /\ UNCHANGED <<pc, after, outcome, tty, modes>>
  IN \/ act = "resume" /\ request(<<"resume">>)
     \/ act = "suspend" /\ SuspendClient("child", TRUE)
     \/ act = "detach" /\ FinishDetach
     \/ act = "int" /\ request(<<"cont", "int">>)
     \/ act = "kill" /\ request(<<"kill">>)
     \/ act = "none" /\ NoAction /\ focus' = focus

\* x1_prompt_choice_for_input
X1PromptChoiceForInput(chunk) ==
  CASE chunk = <<"Z">> -> "suspend"
    [] chunk = <<"C">> -> "quit"
    [] chunk = <<"E">> -> "back"
    [] OTHER -> "none"

\* run_x1_prompt_choice
PromptInput(chunk) ==
  LET choice == X1PromptChoiceForInput(chunk) IN
  \/ choice = "suspend" /\ SuspendClient("child", FALSE)
  \/ choice = "quit" /\ FinishDetach
  \/ /\ choice = "back" /\ focus' = "child"
     /\ tx' = IF StoppedChildAction(mode) = "resume" THEN Append(tx, "resume") ELSE tx
     /\ UNCHANGED <<pc, after, outcome, tty, modes>>
  \/ choice = "none" /\ NoAction /\ focus' = focus

\* A terminal sends the rest of an encoded key right after its start.  To the
\* child every letter is like "c", so the others are typed in menu and prompt only.
Sendable(chunk) ==
  /\ Head(chunk) = "R" => typed # <<>> /\ Last(typed) = "E"
  /\ Head(chunk) \in {"z", "d", "i", "k"} => focus = "menu"
  /\ Head(chunk) = "C" => focus = "prompt"

\* The user types; the focus decides who gets it.
InputReady(chunk) ==
  /\ Running /\ Event /\ Sendable(chunk)
  /\ \/ focus = "child" /\ Guarded(chunk)
     \/ focus = "menu" /\ MenuInput(chunk) /\ UNCHANGED <<guard, keys>>
     \/ focus = "prompt" /\ PromptInput(chunk) /\ UNCHANGED <<guard, keys>>
  /\ UNCHANGED <<conf, mode, leader, initial, signals, proc, world, rx, env, tstps>>

\* The terminal is closed, or cannot be read.
InputEof ==
  /\ Running /\ Event
  /\ FinishDetach
  /\ UNCHANGED <<conf, mode, leader, initial, guard, signals, proc, world, rx, env, keys, tstps>>

-----------------------------------------------------------------------------
(* suspend_client and the signal thread take the same steps: termios back, *)
(* suspend_self (default disposition, raise, self-pipe again), raw again.  *)

Threads == {"main", "sig"}

Goto(t, s) == pc' = [pc EXCEPT ![t] = s]

\* TtyGuard::suspend
Cook(t) ==
  /\ proc = "run" /\ pc[t] = "cook"
  /\ tty' = "cooked" /\ Goto(t, "default")
  /\ UNCHANGED <<conf, client, after, outcome, signals, proc, modes, world, rx, tx, env, keys, bounds>>

\* suspend_self: install_default, raise, register_self_pipe
InstallDefault(t) ==
  /\ proc = "run" /\ pc[t] = "default"
  /\ disp' = "default" /\ Goto(t, "raise")
  /\ UNCHANGED <<conf, client, after, outcome, pipe, notify, proc, term, world, rx, tx, env, keys, bounds>>

Raise(t) ==
  /\ proc = "run" /\ pc[t] = "raise"
  /\ Goto(t, "register")
  /\ IF disp = "default" THEN proc' = "stopped" /\ pipe' = pipe
     ELSE proc' = proc /\ pipe' = pipe \cup {"TSTP"}
  /\ UNCHANGED <<conf, client, after, outcome, disp, notify, term, world, rx, tx, env, keys, bounds>>

Register(t) ==
  /\ proc = "run" /\ pc[t] = "register"
  /\ disp' = "pipe" /\ Goto(t, "raw")
  /\ UNCHANGED <<conf, client, after, outcome, pipe, notify, proc, term, world, rx, tx, env, keys, bounds>>

\* TtyGuard::resume, and for the relay loop the resume request that redraws.
Raw(t) ==
  /\ proc = "run" /\ pc[t] = "raw"
  /\ tty' = "raw"
  /\ Goto(t, IF t = "main" THEN "loop" ELSE "sleep")
  /\ tx' = IF t = "main" /\ (after \/ StoppedChildAction(mode) = "resume")
           THEN Append(tx, "resume") ELSE tx
  /\ UNCHANGED <<conf, client, after, outcome, signals, proc, modes, world, rx, env, keys, bounds>>

\* install_attach_signal_thread: look at the shutdown flag, then drain the pipe.
SignalLoop ==
  /\ proc = "run" /\ pc.sig = "sleep"
  /\ IF pc.main \in {"joining", "gone"}
     THEN Goto("sig", "gone") /\ UNCHANGED <<pipe, notify>>
     ELSE /\ pipe # {} /\ pipe' = {}
          /\ notify' = (notify \/ "WINCH" \in pipe)
          /\ Goto("sig", IF "TSTP" \in pipe THEN "cook" ELSE "sleep")
  /\ UNCHANGED <<conf, client, after, outcome, disp, proc, term, world, rx, tx, env, keys, bounds>>

\* The tail of attach_command: set the flag, join the thread, restore termios.
Shutdown ==
  /\ proc = "run" /\ pc.main = "ended"
  /\ Goto("main", "joining")
  /\ UNCHANGED <<conf, client, after, outcome, signals, proc, term, world, rx, tx, env, keys, bounds>>

\* Mutant of Joined: the terminal is restored without waiting for the thread.
NoJoinMutant ==
  /\ proc = "run" /\ pc.main = "joining"
  /\ tty' = "cooked" /\ Goto("main", "gone")
  /\ proc' = IF pc.sig = "gone" THEN "gone" ELSE proc
  /\ UNCHANGED <<conf, client, after, outcome, signals, modes, world, rx, tx, env, keys, bounds>>

Joined ==
  /\ proc = "run" /\ pc.main = "joining" /\ pc.sig = "gone"
  /\ tty' = "cooked" /\ Goto("main", "gone") /\ proc' = "gone"
  /\ UNCHANGED <<conf, client, after, outcome, signals, modes, world, rx, tx, env, keys, bounds>>

-----------------------------------------------------------------------------

Environment ==
  \/ ChildOutput \/ ChildStops \/ ChildContinued \/ SessionEnds \/ ModeChange \/ LeaderMoves
  \/ Resize \/ Tstp \/ Foreground \/ Expire

Relay ==
  \/ GuardDeadline \/ WinchReady \/ FrameReady \/ Shutdown \/ Joined
  \/ Cook("main") \/ InstallDefault("main") \/ Raise("main") \/ Register("main") \/ Raw("main")

SignalThread ==
  \/ SignalLoop
  \/ Cook("sig") \/ InstallDefault("sig") \/ Raise("sig") \/ Register("sig") \/ Raw("sig")

Input == (\E chunk \in Chunks : InputReady(chunk)) \/ InputEof

Next == Environment \/ Relay \/ SignalThread \/ Input \/ Serve

\* The threads are scheduled, the daemon serves its clients, deadlines pass;
\* nobody has to type, to bring the client back or to stop it.
Fairness ==
  /\ WF_vars(Relay) /\ WF_vars(SignalThread) /\ WF_vars(Serve) /\ WF_vars(Expire)

Spec == Init /\ [][Next]_vars /\ Fairness

-----------------------------------------------------------------------------
(* Properties.                                                             *)

Letters == {"c", "d", "z", "i", "k", "C"}

\* Ctrl+Z presses in a byte string, whatever their encoding.
Presses(s) ==
  Cardinality({i \in 1 .. Len(s) : s[i] = "Z"})
  + Cardinality({i \in 1 .. Len(s) - 1 : s[i] = "E" /\ s[i + 1] = "R"})

\* What the user types into the child reaches it once and in order, whatever
\* deadlines, menus and prompts come between, nothing typed into a menu or a
\* prompt does, and with the guard on the child gets at most every second
\* Ctrl+Z while each x1 action has used up a press of its own; only a press
\* whose bytes arrive further apart than the decoder waits is not recognised
\* (process_ctrlz_guard, relay).
KeysArrive ==
  /\ SelectSeq(sent, LAMBDA b : b \in Letters) = SelectSeq(typed, LAMBDA b : b \in Letters)
  /\ conf.guard /\ "pause" \notin Range(typed) => 2 * Presses(sent) + suspends <= Presses(typed)

\* The terminal is in the state its user expects.  A client stopped by Ctrl+Z
\* leaves the shell a terminal it can use: termios restored and the child's modes
\* reset (suspend_client).  One that is back in its loop reads the terminal raw,
\* also when a SIGTSTP from outside met a suspension in the other thread.  However
\* the client ends, the signal thread does not put the terminal back into raw
\* mode, and a detach also resets the modes (attach_command, finish_detach).
TerminalSane ==
  /\ proc = "stopped" /\ tstps = 0 => tty = "cooked" /\ (conf.screen => ~modes)
  /\ proc = "run" /\ pc.main = "loop" /\ pc.sig = "sleep" => tty = "raw"
  /\ pc.main = "gone" => tty = "cooked"
  /\ outcome = "detached" /\ conf.screen => ~modes

\* Once nothing is on its way the PTY of a session this client leads has the
\* size of its terminal, whichever order SIGWINCH and LeaderNotify came in.
SizeFollows ==
  /\ lead /\ outcome = "none" /\ ~missed
  /\ pc.main = "loop" /\ "WINCH" \notin pipe /\ ~notify
  /\ rx = <<>> /\ tx = <<>>
  => winsize = size

\* With auto-resume a read-write client that hears of a stopped child wakes
\* it, unless it is suspended itself, has ended or lost its mode.  (A client
\* that becomes read-write later does not.)
ChildWoken ==
  kid = "stopped" /\ rx # <<>> /\ Head(rx) = "stopped" /\ conf.setting = "resume" /\ mode = "rw"
    ~> kid # "stopped" \/ proc = "stopped" \/ outcome # "none" \/ mode # "rw" \/ ~Connected

=============================================================================
