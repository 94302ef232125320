------------------------------ MODULE WsBridge ------------------------------
(***************************************************************************)
(* One WebSocket attach of hyoui-web (ws_attach.rs): the reader task that  *)
(* turns browser messages into commands, the bridge thread that owns the   *)
(* daemon connection, and the writer task that sends frames to the         *)
(* browser.  The daemon behind the socket is the part of control.rs the    *)
(* bridge talks to.  Deadlines may pass whenever the awaited thing is not  *)
(* there yet.  The browser's bytes are numbered, so is every request.      *)
(***************************************************************************)
EXTENDS Naturals, Sequences, SequencesExt

CONSTANTS
  MaxMsgs,    \* bound: messages the browser sends
  MaxEvents   \* bound: those messages, chunks of output and lost leader roles

VARIABLES
  got,       \* messages read from the browser so far
  keys,      \* numbers of the byte messages among them, in order
  reader,    \* reader task: "run", "ended"
  lost,      \* it ended because the authentication was lost
  cmds,      \* commands of the std::sync::mpsc channel
  wake,      \* the wake pipe holds a byte
  pc,        \* bridge thread
  batch,     \* bytes of this turn
  ctl,       \* controls of this turn still to be done
  shut,      \* Shutdown was drained in this turn
  raw,       \* output read in this exchange and not passed on yet
  lead,      \* conn.response.leader
  grid,      \* latest_grid: 0 for none, else the request that set it
  pend,      \* pending_frames of ClientConnection
  up,        \* bridge to daemon
  down,      \* daemon to bridge
  leader,    \* daemon: this connection is the leader
  typed,     \* daemon: byte messages received
  applied,   \* daemon: requests whose resize was applied
  outs,      \* chunks of output produced
  steals,
  gone,      \* the daemon closed the connection
  out,       \* queued for the writer task; frames in a row count as one
  writer,    \* writer task: "run", "done"
  last,      \* how the WebSocket was closed
  answers,   \* results queued for the browser so far
  shown,     \* attach_info.leader queued last: 2 for none
  stale,     \* a resize exchange ended without reading its StatusResponse
  swallowed  \* resize_on_connection skipped a LeaderNotify

browser == <<got, keys, reader, lost>>
turn == <<batch, ctl, shut, raw>>
view == <<lead, grid>>
daemon == <<leader, typed, applied, outs, steals, gone>>
writing == <<writer, last>>
told == <<answers, shown>>
marks == <<stale, swallowed>>
vars == <<browser, cmds, wake, pc, turn, view, pend, up, down, daemon, out, writing, told, marks>>

Frame(kind, n) == [kind |-> kind, n |-> n]
Flag(b) == IF b THEN 1 ELSE 0
Result(req, ok, from) == [n |-> req, ok |-> ok, from |-> from]

\* One more event is within the bound.
Eventful == got + outs + steals < MaxEvents

\* The channel to the writer task keeps the order of frames and Close.
Queued(q, kind) == IF q # <<>> /\ Last(q) = kind THEN q ELSE Append(q, kind)

Init ==
  /\ got = 0 /\ keys = <<>> /\ reader = "run" /\ lost = FALSE
  /\ cmds = <<>> /\ wake = FALSE
  /\ pc = "connect" /\ batch = <<>> /\ ctl = <<>> /\ shut = FALSE /\ raw = FALSE
  /\ lead = FALSE /\ grid = 0 /\ pend = <<>> /\ up = <<>> /\ down = <<>>
  /\ leader \in BOOLEAN /\ typed = <<>> /\ applied = {}
  /\ outs = 0 /\ steals = 0 /\ gone = FALSE
  /\ out = <<>> /\ writer = "run" /\ last = "none" /\ answers = <<>> /\ shown = 2
  /\ stale = FALSE /\ swallowed = FALSE

-----------------------------------------------------------------------------
(* The daemon.  A resize carries the number of the request it stands for.  *)

\* What handle_control_message sends back to this connection.
Answer(m) ==
  CASE m.kind = "bytes" -> <<Frame("ack", 0)>>
    [] m.kind = "resize" -> IF leader THEN <<>> ELSE <<Frame("error", 0)>>
    [] m.kind = "query" -> <<Frame("status", 0)>>
    [] OTHER -> <<Frame("notify", 1)>>

DaemonReads ==
  /\ up # <<>> /\ ~gone
  /\ LET m == Head(up)
     IN /\ down' = down \o Answer(m)
        /\ typed' = IF m.kind = "bytes" THEN typed \o m.n ELSE typed
        /\ applied' = IF m.kind = "resize" /\ leader THEN applied \cup {m.n} ELSE applied
        /\ leader' = (leader \/ m.kind = "leader")
  /\ up' = Tail(up)
  /\ UNCHANGED <<browser, cmds, wake, pc, turn, view, pend, outs, steals, gone, out, writing, told, marks>>

\* The bridge has its connection.
Connected == pc \notin {"connect", "done"}

\* Output of the child is broadcast.
ChildOutput ==
  /\ Connected /\ ~gone /\ Eventful
  /\ outs' = outs + 1
  /\ down' = Append(down, Frame("out", outs + 1))
  /\ UNCHANGED <<browser, cmds, wake, pc, turn, view, pend, up, leader, typed, applied, steals,
                 gone, out, writing, told, marks>>

\* Another client becomes leader; everybody is told.
LeaderTaken ==
  /\ Connected /\ ~gone /\ leader /\ Eventful
  /\ leader' = FALSE /\ steals' = steals + 1
  /\ down' = Append(down, Frame("notify", 0))
  /\ UNCHANGED <<browser, cmds, wake, pc, turn, view, pend, up, typed, applied, outs, gone, out,
                 writing, told, marks>>

\* The session ends, or this client is detached.
DaemonCloses ==
  /\ Connected /\ ~gone
  /\ gone' = TRUE
  /\ UNCHANGED <<browser, cmds, wake, pc, turn, view, pend, up, down, leader, typed, applied, outs,
                 steals, out, writing, told, marks>>

-----------------------------------------------------------------------------
(* The reader task.                                                        *)

\* Mutant of Ending: Shutdown is queued but the bridge is not woken.
EndingAsleepMutant ==
  /\ reader' = "ended"
  /\ cmds' = Append(cmds, Frame("shutdown", 0))
  /\ UNCHANGED wake

\* The end of the task: Shutdown is queued and the bridge is woken.
Ending ==
  /\ reader' = "ended"
  /\ cmds' = Append(cmds, Frame("shutdown", 0))
  /\ wake' = TRUE

\* Binary, resize and leader messages become commands, unless the bridge has
\* dropped its end of the channel.
ReadCommand(kind) ==
  /\ reader = "run" /\ got < MaxMsgs /\ Eventful
  /\ got' = got + 1
  /\ IF pc = "done"
     THEN Ending /\ UNCHANGED keys
     ELSE /\ cmds' = Append(cmds, Frame(kind, got + 1))
          /\ keys' = IF kind = "bytes" THEN Append(keys, got + 1) ELSE keys
          /\ wake' = TRUE
          /\ UNCHANGED reader
  /\ UNCHANGED <<lost, pc, turn, view, pend, up, down, daemon, out, writing, told, marks>>

\* An unknown text frame is answered with an error, an auth_extend with its
\* result; a writer that has gone ends the task.
ReadReplied ==
  /\ reader = "run" /\ got < MaxMsgs /\ Eventful
  /\ got' = got + 1
  /\ out' = Queued(out, "frame")
  /\ IF writer = "done" THEN Ending ELSE UNCHANGED <<reader, cmds, wake>>
  /\ UNCHANGED <<keys, lost, pc, turn, view, pend, up, down, daemon, writing, told, marks>>

\* Close, an error, or the end of the stream.
ReadClose ==
  /\ reader = "run"
  /\ Ending
  /\ UNCHANGED <<got, keys, lost, pc, turn, view, pend, up, down, daemon, out, writing, told, marks>>

\* auth.lost() wins the select, or an auth_extend is refused.
AuthLost ==
  /\ reader = "run"
  /\ lost' = TRUE
  /\ out' = Queued(out, "close")
  /\ Ending
  /\ UNCHANGED <<got, keys, pc, turn, view, pend, up, down, daemon, writing, told, marks>>

\* run_bridge aborts the reader once the bridge has returned.
ReaderAborted ==
  /\ reader = "run" /\ pc = "done"
  /\ reader' = "ended"
  /\ UNCHANGED <<got, keys, lost, cmds, wake, pc, turn, view, pend, up, down, daemon, out, writing, told, marks>>

-----------------------------------------------------------------------------
(* The writer task: stops at a Close, at a failed send, or when both other *)
(* tasks have dropped the channel.                                         *)

WriterSends ==
  /\ writer = "run" /\ out # <<>>
  /\ last' = IF Head(out) = "close" THEN "close" ELSE last
  /\ out' = Tail(out)
  /\ writer' = IF Head(out) = "close" THEN "done" ELSE "run"
  /\ UNCHANGED <<browser, cmds, wake, pc, turn, view, pend, up, down, daemon, told, marks>>

WriterEnds ==
  /\ writer = "run" /\ out = <<>>
  /\ reader = "ended" /\ pc = "done"
  /\ writer' = "done" /\ last' = "plain close"
  /\ UNCHANGED <<browser, cmds, wake, pc, turn, view, pend, up, down, daemon, out, told, marks>>

\* The browser is gone, or WRITER_DRAIN_TIMEOUT is over.
WriterFails ==
  /\ writer = "run"
  /\ writer' = "done" /\ last' = "broken"
  /\ UNCHANGED <<browser, cmds, wake, pc, turn, view, pend, up, down, daemon, out, told, marks>>

-----------------------------------------------------------------------------
(* The bridge thread.                                                      *)

\* Sending to a writer that has ended fails: the bridge returns.
Emit(next) ==
  IF writer = "done" THEN pc' = "done" /\ UNCHANGED out
  ELSE pc' = next /\ out' = Queued(out, "frame")

\* send_attach_info.
Inform(b, next) == Emit(next) /\ shown' = Flag(b)

\* ClientConnection::connect, then hello and attach_info.
Connect ==
  /\ pc = "connect"
  /\ lead' = leader
  /\ Inform(leader, "poll")
  /\ UNCHANGED <<browser, cmds, wake, turn, grid, pend, up, down, daemon, writing, answers, marks>>

ConnectFails ==
  /\ pc = "connect"
  /\ pc' = "done"
  /\ UNCHANGED <<browser, cmds, wake, turn, view, pend, up, down, daemon, out, writing, told, marks>>

\* recv_frame: what was put aside while an ack was awaited comes first.
Incoming == pend \o down
Received ==
  IF pend # <<>> THEN pend' = Tail(pend) /\ UNCHANGED down
  ELSE down' = Tail(down) /\ UNCHANGED pend

\* What bridge_loop does with a frame: output and leader changes go on to the
\* browser, the rest is skipped.
Forward(f, next) ==
  IF f.kind = "notify"
  THEN lead' = (f.n = 1) /\ Inform(f.n = 1, next)
  ELSE /\ IF f.kind = "out" THEN Emit(next) ELSE pc' = next /\ UNCHANGED out
       /\ UNCHANGED <<lead, shown>>

\* poll says the socket is readable: one frame.  What waits in pending_frames
\* alone does not make it readable.
PollFrame ==
  /\ pc = "poll" /\ down # <<>>
  /\ Forward(Head(Incoming), IF wake THEN "wake" ELSE "poll")
  /\ Received
  /\ UNCHANGED <<browser, cmds, wake, turn, grid, up, daemon, writing, answers, marks>>

\* The peer has hung up: what was put aside is still handed out, then the
\* bridge returns the error.
PollHangup ==
  /\ pc = "poll" /\ down = <<>> /\ gone
  /\ IF pend = <<>>
     THEN pc' = "done" /\ UNCHANGED <<lead, out, pend, shown>>
     ELSE Forward(Head(pend), IF wake THEN "wake" ELSE "poll") /\ pend' = Tail(pend)
  /\ UNCHANGED <<browser, cmds, wake, turn, grid, up, down, daemon, writing, answers, marks>>

PollWake ==
  /\ pc = "poll" /\ down = <<>> /\ ~gone /\ wake
  /\ pc' = "wake"
  /\ UNCHANGED <<browser, cmds, wake, turn, view, pend, up, down, daemon, out, writing, told, marks>>

\* The wake pipe is emptied, before the queue is.
Drain ==
  /\ pc = "wake"
  /\ wake' = FALSE
  /\ batch' = <<>> /\ ctl' = <<>> /\ shut' = FALSE
  /\ pc' = "drain"
  /\ UNCHANGED <<browser, cmds, raw, view, pend, up, down, daemon, out, writing, told, marks>>

\* try_recv: bytes are joined, controls are kept in order, a Shutdown ends the loop.
TakeCommand ==
  /\ pc = "drain" /\ cmds # <<>> /\ ~shut
  /\ LET c == Head(cmds)
     IN /\ batch' = IF c.kind = "bytes" THEN Append(batch, c.n) ELSE batch
        /\ ctl' = IF c.kind \in {"resize", "leader"} THEN Append(ctl, c) ELSE ctl
        /\ shut' = (c.kind = "shutdown")
  /\ cmds' = Tail(cmds)
  /\ UNCHANGED <<browser, wake, pc, raw, view, pend, up, down, daemon, out, writing, told, marks>>

\* The bytes of the turn go out in one frame whose ack is awaited.
SendBatch ==
  /\ pc = "drain" /\ (cmds = <<>> \/ shut)
  /\ IF batch = <<>> THEN pc' = "controls" /\ UNCHANGED up
     ELSE pc' = "ack" /\ up' = Append(up, Frame("bytes", batch))
  /\ batch' = <<>>
  /\ UNCHANGED <<browser, cmds, wake, ctl, shut, raw, view, pend, down, daemon, out, writing, told, marks>>

\* recv_raw_ack_inner: anything but the ack is put aside.
AwaitAck ==
  /\ pc = "ack" /\ down # <<>>
  /\ IF Head(down).kind = "ack"
     THEN pc' = "controls" /\ UNCHANGED pend
     ELSE pend' = Append(pend, Head(down)) /\ UNCHANGED pc
  /\ down' = Tail(down)
  /\ UNCHANGED <<browser, cmds, wake, turn, view, up, daemon, out, writing, told, marks>>

\* The connection ends, or RAW_ACK_TIMEOUT: poisoned, the bridge returns.
AckFails ==
  /\ pc = "ack" /\ down = <<>>
  /\ pc' = "done"
  /\ UNCHANGED <<browser, cmds, wake, turn, view, pend, up, down, daemon, out, writing, told, marks>>

\* The controls are done: return after a Shutdown, else poll again.
TurnDone ==
  /\ pc = "controls" /\ ctl = <<>>
  /\ pc' = IF shut THEN "done" ELSE "poll"
  /\ UNCHANGED <<browser, cmds, wake, turn, view, pend, up, down, daemon, out, writing, told, marks>>

\* Mutant of Exchange: the query goes first.
ExchangeQueryFirstMutant(g) == <<Frame("query", 0), Frame("resize", g)>>

\* resize_on_connection: the query behind the resize tells when it is done.
Exchange(g) == <<Frame("resize", g), Frame("query", 0)>>

Answered(ok) ==
  /\ Emit("controls")
  /\ answers' = Append(answers, Result(Head(ctl).n, ok, pc))
  /\ ctl' = Tail(ctl)

\* A resize: refused here when it is empty or this client is not the leader.
BeginResize(empty) ==
  /\ pc = "controls" /\ ctl # <<>> /\ Head(ctl).kind = "resize"
  /\ grid' = IF empty THEN grid ELSE Head(ctl).n
  /\ IF empty \/ ~lead THEN Answered(FALSE) /\ UNCHANGED up
     ELSE up' = up \o Exchange(Head(ctl).n) /\ pc' = "resize" /\ UNCHANGED <<ctl, out, answers>>
  /\ UNCHANGED <<browser, cmds, wake, batch, shut, raw, lead, pend, down, daemon, writing, shown, marks>>

\* recv_control keeps output back in `raw` until a control comes; it is passed
\* on before that control is looked at.
Flushed(next) == IF raw THEN Emit(next) ELSE pc' = next /\ UNCHANGED out

\* A frame while the resize is awaited: any control but the answer is skipped.
AwaitResize ==
  /\ pc = "resize" /\ Incoming # <<>>
  /\ LET f == Head(Incoming)
     IN /\ CASE f.kind = "status" -> Answered(TRUE)
             [] f.kind = "error" -> Answered(FALSE)
             [] f.kind = "out" -> UNCHANGED <<pc, out, ctl, answers>>
             [] OTHER -> Flushed("resize") /\ UNCHANGED <<ctl, answers>>
        /\ raw' = (f.kind = "out")
        /\ stale' = (stale \/ f.kind = "error")
        /\ swallowed' = (swallowed \/ f.kind = "notify")
  /\ Received
  /\ UNCHANGED <<browser, cmds, wake, batch, shut, view, up, daemon, writing, shown>>

\* The five second read timeout, or the connection has ended.  What was kept
\* back is lost.
ResizeFails ==
  /\ pc = "resize" /\ Incoming = <<>>
  /\ Answered(FALSE)
  /\ raw' = FALSE
  /\ stale' = TRUE
  /\ UNCHANGED <<browser, cmds, wake, batch, shut, view, pend, up, down, daemon, writing, shown, swallowed>>

\* leader_on_connection.
BeginLeader ==
  /\ pc = "controls" /\ ctl # <<>> /\ Head(ctl).kind = "leader"
  /\ up' = Append(up, Frame("leader", 0))
  /\ pc' = "lead"
  /\ UNCHANGED <<browser, cmds, wake, turn, view, pend, down, daemon, out, writing, told, marks>>

\* A frame while the role is awaited; with the role, latest_grid is applied.
AwaitLeader ==
  /\ pc = "lead" /\ Incoming # <<>>
  /\ LET f == Head(Incoming)
     IN /\ CASE f.kind = "notify" /\ f.n = 0 ->
                  lead' = FALSE /\ Inform(FALSE, "lead") /\ UNCHANGED <<ctl, up, answers>>
             [] f.kind = "notify" /\ f.n = 1 ->
                  /\ lead' = TRUE /\ shown' = 1
                  /\ IF grid = 0 THEN Answered(TRUE) /\ UNCHANGED up
                     ELSE Emit("resize") /\ up' = up \o Exchange(Head(ctl).n) /\ UNCHANGED <<ctl, answers>>
             [] f.kind = "error" -> Answered(FALSE) /\ UNCHANGED <<lead, up, shown>>
             [] f.kind = "out" -> UNCHANGED <<pc, lead, ctl, up, out, told>>
             [] OTHER -> Flushed("lead") /\ UNCHANGED <<lead, ctl, up, told>>
        /\ raw' = (f.kind = "out")
  /\ Received
  /\ UNCHANGED <<browser, cmds, wake, batch, shut, grid, daemon, writing, marks>>

LeaderFails ==
  /\ pc = "lead" /\ Incoming = <<>>
  /\ Answered(FALSE)
  /\ raw' = FALSE
  /\ UNCHANGED <<browser, cmds, wake, batch, shut, view, pend, up, down, daemon, writing, shown, marks>>

-----------------------------------------------------------------------------
Reader ==
  \/ \E kind \in {"bytes", "resize", "leader"} : ReadCommand(kind)
  \/ ReadReplied \/ ReadClose \/ AuthLost

Bridge ==
  \/ Connect \/ ConnectFails
  \/ PollFrame \/ PollHangup \/ PollWake \/ Drain \/ TakeCommand \/ SendBatch
  \/ AwaitAck \/ AckFails
  \/ TurnDone \/ \E empty \in BOOLEAN : BeginResize(empty)
  \/ AwaitResize \/ ResizeFails \/ BeginLeader \/ AwaitLeader \/ LeaderFails

Writer == WriterSends \/ WriterEnds \/ WriterFails

Next ==
  \/ Reader \/ ReaderAborted \/ Bridge \/ Writer
  \/ DaemonReads \/ ChildOutput \/ LeaderTaken \/ DaemonCloses

\* The runtime polls its tasks and the bridge has a thread of its own; neither
\* the browser nor the daemon owes anything.
Spec ==
  /\ Init /\ [][Next]_vars
  /\ WF_vars(Bridge) /\ WF_vars(WriterSends \/ WriterEnds) /\ WF_vars(ReaderAborted)

-----------------------------------------------------------------------------
(* Properties.                                                             *)

\* What the browser typed reaches the daemon once and in order, also when the
\* message before the close and the close are drained together: without a
\* broken connection nothing typed is lost.
TypedArrives ==
  /\ IsPrefix(typed, keys)
  /\ pc = "done" /\ shut /\ ~gone /\ up = <<>> => typed = keys

\* A request is answered at most once, in the order of the requests, and a
\* resize that is answered with ok was applied by the daemon.  The answer to a
\* request after a failed exchange may be the late one of that exchange.
AnswersTrue ==
  /\ \A i, j \in 1..Len(answers) : i < j => answers[i].n < answers[j].n
  /\ \A i \in 1..Len(answers) :
       answers[i].ok /\ answers[i].from = "resize" /\ ~stale => answers[i].n \in applied

\* When no notification is on its way the browser is shown who leads, unless
\* one was skipped while a resize was awaited.
LeaderShown ==
  pc = "poll" /\ ~swallowed /\ up = <<>>
  /\ (\A i \in 1..Len(Incoming) : Incoming[i].kind # "notify")
    => shown = Flag(leader)

\* The bridge is faithful to both sides: what is typed, what is answered and
\* who leads.
BridgeFaithful == TypedArrives /\ AnswersTrue /\ LeaderShown

\* Whatever ends one side ends the attach: a close by the browser, a lost
\* authentication or a daemon that hung up.  A browser that still listens is
\* told when the authentication was the reason.
AttachEnds ==
  (reader = "ended" \/ (gone /\ pc # "connect"))
    ~> /\ pc = "done" /\ writer = "done"
       /\ lost => last \in {"close", "broken"}

=============================================================================
