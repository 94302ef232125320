------------------------------ MODULE RawInput ------------------------------
(***************************************************************************)
(* Keyboard input from the clients to the PTY: `hyoui input' commands that *)
(* lock, send frames one by one and wait for each acknowledgement          *)
(* (client/auto_lock.rs, client/attach.rs), attached clients that type     *)
(* without waiting, and the daemon that takes one frame of a client in a   *)
(* pass and runs it through the reducer and its effects (daemon/reducer/,  *)
(* daemon/lock.rs, sys/fd.rs).                                             *)
(*                                                                         *)
(* The n-th frame of client c has the bytes <<c, n, 1>>, <<c, n, 2>>, ...  *)
(* Every write(2) to the PTY is a step of its own; the child reads, or does*)
(* not, between them.  A lock token stands for the client it was given to. *)
(* mode.change and the other broadcasts, which the commands skip while     *)
(* they wait, are left out.                                                *)
(***************************************************************************)
EXTENDS Naturals, Sequences, FiniteSets, SequencesExt

CONSTANTS
  NumClients,   \* clients are 1..NumClients
  Roles,        \* which of them are input commands, typists, read-only typists
  Lossy,        \* clients whose send queue may refuse a frame
  NumFrames,    \* bound: frames a client sends
  FrameSize,    \* bytes of a frame
  PtySize,      \* bytes the line discipline holds for a child that does not read
  MaxFeedbackRounds

ASSUME InputAssumption ==
  /\ NumClients \in Nat \ {0} /\ Lossy \subseteq 1..NumClients
  /\ Roles \subseteq [1..NumClients -> {"input", "rw", "ro"}]
  /\ NumFrames \in Nat /\ FrameSize \in Nat \ {0} /\ PtySize \in Nat \ {0}
  /\ MaxFeedbackRounds \in Nat /\ MaxFeedbackRounds >= 2

Clients == 1..NumClients
NoClient == 0

VARIABLES
  role,     \* what each client is
  cmd,      \* where each client program is
  sent,     \* frames it has sent
  inbox,    \* from client to daemon
  outbox,   \* answers from daemon to client
  attached, \* the clients of the daemon
  holder,   \* LockState::holder
  pc,       \* pass, frames, execute, upgrade or gone
  todo,     \* clients of which this pass has a frame
  todrop,   \* clients to be dropped at the end of it
  cur,      \* the client whose raw frame is being handled
  effects,  \* effects still to be executed in this round
  results,  \* their results still to be reduced
  further,  \* effects of the next round
  rounds,   \* rounds of execute_with_feedback
  disconnects,
  pending,  \* pending_write, pending_ack and next_effect_seq
  off,      \* bytes of the frame that are written
  broken,   \* the PTY fails
  buffer,   \* bytes in the PTY that the child has not read
  pty,      \* all bytes written to the PTY
  record,   \* what the record registry was given
  answers,  \* the answer to each frame that was handled
  upgrade   \* upgrade_pending

client == <<role, cmd, sent>>
daemon == <<attached, holder, pc, todo, todrop>>
run == <<cur, effects, results, further, rounds, disconnects, pending, off>>
tty == <<broken, buffer>>
trace == <<pty, record, answers>>
vars == <<client, inbox, outbox, daemon, run, tty, trace, upgrade>>

Inputs == {c \in Clients : role[c] = "input"}
Ro == {c \in Clients : role[c] = "ro"}

None == 0
frameNo == Len(answers[cur]) + 1
Bytes(c, n, i, j) == [k \in 1..(j - i + 1) |-> <<c, n, i + k - 1>>]

Init ==
  /\ role \in Roles
  /\ cmd = [c \in Clients |-> IF c \in Inputs THEN "start" ELSE "typing"]
  /\ sent = [c \in Clients |-> 0]
  /\ inbox = [c \in Clients |-> <<>>] /\ outbox = [c \in Clients |-> <<>>]
  /\ attached = Clients /\ holder = NoClient
  /\ pc = "pass" /\ todo = {} /\ todrop = {}
  /\ cur = NoClient /\ effects = <<>> /\ results = <<>> /\ further = <<>>
  /\ rounds = 0 /\ disconnects = {} /\ off = 0
  /\ pending = [write |-> None, ack |-> None, seq |-> 1]
  /\ broken = FALSE /\ buffer = 0 /\ pty = <<>> /\ record = <<>>
  /\ answers = [c \in Clients |-> <<>>]
  /\ upgrade = FALSE

-----------------------------------------------------------------------------
(* The clients.                                                            *)

Send(c, msgs) == inbox' = [inbox EXCEPT ![c] = @ \o msgs]

\* acquire_auto_lock sends lock.acquire, at first and again after a denial.
SendAcquire(c) ==
  /\ cmd[c] \in {"start", "denied"}
  /\ cmd' = [cmd EXCEPT ![c] = "locking"]
  /\ Send(c, <<"acquire">>)
  /\ UNCHANGED <<role, sent, outbox, daemon, run, tty, trace, upgrade>>

\* The response of the daemon; an error is taken for a failure, and the
\* command returns, which closes its connection.
LockAnswered(c) ==
  /\ cmd[c] = "locking" /\ outbox[c] # <<>>
  /\ outbox' = [outbox EXCEPT ![c] = Tail(@)]
  /\ LET msg == Head(outbox[c])
     IN /\ cmd' = [cmd EXCEPT ![c] = CASE msg = "acquired" -> "ready"
                                        [] msg = "denied" -> "denied"
                                        [] OTHER -> "failed"]
        /\ Send(c, IF msg = "error" THEN <<"eof">> ELSE <<>>)
  /\ UNCHANGED <<role, sent, daemon, run, tty, trace, upgrade>>

\* send_raw_bytes: a command waits for the acknowledgement, a typist does not.
SendRaw(c) ==
  /\ cmd[c] \in {"ready", "typing"} /\ sent[c] < NumFrames
  /\ sent' = [sent EXCEPT ![c] = @ + 1]
  /\ cmd' = [cmd EXCEPT ![c] = IF c \notin Inputs THEN @ ELSE "waiting"]
  /\ Send(c, <<"raw">>)
  /\ UNCHANGED <<role, outbox, daemon, run, tty, trace, upgrade>>

\* recv_raw_ack_inner: other frames than an acknowledgement are put aside; after
\* an error acknowledgement the command releases its lock and fails.
Acked(c) ==
  /\ cmd[c] = "waiting" /\ outbox[c] # <<>>
  /\ outbox' = [outbox EXCEPT ![c] = Tail(@)]
  /\ LET msg == Head(outbox[c])
     IN /\ cmd' = [cmd EXCEPT ![c] = CASE msg = "ok" -> "ready"
                                        [] msg = "err" -> "failed"
                                        [] OTHER -> @]
        /\ Send(c, IF msg = "err" THEN <<"release", "eof">> ELSE <<>>)
  /\ UNCHANGED <<role, sent, daemon, run, tty, trace, upgrade>>

\* All specs are done: release_auto_lock, and the connection is dropped.
Release(c) ==
  /\ cmd[c] = "ready" /\ sent[c] = NumFrames
  /\ cmd' = [cmd EXCEPT ![c] = "done"]
  /\ Send(c, <<"release", "eof">>)
  /\ UNCHANGED <<role, sent, outbox, daemon, run, tty, trace, upgrade>>

\* The timeout of the acquire or RAW_ACK_TIMEOUT (which poisons the
\* connection), or the end of the connection while the command waits.
GiveUp(c) ==
  /\ cmd[c] \in {"locking", "denied", "waiting"}
  /\ cmd' = [cmd EXCEPT ![c] = "failed"]
  /\ Send(c, <<"eof">>)
  /\ UNCHANGED <<role, sent, outbox, daemon, run, tty, trace, upgrade>>

\* The client is killed, or detaches.
Vanish(c) ==
  /\ cmd[c] \notin {"done", "failed"}
  /\ cmd' = [cmd EXCEPT ![c] = "failed"]
  /\ Send(c, <<"eof">>)
  /\ UNCHANGED <<role, sent, outbox, daemon, run, tty, trace, upgrade>>

-----------------------------------------------------------------------------
(* A pass of the serve loop.                                               *)

\* receive_client_frame: one frame of each client that is readable.
Receive ==
  /\ pc = "pass"
  /\ todo' = {c \in attached : inbox[c] # <<>>}
  /\ todo' # {}
  /\ pc' = "frames"
  /\ UNCHANGED <<client, inbox, outbox, attached, holder, todrop, run, tty, trace, upgrade>>

\* The frames of a pass are handled in the order of the clients.
Handling(c, msg) ==
  pc = "frames" /\ c \in todo /\ (\A d \in todo : c <= d) /\ Head(inbox[c]) = msg

\* The frame of c is taken.
Take(c) ==
  /\ todo' = todo \ {c}
  /\ inbox' = [inbox EXCEPT ![c] = Tail(@)]

\* Answers to c: only a queue that is full or broken refuses them, and only
\* the reader of an answer keeps it.
Reply(c, msgs) ==
  \/ outbox' = [outbox EXCEPT ![c] = IF c \in Inputs THEN @ \o msgs ELSE @]
  \/ c \in Lossy /\ UNCHANGED outbox

\* End of file or a broken connection.
EndOfFile(c) ==
  /\ Handling(c, "eof") /\ Take(c)
  /\ todrop' = todrop \cup {c}
  /\ UNCHANGED <<client, outbox, attached, holder, pc, run, tty, trace, upgrade>>

\* handle_lock_acquire: granted, denied, or no token could be made.
LockAcquire(c) ==
  /\ Handling(c, "acquire") /\ Take(c)
  /\ \/ holder \in {NoClient, c} /\ holder' = c /\ Reply(c, <<"acquired">>)
     \/ holder \notin {NoClient, c} /\ UNCHANGED holder /\ Reply(c, <<"denied">>)
     \/ holder = NoClient /\ UNCHANGED holder /\ Reply(c, <<"denied", "error">>)
  /\ UNCHANGED <<client, attached, pc, todrop, run, tty, trace, upgrade>>

\* handle_lock_release: by the holder only.
LockRelease(c) ==
  /\ Handling(c, "release") /\ Take(c)
  /\ \/ holder = c /\ holder' = NoClient /\ UNCHANGED outbox
     \/ holder # c /\ UNCHANGED holder /\ Reply(c, <<"error">>)
  /\ UNCHANGED <<client, attached, pc, todrop, run, tty, trace, upgrade>>

\* A raw frame while an upgrade is pending: an error, and no acknowledgement.
RawRefused(c) ==
  /\ Handling(c, "raw") /\ Take(c)
  /\ upgrade
  /\ Reply(c, <<"error">>)
  /\ answers' = [answers EXCEPT ![c] = Append(@, "refused")]
  /\ UNCHANGED <<client, attached, holder, pc, todrop, run, tty, pty, record, upgrade>>

\* upgrade.request of a further client, among the frames of a pass.
UpgradeRequest ==
  /\ pc = "frames" /\ todo # {} /\ ~upgrade /\ upgrade' = TRUE
  /\ UNCHANGED <<client, inbox, outbox, daemon, run, tty, trace>>

\* reduce_raw_data refuses a read-only client, and everyone but the holder.
Rejected(c) == c \in Ro \/ holder \notin {NoClient, c}

\* reduce_raw_data: a record and a tracked error acknowledgement, or a tracked
\* write.
RawData(c) ==
  /\ Handling(c, "raw") /\ Take(c)
  /\ ~upgrade
  /\ cur' = c /\ pc' = "execute" /\ rounds' = 1 /\ off' = 0
  /\ LET s == pending.seq
     IN IF Rejected(c)
        THEN /\ effects' = <<[seq |-> s, kind |-> "rejected"],
                             [seq |-> s + 1, kind |-> "err"]>>
             /\ pending' = [pending EXCEPT !.ack = s + 1, !.seq = s + 2]
        ELSE /\ effects' = <<[seq |-> s, kind |-> "write"]>>
             /\ pending' = [pending EXCEPT !.write = s, !.seq = s + 1]
  /\ UNCHANGED <<client, outbox, attached, holder, todrop, results, further, disconnects,
                 tty, trace, upgrade>>

-----------------------------------------------------------------------------
(* execute and the feedback of its results.                                *)

Executing(kinds) == pc = "execute" /\ effects # <<>> /\ Head(effects).kind \in kinds
Result(r) == results' = Append(results, [seq |-> Head(effects).seq, outcome |-> r])

\* Record effects: bytes that reached the PTY, bytes that did not, a refusal.
\* They have no result.
ExecRecord ==
  /\ Executing({"in", "unwritten", "rejected"})
  /\ record' = record \o
       LET kind == Head(effects).kind
           bytes == CASE kind = "in" -> Bytes(cur, frameNo, 1, off)
                      [] kind = "unwritten" -> Bytes(cur, frameNo, off + 1, FrameSize)
                      [] kind = "rejected" -> Bytes(cur, frameNo, 1, FrameSize)
       IN [k \in DOMAIN bytes |-> <<kind, bytes[k]>>]
  /\ effects' = Tail(effects)
  /\ UNCHANGED <<client, inbox, outbox, daemon, cur, results, further, rounds, disconnects,
                 pending, off, tty, pty, answers, upgrade>>

\* ClientRawAck: sent, or refused by a lossy queue.
ExecAck ==
  /\ Executing({"ok", "err"})
  /\ LET kind == Head(effects).kind
     IN \/ /\ outbox' = [outbox EXCEPT ![cur] = IF cur \in Inputs THEN Append(@, kind) ELSE @]
           /\ answers' = [answers EXCEPT ![cur] = Append(@, kind)]
           /\ Result("ok")
        \/ /\ cur \in Lossy
           /\ answers' = [answers EXCEPT ![cur] = Append(@, "lost")]
           /\ Result("failed") /\ UNCHANGED outbox
  /\ effects' = Tail(effects)
  /\ UNCHANGED <<client, inbox, daemon, cur, further, rounds, disconnects, pending, off,
                 tty, pty, record, upgrade>>

\* ClientReply, the master.write-timeout error.
ExecReply ==
  /\ Executing({"error"})
  /\ Reply(cur, <<"error">>)
  /\ Result(IF outbox' = outbox /\ cur \in Lossy THEN "failed" ELSE "ok")
  /\ effects' = Tail(effects)
  /\ UNCHANGED <<client, inbox, daemon, cur, further, rounds, disconnects, pending, off,
                 tty, trace, upgrade>>

\* Mutant of ExecDisconnect: the id is lost.
ExecDisconnectMutant ==
  /\ Executing({"disconnect"})
  /\ UNCHANGED disconnects
  /\ effects' = Tail(effects)
  /\ UNCHANGED <<client, inbox, outbox, daemon, cur, results, further, rounds, pending, off,
                 tty, trace, upgrade>>

\* ClientDisconnect
ExecDisconnect ==
  /\ Executing({"disconnect"})
  /\ disconnects' = disconnects \cup {cur}
  /\ effects' = Tail(effects)
  /\ UNCHANGED <<client, inbox, outbox, daemon, cur, results, further, rounds, pending, off,
                 tty, trace, upgrade>>

\* TtyWrite: write_all_with_idle_timeout writes what the PTY takes.
WriteSome ==
  /\ Executing({"write"}) /\ off < FrameSize
  /\ \E n \in 1..(FrameSize - off) :
       /\ buffer + n <= PtySize
       /\ pty' = pty \o Bytes(cur, frameNo, off + 1, off + n)
       /\ off' = off + n /\ buffer' = buffer + n
  /\ UNCHANGED <<client, inbox, outbox, daemon, cur, effects, results, further, rounds,
                 disconnects, pending, broken, record, answers, upgrade>>

\* How the write may end: all is written; the PTY is full and nobody reads it
\* for MASTER_WRITE_IDLE_TIMEOUT_MS; or the PTY fails.
WriteOutcome ==
  {r \in {"written", "timeout", "io"} :
     /\ r = "written" <=> off = FrameSize
     /\ r = "timeout" => buffer = PtySize
     /\ r = "io" => broken}

\* TtyWrite returns.
ExecWritten ==
  /\ Executing({"write"})
  /\ \E r \in WriteOutcome : Result(r)
  /\ effects' = Tail(effects)
  /\ UNCHANGED <<client, inbox, outbox, daemon, cur, further, rounds, disconnects, pending,
                 off, tty, trace, upgrade>>

\* Mutant of FinishWrite: the bytes written before an error are not recorded.
FinishWriteMutant(r) ==
  CASE r = "written" -> <<"in", "ok">>
    [] r = "timeout" -> <<"unwritten", "err", "error", "disconnect">>
    [] r = "io" -> <<"unwritten", "err", "disconnect">>

\* finish_write: the effects that follow a write.
FinishWrite(r) ==
  (IF off > 0 THEN <<"in">> ELSE <<>>) \o
  CASE r = "written" -> <<"ok">>
    [] r = "timeout" -> <<"unwritten", "err", "error", "disconnect">>
    [] r = "io" -> <<"unwritten", "err", "disconnect">>

\* reduce_effect_result: the result of the write, of a tracked acknowledgement,
\* or one nobody waits for.
Followed(res) ==
  IF res.seq = pending.write THEN FinishWrite(res.outcome)
  ELSE IF res.seq = pending.ack /\ res.outcome = "failed" THEN <<"disconnect">>
  ELSE <<>>

\* One result goes back through the reducer.  Only the good acknowledgement of
\* a write is tracked.
Feedback ==
  /\ pc = "execute" /\ effects = <<>> /\ results # <<>>
  /\ LET res == Head(results)
         kinds == Followed(res)
         s == pending.seq
     IN /\ further' = further \o [k \in DOMAIN kinds |-> [seq |-> s + k - 1, kind |-> kinds[k]]]
        /\ pending' =
             [write |-> IF res.seq = pending.write THEN None ELSE pending.write,
              ack |-> IF "ok" \in {kinds[k] : k \in DOMAIN kinds}
                      THEN s + (CHOOSE k \in DOMAIN kinds : kinds[k] = "ok") - 1
                      ELSE IF res.seq = pending.ack THEN None ELSE pending.ack,
              seq |-> s + Len(kinds)]
  /\ results' = Tail(results)
  /\ UNCHANGED <<client, inbox, outbox, daemon, cur, effects, rounds, disconnects, off, tty,
                 trace, upgrade>>

RoundOver == pc = "execute" /\ effects = <<>> /\ results = <<>>

\* The effects of the results are executed in their turn.
NextRound ==
  /\ RoundOver /\ further # <<>> /\ rounds < MaxFeedbackRounds
  /\ effects' = further /\ further' = <<>> /\ rounds' = rounds + 1
  /\ UNCHANGED <<client, inbox, outbox, daemon, cur, results, disconnects, pending, off, tty,
                 trace, upgrade>>

\* The frame is done, or given up with what is still to be executed: DropClient
\* if its sender is among the disconnects.
FrameDone ==
  /\ RoundOver /\ (further = <<>> \/ rounds = MaxFeedbackRounds)
  /\ further' = <<>>
  /\ todrop' = todrop \cup (disconnects \cap {cur})
  /\ disconnects' = {} /\ cur' = NoClient /\ rounds' = 0 /\ off' = 0
  /\ pc' = "frames"
  /\ UNCHANGED <<client, inbox, outbox, attached, holder, todo, effects, results, pending,
                 tty, trace, upgrade>>

\* Mutant of Collected: the lock of a client that goes is kept.
CollectedMutant(gone) == holder

\* ClientDisconnected in the Lock reducer.
Collected(gone) == IF holder \in gone THEN NoClient ELSE holder

\* The end of the pass: the drops, and the lock of those that are dropped.
EndPass ==
  /\ pc = "frames" /\ todo = {}
  /\ attached' = attached \ todrop
  /\ inbox' = [c \in Clients |-> IF c \in todrop THEN <<>> ELSE inbox[c]]
  /\ holder' = Collected(todrop)
  /\ todrop' = {}
  /\ pc' = IF upgrade THEN "upgrade" ELSE "pass"
  /\ UNCHANGED <<client, outbox, todo, run, tty, trace, upgrade>>

\* exec: every connection is closed.  (That an upgrade may fail here, and what
\* is forgotten then, is in SessionClients.)
UpgradeExec ==
  /\ pc = "upgrade"
  /\ pc' = "gone" /\ attached' = {} /\ holder' = NoClient
  /\ UNCHANGED <<client, inbox, outbox, todo, todrop, run, tty, trace, upgrade>>

\* The child reads.  It does so, or ends, while a write goes on: only a write
\* can tell.
ChildReads ==
  /\ Executing({"write"})
  /\ buffer > 0 /\ buffer' = 0
  /\ UNCHANGED <<client, inbox, outbox, daemon, run, broken, trace, upgrade>>

\* The child closes the PTY, or ends.
ChildGone ==
  /\ Executing({"write"})
  /\ ~broken /\ broken' = TRUE
  /\ UNCHANGED <<client, inbox, outbox, daemon, run, buffer, trace, upgrade>>

-----------------------------------------------------------------------------
\* A client and the daemon meet at the two ends of a queue only, so a client's
\* step is shown between passes and while the daemon is held up in a write; at
\* other places it would give the same behaviours.
Open == pc \in {"pass", "gone"} \/ Executing({"write"})

Program(c) ==
  /\ Open
  /\ \/ SendAcquire(c) \/ LockAnswered(c) \/ SendRaw(c)
     \/ Acked(c) \/ Release(c) \/ GiveUp(c)

Frame(c) ==
  \/ EndOfFile(c) \/ LockAcquire(c) \/ LockRelease(c) \/ RawRefused(c) \/ RawData(c)

Reduce ==
  \/ ExecRecord \/ ExecAck \/ ExecReply \/ ExecDisconnect \/ WriteSome \/ ExecWritten
  \/ Feedback \/ NextRound \/ FrameDone

Daemon == (\E c \in Clients : Frame(c)) \/ Reduce \/ EndPass \/ UpgradeExec

Next ==
  \/ \E c \in Clients : Program(c) \/ (Open /\ Vanish(c))
  \/ Receive \/ Daemon \/ UpgradeRequest \/ ChildReads \/ ChildGone

\* The daemon goes on with what it has begun and looks at whoever is readable;
\* a command that can take a step takes one, at the latest when its timeout
\* runs out.  (It runs by itself: that its step is shown only where Open holds
\* is what makes the fairness strong.)  Nothing is assumed of the child.
Fairness ==
  /\ WF_vars(Receive \/ Daemon)
  /\ \A c \in Clients : SF_vars(c \in Inputs /\ Program(c))

Spec == Init /\ [][Next]_vars /\ Fairness

-----------------------------------------------------------------------------
(* Properties.                                                             *)

BytesOf(c, n) == {k \in DOMAIN pty : pty[k][1] = c /\ pty[k][2] = n}
InPty(b) == \E k \in DOMAIN pty : pty[k] = b
InRecord(b) == \E j \in DOMAIN record : record[j][2] = b
Between == pc \in {"pass", "frames"}

\* An acknowledgement says what became of the frame: `ok' means that all its
\* bytes are in the PTY, an error or a refusal that they are not; there is one
\* answer for each frame that was handled (RawAck, DR-0021).  A command that
\* ends with success has all its bytes in the PTY.
AckTruthful ==
  /\ Between =>
       \A c \in Clients : \A n \in 1..NumFrames :
         LET ans == IF n <= Len(answers[c]) THEN answers[c][n] ELSE "none"
             whole == \A i \in 1..FrameSize : InPty(<<c, n, i>>)
         IN /\ ans = "ok" => whole
            /\ ans \in {"err", "refused", "none"} => ~whole
  /\ \A c \in Inputs : cmd[c] = "done" =>
       \A n \in 1..NumFrames : \A i \in 1..FrameSize : InPty(<<c, n, i>>)

\* What the record says reached the PTY is what did, once and in the order in
\* which it did, and the other bytes of the frames are recorded as lost or
\* refused: the record has each byte of every frame that was handled once, and
\* no other.
RecordFaithful ==
  Between =>
    /\ \A k \in DOMAIN pty : \E j \in DOMAIN record : record[j] = <<"in", pty[k]>>
    /\ \A j \in DOMAIN record : record[j][1] = "in" => InPty(record[j][2])
    /\ \A k, l \in DOMAIN pty : pty[k] = pty[l] => k = l
    /\ \A i, j \in DOMAIN record : record[i][2] = record[j][2] => i = j
    /\ \A i, j \in DOMAIN record : i < j /\ record[i][1] = "in" /\ record[j][1] = "in" =>
         \A k, l \in DOMAIN pty : pty[k] = record[i][2] /\ pty[l] = record[j][2] => k < l
    /\ \A c \in Clients : \A n \in 1..Len(answers[c]) : \A i \in 1..FrameSize :
         InRecord(<<c, n, i>>) <=> answers[c][n] # "refused"
    /\ \A j \in DOMAIN record :
         LET c == record[j][2][1]
         IN record[j][2][2] \in 1..Len(answers[c]) /\ record[j][2][3] \in 1..FrameSize

\* What is said of a frame, to the client and in the record, is what became of it.
FrameAccounted == AckTruthful /\ RecordFaithful

\* The input of a command is one piece to the child: nothing another client
\* sends comes between its bytes, however often it waits, fails or is killed
\* (DR-0022).  And it has no hole: once a frame of a client is not written to its
\* end, nothing the client sent after it is written, because the client is
\* dropped before its next frame is taken.
InvocationAtomic ==
  /\ \A c \in Inputs : \A i, k \in DOMAIN pty :
       pty[i][1] = c /\ pty[k][1] = c => \A j \in i..k : pty[j][1] = c
  /\ \A c \in Clients : \A n \in 1..NumFrames :
       (\E k \in DOMAIN record : record[k][1] = "unwritten" /\ record[k][2] = <<c, n, FrameSize>>)
         => \A m \in (n + 1)..NumFrames : BytesOf(c, m) = {}

\* A frame is handled to its end even if the child never reads, within the bound
\* on feedback rounds, and the lock a command takes is given back, also by one
\* that is killed, times out or loses its connection.
LockReturned ==
  (pc = "execute" \/ holder # NoClient) ~> (pc # "execute" /\ holder = NoClient)

=============================================================================
