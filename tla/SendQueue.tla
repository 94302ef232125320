----------------------------- MODULE SendQueue -----------------------------
(***************************************************************************)
(* The send queues of the attached clients and of those that are being     *)
(* closed (daemon/broadcast.rs), with the sockets they are written to.     *)
(*                                                                         *)
(* A pass of the serve loop writes the queues of the attached clients,     *)
(* then those of the closing ones, then enqueues what the pass produces    *)
(* and retires the clients that are to go.  Each write(2) is a step of its *)
(* own, so that the peers read, or go away, between any two of them.       *)
(*                                                                         *)
(* A frame is a number of bytes; the byte <<n, i>> is byte i of the n-th   *)
(* frame that was accepted for the client.  The log of a client's frames   *)
(* has, for each, how many bytes were accepted before it (start).          *)
(***************************************************************************)
EXTENDS Naturals, FiniteSets, Sequences, SequencesExt

CONSTANTS
  NumClients,    \* clients are 1..NumClients
  Sizes,         \* sizes of broadcast and reply frames
  MaxFrameSize,  \* MAX_FRAME_SIZE
  RedrawSize,    \* size of the redraw after an attach
  NoticeSize,    \* size of the backpressure.disconnect frame
  BufferLimit,   \* client_buffer_bytes
  WriteBudget,   \* WRITE_BUDGET_PER_PASS
  SocketBuffer,  \* bytes the kernel holds for a peer that does not read
  MaxClosing,    \* MAX_CLOSING_CLIENTS
  MaxFrames      \* bound: frames accepted for one client

ASSUME SizesAssumption ==
  /\ NumClients \in Nat \ {0}
  /\ MaxFrameSize \in Nat /\ Sizes \subseteq 1..MaxFrameSize /\ Sizes # {}
  /\ \A n \in {RedrawSize, NoticeSize, BufferLimit, WriteBudget, SocketBuffer} : n \in Nat \ {0}
  /\ MaxClosing \in Nat /\ MaxFrames \in Nat

Clients == 1..NumClients
Nobody == 0

VARIABLES
  st,       \* attached, closing or closed
  conn,     \* SendQueue of each client, with the accepted frames and the bytes written
  unread,   \* bytes in the kernel that the peer has not read
  owed,     \* clients whose first redraw is still to come
  leaving,  \* clients to be retired at the end of the pass
  late,     \* closing clients past CLOSE_FLUSH_TIMEOUT
  pc,       \* where the serve loop is
  todo,     \* clients whose queue is still to be written in this phase
  at,       \* the client whose queue is being written
  left,     \* what is left of its budget
  ending,   \* how far the end has come: no, upgrade, or leave, notify, drain
  overdue   \* the flush of the end has used up its time

vars == <<st, conn, unread, owed, leaving, late, pc, todo, at, left, ending, overdue>>
loop == <<pc, todo, at, left>>
fate == <<owed, leaving, ending, overdue>>

Conn == [frames : Seq(Nat), head : Nat, queued : Nat, failed : BOOLEAN,
         log : Seq([start : Nat, len : Nat, kind : {"frame", "redraw", "notice"}]),
         wire : Seq(Nat \X Nat)]

Attached == {c \in Clients : st[c] = "attached"}
Closing == {c \in Clients : st[c] = "closing"}
FirstOf(S) == CHOOSE c \in S : \A d \in S : c <= d

\* is_settled: nothing to write, or nothing that could be written.
is_settled(k) == k.failed \/ k.frames = <<>>
Unsettled(S) == {c \in S : ~is_settled(conn[c])}

\* An empty queue.
Fresh == [frames |-> <<>>, head |-> 0, queued |-> 0, failed |-> FALSE, log |-> <<>>, wire |-> <<>>]

\* The clients get new states; what is closed takes its queue, its socket and
\* its deadline with it.
Settle(new) ==
  LET open(c) == new[c] # "closed"
  IN /\ st' = new
     /\ conn' = [c \in Clients |-> IF open(c) THEN conn[c] ELSE Fresh]
     /\ unread' = [c \in Clients |-> IF open(c) THEN unread[c] ELSE 0]
     /\ late' = {c \in late : open(c)}
     /\ owed' = {c \in owed : open(c)}

Init ==
  /\ st = [c \in Clients |-> "attached"]
  /\ conn = [c \in Clients |-> Fresh]
  /\ unread = [c \in Clients |-> 0]
  /\ owed = Clients /\ leaving = {} /\ late = {}
  /\ pc = "work" /\ todo = {} /\ at = Nobody /\ left = 0
  /\ ending = "no" /\ overdue = FALSE

-----------------------------------------------------------------------------
(* SendQueue.                                                              *)

\* The bytes of all accepted frames, which only FramesIntact asks for.
Accepted(log) == IF log = <<>> THEN 0 ELSE log[Len(log)].start + log[Len(log)].len

\* push
push(k, len, kind) ==
  [k EXCEPT !.log = Append(@, [start |-> Accepted(@), len |-> len, kind |-> kind]),
            !.frames = Append(@, Len(k.log) + 1),
            !.queued = @ + len]

\* fail: nothing is kept, and nothing more will be written.
fail == [Fresh EXCEPT !.failed = TRUE]

\* Mutant of Overflows: the new frame is not counted.
OverflowsMutant(k, len) == ~k.failed /\ k.queued > 0 /\ k.queued > BufferLimit

\* enqueue_for_client refuses: the client lags behind and the frame is too much.
Overflows(k, len) == ~k.failed /\ k.queued > 0 /\ k.queued + len > BufferLimit

\* enqueue_for_client, and the notice of handle_enqueue_outcome.
enqueue_for_client(k, len) ==
  IF k.failed THEN k
  ELSE IF Overflows(k, len) THEN push(k, NoticeSize, "notice")
  ELSE push(k, len, "frame")

\* Mutant of Written: a frame of which anything was written is done with.
WrittenShortMutant(k, n) ==
  LET f == Head(k.frames)
  IN [k EXCEPT !.wire = @ \o [i \in 1..n |-> <<f, k.head + i>>],
               !.queued = @ - n, !.head = 0, !.frames = Tail(@)]

\* write returned n: Ok(n) in write_to.
Written(k, n) ==
  LET f == Head(k.frames)
      done == k.head + n = k.log[f].len
  IN [k EXCEPT !.wire = @ \o [i \in 1..n |-> <<f, k.head + i>>],
               !.queued = @ - n,
               !.head = IF done THEN 0 ELSE @ + n,
               !.frames = IF done THEN Tail(@) ELSE @]

-----------------------------------------------------------------------------
(* write_to, one call of write(2) at a time.                               *)

\* flush_clients or advance_closing turns to the next client.
BeginWrite ==
  /\ pc \in {"flush", "closing"}
  /\ at = Nobody /\ todo # {}
  /\ at' = FirstOf(todo) /\ todo' = todo \ {at'} /\ left' = WriteBudget
  /\ UNCHANGED <<st, conn, unread, late, pc, fate>>

\* Part of the front frame goes to the socket.
WriteSome ==
  /\ at # Nobody
  /\ conn[at].frames # <<>> /\ left > 0
  /\ \E n \in 1..left :
       /\ conn[at].head + n <= conn[at].log[Head(conn[at].frames)].len
       /\ unread[at] + n <= SocketBuffer
       /\ conn' = [conn EXCEPT ![at] = Written(conn[at], n)]
       /\ unread' = [unread EXCEPT ![at] = @ + n]
       /\ left' = left - n
  /\ UNCHANGED <<st, late, pc, todo, at, fate>>

\* The peer has gone by the time of a write: the queue fails and is emptied.
WriteFailed ==
  /\ at # Nobody
  /\ conn[at].frames # <<>> /\ left > 0
  /\ conn' = [conn EXCEPT ![at] = fail]
  /\ UNCHANGED <<st, unread, late, loop, fate>>

\* Mutant of StillWriting: a closing client has no deadline.
StillWritingMutant(c) == ~is_settled(conn[c])

\* still_writing and the deadline of advance_closing; write_closing, used
\* while an upgrade waits, knows no deadline.
StillWriting(c) == ~is_settled(conn[c]) /\ (c \in late => ending = "upgrade")

\* write_to returns: Drained, Failed, Paused (no budget) or Blocked (the socket
\* is full).  A closing client that is done, or late, is closed.
EndWrite ==
  /\ at # Nobody
  /\ \/ is_settled(conn[at])
     \/ left = 0
     \/ unread[at] = SocketBuffer
  /\ Settle(IF pc = "closing" /\ ~StillWriting(at) THEN [st EXCEPT ![at] = "closed"] ELSE st)
  /\ at' = Nobody /\ left' = 0
  /\ UNCHANGED <<pc, todo, leaving, ending, overdue>>

-----------------------------------------------------------------------------
(* The passes of the loop.                                                 *)

PhaseOver == at = Nobody /\ todo = {}

\* The attached clients are written; the closing ones are next.
FlushDone ==
  /\ pc = "flush" /\ PhaseOver /\ ending \in {"no", "upgrade"}
  /\ pc' = "closing" /\ todo' = Closing
  /\ UNCHANGED <<st, conn, unread, late, at, left, fate>>

\* The closing clients are written; the rest of the pass follows.
ClosingDone ==
  /\ pc = "closing" /\ PhaseOver /\ ending = "no"
  /\ pc' = "work"
  /\ UNCHANGED <<st, conn, unread, late, todo, at, left, fate>>

\* broadcast_bytes, broadcast_master_bytes, broadcast_control: whoever
\* overflows gets the notice and is to be retired, unless the caller throws
\* the list of ids away.
Broadcast(len, forgotten) ==
  /\ pc = "work"
  /\ \A c \in Attached : Len(conn[c].log) < MaxFrames
  /\ Attached # {}
  /\ conn' = [c \in Clients |-> IF c \in Attached THEN enqueue_for_client(conn[c], len) ELSE conn[c]]
  /\ leaving' = IF forgotten THEN leaving
                ELSE leaving \cup {c \in Attached : Overflows(conn[c], len)}
  /\ UNCHANGED <<st, unread, late, loop, owed, ending, overdue>>

\* send_control, send_raw_ack: a reply to one client, dropped on overflow.
Reply(c, len) ==
  /\ pc = "work" /\ c \in Attached
  /\ Len(conn[c].log) < MaxFrames
  /\ ~conn[c].failed /\ ~Overflows(conn[c], len)
  /\ conn' = [conn EXCEPT ![c] = push(@, len, "frame")]
  /\ UNCHANGED <<st, unread, late, loop, fate>>

\* send_initial_attach_redraw: once, whatever the limit says.
InitialRedraw(c) ==
  /\ pc = "work" /\ c \in owed \cap Attached
  /\ Len(conn[c].log) < MaxFrames
  /\ owed' = owed \ {c}
  /\ conn' = [conn EXCEPT ![c] = IF @.failed THEN @ ELSE push(@, RedrawSize, "redraw")]
  /\ UNCHANGED <<st, unread, late, loop, leaving, ending, overdue>>

\* A client detaches, is detached, or its connection ends.
Detach(c) ==
  /\ pc = "work" /\ c \in Attached \ leaving
  /\ leaving' = leaving \cup {c}
  /\ UNCHANGED <<st, conn, unread, late, loop, owed, ending, overdue>>

\* retire_client for each of S: a client with nothing left to write is closed,
\* the others become closing ones as far as there is room.
Retired(S) ==
  {[c \in Clients |-> IF c \in S THEN (IF c \in kept THEN "closing" ELSE "closed") ELSE st[c]] :
     kept \in {K \in SUBSET Unsettled(S) :
                 \/ K = Unsettled(S) /\ Cardinality(Closing \cup K) <= MaxClosing
                 \/ Cardinality(Closing \cup K) = MaxClosing}}

\* The pass ends: those who are leaving are retired and the next one begins.
EndPass ==
  /\ pc = "work"
  /\ \E new \in Retired(leaving) : Settle(new)
  /\ leaving' = {}
  /\ pc' = "flush"
  /\ todo' = Unsettled(Attached \ leaving)
  /\ UNCHANGED <<at, left, ending, overdue>>

\* serve_loop returns, or waits for the queues before an upgrade: after the
\* drops of this pass (a frame decided it), or before them (a signal, --until or
\* the end of the master), when those who were to be retired are forgotten.
BeginEnding(why) ==
  /\ pc = "work" /\ ending = "no"
  /\ ending' = why /\ leaving' = {}
  /\ pc' = "flush"
  /\ \E gone \in {leaving, {}} :
       /\ \E new \in Retired(gone) : Settle(new)
       /\ todo' = Unsettled(Attached \ gone)
  /\ UNCHANGED <<at, left, overdue>>

\* All that can be written of S is written.
FlushedOut(S) == overdue \/ Unsettled(S) = {}

\* flush_until: once more as long as something is left and there is time.
FlushAgain ==
  /\ pc = "flush" /\ PhaseOver /\ ending \in {"leave", "notify"}
  /\ ~FlushedOut(Attached)
  /\ todo' = Unsettled(Attached)
  /\ UNCHANGED <<st, conn, unread, late, pc, at, left, fate>>

\* session.exit.notify is enqueued and flushed in its turn.
NotifyExit ==
  /\ pc = "flush" /\ PhaseOver /\ ending = "leave"
  /\ FlushedOut(Attached)
  /\ conn' = [c \in Clients |-> IF c \in Attached THEN enqueue_for_client(conn[c], NoticeSize)
                                ELSE conn[c]]
  /\ todo' = {c \in Attached : ~conn[c].failed}
  /\ ending' = "notify" /\ overdue' = FALSE
  /\ UNCHANGED <<st, unread, late, pc, at, left, owed, leaving>>

\* Everyone who is left is retired.
RetireAll ==
  /\ pc = "flush" /\ PhaseOver /\ ending = "notify"
  /\ FlushedOut(Attached)
  /\ \E new \in Retired(Attached) : Settle(new)
  /\ ending' = "drain" /\ pc' = "closing"
  /\ UNCHANGED <<todo, at, left, leaving, overdue>>

\* drain_closing: once more as long as somebody is closing.
DrainClosing ==
  /\ pc = "closing" /\ PhaseOver /\ ending = "drain"
  /\ Closing # {}
  /\ todo' = Closing
  /\ UNCHANGED <<st, conn, unread, late, pc, at, left, fate>>

\* The wait before an upgrade: attached and closing clients once more.
UpgradeFlushAgain ==
  /\ pc = "closing" /\ PhaseOver /\ ending = "upgrade"
  /\ ~FlushedOut(Attached \cup Closing)
  /\ pc' = "flush" /\ todo' = Unsettled(Attached)
  /\ UNCHANGED <<st, conn, unread, late, at, left, fate>>

\* serve() returns, or exec closes every socket.
Finish ==
  /\ pc = "closing" /\ PhaseOver
  /\ \/ ending = "drain" /\ Closing = {}
     \/ ending = "upgrade" /\ FlushedOut(Attached \cup Closing)
  /\ Settle([c \in Clients |-> "closed"])
  /\ pc' = "done"
  /\ UNCHANGED <<todo, at, left, leaving, ending, overdue>>

-----------------------------------------------------------------------------
(* The peers and the clock.                                                *)

\* A peer reads what the kernel has for it.
PeerReads(c) ==
  /\ unread[c] > 0
  /\ unread' = [unread EXCEPT ![c] = 0]
  /\ UNCHANGED <<st, conn, late, loop, fate>>

\* CLOSE_FLUSH_TIMEOUT of a closing client runs out.
CloseTimeout(c) ==
  /\ c \in Closing \ late
  /\ late' = late \cup {c}
  /\ UNCHANGED <<st, conn, unread, loop, fate>>

\* DRAIN_BUDGET or UPGRADE_FLUSH_BUDGET runs out.
FlushTimeout ==
  /\ ending \in {"leave", "notify", "upgrade"} /\ ~overdue /\ pc # "done"
  /\ overdue' = TRUE
  /\ UNCHANGED <<st, conn, unread, late, loop, owed, leaving, ending>>

-----------------------------------------------------------------------------
Writing == BeginWrite \/ WriteSome \/ WriteFailed \/ EndWrite
Turning ==
  \/ FlushDone \/ ClosingDone \/ EndPass
  \/ FlushAgain \/ NotifyExit \/ RetireAll \/ DrainClosing
  \/ UpgradeFlushAgain \/ Finish
Working ==
  \/ \E len \in Sizes, forgotten \in BOOLEAN : Broadcast(len, forgotten)
  \/ \E c \in Clients, len \in Sizes : Reply(c, len)
  \/ \E c \in Clients : InitialRedraw(c) \/ Detach(c)
  \/ \E why \in {"leave", "upgrade"} : BeginEnding(why)
Clock == FlushTimeout \/ \E c \in Clients : CloseTimeout(c)
Peers == \E c \in Clients : PeerReads(c)

Next == Writing \/ Turning \/ Working \/ Clock \/ Peers

\* The loop runs, and clocks advance.  Nothing is assumed of the peers.
Fairness ==
  /\ WF_vars(Writing \/ Turning)
  /\ \A c \in Clients : WF_vars(CloseTimeout(c))
  /\ WF_vars(FlushTimeout)

Spec == Init /\ [][Next]_vars /\ Fairness

-----------------------------------------------------------------------------
(* Properties.                                                             *)

\* Whatever was written in whichever portions, the socket has seen the bytes
\* of the accepted frames in order with nothing lost, repeated or torn: the
\* bytes before byte i of a frame are all those of the frames accepted before
\* it, and its own before i.  What is left in the queue is exactly the rest
\* (write_to, head_written), and queued_bytes counts it, so that it never wraps
\* below zero and a client that has read everything is never found over its
\* limit.
FramesIntact ==
  \A c \in Clients :
    LET k == conn[c]
        sent == Len(k.wire)
    IN /\ \A n \in DOMAIN k.log :
            k.log[n].start = IF n = 1 THEN 0 ELSE k.log[n - 1].start + k.log[n - 1].len
       /\ \A p \in 1..sent : \E n \in DOMAIN k.log : \E i \in 1..k.log[n].len :
            k.wire[p] = <<n, i>> /\ p = k.log[n].start + i
       /\ \A j \in DOMAIN k.frames : k.frames[j] = Len(k.log) - Len(k.frames) + j
       /\ IF k.frames = <<>> THEN sent = Accepted(k.log) ELSE sent = k.log[k.frames[1]].start + k.head
       /\ k.queued + sent = Accepted(k.log)

\* The frames of a kind that are queued, and the size of the largest frame, or the limit.
Queued(k, kind) == {j \in DOMAIN k.frames : k.log[k.frames[j]].kind = kind}
Limits == Sizes \cup {NoticeSize, BufferLimit}
Largest == CHOOSE s \in Limits : \A t \in Limits : t <= s

\* Beyond the limit, or one frame that is larger still, a queue holds at most
\* the first redraw and notices, so a client that does not read takes bounded
\* memory for everything but the notices; and no more sockets are held for
\* closing clients than MAX_CLOSING_CLIENTS.
QueuesBounded ==
  /\ Cardinality(Closing) <= MaxClosing
  /\ \A c \in Clients :
       LET redraws == Cardinality(Queued(conn[c], "redraw"))
           notices == Cardinality(Queued(conn[c], "notice"))
       IN /\ redraws <= 1
          /\ conn[c].queued <= Largest + redraws * RedrawSize + notices * NoticeSize

\* A client that is being closed is closed, and the end of serve_loop comes,
\* even if no peer reads: neither a socket nor the daemon is held for ever.  A
\* peer that keeps reading gets every frame: its queue is written out as long
\* as it is attached, however small the budget of a pass and the buffer of the
\* kernel are and whatever the other peers do.
QueuesDrain ==
  /\ LET pending == (\E c \in Clients : st[c] = "closing") \/ (ending # "no" /\ pc # "done")
     IN []<>~pending
  /\ \A c \in Clients :
       []<>(unread[c] = 0) => []<>(is_settled(conn[c]) \/ st[c] # "attached")

=============================================================================
