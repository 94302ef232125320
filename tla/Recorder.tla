------------------------------ MODULE Recorder ------------------------------
(***************************************************************************)
(* `hyoui record' (daemon/record.rs): the registry of running records that *)
(* the serve loop gives every event to, and for each record a bounded      *)
(* queue and a thread that writes it to a file.                            *)
(*                                                                         *)
(* The n-th event of the session is history[n].  What was pushed to a      *)
(* record is its `log', whose indices are the sequence numbers; its queue  *)
(* and its file are sequences of those numbers.  A byte event has one byte;*)
(* how a line is formatted is left out.                                    *)
(***************************************************************************)
EXTENDS Naturals, Sequences, FiniteSets, SequencesExt

CONSTANTS
  Requests,   \* record.start.request messages clients may send
  Kinds,      \* kinds of events that happen
  Capacity,   \* RECORD_QUEUE_CAPACITY
  MaxRecords, \* bound: record ids handed out
  MaxEvents   \* bound: events of the session

\* What start looks at in an output path: `parent' is what its directory resolves
\* to, `name' tells files apart.
Path == [absolute : BOOLEAN, dotdot : BOOLEAN,
         extension : {"jsonl", "raw", "bin", "log", "txt"},
         parent : {"missing", "sensitive", "plain"}, name : Nat]

\* What Recording assumes of the constants.
ConstantsOK ==
  /\ Requests \subseteq
       [direction : {"stdin", "stdout", "both"}, format : {"jsonl", "raw"},
        input_secrecy : {"record-all", "never-record-stdin", "redact-after-prompt"},
        max_bytes : Nat, max_duration : BOOLEAN, path : Path]
  /\ Kinds \subseteq {"in", "in-rejected", "out", "lifecycle"}
  /\ Capacity \in Nat \ {0} /\ MaxRecords \in Nat /\ MaxEvents \in Nat

Ids == 1..MaxRecords
Stdin == {"in", "in-rejected"}
Bytes == {"in", "out"}
Torn == 0
First(S) == CHOOSE r \in S : \A q \in S : r <= q

VARIABLES
  history, \* kinds of the events of the session
  next_id,
  sinks,   \* ids in the registry
  request, \* what each record was started with
  from,    \* the first event after its start
  log,     \* what was pushed to it: the event, and whether the queue took it
  queue,   \* the channel to its thread
  open,    \* it has a sender
  writer,  \* its thread
  work,    \* the event the thread is writing
  file,    \* what is in the file
  pc,      \* the serve loop: serve, push, abort, notify, join or ended
  todo,    \* sinks the current event is still to be pushed to
  aborted, \* aborted_ids
  leaving  \* sinks out of the registry whose thread is to be joined

started == <<next_id, request, from>>
threads == <<writer, work, file>>
loop == <<pc, todo, aborted, leaving>>
vars == <<history, started, sinks, log, queue, open, threads, loop>>

Over(r) == writer[r] \in {"drained", "limit", "failed", "killed"}

Init ==
  /\ history = <<>> /\ next_id = 1 /\ sinks = {}
  /\ request = <<>> /\ from = <<>> /\ log = <<>> /\ queue = <<>> /\ open = <<>>
  /\ writer = <<>> /\ work = <<>> /\ file = <<>>
  /\ pc = "serve" /\ todo = {} /\ aborted = {} /\ leaving = {}

-----------------------------------------------------------------------------
(* Requests of the clients.                                                *)

\* The path is absolute, has no `..', an extension of the allowlist, and a parent
\* directory that exists and is not, once resolved, one of the sensitive ones.
validate_output_path(path) ==
  /\ path.absolute /\ ~path.dotdot
  /\ path.extension \in {"jsonl", "raw", "bin", "log"}
  /\ path.parent = "plain"

\* open_record_file creates the file: one that exists is refused, so that no
\* two records write to the same one (a file stays when its record ends).
Creatable(path) == \A r \in DOMAIN request : request[r].path.name # path.name

\* The checks of start.  (What else may fail, the regex, the open or the thread,
\* refuses the request as well.)
Acceptable(req) ==
  /\ validate_output_path(req.path)
  /\ ~(req.format = "raw" /\ req.direction = "both")
  /\ req.input_secrecy # "redact-after-prompt"
  /\ Creatable(req.path)

\* start: the file is open, the thread runs, and the sink is in the registry.
Start(req) ==
  /\ pc = "serve" /\ next_id <= MaxRecords /\ Acceptable(req)
  /\ next_id' = next_id + 1
  /\ sinks' = sinks \cup {next_id}
  /\ request' = Append(request, req)
  /\ from' = Append(from, Len(history) + 1)
  /\ log' = Append(log, <<>>) /\ queue' = Append(queue, <<>>) /\ open' = Append(open, TRUE)
  /\ writer' = Append(writer, "header") /\ work' = Append(work, Torn)
  /\ file' = Append(file, <<>>)
  /\ UNCHANGED <<history, loop>>

\* record.stop: out of the registry, then the join.
Stop(r) ==
  /\ pc = "serve" /\ r \in sinks
  /\ sinks' = sinks \ {r} /\ leaving' = {r} /\ pc' = "join"
  /\ UNCHANGED <<history, started, log, queue, open, threads, todo, aborted>>

\* record.stop.all
StopAll ==
  /\ pc = "serve" /\ sinks # {}
  /\ sinks' = {} /\ leaving' = sinks /\ pc' = "join"
  /\ UNCHANGED <<history, started, log, queue, open, threads, todo, aborted>>

\* Mutant of CloseSender: the thread is joined before its sender is dropped.
CloseSenderMutant ==
  /\ pc = "join" /\ open[First(leaving)] /\ Over(First(leaving))
  /\ open' = [open EXCEPT ![First(leaving)] = FALSE]
  /\ UNCHANGED <<history, started, sinks, log, queue, threads, loop>>

\* join_writer drops the sender ...
CloseSender ==
  /\ pc = "join" /\ open[First(leaving)]
  /\ open' = [open EXCEPT ![First(leaving)] = FALSE]
  /\ UNCHANGED <<history, started, sinks, log, queue, threads, loop>>

\* ... and waits for the thread to end.
Joined ==
  /\ pc = "join" /\ ~open[First(leaving)] /\ Over(First(leaving))
  /\ leaving' = leaving \ {First(leaving)}
  /\ pc' = IF leaving' # {} THEN "join" ELSE IF aborted # {} THEN "abort" ELSE "serve"
  /\ UNCHANGED <<history, started, sinks, log, queue, open, threads, todo, aborted>>

-----------------------------------------------------------------------------
(* Events.                                                                 *)

\* The filter of each push_ operation, with the rule for secret input.
Wants(req, kind) ==
  /\ kind \in Stdin => req.direction \in {"stdin", "both"}
  /\ kind = "out" => req.direction \in {"stdout", "both"}
  /\ ~(kind \in Stdin /\ req.input_secrecy = "never-record-stdin")

\* push_bytes_in, push_bytes_out, push_in_rejected, push_in_write_error and
\* push_lifecycle.
Broadcast(kind) ==
  /\ pc = "serve" /\ Len(history) < MaxEvents /\ sinks # {}
  /\ history' = Append(history, kind)
  /\ pc' = "push" /\ todo' = {r \in sinks : Wants(request[r], kind)}
  /\ UNCHANGED <<started, sinks, log, queue, open, threads, aborted, leaving>>

\* try_push: the queue takes the event, is full for RECORD_PUSH_TIMEOUT, or has
\* lost its thread.  The sequence number is used up in any case.
Entry(r, e, ok) == log' = [log EXCEPT ![r] = Append(@, [event |-> e, ok |-> ok])]

Takes(r, e) ==
  /\ ~Over(r) /\ Len(queue[r]) < Capacity
  /\ Entry(r, e, TRUE)
  /\ queue' = [queue EXCEPT ![r] = Append(@, Len(log[r]) + 1)]

Refuses(r, e) ==
  /\ Over(r) \/ Len(queue[r]) = Capacity
  /\ Entry(r, e, FALSE)
  /\ UNCHANGED queue

\* broadcast_for, under the lock: one sink after the other.
PushTaken ==
  /\ pc = "push" /\ todo # {} /\ Takes(First(todo), Len(history))
  /\ todo' = todo \ {First(todo)}
  /\ UNCHANGED <<history, started, sinks, open, threads, pc, aborted, leaving>>

PushRefused ==
  /\ pc = "push" /\ todo # {} /\ Refuses(First(todo), Len(history))
  /\ todo' = todo \ {First(todo)}
  /\ aborted' = aborted \cup {First(todo)}
  /\ UNCHANGED <<history, started, sinks, open, threads, pc, leaving>>

PushOver ==
  /\ pc = "push" /\ todo = {}
  /\ pc' = IF aborted # {} THEN "abort" ELSE "serve"
  /\ UNCHANGED <<history, started, sinks, log, queue, open, threads, todo, aborted, leaving>>

\* A sink that refused the event is taken out of the registry.
Abort ==
  /\ pc = "abort"
  /\ LET r == First(aborted)
     IN /\ sinks' = sinks \ {r} /\ aborted' = aborted \ {r} /\ leaving' = {r}
        /\ todo' = sinks \ {r}
  /\ pc' = "notify"
  /\ UNCHANGED <<history, started, log, queue, open, threads>>

\* The others are told, if their queue takes it.  RecordAborted is no event of
\* the session: its number is 0.
Notify ==
  /\ pc = "notify" /\ todo # {}
  /\ Takes(First(todo), 0) \/ Refuses(First(todo), 0)
  /\ todo' = todo \ {First(todo)}
  /\ UNCHANGED <<history, started, sinks, open, threads, pc, aborted, leaving>>

NotifyOver ==
  /\ pc = "notify" /\ todo = {}
  /\ pc' = "join"
  /\ UNCHANGED <<history, started, sinks, log, queue, open, threads, todo, aborted, leaving>>

-----------------------------------------------------------------------------
(* The thread of a record.                                                 *)

\* The kind of a log entry, and whether the record's format has it in the file.
KindOf(r, s) == IF log[r][s].event = 0 THEN "lifecycle" ELSE history[log[r][s].event]
InFormat(r, s) == request[r].format = "raw" => KindOf(r, s) \in Bytes

\* The thread of r goes on as `how', with s to write; the channel of one that
\* ends is gone with what is in it.
WriterIs(r, how, s) ==
  /\ writer' = [writer EXCEPT ![r] = how]
  /\ work' = [work EXCEPT ![r] = s]
  /\ queue' = [queue EXCEPT ![r] = CASE how = "busy" -> Tail(@)
                                     [] how = "idle" -> @
                                     [] OTHER -> <<>>]

\* The header of a jsonl file, or an error.
Header(r) ==
  /\ writer[r] = "header"
  /\ \/ WriterIs(r, "idle", Torn)
     \/ request[r].format = "jsonl" /\ WriterIs(r, "failed", Torn)
  /\ UNCHANGED <<history, started, sinks, log, open, file, loop>>

\* recv
Receive(r) ==
  /\ writer[r] = "idle" /\ queue[r] # <<>>
  /\ WriterIs(r, "busy", Head(queue[r]))
  /\ UNCHANGED <<history, started, sinks, log, open, file, loop>>

\* exceeds_limits, after an event; the clock may say so whenever it is asked.
Recorded(r, f) == Len(SelectSeq(f, LAMBDA s : s # Torn /\ KindOf(r, s) \in Bytes))
exceeds_limits(r, f) ==
  {b \in BOOLEAN :
     LET full == request[r].max_bytes > 0 /\ Recorded(r, f) >= request[r].max_bytes
     IN (full => b) /\ (b => full \/ request[r].max_duration)}

\* handle_one_event
Write(r) ==
  /\ writer[r] = "busy"
  /\ file' = [file EXCEPT ![r] = IF InFormat(r, work[r]) THEN Append(@, work[r]) ELSE @]
  /\ \E b \in exceeds_limits(r, file'[r]) : WriterIs(r, IF b THEN "limit" ELSE "idle", Torn)
  /\ UNCHANGED <<history, started, sinks, log, open, loop>>

\* The write fails, after part of it or all of it.
WriteFails(r) ==
  /\ writer[r] = "busy" /\ InFormat(r, work[r])
  /\ \E rest \in {<<>>, <<Torn>>, <<work[r]>>} : file' = [file EXCEPT ![r] = @ \o rest]
  /\ WriterIs(r, "failed", Torn)
  /\ UNCHANGED <<history, started, sinks, log, open, loop>>

\* Mutant of Drained: what is queued when the sender goes is left.
DrainedEarlyMutant(r) ==
  /\ writer[r] = "idle" /\ ~open[r]
  /\ WriterIs(r, "drained", Torn)
  /\ UNCHANGED <<history, started, sinks, log, open, file, loop>>

\* recv fails once the sender is gone and the queue is empty.
Drained(r) ==
  /\ writer[r] = "idle" /\ queue[r] = <<>> /\ ~open[r]
  /\ WriterIs(r, "drained", Torn)
  /\ UNCHANGED <<history, started, sinks, log, open, file, loop>>

\* The daemon ends, by itself, by exec or killed: its threads and its memory are
\* gone, and a line may be written in part.  (In the middle of a push it would
\* leave the same files.)
DaemonEnds ==
  /\ pc \in {"serve", "join"} /\ pc' = "ended"
  /\ \E torn \in SUBSET {r \in DOMAIN writer : writer[r] = "busy"} :
       file' = [r \in DOMAIN file |-> IF r \in torn THEN Append(file[r], Torn) ELSE file[r]]
  /\ writer' = [r \in DOMAIN writer |-> IF Over(r) THEN writer[r] ELSE "killed"]
  /\ queue' = [r \in DOMAIN queue |-> <<>>] /\ work' = [r \in DOMAIN work |-> Torn]
  /\ open' = [r \in DOMAIN open |-> FALSE]
  /\ sinks' = {} /\ todo' = {} /\ aborted' = {} /\ leaving' = {}
  /\ UNCHANGED <<history, started, log>>

-----------------------------------------------------------------------------
Loop ==
  \/ CloseSender \/ Joined \/ PushTaken \/ PushRefused \/ PushOver
  \/ Abort \/ Notify \/ NotifyOver

\* What the thread of r does without the disk, and what it does there: a file on a
\* disk that does not answer keeps the thread in Header or Write.
Awake(r) == pc # "ended" /\ r \in DOMAIN writer /\ (Receive(r) \/ Drained(r))
AtDisk(r) == pc # "ended" /\ r \in DOMAIN writer /\ (Header(r) \/ Write(r) \/ WriteFails(r))
Thread(r) == Awake(r) \/ AtDisk(r)

Next ==
  \/ \E req \in Requests : Start(req)
  \/ \E r \in Ids : Stop(r) \/ Thread(r)
  \/ \E kind \in Kinds : Broadcast(kind)
  \/ StopAll \/ Loop \/ DaemonEnds

\* The loop goes on with what it has begun, at the latest after the push timeout, and
\* so does every thread between two accesses to the disk.  Nothing says that the disk
\* answers.
LoopRuns == WF_vars(Loop)
ThreadsRun == \A r \in Ids : WF_vars(Awake(r))

Spec == Init /\ [][Next]_vars /\ LoopRuns /\ ThreadsRun

-----------------------------------------------------------------------------
(* Properties.                                                             *)

\* The record asks for the n-th event of the session, and its format has it.
Wanted(r, n) ==
  /\ n >= from[r] /\ Wants(request[r], history[n])
  /\ request[r].format = "raw" => history[n] \in Bytes

\* The queue took event number s, and the format of the file has it.
Accepted(r, s) == log[r][s].ok /\ InFormat(r, s)

\* Event number s is among the first k of the file.
Written(r, k, s) == \E i \in 1..k : file[r][i] = s

\* A file is in the order of the numbers, and only its last line may be torn; it has
\* accepted events alone, and all of them up to its last one.
LinesFaithful(r) ==
  \A j \in DOMAIN file[r] :
    LET s == file[r][j]
    IN /\ \A i \in 1..j-1 : file[r][i] # Torn /\ (s # Torn => file[r][i] < s)
       /\ s # Torn => /\ s \in DOMAIN log[r] /\ Accepted(r, s)
                      /\ \A t \in 1..s : Accepted(r, t) => Written(r, j, t)

\* Apart from the notices of other records it has wanted events alone, in the order
\* they happened, and all of them up to its last one.
EventsFaithful(r) ==
  \A j \in DOMAIN file[r] :
    LET n == log[r][file[r][j]].event
    IN file[r][j] # Torn /\ n # 0 =>
         /\ n \in DOMAIN history /\ Wanted(r, n)
         /\ \A m \in 1..n : Wanted(r, m) =>
              \E i \in 1..j : log[r][file[r][i]].event = m
         /\ \A i \in 1..j-1 : log[r][file[r][i]].event < n

\* Whatever refuses, fails, is stopped or ends: apart from the notices of other
\* records, a file holds the events of the session that it was started for, in
\* their order and without a gap, from its start up to some point (broadcast_for);
\* a sequence number that is missing before the last one of a jsonl file is that of
\* an event the queue refused (record.rs, DR-0016 8b), and a thread that ends
\* because it was stopped has written all that its queue took.
FileFaithful ==
  \A r \in DOMAIN file :
    /\ LinesFaithful(r) /\ EventsFaithful(r)
    /\ writer[r] = "drained" =>
         \A s \in DOMAIN log[r] : Accepted(r, s) => Written(r, Len(file[r]), s)

\* The loop joins a thread that is in a write, or in the header of its file.
JoinsTheDisk == pc = "join" /\ writer[First(leaving)] \in {"header", "busy"}

\* The serve loop comes back from every push, abort and stop, whatever the queues and
\* the threads of the records do.  It is held up by a disk that never answers, in the
\* one place where the code waits for it: join_writer of a record that is stopped or
\* aborted while its thread is in a write.
ServeNotHeldUp == []<>(pc \in {"serve", "ended"}) \/ <>[]JoinsTheDisk

\* DR-0016 8a (line 332): the queue and the thread prevent "by construction" that the
\* record stops what it observes, on a slow file system or NFS too; record.rs:83: "PTY
\* hot path is not blocked".  So the serve loop always comes back.
RecordNeverHolds == []<>(pc \in {"serve", "ended"})

=============================================================================
