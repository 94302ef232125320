------------------------------ MODULE MCOutput ------------------------------
(***************************************************************************)
(* Where the serve loop sends the child's output, in one run: the send     *)
(* queues of the clients (SendQueue) and the records (Recorder, under the  *)
(* names of Recording).  Neither may hold the loop up or lose its place.   *)
(* They share no state, so Init chooses which of the two moves.            *)
(***************************************************************************)
EXTENDS SendQueue, Recording

VARIABLE part

Req(d, f, s, b, t, p) ==
  [direction |-> d, format |-> f, input_secrecy |-> s, max_bytes |-> b, max_duration |-> t, path |-> p]

File(name, parent) ==
  [absolute |-> TRUE, dotdot |-> FALSE, extension |-> "jsonl", parent |-> parent, name |-> name]

\* Records of different kinds to two files, and two requests that are refused.
MCRequests ==
  {Req("both", "jsonl", "never-record-stdin", 1, FALSE, File(1, "plain")),
   Req("both", "jsonl", "record-all", 0, TRUE, File(1, "plain")),
   Req("stdout", "raw", "record-all", 0, FALSE, File(2, "plain")),
   Req("both", "raw", "record-all", 0, FALSE, File(2, "plain")),
   Req("stdout", "raw", "record-all", 1, FALSE, File(2, "sensitive"))}

MCInit == Init /\ Record!Init /\ part \in {"queues", "record"}

MCNext ==
  /\ UNCHANGED part
  /\ \/ part = "queues" /\ Next /\ UNCHANGED recordVars
     \/ part = "record" /\ Record!Next /\ UNCHANGED vars

\* The fairness of SendQueue!Spec and of Recorder!Spec.
Still == UNCHANGED <<part, recordVars>>
Idle == UNCHANGED <<part, vars>>
MCSpec ==
  /\ MCInit /\ [][MCNext]_<<part, vars, recordVars>>
  /\ WF_vars(part = "queues" /\ (Writing \/ Turning) /\ Still)
  /\ WF_vars(part = "queues" /\ FlushTimeout /\ Still)
  /\ \A c \in Clients : WF_vars(part = "queues" /\ CloseTimeout(c) /\ Still)
  /\ WF_recordVars(part = "record" /\ Record!Loop /\ Idle)
  /\ \A r \in Record!Ids : WF_recordVars(part = "record" /\ Record!Awake(r) /\ Idle)

=============================================================================
