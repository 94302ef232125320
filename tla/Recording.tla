----------------------------- MODULE Recording -----------------------------
(***************************************************************************)
(* Recorder under names of its own, so that it can stand beside another    *)
(* component: beside the readers of the output in one run (MCOutput), and  *)
(* beside the send queues in the proofs (SendQueueProofs).                 *)
(***************************************************************************)
EXTENDS Naturals

CONSTANTS Requests, EventKinds, Capacity, MaxRecords, MaxEvents

VARIABLES history, next_id, sinks, request, from, log, queue, open, writer, work, file,
          record_pc, record_todo, aborted, record_leaving

recordVars == <<history, next_id, sinks, request, from, log, queue, open, writer, work, file,
                record_pc, record_todo, aborted, record_leaving>>

Record == INSTANCE Recorder
            WITH Kinds <- EventKinds, pc <- record_pc, todo <- record_todo,
                 leaving <- record_leaving

ASSUME RecordAssumption == Record!ConstantsOK

\* Recorder!FileFaithful: a file has what the record was started for, in order and
\* without a gap.
FileFaithful == Record!FileFaithful

\* Recorder!ServeNotHeldUp: the serve loop comes back from a push, an abort or a stop,
\* or joins for ever a thread that waits for the disk.
ServeNotHeldUp == Record!ServeNotHeldUp

\* Recorder!RecordNeverHolds: it always comes back (DR-0016 8a).
RecordNeverHolds == Record!RecordNeverHolds

=============================================================================
