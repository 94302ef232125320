------------------------ MODULE ClientCommandsProofs ------------------------
(***************************************************************************)
(* Proofs about ClientCommands, for any set of commands of the table, any  *)
(* records and any number of outside events: a command with an answer      *)
(* whose exit code is 0 has been done (ExitTruthful), whatever the daemon, *)
(* the child, the other clients, an upgrade or a crash do meanwhile.       *)
(***************************************************************************)
EXTENDS ClientCommands, FiniteSetTheorems, TLAPS

-----------------------------------------------------------------------------
(* The inductive invariant.                                                *)

Waits == {"kill --wait", "kill --kill-on-timeout"}
Screens == [seq : Nat, shown : BOOLEAN]
Heard == [t : Replies \cup Unsolicited \cup {"error", "exit", "eof", "data"},
          v : {0} \cup (SUBSET Records) \cup Screens]
Asks == {"kill", "kill9", "signal", "detach", "upgrade", "status", "set", "dump", "snapshot", "tail",
         "acquire", "release", "rec.start", "rec.list", "rec.stop", "rec.stopall", "resume", "resize",
         "raw"}
Asked == [t : Asks, v : {0} \cup Records]

LocalOK ==
  /\ cmd \in Commands /\ arg \in [good : BOOLEAN, caps : BOOLEAN, lockfile : BOOLEAN]
  /\ pc \in {"connect", "poll", "recv", "nap", "hold", "ack", "eof", "blocked", "verify", "watch", "done"}
  /\ mem \in [escalated : BOOLEAN, eof : BOOLEAN, seq : Nat, tries : Nat]

SessionOK ==
  /\ open \in BOOLEAN /\ sock \in BOOLEAN /\ dropped \in BOOLEAN /\ sawFree \in BOOLEAN
  /\ image \in Nat /\ screen \in Screens
  /\ daemon \in {"serving", "pending", "execing", "hung", "ending", "gone", "failed"}
  /\ child \in {"run", "dead"}
  /\ records \subseteq Records /\ IsFiniteSet(records)

TypesOK == LocalOK /\ rx \in Seq(Heard) /\ tx \in Seq(Asked) /\ SessionOK

\* Where each command may be.
StepsOK ==
  /\ pc = "hold" => cmd \in {"lock", "lock --mode=wait"}
  /\ pc = "ack" => cmd = "POST input"
  /\ pc \in {"eof", "blocked", "verify"} => cmd = "upgrade"
  /\ pc = "watch" => cmd \in Waits
  /\ pc = "nap" => cmd \in {"wait", "idle", "lock --mode=wait", "POST input"}
  /\ mem.eof => cmd = "upgrade"

\* The socket file goes with the daemon that saw its child end, or failed to upgrade.
DaemonOK ==
  /\ daemon = "ending" => child = "dead"
  /\ ~sock => (daemon = "gone" /\ child = "dead") \/ daemon = "failed"

Started == \E r \in Records : Msg("rec.start", r) \in effects
Stopped == \E r \in Records : {Msg("rec.list", {r}), Msg("rec.stop", r)} \subseteq effects
AllStopped == \E S \in SUBSET Records : Msg("rec.stopall", S) \in effects
Resized == Msg("resize", 0) \in effects

\* What a message says is so.
Backed(m) ==
  /\ m.t = "set" => Msg("set", 0) \in effects
  /\ m.t = "rec.started" => Started
  /\ m.t = "rec.list" => /\ IsFiniteSet(m.v) /\ m.v \subseteq Records
                         /\ Msg("rec.list", m.v) \in effects
  /\ m.t = "rec.stopped" => \/ cmd = "record stop --all" /\ AllStopped
                            \/ cmd = "record stop" /\ Stopped
  /\ m.t = "typed" => Msg("raw", 0) \in effects
  /\ m.t = "killed" => cmd = "kill --kill-on-timeout" \/ Msg("kill", 0) \in effects
  /\ m.t = "mode.free" => sawFree
  /\ m.t = "eof" => ~open
  /\ m.t = "snapshot" => m.v \in Screens

HeardOK == \A i \in DOMAIN rx : Backed(rx[i])

\* Only these commands ask for it, and a record to be stopped was the only one listed.
Justified(m) ==
  /\ m.t = "kill9" => cmd = "kill --kill-on-timeout"
  /\ m.t = "detach" => cmd = "detach"
  /\ m.t = "rec.stopall" => cmd = "record stop --all"
  /\ m.t = "rec.stop" => /\ cmd = "record stop"
                         /\ m.v \in Records /\ Msg("rec.list", {m.v}) \in effects

SentOK == \A i \in DOMAIN tx : Justified(tx[i])

\* The end of the connection comes last, right behind the exit of the session.
OrderOK ==
  \A i \in DOMAIN rx :
    /\ rx[i].t = "eof" => i = Len(rx)
    /\ rx[i].t = "exit" => i + 1 = Len(rx) /\ rx[i + 1].t = "eof"

\* A status comes behind an error, a query behind a resize.
HasError(s) == \E j \in DOMAIN s : s[j].t = "error"
StatusLast(s) ==
  \A i \in DOMAIN s : s[i].t = "status" => \E j \in DOMAIN s : j < i /\ s[j].t = "error"
QueryLast(s) ==
  \A i \in DOMAIN s : s[i].t = "status" => \E j \in DOMAIN s : j < i /\ s[j].t = "resize"

\* The status behind a resize tells that it was handled, or an error comes before it.
ResizeOK ==
  cmd = "POST resize" /\ pc # "done" /\ ~Resized =>
    StatusLast(rx) /\ (HasError(rx) \/ QueryLast(tx))

\* A new image runs, or somebody dropped this client, or the daemon has stopped to serve.
Leaves == image > 0 \/ dropped \/ daemon \in {"execing", "failed", "gone"}

\* The end of the connection that upgrade takes for the exec was not that of the session.
UpgradeOK ==
  cmd = "upgrade" =>
    /\ mem.eof => Leaves
    /\ \A i \in DOMAIN rx : rx[i].t = "eof" =>
         \/ Leaves
         \/ i > 1 /\ rx[i - 1].t = "exit"
         \/ Len(rx) = 1 /\ pc \in {"poll", "recv", "verify", "done"}

CommandInv ==
  /\ TypesOK /\ StepsOK /\ DaemonOK /\ HeardOK /\ SentOK /\ OrderOK /\ ResizeOK /\ UpgradeOK
  /\ ExitTruthful

-----------------------------------------------------------------------------
(* The table of commands.                                                  *)

\* What command c does when it has read message t and its row says next.
ReadOK(c, t, next) ==
  /\ next \in {"0", "1", "3", "select", "match", "idle", "type", "nap", "hold", "eof", "watch"}
  /\ next = "0" => /\ c \notin Waits \cup {"POST input", "upgrade"}
                   /\ c = "set" => t = "set"
                   /\ c = "record start" => t = "rec.started"
                   /\ c \in {"record stop", "record stop --all"} => t = "rec.stopped"
                   /\ c = "POST resize" => t = "status"
                   /\ c = "kill" => t \in {"killed", "eof"}
                   /\ c = "unlock" => t = "mode.free"
  /\ next = "select" => t = "rec.list" /\ c = "record stop"
  /\ next = "match" => t = "snapshot" /\ c = "wait"
  /\ next = "idle" => t = "snapshot" /\ c = "idle"
  /\ next = "type" => c = "POST input"
  /\ next = "nap" => c \in {"lock --mode=wait", "POST input"}
  /\ next = "hold" => c \in {"lock", "lock --mode=wait"}
  /\ next = "watch" => c \in Waits
  /\ next = "eof" => c = "upgrade" /\ t = "upgraded"

RowOK(c, r) ==
  /\ r.req \in Asks \ {"kill9", "rec.stop", "raw"}
  /\ r.req = "detach" => c = "detach"
  /\ r.req = "rec.stopall" => c = "record stop --all"
  /\ c = "POST resize" => r.req = "resize" /\ "error" \in DOMAIN r.ends
  /\ r.wait \in {"none", "poll", "read", "sent"}
  /\ r.wait = "sent" => c = "POST resume"
  /\ r.late \in {"none", "0", "1", "3", "escalate"}
  /\ r.late = "0" => c \in {"detach", "kill --no-terminate"}
  /\ r.late = "escalate" => c = "kill --kill-on-timeout"
  /\ r.nocap \in {"1", "4"}
  /\ r.others \in BOOLEAN /\ r.cap \in BOOLEAN
  /\ c = "upgrade" => r.wait = "poll" /\ r.ends["eof"] = "1" /\ "exit" \notin DOMAIN r.ends
                      /\ "eof" \in DOMAIN r.ends
  /\ \A t \in DOMAIN r.ends : ReadOK(c, t, r.ends[t])
  /\ c = "POST resize" => r.ends["error"] = "1"

\* Each row of the table.
LEMMA RowFine ==
  ASSUME cmd \in Names
  PROVE  RowOK(cmd, row)
<1>1. CASE cmd = "kill"
  <2>1. row = KillCommand
    BY <1>1 DEF row
  <2> QED BY <1>1, <2>1 DEF RowOK, ReadOK, Asks, Waits, Ends, Strict, Replies, Unsolicited,
         KillCommand
<1>2. CASE cmd = "kill --wait"
  <2>1. row = KillWait
    BY <1>2 DEF row
  <2> QED BY <1>2, <2>1 DEF RowOK, ReadOK, Asks, Waits, Ends, Strict, Replies, Unsolicited,
         KillWait, KillCommand
<1>3. CASE cmd = "kill --kill-on-timeout"
  <2>1. row = KillOnTimeout
    BY <1>3 DEF row
  <2> QED BY <1>3, <2>1 DEF RowOK, ReadOK, Asks, Waits, Ends, Strict, Replies, Unsolicited,
         KillOnTimeout, KillWait, KillCommand
<1>4. CASE cmd = "kill --no-terminate"
  <2>1. row = SignalNoTerminate
    BY <1>4 DEF row
  <2> QED BY <1>4, <2>1 DEF RowOK, ReadOK, Asks, Waits, Ends, Strict, Replies, Unsolicited,
         SignalNoTerminate, KillCommand
<1>5. CASE cmd = "detach"
  <2>1. row = DetachCommand
    BY <1>5 DEF row
  <2> QED BY <1>5, <2>1 DEF RowOK, ReadOK, Asks, Waits, Ends, Strict, Replies, Unsolicited,
         DetachCommand
<1>6. CASE cmd = "upgrade"
  <2>1. row = UpgradeCommand
    BY <1>6 DEF row
  <2> QED BY <1>6, <2>1 DEF RowOK, ReadOK, Asks, Waits, Ends, Strict, Replies, Unsolicited,
         UpgradeCommand
<1>7. CASE cmd = "status"
  <2>1. row = StatusCommand
    BY <1>7 DEF row
  <2> QED BY <1>7, <2>1 DEF RowOK, ReadOK, Asks, Waits, Ends, Strict, Replies, Unsolicited,
         StatusCommand
<1>8. CASE cmd = "set"
  <2>1. row = SetCommand
    BY <1>8 DEF row
  <2> QED BY <1>8, <2>1 DEF RowOK, ReadOK, Asks, Waits, Ends, Strict, Replies, Unsolicited,
         SetCommand, StatusCommand
<1>9. CASE cmd = "screen dump"
  <2>1. row = ScreenDumpCommand
    BY <1>9 DEF row
  <2> QED BY <1>9, <2>1 DEF RowOK, ReadOK, Asks, Waits, Ends, Strict, Replies, Unsolicited,
         ScreenDumpCommand, StatusCommand
<1>10. CASE cmd = "snapshot"
  <2>1. row = SnapshotCommand
    BY <1>10 DEF row
  <2> QED BY <1>10, <2>1 DEF RowOK, ReadOK, Asks, Waits, Ends, Strict, Replies, Unsolicited,
         SnapshotCommand, StatusCommand
<1>11. CASE cmd = "tail"
  <2>1. row = TailCommand
    BY <1>11 DEF row
  <2> QED BY <1>11, <2>1 DEF RowOK, ReadOK, Asks, Waits, Ends, Strict, Replies, Unsolicited,
         TailCommand, StatusCommand
<1>12. CASE cmd = "wait"
  <2>1. row = WaitCommand
    BY <1>12 DEF row
  <2> QED BY <1>12, <2>1 DEF RowOK, ReadOK, Asks, Waits, Ends, Strict, Replies, Unsolicited,
         WaitCommand, StatusCommand
<1>13. CASE cmd = "idle"
  <2>1. row = IdleWait
    BY <1>13 DEF row
  <2> QED BY <1>13, <2>1 DEF RowOK, ReadOK, Asks, Waits, Ends, Strict, Replies, Unsolicited,
         IdleWait, WaitCommand, StatusCommand
<1>14. CASE cmd = "lock"
  <2>1. row = LockAcquireFail
    BY <1>14 DEF row
  <2> QED BY <1>14, <2>1 DEF RowOK, ReadOK, Asks, Waits, Ends, Strict, Replies, Unsolicited,
         LockAcquireFail, StatusCommand
<1>15. CASE cmd = "lock --mode=wait"
  <2>1. row = LockAcquireWait
    BY <1>15 DEF row
  <2> QED BY <1>15, <2>1, ZenonT(40) DEF RowOK, ReadOK, Asks, Waits, Ends, Strict, Replies, Unsolicited,
         LockAcquireWait, LockAcquireFail, StatusCommand
<1>16. CASE cmd = "unlock"
  <2>1. row = LockReleaseCommand
    BY <1>16 DEF row
  <2> QED BY <1>16, <2>1 DEF RowOK, ReadOK, Asks, Waits, Ends, Strict, Replies, Unsolicited,
         LockReleaseCommand, StatusCommand
<1>17. CASE cmd = "record start"
  <2>1. row = RecordStartCommand
    BY <1>17 DEF row
  <2> QED BY <1>17, <2>1 DEF RowOK, ReadOK, Asks, Waits, Ends, Strict, Replies, Unsolicited,
         RecordStartCommand, StatusCommand
<1>18. CASE cmd = "record list"
  <2>1. row = RecordListCommand
    BY <1>18 DEF row
  <2> QED BY <1>18, <2>1 DEF RowOK, ReadOK, Asks, Waits, Ends, Strict, Replies, Unsolicited,
         RecordListCommand, StatusCommand
<1>19. CASE cmd = "record stop --all"
  <2>1. row = RecordStopAll
    BY <1>19 DEF row
  <2> QED BY <1>19, <2>1 DEF RowOK, ReadOK, Asks, Waits, Ends, Strict, Replies, Unsolicited,
         RecordStopAll, StatusCommand
<1>20. CASE cmd = "record stop"
  <2>1. row = RecordStopAuto
    BY <1>20 DEF row
  <2> QED BY <1>20, <2>1, ZenonT(40) DEF RowOK, ReadOK, Asks, Waits, Ends, Strict, Replies, Unsolicited,
         RecordStopAuto, StatusCommand
<1>21. CASE cmd = "GET screen"
  <2>1. row = GetScreen
    BY <1>21 DEF row
  <2> QED BY <1>21, <2>1 DEF RowOK, ReadOK, Asks, Waits, Ends, Strict, Replies, Unsolicited,
         GetScreen, ScreenDumpCommand, StatusCommand
<1>22. CASE cmd = "POST input"
  <2>1. row = PostInput
    BY <1>22 DEF row
  <2>2. LockAcquireFail.ends = [m \in {"locked", "denied", "error", "eof"} |->
                                  IF m = "locked" THEN "hold" ELSE "1"]
    BY DEF LockAcquireFail, StatusCommand, Ends
  <2>3. LockAcquireWait.ends = [m \in {"locked", "denied", "error", "eof"} |->
           IF m = "locked" THEN "hold" ELSE IF m = "denied" THEN "nap" ELSE "1"]
    BY <2>2 DEF LockAcquireWait, LockAcquireFail, StatusCommand
  <2>4. row.ends = [m \in {"locked", "denied", "error", "eof"} |->
           IF m = "locked" THEN "type" ELSE IF m = "denied" THEN "nap" ELSE "1"]
    BY <2>1, <2>3 DEF PostInput, LockAcquireWait, LockAcquireFail, StatusCommand
  <2>5. /\ row.req = "acquire" /\ row.wait = "poll" /\ row.late = "1" /\ row.nocap = "4"
        /\ row.others = FALSE /\ row.cap = TRUE
    BY <2>1 DEF PostInput, LockAcquireWait, LockAcquireFail, StatusCommand
  <2>6. \A t \in DOMAIN row.ends : row.ends[t] \in {"type", "nap", "1"}
    BY <2>4
  <2>7. \A t \in DOMAIN row.ends : ReadOK(cmd, t, row.ends[t])
    BY <1>22, <2>6 DEF ReadOK
  <2> QED BY <1>22, <2>5, <2>7 DEF RowOK, Asks
<1>23. CASE cmd = "POST resume"
  <2>1. row = PostResume
    BY <1>23 DEF row
  <2> QED BY <1>23, <2>1, ZenonT(40) DEF RowOK, ReadOK, Asks, Waits, Ends, Strict, Replies, Unsolicited,
         PostResume, StatusCommand
<1>24. CASE cmd = "POST resize"
  <2>1. row = PostResize
    BY <1>24 DEF row
  <2> QED BY <1>24, <2>1 DEF RowOK, ReadOK, Asks, Waits, Ends, Strict, Replies, Unsolicited,
         PostResize, StatusCommand
<1> QED BY <1>1, <1>2, <1>3, <1>4, <1>5, <1>6, <1>7, <1>8, <1>9, <1>10, <1>11, <1>12,
           <1>13, <1>14, <1>15, <1>16, <1>17, <1>18, <1>19, <1>20, <1>21, <1>22, <1>23, <1>24 DEF Names

-----------------------------------------------------------------------------
(* What a step may do to what is known.                                    *)

\* What was done stays done, and what is over stays over.
Grows ==
  /\ effects \subseteq effects' /\ (sawFree => sawFree') /\ (~open => ~open')
  /\ (image > 0 \/ dropped) => (image' > 0 \/ dropped')
  /\ Leaves => Leaves'
  /\ Gone => daemon' = daemon /\ sock' = sock
  /\ child = "dead" => child' = "dead"
  /\ UNCHANGED <<cmd, arg>>

\* A message stays backed.
LEMMA StaysBacked ==
  ASSUME Grows, NEW m, Backed(m)
  PROVE  Backed(m)'
<1>1. Started => Started'
  BY DEF Grows, Started
<1>2. Stopped => Stopped'
  BY DEF Grows, Stopped
<1>3. AllStopped => AllStopped'
  BY DEF Grows, AllStopped
<1> QED BY <1>1, <1>2, <1>3 DEF Grows, Backed

\* A request stays justified.
LEMMA StaysJustified ==
  ASSUME Grows, NEW m, Justified(m)
  PROVE  Justified(m)'
BY DEF Grows, Justified

\* The exit code of a command that has ended stays true.
LEMMA TruthStays ==
  ASSUME Grows, ExitTruthful, UNCHANGED <<pc, code, mem>>
  PROVE  ExitTruthful'
<1>1. SUFFICES ASSUME pc = "done", code = "0"
               PROVE  ExitTruthful'
  BY DEF ExitTruthful, Succeeded
<1>2. Succeeded /\ cmd' = cmd /\ arg' = arg /\ mem' = mem
  BY <1>1 DEF Succeeded, Grows
<1>3. cmd = "record start" => \E r \in Records : Msg("rec.start", r) \in effects'
  BY <1>2 DEF ExitTruthful, Grows
<1>4. cmd = "record stop" =>
        \E r \in Records : {Msg("rec.list", {r}), Msg("rec.stop", r)} \subseteq effects'
  BY <1>2 DEF ExitTruthful, Grows
<1>5. cmd \in {"kill --wait", "kill --kill-on-timeout"} /\ arg.lockfile =>
         Gone' /\ ~sock' /\ (child' = "dead" \/ daemon' = "failed")
  BY <1>2 DEF ExitTruthful, Grows, Gone
<1>6. cmd = "upgrade" /\ mem.eof => image' > 0 \/ dropped'
  BY <1>2 DEF ExitTruthful, Grows
<1>7. /\ cmd = "set" => Msg("set", 0) \in effects'
      /\ cmd = "POST input" => Msg("raw", 0) \in effects'
      /\ cmd = "POST resize" => Msg("resize", 0) \in effects'
      /\ cmd = "kill" => Msg("kill", 0) \in effects' \/ ~open'
      /\ cmd = "unlock" => sawFree'
  BY <1>2 DEF ExitTruthful, Grows
<1>8. cmd = "record stop --all" => \E S \in SUBSET Records : Msg("rec.stopall", S) \in effects'
  BY <1>2 DEF ExitTruthful, Grows
<1> QED BY <1>2, <1>3, <1>4, <1>5, <1>6, <1>7, <1>8 DEF ExitTruthful

-----------------------------------------------------------------------------
(* Sequences: what is put at the end and taken from the front.             *)

\* A sequence has a length, which is positive unless it is empty.
LEMMA LengthOf ==
  ASSUME NEW S, NEW s \in Seq(S)
  PROVE  Len(s) \in Nat /\ (s # <<>> => Len(s) \in Nat \ {0})
OBVIOUS

\* Two sequences one behind the other.
LEMMA ConcatAt ==
  ASSUME NEW S, NEW s \in Seq(S), NEW t \in Seq(S)
  PROVE  /\ s \o t \in Seq(S) /\ Len(s \o t) = Len(s) + Len(t)
         /\ DOMAIN (s \o t) = 1..(Len(s) + Len(t))
         /\ \A i \in DOMAIN s : i \in DOMAIN (s \o t) /\ (s \o t)[i] = s[i]
         /\ \A i \in DOMAIN t : Len(s) + i \in DOMAIN (s \o t) /\ (s \o t)[Len(s) + i] = t[i]
         /\ \A i \in DOMAIN (s \o t) :
              i \in DOMAIN s \/ (i - Len(s) \in DOMAIN t /\ (s \o t)[i] = t[i - Len(s)])
<1>1. /\ s \o t \in Seq(S) /\ Len(s \o t) = Len(s) + Len(t) /\ Len(s) \in Nat /\ Len(t) \in Nat
      /\ DOMAIN s = 1..Len(s) /\ DOMAIN t = 1..Len(t) /\ DOMAIN (s \o t) = 1..(Len(s) + Len(t))
  OBVIOUS
<1>2. \A i \in 1..Len(s) : (s \o t)[i] = s[i]
  OBVIOUS
<1>3. \A i \in 1..Len(t) : (s \o t)[Len(s) + i] = t[i]
  OBVIOUS
<1>4. ASSUME NEW i \in 1..(Len(s) + Len(t)), i \notin 1..Len(s)
      PROVE  i - Len(s) \in 1..Len(t) /\ (s \o t)[i] = t[i - Len(s)]
  <2>1. i - Len(s) \in 1..Len(t) /\ i = Len(s) + (i - Len(s))
    BY <1>1, <1>4
  <2> QED BY <1>3, <2>1
<1> QED BY <1>1, <1>2, <1>3, <1>4

\* A sequence without its first element.
LEMMA TailAt ==
  ASSUME NEW S, NEW s \in Seq(S), s # <<>>
  PROVE  /\ Tail(s) \in Seq(S) /\ Len(Tail(s)) = Len(s) - 1 /\ Len(s) \in Nat \ {0}
         /\ Head(s) = s[1] /\ 1 \in DOMAIN s /\ Head(s) \in S
         /\ \A i \in DOMAIN Tail(s) : /\ i \in Nat \ {0} /\ i + 1 \in DOMAIN s
                                      /\ Tail(s)[i] = s[i + 1]
         /\ \A i \in DOMAIN s : i = 1 \/ (i - 1 \in DOMAIN Tail(s) /\ Tail(s)[i - 1] = s[i])
<1>1. /\ Tail(s) \in Seq(S) /\ Len(Tail(s)) = Len(s) - 1 /\ Len(s) \in Nat \ {0}
      /\ Head(s) = s[1] /\ 1 \in DOMAIN s /\ Head(s) \in S
      /\ DOMAIN s = 1..Len(s) /\ DOMAIN Tail(s) = 1..(Len(s) - 1)
  OBVIOUS
<1>2. \A i \in 1..(Len(s) - 1) : Tail(s)[i] = s[i + 1]
  OBVIOUS
<1>3. ASSUME NEW i \in 1..Len(s), i # 1
      PROVE  i - 1 \in 1..(Len(s) - 1) /\ Tail(s)[i - 1] = s[i]
  <2>1. i - 1 \in 1..(Len(s) - 1) /\ (i - 1) + 1 = i
    BY <1>1, <1>3
  <2> QED BY <1>2, <2>1
<1> QED BY <1>1, <1>2, <1>3

-----------------------------------------------------------------------------
(* The messages on the way to the command.                                 *)

\* HeardOK, message by message.
LEMMA AllBacked ==
  ASSUME \A i \in DOMAIN rx' : \E m : m = rx'[i] /\ Backed(m)'
  PROVE  HeardOK'
<1>1. SUFFICES ASSUME NEW i \in DOMAIN rx'
               PROVE  Backed(rx[i])'
  BY DEF HeardOK
<1>2. PICK m : m = rx'[i] /\ Backed(m)'
  OBVIOUS
<1> QED BY <1>2 DEF Backed

\* What may be put behind the messages.
Fits(ms) ==
  \A i \in DOMAIN ms :
    /\ Backed(ms[i])
    /\ ms[i].t = "eof" => i = Len(ms)
    /\ ms[i].t = "exit" => i + 1 = Len(ms) /\ ms[i + 1].t = "eof"
    /\ ms[i].t = "eof" /\ cmd = "upgrade" => Leaves \/ (i > 1 /\ ms[i - 1].t = "exit")

\* Nothing is put behind the end of the connection.
LEMMA NoEnd ==
  ASSUME TypesOK, HeardOK, OrderOK, open, NEW i \in DOMAIN rx
  PROVE  rx[i].t \notin {"eof", "exit"}
<1>1. rx[i].t # "eof"
  BY DEF HeardOK, Backed
<1>2. rx[i].t = "exit" => i + 1 \in DOMAIN rx /\ rx[i + 1].t = "eof"
  BY DEF OrderOK, TypesOK
<1> QED BY <1>1, <1>2 DEF HeardOK, Backed

\* More is heard while the command reads on.
LEMMA HearsMore ==
  ASSUME TypesOK, HeardOK, OrderOK, UpgradeOK, Grows, UNCHANGED <<pc, mem>>,
         NEW ms \in Seq(Heard), ms = <<>> \/ open, rx' = rx \o ms, Fits(ms)'
  PROVE  rx' \in Seq(Heard) /\ HeardOK' /\ OrderOK' /\ UpgradeOK'
<1>1. /\ rx \in Seq(Heard) /\ cmd' = cmd /\ mem' = mem /\ pc' = pc /\ (Leaves => Leaves')
  BY DEF TypesOK, Grows
<1>2. CASE ms = <<>>
  <2>1. rx' = rx
    BY <1>1, <1>2
  <2>2. HeardOK'
    <3>1. \A i \in DOMAIN rx : Backed(rx[i])
      BY DEF HeardOK
    <3>2. ASSUME NEW i \in DOMAIN rx'
          PROVE  \E m : m = rx'[i] /\ Backed(m)'
      <4>1. PICK m : m = rx[i]
        OBVIOUS
      <4>2. Backed(m)'
        BY <2>1, <3>1, <4>1, StaysBacked
      <4> QED BY <2>1, <4>1, <4>2
    <3> QED BY <3>2, AllBacked
  <2>3. OrderOK'
    BY <2>1 DEF OrderOK
  <2>4. UpgradeOK'
    BY <1>1, <2>1 DEF UpgradeOK
  <2> QED BY <1>1, <2>1, <2>2, <2>3, <2>4
<1>3. CASE ms # <<>>
  <2>1. \A i \in DOMAIN rx : rx[i].t \notin {"eof", "exit"}
    BY <1>3, NoEnd
  <2>2. PICK n \in Nat, k \in Nat :
          /\ n = Len(rx) /\ k = Len(ms) /\ DOMAIN rx = 1..n /\ DOMAIN ms = 1..k
          /\ rx' \in Seq(Heard) /\ Len(rx') = n + k /\ DOMAIN rx' = 1..(n + k)
          /\ \A i \in 1..n : rx'[i] = rx[i]
          /\ \A i \in 1..k : rx'[n + i] = ms[i]
          /\ \A i \in 1..(n + k) : i \in 1..n \/ (i - n \in 1..k /\ rx'[i] = ms[i - n])
    <3>1. /\ Len(rx) \in Nat /\ Len(ms) \in Nat
          /\ DOMAIN rx = 1..Len(rx) /\ DOMAIN ms = 1..Len(ms)
      BY <1>1
    <3>2. /\ rx' \in Seq(Heard) /\ Len(rx') = Len(rx) + Len(ms)
          /\ DOMAIN rx' = 1..(Len(rx) + Len(ms))
          /\ \A i \in DOMAIN rx : rx'[i] = rx[i]
          /\ \A i \in DOMAIN ms : rx'[Len(rx) + i] = ms[i]
          /\ \A i \in DOMAIN rx' :
               i \in DOMAIN rx \/ (i - Len(rx) \in DOMAIN ms /\ rx'[i] = ms[i - Len(rx)])
      BY <1>1, ConcatAt
    <3> QED BY <3>1, <3>2
  <2>3. \A i \in 1..k : Fits(ms)' =>
          /\ Backed(ms[i])'
          /\ ms[i].t = "eof" => i = k
          /\ ms[i].t = "exit" => i + 1 = k /\ ms[i + 1].t = "eof"
          /\ ms[i].t = "eof" /\ cmd = "upgrade" => Leaves' \/ (i > 1 /\ ms[i - 1].t = "exit")
    BY <1>1, <2>2 DEF Fits
  <2>4. HeardOK'
    <3>1. ASSUME NEW i \in DOMAIN rx'
          PROVE  \E m : m = rx'[i] /\ Backed(m)'
      <4>1. CASE i \in 1..n
        <5>1. PICK m : m = rx[i]
          OBVIOUS
        <5>2. Backed(m)
          BY <2>2, <4>1, <5>1 DEF HeardOK
        <5> QED BY <2>2, <4>1, <5>1, <5>2, StaysBacked
      <4>2. CASE i \notin 1..n
        <5>1. i - n \in 1..k /\ rx'[i] = ms[i - n]
          BY <2>2, <4>2
        <5>2. Backed(ms[i - n])'
          <6>1. PICK j \in 1..k : j = i - n
            BY <5>1
          <6>2. Backed(ms[j])'
            BY <2>3
          <6> QED BY <6>1, <6>2
        <5> QED BY <5>1, <5>2
      <4> QED BY <4>1, <4>2
    <3> QED BY <3>1, AllBacked
  <2>5. OrderOK'
    <3>1. SUFFICES ASSUME NEW i \in 1..(n + k)
                   PROVE  /\ rx'[i].t = "eof" => i = n + k
                          /\ rx'[i].t = "exit" => i + 1 = n + k /\ rx'[i + 1].t = "eof"
      BY <2>2 DEF OrderOK
    <3>2. CASE i \in 1..n
      BY <2>1, <2>2, <3>2
    <3>3. CASE i \notin 1..n
      <4>1. PICK j \in 1..k : j = i - n /\ i = n + j /\ rx'[i] = ms[j]
        BY <2>2, <3>3
      <4>2. /\ ms[j].t = "eof" => j = k
            /\ ms[j].t = "exit" => j + 1 = k /\ ms[j + 1].t = "eof"
        BY <2>3
      <4>3. j + 1 = k => j + 1 \in 1..k /\ i + 1 = n + (j + 1)
        BY <4>1
      <4>4. j + 1 = k => rx'[i + 1] = ms[j + 1]
        BY <2>2, <4>3
      <4> QED BY <4>1, <4>2, <4>3, <4>4
    <3> QED BY <3>2, <3>3
  <2>6. UpgradeOK'
    <3>1. SUFFICES ASSUME cmd = "upgrade", NEW i \in 1..(n + k), rx'[i].t = "eof"
                   PROVE  Leaves' \/ (i > 1 /\ rx'[i - 1].t = "exit")
      BY <1>1, <2>2 DEF UpgradeOK
    <3>2. i \notin 1..n
      BY <2>1, <2>2, <3>1
    <3>3. PICK j \in 1..k : j = i - n /\ i = n + j /\ rx'[i] = ms[j]
      BY <2>2, <3>2
    <3>4. Leaves' \/ (j > 1 /\ ms[j - 1].t = "exit")
      BY <2>3, <3>1, <3>3
    <3>5. j > 1 => j - 1 \in 1..k /\ i - 1 = n + (j - 1) /\ i > 1
      BY <3>3
    <3>6. j > 1 => rx'[i - 1] = ms[j - 1]
      BY <2>2, <3>5
    <3> QED BY <3>4, <3>5, <3>6
  <2> QED BY <2>2, <2>4, <2>5, <2>6
<1> QED BY <1>2, <1>3

\* One message less.
LEMMA HearsNext ==
  ASSUME TypesOK, HeardOK, OrderOK, UpgradeOK, Grows, rx # <<>>, rx' = Tail(rx),
         cmd = "upgrade" /\ mem'.eof => Leaves',
         cmd = "upgrade" /\ Head(rx).t = "exit" => pc' \in {"poll", "recv", "verify", "done"}
  PROVE  rx' \in Seq(Heard) /\ HeardOK' /\ OrderOK' /\ UpgradeOK'
<1>1. /\ rx \in Seq(Heard) /\ cmd' = cmd /\ (Leaves => Leaves')
  BY DEF TypesOK, Grows
<1>2. PICK n \in Nat \ {0} :
        /\ Len(rx) = n /\ DOMAIN rx = 1..n /\ Head(rx) = rx[1]
        /\ rx' \in Seq(Heard) /\ Len(rx') = n - 1 /\ DOMAIN rx' = 1..(n - 1)
        /\ \A i \in 1..(n - 1) : rx'[i] = rx[i + 1]
  BY <1>1, TailAt
<1>3. HeardOK'
  <2>1. ASSUME NEW i \in DOMAIN rx'
        PROVE  \E m : m = rx'[i] /\ Backed(m)'
    <3>1. PICK m : m = rx[i + 1]
      OBVIOUS
    <3>2. i + 1 \in DOMAIN rx
      BY <1>2, <2>1
    <3>3. Backed(m)
      BY <3>1, <3>2 DEF HeardOK
    <3> QED BY <1>2, <2>1, <3>1, <3>3, StaysBacked
  <2> QED BY <2>1, AllBacked
<1>4. \A j \in 1..n : /\ rx[j].t = "eof" => j = n
                      /\ rx[j].t = "exit" => j + 1 = n /\ rx[j + 1].t = "eof"
  BY <1>2 DEF OrderOK
<1>5. OrderOK'
  <2>1. SUFFICES ASSUME NEW i \in 1..(n - 1)
                 PROVE  /\ rx'[i].t = "eof" => i = n - 1
                        /\ rx'[i].t = "exit" => i + 1 = n - 1 /\ rx'[i + 1].t = "eof"
    BY <1>2 DEF OrderOK
  <2>2. PICK j \in 1..n : j = i + 1 /\ rx'[i] = rx[j]
    BY <1>2
  <2>3. /\ j = n => i = n - 1
        /\ j + 1 = n => i + 1 = n - 1 /\ i + 1 \in 1..(n - 1) /\ (i + 1) + 1 = j + 1
    BY <1>2, <2>2
  <2>4. j + 1 = n => rx'[i + 1] = rx[j + 1]
    BY <1>2, <2>3
  <2>5. /\ rx[j].t = "eof" => j = n
        /\ rx[j].t = "exit" => j + 1 = n /\ rx[j + 1].t = "eof"
    BY <1>4, <2>2
  <2> QED BY <2>2, <2>3, <2>4, <2>5
<1>6. UpgradeOK'
  <2>1. SUFFICES ASSUME cmd = "upgrade", NEW i \in 1..(n - 1), rx'[i].t = "eof"
                 PROVE  \/ Leaves'
                        \/ i > 1 /\ rx'[i - 1].t = "exit"
                        \/ n - 1 = 1 /\ pc' \in {"poll", "recv", "verify", "done"}
    BY <1>1, <1>2 DEF UpgradeOK
  <2>2. PICK j \in 1..n : j = i + 1 /\ rx'[i] = rx[j] /\ j > 1 /\ n # 1
    BY <1>2
  <2>3. Leaves \/ rx[j - 1].t = "exit"
    BY <1>2, <2>1, <2>2 DEF UpgradeOK
  <2>4. CASE i = 1 /\ rx[1].t = "exit"
    <3>1. 1 \in 1..n /\ (1 + 1 = n => n - 1 = 1)
      BY <1>2
    <3> QED BY <1>2, <1>4, <2>1, <2>4, <3>1
  <2>5. CASE i # 1 /\ rx[i].t = "exit"
    <3>1. i - 1 \in 1..(n - 1) /\ i > 1 /\ (i - 1) + 1 = i
      BY <2>5
    <3> QED BY <1>2, <2>5, <3>1
  <2>6. j - 1 = i
    BY <2>2
  <2> QED BY <1>1, <2>3, <2>4, <2>5, <2>6
<1> QED BY <1>2, <1>3, <1>5, <1>6

\* No message more or less.
LEMMA HearsNothing ==
  ASSUME TypesOK, HeardOK, OrderOK, UpgradeOK, Grows, rx' = rx,
         cmd = "upgrade" /\ mem'.eof => Leaves',
         cmd = "upgrade" => pc' = pc \/ pc' = "done" \/ (pc = "poll" /\ pc' = "recv") \/ rx = <<>>
  PROVE  rx' \in Seq(Heard) /\ HeardOK' /\ OrderOK' /\ UpgradeOK'
<1>1. /\ rx \in Seq(Heard) /\ cmd' = cmd /\ (Leaves => Leaves')
  BY DEF TypesOK, Grows
<1>2. HeardOK'
  <2>1. ASSUME NEW i \in DOMAIN rx'
        PROVE  \E m : m = rx'[i] /\ Backed(m)'
    <3>1. PICK m : m = rx[i]
      OBVIOUS
    <3>2. Backed(m)
      BY <2>1, <3>1 DEF HeardOK
    <3> QED BY <3>1, <3>2, StaysBacked
  <2> QED BY <2>1, AllBacked
<1>3. OrderOK'
  BY DEF OrderOK
<1>4. UpgradeOK'
  <2>1. rx = <<>> => DOMAIN rx = {}
    OBVIOUS
  <2> QED BY <1>1, <2>1 DEF UpgradeOK
<1> QED BY <1>1, <1>2, <1>3, <1>4

-----------------------------------------------------------------------------
(* The messages on the way to the daemon.                                  *)

\* SentOK, message by message.
LEMMA AllJustified ==
  ASSUME \A i \in DOMAIN tx' : \E m : m = tx'[i] /\ Justified(m)'
  PROVE  SentOK'
<1>1. SUFFICES ASSUME NEW i \in DOMAIN tx'
               PROVE  Justified(tx[i])'
  BY DEF SentOK
<1>2. PICK m : m = tx'[i] /\ Justified(m)'
  OBVIOUS
<1> QED BY <1>2 DEF Justified

\* One message more.
LEMMA AsksOne ==
  ASSUME TypesOK, SentOK, Grows, NEW m \in Asked, tx' = Append(tx, m), Justified(m)'
  PROVE  tx' \in Seq(Asked) /\ SentOK'
<1>1. tx \in Seq(Asked)
  BY DEF TypesOK
<1>2. /\ tx' \in Seq(Asked) /\ DOMAIN tx' = 1..(Len(tx) + 1) /\ Len(tx) \in Nat
      /\ DOMAIN tx = 1..Len(tx) /\ tx'[Len(tx) + 1] = m
      /\ \A i \in 1..Len(tx) : tx'[i] = tx[i]
  BY <1>1
<1>3. ASSUME NEW i \in DOMAIN tx'
      PROVE  \E k : k = tx'[i] /\ Justified(k)'
  <2>1. CASE i \in DOMAIN tx
    <3>1. PICK k : k = tx[i]
      OBVIOUS
    <3>2. Justified(k)
      BY <2>1, <3>1 DEF SentOK
    <3> QED BY <1>2, <2>1, <3>1, <3>2, StaysJustified
  <2>2. CASE i \notin DOMAIN tx
    <3>1. i = Len(tx) + 1
      BY <1>2, <2>2
    <3> QED BY <1>2, <3>1
  <2> QED BY <2>1, <2>2
<1> QED BY <1>2, <1>3, AllJustified

\* The messages that are left of the old ones.
LEMMA AsksLess ==
  ASSUME TypesOK, SentOK, Grows, tx' = tx \/ tx' = <<>> \/ (tx # <<>> /\ tx' = Tail(tx))
  PROVE  tx' \in Seq(Asked) /\ SentOK'
<1>1. tx \in Seq(Asked)
  BY DEF TypesOK
<1>2. tx' \in Seq(Asked) /\ \A i \in DOMAIN tx' : \E j \in DOMAIN tx : tx'[i] = tx[j]
  <2>1. CASE tx' = <<>>
    BY <2>1
  <2>2. CASE tx' = tx
    BY <1>1, <2>2
  <2>3. CASE tx # <<>> /\ tx' = Tail(tx)
    BY <1>1, <2>3, TailAt
  <2> QED BY <2>1, <2>2, <2>3
<1>3. ASSUME NEW i \in DOMAIN tx'
      PROVE  \E m : m = tx'[i] /\ Justified(m)'
  <2>1. PICK j \in DOMAIN tx : tx'[i] = tx[j]
    BY <1>2
  <2>2. PICK m : m = tx[j]
    OBVIOUS
  <2>3. Justified(m)
    BY <2>2 DEF SentOK
  <2> QED BY <2>1, <2>2, <2>3, StaysJustified
<1> QED BY <1>2, <1>3, AllJustified

-----------------------------------------------------------------------------
(* What the daemon says.                                                   *)

\* The messages ms are put behind those on the way.
Says(ms) == ms \in Seq(Heard) /\ (ms = <<>> \/ open) /\ rx' = rx \o ms

\* Nothing is said.
LEMMA SaysNothing ==
  ASSUME TypesOK, rx' = rx
  PROVE  Says(<<>>) /\ Fits(<<>>)'
<1>1. <<>> \in Seq(Heard) /\ rx \o <<>> = rx /\ DOMAIN <<>> = {}
  BY DEF TypesOK
<1> QED BY <1>1 DEF Says, Fits

\* One message is said, if there is somebody to hear it.
LEMMA SaysOne ==
  ASSUME TypesOK, NEW m \in Heard, rx' = rx \o <<m>>, open, Backed(m)', m.t # "exit",
         m.t = "eof" /\ cmd' = "upgrade" => Leaves'
  PROVE  Says(<<m>>) /\ Fits(<<m>>)'
<1>1. <<m>> \in Seq(Heard) /\ DOMAIN <<m>> = {1} /\ <<m>>[1] = m /\ Len(<<m>>) = 1
  OBVIOUS
<1>2. \A i \in DOMAIN <<m>> : i = 1
  BY <1>1
<1>3. Fits(<<m>>)'
  <2>1. SUFFICES ASSUME NEW i \in {1}
                 PROVE  /\ Backed(m)'
                        /\ m.t = "eof" => i = 1
                        /\ m.t # "exit"
                        /\ m.t = "eof" /\ cmd' = "upgrade" => Leaves'
    BY <1>1 DEF Fits
  <2> QED BY <2>1
<1> QED BY <1>1, <1>3 DEF Says

\* Two messages are said.
LEMMA SaysTwo ==
  ASSUME TypesOK, NEW m \in Heard, NEW n \in Heard, rx' = rx \o <<m, n>>, open,
         Backed(m)', Backed(n)', m.t # "eof", n.t # "exit", m.t = "exit" => n.t = "eof",
         n.t = "eof" /\ cmd' = "upgrade" => Leaves' \/ m.t = "exit"
  PROVE  Says(<<m, n>>) /\ Fits(<<m, n>>)'
<1>1. /\ <<m, n>> \in Seq(Heard) /\ DOMAIN <<m, n>> = {1, 2} /\ Len(<<m, n>>) = 2
      /\ <<m, n>>[1] = m /\ <<m, n>>[2] = n
  OBVIOUS
<1>2. PICK ms : ms = <<m, n>>
  OBVIOUS
<1>3. /\ ms \in Seq(Heard) /\ DOMAIN ms = {1, 2} /\ Len(ms) = 2 /\ ms[1] = m /\ ms[2] = n
  BY <1>1, <1>2
<1> HIDE <1>2
<1>4. Backed(ms[1])' /\ Backed(ms[2])'
  BY <1>3
<1>5. Fits(ms)'
  <2>1. SUFFICES ASSUME NEW i \in {1, 2}
                 PROVE  /\ Backed(ms[i])'
                        /\ ms[i].t = "eof" => i = Len(ms)
                        /\ ms[i].t = "exit" => i + 1 = Len(ms) /\ ms[i + 1].t = "eof"
                        /\ ms[i].t = "eof" /\ cmd' = "upgrade" =>
                             Leaves' \/ (i > 1 /\ ms[i - 1].t = "exit")
    BY <1>3 DEF Fits
  <2>2. CASE i = 1
    BY <1>3, <1>4, <2>2
  <2>3. CASE i = 2
    <3>1. i - 1 = 1 /\ i > 1
      BY <2>3
    <3> QED BY <1>3, <1>4, <2>3, <3>1
  <2> QED BY <2>1, <2>2, <2>3
<1>6. Fits(<<m, n>>)'
  BY <1>2, <1>5
<1> QED BY <1>1, <1>6 DEF Says

-----------------------------------------------------------------------------
(* The resize that is followed by a query.                                 *)

\* An error among messages that are put behind others.
LEMMA ErrorsMore ==
  ASSUME NEW s \in Seq(Heard), NEW ms \in Seq(Heard), NEW u, u = s \o ms, StatusLast(s),
         \A i \in DOMAIN ms : ms[i].t = "status" => HasError(s)
  PROVE  StatusLast(u) /\ (HasError(s) \/ HasError(ms) => HasError(u))
<1>1. PICK n \in Nat, k \in Nat : n = Len(s) /\ k = Len(ms)
  <2>1. Len(s) \in Nat /\ Len(ms) \in Nat
    BY LengthOf
  <2> QED BY <2>1, Zenon
<1>2. /\ DOMAIN s = 1..n /\ DOMAIN ms = 1..k /\ DOMAIN u = 1..(n + k)
      /\ \A i \in 1..n : u[i] = s[i]
      /\ \A i \in 1..k : u[n + i] = ms[i]
      /\ \A i \in 1..(n + k) : i \in 1..n \/ (i - n \in 1..k /\ u[i] = ms[i - n])
  <2>1. DOMAIN s = 1..n /\ DOMAIN ms = 1..k
    BY <1>1
  <2> QED BY <1>1, <2>1, ConcatAt
<1>3. \A i \in 1..n : i \in 1..(n + k)
  BY <1>1
<1>4. \A i \in 1..k : n + i \in 1..(n + k)
  BY <1>1
<1>5. \A i \in 1..(n + k) : i \notin 1..n => \A j \in 1..n : j < i
  BY <1>1
<1>6. HasError(s) \/ HasError(ms) => HasError(u)
  <2>1. ASSUME NEW i \in 1..n, s[i].t = "error"
        PROVE  \E j \in 1..(n + k) : u[j].t = "error"
    BY <1>2, <1>3, <2>1
  <2>2. ASSUME NEW i \in 1..k, ms[i].t = "error"
        PROVE  \E j \in 1..(n + k) : u[j].t = "error"
    <3>1. n + i \in 1..(n + k) /\ u[n + i] = ms[i]
      BY <1>2, <1>4, <2>2
    <3> QED BY <2>2, <3>1, Zenon
  <2>3. DOMAIN s = 1..n /\ DOMAIN ms = 1..k /\ DOMAIN u = 1..(n + k)
    BY <1>2
  <2> QED BY <2>1, <2>2, <2>3 DEF HasError
<1>7. ASSUME NEW i \in 1..(n + k), u[i].t = "status"
      PROVE  \E j \in 1..(n + k) : j < i /\ u[j].t = "error"
  <2>1. CASE i \in 1..n
    <3>1. \E j \in 1..n : j < i /\ s[j].t = "error"
      BY <1>2, <1>7, <2>1 DEF StatusLast
    <3> QED BY <1>2, <1>3, <3>1
  <2>2. CASE i \notin 1..n
    <3>1. PICK m \in 1..k : m = i - n /\ u[i] = ms[m]
      BY <1>2, <1>7, <2>2
    <3>2. \E j \in 1..n : s[j].t = "error"
      BY <1>2, <1>7, <3>1 DEF HasError
    <3> QED BY <1>2, <1>3, <1>5, <2>2, <3>2
  <2> QED BY <2>1, <2>2
<1>8. StatusLast(u)
  <2>1. DOMAIN u = 1..(n + k)
    BY <1>2
  <2> QED BY <1>7, <2>1 DEF StatusLast
<1> QED BY <1>6, <1>8

\* An error that is not the first message stays when the first is taken.
LEMMA ErrorsNext ==
  ASSUME NEW s \in Seq(Heard), s # <<>>, s[1].t # "error", NEW u, u = Tail(s), StatusLast(s)
  PROVE  StatusLast(u) /\ (HasError(s) => HasError(u))
<1>1. PICK n \in Nat \ {0} : n = Len(s)
  <2>1. Len(s) \in Nat \ {0}
    BY LengthOf
  <2> QED BY <2>1, Zenon
<1>2. /\ DOMAIN s = 1..n /\ DOMAIN u = 1..(n - 1)
      /\ \A i \in 1..(n - 1) : u[i] = s[i + 1]
  <2>1. DOMAIN s = 1..n /\ DOMAIN u = 1..(n - 1)
    BY <1>1
  <2> QED BY <2>1, TailAt
<1>3. \A j \in 1..n : j = 1 \/ (\E l \in 1..(n - 1) : j = l + 1)
  <2>1. SUFFICES ASSUME NEW j \in 1..n, j # 1 PROVE \E l \in 1..(n - 1) : j = l + 1
    OBVIOUS
  <2>2. j - 1 \in 1..(n - 1) /\ j = (j - 1) + 1
    BY <1>1, <2>1
  <2> QED BY <2>2
<1>4. ASSUME NEW j \in 1..n, s[j].t = "error"
      PROVE  \E l \in 1..(n - 1) : j = l + 1 /\ u[l].t = "error"
  <2>1. PICK l \in 1..(n - 1) : j = l + 1
    BY <1>3, <1>4
  <2> QED BY <1>2, <1>4, <2>1
<1>5. HasError(s) => HasError(u)
  BY <1>2, <1>4 DEF HasError
<1>6. ASSUME NEW i \in 1..(n - 1), u[i].t = "status"
      PROVE  \E j \in 1..(n - 1) : j < i /\ u[j].t = "error"
  <2>1. PICK m \in 1..n : m = i + 1
    BY <1>1, <1>6
  <2>2. PICK j \in 1..n : j < m /\ s[j].t = "error"
    BY <1>2, <1>6, <2>1 DEF StatusLast
  <2>3. PICK l \in 1..(n - 1) : j = l + 1 /\ u[l].t = "error"
    BY <1>4, <2>2
  <2>4. l < i
    BY <1>6, <2>1, <2>2, <2>3
  <2> QED BY <2>3, <2>4
<1>7. StatusLast(u)
  <2>1. DOMAIN u = 1..(n - 1)
    BY <1>2
  <2> QED BY <1>6, <2>1 DEF StatusLast
<1> QED BY <1>5, <1>7

\* The status that is on its way to the command, or will be, is behind what became of
\* the resize: what is said now included.
Behind(ms) ==
  /\ \A i \in DOMAIN ms : ms[i].t = "status" => HasError(rx)
  /\ HasError(rx) \/ HasError(ms) \/ QueryLast(tx')

\* The daemon says ms.
LEMMA ResizeSaid ==
  ASSUME TypesOK, ResizeOK, Grows, pc' = pc, NEW ms, Says(ms),
         cmd = "POST resize" /\ pc # "done" => Resized' \/ Behind(ms)
  PROVE  ResizeOK'
<1>1. SUFFICES ASSUME cmd = "POST resize", pc # "done", ~Resized'
               PROVE  StatusLast(rx') /\ (HasError(rx') \/ QueryLast(tx'))
  BY DEF ResizeOK, Grows
<1>2. ~Resized
  BY <1>1 DEF Grows, Resized
<1>3. PICK s, u : s = rx /\ u = rx'
  OBVIOUS
<1>4. s \in Seq(Heard) /\ ms \in Seq(Heard) /\ u = s \o ms
  BY <1>3 DEF TypesOK, Says
<1>5. StatusLast(s) /\ \A i \in DOMAIN ms : ms[i].t = "status" => HasError(s)
  BY <1>1, <1>2, <1>3 DEF ResizeOK, Behind
<1>6. StatusLast(u) /\ (HasError(s) \/ HasError(ms) => HasError(u))
  BY <1>4, <1>5, ErrorsMore
<1>7. HasError(s) \/ HasError(ms) \/ QueryLast(tx')
  BY <1>1, <1>3 DEF Behind
<1> QED BY <1>3, <1>6, <1>7

\* Nothing is asked or answered.
LEMMA ResizeWaits ==
  ASSUME TypesOK, ResizeOK, Grows, pc' = pc, NEW ms, Says(ms), tx' = tx \/ tx' = <<>>,
         \A i \in DOMAIN ms : ms[i].t # "status"
  PROVE  ResizeOK'
<1>1. cmd = "POST resize" /\ pc # "done" => Resized' \/ Behind(ms)
  <2>1. SUFFICES ASSUME cmd = "POST resize", pc # "done", ~Resized'
                 PROVE  HasError(rx) \/ QueryLast(tx')
    BY DEF Behind
  <2>2. HasError(rx) \/ QueryLast(tx)
    BY <2>1 DEF Grows, Resized, ResizeOK
  <2>3. tx' = <<>> => QueryLast(tx')
    BY DEF QueryLast
  <2> QED BY <2>2, <2>3
<1> QED BY <1>1, ResizeSaid

\* The command reads a message.
LEMMA ResizeRead ==
  ASSUME TypesOK, ResizeOK, Grows, rx # <<>>, rx' = Tail(rx),
         cmd = "POST resize" /\ pc' # "done" => pc # "done" /\ tx' = tx /\ rx[1].t # "error"
  PROVE  ResizeOK'
<1>1. SUFFICES ASSUME cmd = "POST resize", pc' # "done", ~Resized'
               PROVE  StatusLast(rx') /\ (HasError(rx') \/ QueryLast(tx'))
  BY DEF ResizeOK, Grows
<1>2. ~Resized /\ tx' = tx /\ pc # "done"
  BY <1>1 DEF Grows, Resized
<1>3. PICK s, u : s = rx /\ u = rx'
  OBVIOUS
<1>4. s \in Seq(Heard) /\ s # <<>> /\ u = Tail(s) /\ s[1].t # "error"
  BY <1>1, <1>3 DEF TypesOK
<1>5. StatusLast(s) /\ (HasError(s) \/ QueryLast(tx'))
  BY <1>1, <1>2, <1>3 DEF ResizeOK
<1>6. StatusLast(u) /\ (HasError(s) => HasError(u))
  BY <1>4, <1>5, ErrorsNext
<1> QED BY <1>3, <1>5, <1>6

\* The command does not read.
LEMMA ResizeStays ==
  ASSUME ResizeOK, Grows, rx' = rx,
         cmd = "POST resize" /\ pc' # "done" => pc # "done" /\ tx' = tx
  PROVE  ResizeOK'
<1>1. SUFFICES ASSUME cmd = "POST resize", pc' # "done", ~Resized'
               PROVE  StatusLast(rx') /\ (HasError(rx') \/ QueryLast(tx'))
  BY DEF ResizeOK, Grows
<1>2. ~Resized /\ tx' = tx /\ pc # "done"
  BY <1>1 DEF Grows, Resized
<1> QED BY <1>1, <1>2 DEF ResizeOK

-----------------------------------------------------------------------------
(* Steps of the daemon and of its surroundings.                            *)

\* A step that leaves the command where it is.
LEMMA OthersKeep ==
  ASSUME CommandInv, Grows, UNCHANGED local, NEW ms, Says(ms), Fits(ms)',
         tx' = tx \/ tx' = <<>> \/ (tx # <<>> /\ tx' = Tail(tx)),
         SessionOK', DaemonOK', ResizeOK'
  PROVE  CommandInv'
<1>1. UNCHANGED <<cmd, arg, pc, code, mem>>
  BY DEF local
<1>2. rx' \in Seq(Heard) /\ HeardOK' /\ OrderOK' /\ UpgradeOK'
  <2>1. ms \in Seq(Heard) /\ (ms = <<>> \/ open) /\ rx' = rx \o ms
    BY DEF Says
  <2>2. TypesOK /\ HeardOK /\ OrderOK /\ UpgradeOK
    BY DEF CommandInv
  <2> QED BY <1>1, <2>1, <2>2, HearsMore
<1>3. tx' \in Seq(Asked) /\ SentOK'
  BY AsksLess DEF CommandInv
<1>4. ExitTruthful'
  BY <1>1, TruthStays DEF CommandInv
<1>5. LocalOK' /\ StepsOK'
  <2>1. LocalOK /\ StepsOK
    BY DEF CommandInv, TypesOK
  <2> QED BY <1>1, <2>1, ZenonT(40) DEF LocalOK, StepsOK
<1> QED BY <1>2, <1>3, <1>4, <1>5 DEF CommandInv, TypesOK

\* Something is said that is no status, or nothing.
Adds == \E ms : Says(ms) /\ Fits(ms)' /\ \A i \in DOMAIN ms : ms[i].t # "status"

\* A step that does not read what the command has sent.
LEMMA WorldKeeps ==
  ASSUME CommandInv, Grows, UNCHANGED local, Adds, tx' = tx \/ tx' = <<>>, SessionOK', DaemonOK'
  PROVE  CommandInv'
<1>1. PICK ms : Says(ms) /\ Fits(ms)' /\ \A i \in DOMAIN ms : ms[i].t # "status"
  BY DEF Adds
<1>2. ResizeOK'
  BY <1>1, ResizeWaits DEF CommandInv, local
<1> QED BY <1>1, <1>2, OthersKeep

\* A message without a value.
LEMMA PlainHeard ==
  ASSUME NEW t \in Replies \cup Unsolicited \cup {"error", "exit", "eof", "data"}
  PROVE  Msg(t, 0) \in Heard
BY DEF Msg, Heard

\* A message with the screen in it.
LEMMA ScreenHeard ==
  ASSUME NEW t \in Replies \cup Unsolicited \cup {"error", "exit", "eof", "data"}, NEW v \in Screens
  PROVE  Msg(t, v) \in Heard
BY DEF Msg, Heard

\* Nothing is said.
LEMMA AddsNothing ==
  ASSUME TypesOK, rx' = rx
  PROVE  Adds
<1>1. Says(<<>>) /\ Fits(<<>>)' /\ DOMAIN <<>> = {}
  BY SaysNothing
<1> QED BY <1>1 DEF Adds

\* A message that answers nobody.
LEMMA AddsHeard ==
  ASSUME TypesOK, NEW t, Hear(t), Msg(t, 0) \in Heard, t \notin {"exit", "eof", "status"},
         Backed(Msg(t, 0))'
  PROVE  Adds
<1>1. CASE open /\ pc # "done"
  <2>1. PICK m \in Heard : m = Msg(t, 0) /\ m.t = t /\ Backed(m)'
    BY DEF Msg
  <2>2. rx' = rx \o <<m>>
    BY <1>1, <2>1 DEF Hear, TypesOK
  <2>3. Says(<<m>>) /\ Fits(<<m>>)'
    BY <1>1, <2>1, <2>2, SaysOne
  <2>4. \A i \in DOMAIN <<m>> : <<m>>[i].t # "status"
    BY <2>1
  <2> QED BY <2>3, <2>4 DEF Adds
<1>2. CASE ~(open /\ pc # "done")
  BY <1>2, AddsNothing DEF Hear
<1> QED BY <1>1, <1>2

\* The end of the connection.
LEMMA AddsEof ==
  ASSUME TypesOK, Cut, open /\ cmd' = "upgrade" => Leaves'
  PROVE  Adds
<1>1. CASE open /\ pc # "done"
  <2>1. PICK m \in Heard : m = Msg("eof", 0) /\ m.t = "eof"
    <3>1. Msg("eof", 0) \in Heard
      BY PlainHeard
    <3> QED BY <3>1 DEF Msg
  <2>2. Backed(m)'
    BY <2>1 DEF Backed, Cut
  <2>3. rx' = rx \o <<m>>
    <3>1. rx' = Append(rx, m)
      BY <1>1, <2>1 DEF Cut
    <3> QED BY <3>1 DEF TypesOK
  <2>4. Says(<<m>>) /\ Fits(<<m>>)'
    BY <1>1, <2>1, <2>2, <2>3, SaysOne
  <2>5. \A i \in DOMAIN <<m>> : <<m>>[i].t # "status"
    BY <2>1
  <2> QED BY <2>4, <2>5 DEF Adds
<1>2. CASE ~(open /\ pc # "done")
  BY <1>2, AddsNothing DEF Cut
<1> QED BY <1>1, <1>2


-----------------------------------------------------------------------------
(* The surroundings of the command.                                        *)

\* The child dies.
LEMMA ChildDiesKeeps ==
  ASSUME CommandInv, ChildDies
  PROVE  CommandInv'
<1>1. /\ UNCHANGED <<rx, tx, open, daemon, sock, image, records, screen, effects, sawFree, dropped>>
      /\ UNCHANGED local /\ child' = "dead"
  BY DEF ChildDies
<1>2. TypesOK /\ SessionOK /\ DaemonOK
  BY DEF CommandInv, TypesOK
<1>3. Grows
  BY <1>1 DEF Grows, Leaves, local, Gone
<1>4. SessionOK' /\ DaemonOK'
  BY <1>1, <1>2 DEF SessionOK, DaemonOK
<1> QED BY <1>1, <1>2, <1>3, <1>4, AddsNothing, WorldKeeps

\* The child writes.
LEMMA ChildOutputKeeps ==
  ASSUME CommandInv, ChildOutput
  PROVE  CommandInv'
<1>1. /\ UNCHANGED <<tx, open, daemon, sock, image, child, records, effects, sawFree, dropped>>
      /\ UNCHANGED local /\ Hear("data")
  BY DEF ChildOutput
<1>2. TypesOK /\ SessionOK /\ DaemonOK
  BY DEF CommandInv, TypesOK
<1>3. Grows
  BY <1>1 DEF Grows, Leaves, local, Gone
<1>4. SessionOK' /\ DaemonOK'
  <2>1. screen' \in Screens
    <3>1. PICK b \in BOOLEAN : screen' = [seq |-> screen.seq + 1, shown |-> b]
      BY DEF ChildOutput
    <3>2. screen \in Screens
      BY <1>2 DEF SessionOK
    <3>3. screen.seq + 1 \in Nat
      BY <3>2 DEF Screens
    <3> QED BY <3>1, <3>3 DEF Screens
  <2> QED BY <1>1, <1>2, <2>1 DEF SessionOK, DaemonOK
<1>5. Msg("data", 0) \in Heard /\ Backed(Msg("data", 0))'
  BY PlainHeard DEF Backed, Msg
<1> QED BY <1>1, <1>2, <1>3, <1>4, <1>5, AddsHeard, WorldKeeps

\* The daemon tells of the leader, or of the stopped child.
LEMMA NotificationKeeps ==
  ASSUME CommandInv, Notification
  PROVE  CommandInv'
<1>1. /\ UNCHANGED <<tx, open, daemon, sock, session, effects, sawFree, dropped>>
      /\ UNCHANGED local /\ \E t \in {"leader", "stopped"} : Hear(t)
  BY DEF Notification
<1>2. TypesOK /\ SessionOK /\ DaemonOK
  BY DEF CommandInv, TypesOK
<1>3. Grows
  BY <1>1 DEF Grows, Leaves, local, session, Gone
<1>4. SessionOK' /\ DaemonOK'
  BY <1>1, <1>2 DEF SessionOK, DaemonOK, session
<1>5. PICK t \in {"leader", "stopped"} : Hear(t)
  BY <1>1
<1>6. Msg(t, 0) \in Heard
  BY PlainHeard DEF Unsolicited
<1>7. Backed(Msg(t, 0))'
  BY DEF Backed, Msg
<1>8. Adds
  BY <1>2, <1>5, <1>6, <1>7, AddsHeard
<1> QED BY <1>1, <1>3, <1>4, <1>8, WorldKeeps

\* Another client takes or releases the lock.
LEMMA OtherLockKeeps ==
  ASSUME CommandInv, OtherLock
  PROVE  CommandInv'
<1>1. /\ UNCHANGED <<tx, open, daemon, sock, image, child, records, screen, effects, dropped>>
      /\ UNCHANGED local /\ Hear(IF lock = "free" THEN "mode.held" ELSE "mode.free")
      /\ lock' = (IF lock = "free" THEN "other" ELSE "free")
      /\ sawFree' = (sawFree \/ lock' = "free")
  BY DEF OtherLock
<1>2. TypesOK /\ SessionOK /\ DaemonOK
  BY DEF CommandInv, TypesOK
<1>3. Grows
  BY <1>1 DEF Grows, Leaves, local, Gone
<1>4. SessionOK' /\ DaemonOK'
  <2>1. sawFree' \in BOOLEAN
    BY <1>1
  <2> QED BY <1>1, <1>2, <2>1 DEF SessionOK, DaemonOK
<1>5. PICK t \in {"mode.held", "mode.free"} : Hear(t) /\ (t = "mode.free" => sawFree')
  <2>1. CASE lock = "free"
    BY <1>1, <2>1
  <2>2. CASE lock # "free"
    BY <1>1, <2>2
  <2> QED BY <2>1, <2>2
<1>6. Msg(t, 0) \in Heard
  BY PlainHeard DEF Unsolicited
<1>7. Backed(Msg(t, 0))'
  BY <1>5 DEF Backed, Msg
<1>8. Adds
  BY <1>2, <1>5, <1>6, <1>7, AddsHeard
<1> QED BY <1>1, <1>3, <1>4, <1>8, WorldKeeps

\* Another client starts or stops a record.
LEMMA OtherRecordKeeps ==
  ASSUME CommandInv, OtherRecord
  PROVE  CommandInv'
<1>1. /\ UNCHANGED <<rx, tx, open, daemon, sock, image, child, screen, effects, sawFree, dropped>>
      /\ UNCHANGED local
  BY DEF OtherRecord
<1>2. TypesOK /\ SessionOK /\ DaemonOK
  BY DEF CommandInv, TypesOK
<1>3. Grows
  BY <1>1 DEF Grows, Leaves, local, Gone
<1>4. records' \subseteq Records /\ IsFiniteSet(records')
  <2>1. PICK r \in Records : records' = IF r \in records THEN records \ {r} ELSE records \cup {r}
    BY DEF OtherRecord
  <2>2. records \subseteq Records /\ IsFiniteSet(records)
    BY <1>2 DEF SessionOK
  <2>3. IsFiniteSet(records \ {r}) /\ IsFiniteSet(records \cup {r})
    BY <2>2, FS_AddElement, FS_RemoveElement
  <2> QED BY <2>1, <2>2, <2>3
<1>5. SessionOK' /\ DaemonOK'
  BY <1>1, <1>2, <1>4 DEF SessionOK, DaemonOK
<1> QED BY <1>1, <1>2, <1>3, <1>5, AddsNothing, WorldKeeps

\* Another client detaches everybody.
LEMMA OtherDetachKeeps ==
  ASSUME CommandInv, OtherDetach
  PROVE  CommandInv'
<1>1. /\ UNCHANGED <<daemon, sock, image, child, records, screen, effects, sawFree>>
      /\ UNCHANGED local /\ Cut /\ tx' = <<>> /\ dropped' = (dropped \/ open)
  BY DEF OtherDetach
<1>2. TypesOK /\ SessionOK /\ DaemonOK
  BY DEF CommandInv, TypesOK
<1>3. open' = FALSE
  BY <1>1 DEF Cut
<1>4. Grows
  BY <1>1, <1>3 DEF Grows, Leaves, local, Gone
<1>5. SessionOK' /\ DaemonOK'
  <2>1. dropped' \in BOOLEAN
    BY <1>1
  <2> QED BY <1>1, <1>2, <1>3, <2>1 DEF SessionOK, DaemonOK
<1>6. Adds
  <2>1. open => Leaves'
    BY <1>1 DEF Leaves
  <2> QED BY <1>1, <1>2, <2>1, AddsEof
<1> QED BY <1>1, <1>4, <1>5, <1>6, WorldKeeps

\* Another client asks for an upgrade.
LEMMA OtherUpgradeKeeps ==
  ASSUME CommandInv, OtherUpgrade
  PROVE  CommandInv'
<1>1. /\ UNCHANGED <<tx, open, sock, image, child, records, screen, effects, sawFree, dropped>>
      /\ UNCHANGED local /\ Hear("upgraded") /\ daemon = "serving" /\ daemon' = "pending"
  BY DEF OtherUpgrade, session
<1>2. TypesOK /\ SessionOK /\ DaemonOK
  BY DEF CommandInv, TypesOK
<1>3. Grows
  BY <1>1 DEF Grows, Leaves, local, Gone
<1>4. SessionOK' /\ DaemonOK'
  BY <1>1, <1>2 DEF SessionOK, DaemonOK
<1>5. Msg("upgraded", 0) \in Heard
  BY PlainHeard DEF Unsolicited
<1>6. Backed(Msg("upgraded", 0))'
  BY DEF Backed, Msg
<1>7. Adds
  BY <1>1, <1>2, <1>5, <1>6, AddsHeard
<1> QED BY <1>1, <1>3, <1>4, <1>7, WorldKeeps

\* The daemon is killed.
LEMMA CrashKeeps ==
  ASSUME CommandInv, Crash
  PROVE  CommandInv'
<1>1. /\ UNCHANGED <<tx, sock, image, child, screen, effects, sawFree, dropped>>
      /\ UNCHANGED local /\ Cut /\ ~Gone /\ daemon' = "gone" /\ records' = {}
  BY DEF Crash
<1>2. TypesOK /\ SessionOK /\ DaemonOK
  BY DEF CommandInv, TypesOK
<1>3. open' = FALSE
  BY <1>1 DEF Cut
<1>4. Grows
  BY <1>1, <1>3 DEF Grows, Leaves, local, Gone
<1>5. SessionOK' /\ DaemonOK'
  BY <1>1, <1>2, <1>3, FS_EmptySet DEF SessionOK, DaemonOK, Gone
<1>6. Adds
  BY <1>1, <1>2, AddsEof DEF Leaves
<1> QED BY <1>1, <1>4, <1>5, <1>6, WorldKeeps

\* The daemon is stopped.
LEMMA HangKeeps ==
  ASSUME CommandInv, Hang
  PROVE  CommandInv'
<1>1. /\ UNCHANGED <<rx, tx, open, sock, image, child, records, screen, effects, sawFree, dropped>>
      /\ UNCHANGED local /\ daemon = "serving" /\ daemon' = "hung"
  BY DEF Hang, session
<1>2. TypesOK /\ SessionOK /\ DaemonOK
  BY DEF CommandInv, TypesOK
<1>3. Grows
  BY <1>1 DEF Grows, Leaves, local, Gone
<1>4. SessionOK' /\ DaemonOK'
  BY <1>1, <1>2 DEF SessionOK, DaemonOK
<1> QED BY <1>1, <1>2, <1>3, <1>4, AddsNothing, WorldKeeps

\* Whatever happens around the command.
LEMMA EnvironmentKeeps ==
  ASSUME CommandInv, Environment
  PROVE  CommandInv'
BY ChildDiesKeeps, ChildOutputKeeps, NotificationKeeps, OtherLockKeeps, OtherRecordKeeps,
   OtherDetachKeeps, OtherUpgradeKeeps, CrashKeeps, HangKeeps DEF Environment

-----------------------------------------------------------------------------
(* The daemon between two requests.                                        *)

\* The client is dropped.
LEMMA DropKeeps ==
  ASSUME CommandInv, Drop
  PROVE  CommandInv'
<1>1. /\ UNCHANGED <<rx, tx, daemon, sock, image, child, records, screen, effects, sawFree, dropped>>
      /\ UNCHANGED local /\ open' = FALSE
  BY DEF Drop
<1>2. TypesOK /\ SessionOK /\ DaemonOK
  BY DEF CommandInv, TypesOK
<1>3. Grows
  BY <1>1 DEF Grows, Leaves, local, Gone
<1>4. SessionOK' /\ DaemonOK'
  BY <1>1, <1>2 DEF SessionOK, DaemonOK
<1> QED BY <1>1, <1>2, <1>3, <1>4, AddsNothing, WorldKeeps

\* The session ends.
LEMMA FinishKeeps ==
  ASSUME CommandInv, Finish
  PROVE  CommandInv'
<1>1. /\ UNCHANGED <<tx, sock, image, child, screen, effects, sawFree, dropped>>
      /\ UNCHANGED local /\ daemon = "serving" /\ child = "dead" /\ daemon' = "ending"
      /\ open' = FALSE /\ records' = {}
      /\ rx' = (IF open /\ pc # "done" THEN rx \o <<Msg("exit", 0), Msg("eof", 0)>> ELSE rx)
  BY DEF Finish
<1>2. TypesOK /\ SessionOK /\ DaemonOK
  BY DEF CommandInv, TypesOK
<1>3. Grows
  BY <1>1 DEF Grows, Leaves, local, Gone
<1>4. SessionOK' /\ DaemonOK'
  BY <1>1, <1>2, FS_EmptySet DEF SessionOK, DaemonOK
<1>5. CASE open /\ pc # "done"
  <2>1. PICK m \in Heard : m = Msg("exit", 0) /\ m.t = "exit"
    <3>1. Msg("exit", 0) \in Heard
      BY PlainHeard
    <3> QED BY <3>1 DEF Msg
  <2>2. PICK n \in Heard : n = Msg("eof", 0) /\ n.t = "eof"
    <3>1. Msg("eof", 0) \in Heard
      BY PlainHeard
    <3> QED BY <3>1 DEF Msg
  <2>3. Backed(m)' /\ Backed(n)'
    BY <1>1, <2>1, <2>2 DEF Backed
  <2>4. rx' = rx \o <<m, n>>
    BY <1>1, <1>5, <2>1, <2>2
  <2>5. Says(<<m, n>>) /\ Fits(<<m, n>>)'
    BY <1>2, <1>5, <2>1, <2>2, <2>3, <2>4, SaysTwo
  <2>6. \A i \in DOMAIN <<m, n>> : <<m, n>>[i].t # "status"
    BY <2>1, <2>2
  <2>7. Adds
    BY <2>5, <2>6 DEF Adds
  <2> QED BY <1>1, <1>3, <1>4, <2>7, WorldKeeps
<1>6. CASE ~(open /\ pc # "done")
  <2>1. rx' = rx
    BY <1>1, <1>6
  <2> QED BY <1>1, <1>2, <1>3, <1>4, <2>1, AddsNothing, WorldKeeps
<1> QED BY <1>5, <1>6

\* The daemon's process ends: its child is dead.
LEMMA EndKeeps ==
  ASSUME CommandInv, End
  PROVE  CommandInv'
<1>1. /\ UNCHANGED <<rx, tx, open, image, child, records, screen, effects, sawFree, dropped>>
      /\ UNCHANGED local /\ daemon = "ending" /\ daemon' = "gone" /\ sock' = FALSE
  BY DEF End, session
<1>2. TypesOK /\ SessionOK /\ DaemonOK
  BY DEF CommandInv, TypesOK
<1>3. Grows
  BY <1>1 DEF Grows, Leaves, local, Gone
<1>4. SessionOK' /\ DaemonOK'
  BY <1>1, <1>2 DEF SessionOK, DaemonOK
<1> QED BY <1>1, <1>2, <1>3, <1>4, AddsNothing, WorldKeeps

\* The daemon execs its new image.
LEMMA ExecKeeps ==
  ASSUME CommandInv, Exec
  PROVE  CommandInv'
<1>1. /\ UNCHANGED <<sock, image, child, screen, effects, sawFree, dropped>>
      /\ UNCHANGED local /\ Cut /\ daemon = "pending" /\ daemon' = "execing"
      /\ tx' = <<>> /\ records' = {}
  BY DEF Exec
<1>2. TypesOK /\ SessionOK /\ DaemonOK
  BY DEF CommandInv, TypesOK
<1>3. open' = FALSE
  BY <1>1 DEF Cut
<1>4. Grows
  BY <1>1, <1>3 DEF Grows, Leaves, local, Gone
<1>5. SessionOK' /\ DaemonOK'
  BY <1>1, <1>2, <1>3, FS_EmptySet DEF SessionOK, DaemonOK
<1>6. Adds
  BY <1>1, <1>2, AddsEof DEF Leaves
<1> QED BY <1>1, <1>4, <1>5, <1>6, WorldKeeps

\* The new image serves.
LEMMA ResumeKeeps ==
  ASSUME CommandInv, Resume
  PROVE  CommandInv'
<1>1. /\ UNCHANGED <<rx, tx, open, sock, child, records, screen, effects, sawFree, dropped>>
      /\ UNCHANGED local /\ daemon = "execing" /\ daemon' = "serving" /\ image' = image + 1
  BY DEF Resume
<1>2. TypesOK /\ SessionOK /\ DaemonOK
  BY DEF CommandInv, TypesOK
<1>3. image' \in Nat /\ image' > 0
  <2>1. image \in Nat
    BY <1>2 DEF SessionOK
  <2>2. image' = image + 1
    BY <1>1
  <2> QED BY <2>1, <2>2
<1>4. Grows
  BY <1>1, <1>3 DEF Grows, Leaves, local, Gone
<1>5. SessionOK' /\ DaemonOK'
  BY <1>1, <1>2, <1>3 DEF SessionOK, DaemonOK
<1> QED BY <1>1, <1>2, <1>4, <1>5, AddsNothing, WorldKeeps

\* The exec fails.
LEMMA ExecFailedKeeps ==
  ASSUME CommandInv, ExecFailed
  PROVE  CommandInv'
<1>1. /\ UNCHANGED <<rx, tx, open, sock, image, child, records, screen, effects, dropped>>
      /\ UNCHANGED local /\ daemon = "pending" /\ daemon' = "serving" /\ sawFree' = TRUE
  BY DEF ExecFailed
<1>2. TypesOK /\ SessionOK /\ DaemonOK
  BY DEF CommandInv, TypesOK
<1>3. Grows
  BY <1>1 DEF Grows, Leaves, local, Gone
<1>4. SessionOK' /\ DaemonOK'
  BY <1>1, <1>2 DEF SessionOK, DaemonOK
<1> QED BY <1>1, <1>2, <1>3, <1>4, AddsNothing, WorldKeeps

\* The exec cannot be prepared.
LEMMA PrepFailedKeeps ==
  ASSUME CommandInv, PrepFailed
  PROVE  CommandInv'
<1>1. /\ UNCHANGED <<tx, image, child, screen, effects, sawFree, dropped>>
      /\ UNCHANGED local /\ Cut /\ daemon = "pending" /\ daemon' = "failed" /\ sock' = FALSE
      /\ records' = {}
  BY DEF PrepFailed
<1>2. TypesOK /\ SessionOK /\ DaemonOK
  BY DEF CommandInv, TypesOK
<1>3. open' = FALSE
  BY <1>1 DEF Cut
<1>4. Grows
  BY <1>1, <1>3 DEF Grows, Leaves, local, Gone
<1>5. SessionOK' /\ DaemonOK'
  BY <1>1, <1>2, <1>3, FS_EmptySet DEF SessionOK, DaemonOK
<1>6. Adds
  BY <1>1, <1>2, AddsEof DEF Leaves
<1> QED BY <1>1, <1>4, <1>5, <1>6, WorldKeeps

-----------------------------------------------------------------------------
(* The daemon handles a request.                                           *)

\* A query that is behind a resize stays behind it when another request is taken.
LEMMA QueryNext ==
  ASSUME NEW s \in Seq(Asked), s # <<>>, s[1].t # "resize", NEW u, u = Tail(s), QueryLast(s)
  PROVE  QueryLast(u)
<1>1. PICK n \in Nat \ {0} : n = Len(s)
  <2>1. Len(s) \in Nat \ {0}
    BY LengthOf
  <2> QED BY <2>1, Zenon
<1>2. /\ DOMAIN s = 1..n /\ DOMAIN u = 1..(n - 1)
      /\ \A i \in 1..(n - 1) : u[i] = s[i + 1]
  <2>1. DOMAIN s = 1..n /\ DOMAIN u = 1..(n - 1)
    BY <1>1
  <2> QED BY <2>1, TailAt
<1>3. \A j \in 1..n : j = 1 \/ (\E l \in 1..(n - 1) : j = l + 1)
  <2>1. SUFFICES ASSUME NEW j \in 1..n, j # 1 PROVE \E l \in 1..(n - 1) : j = l + 1
    OBVIOUS
  <2>2. j - 1 \in 1..(n - 1) /\ j = (j - 1) + 1
    BY <1>1, <2>1
  <2> QED BY <2>2
<1>4. ASSUME NEW i \in 1..(n - 1), u[i].t = "status"
      PROVE  \E j \in 1..(n - 1) : j < i /\ u[j].t = "resize"
  <2>1. PICK m \in 1..n : m = i + 1
    BY <1>1, <1>4
  <2>2. PICK j \in 1..n : j < m /\ s[j].t = "resize"
    BY <1>2, <1>4, <2>1 DEF QueryLast
  <2>3. PICK l \in 1..(n - 1) : j = l + 1
    BY <1>3, <2>2
  <2>4. l < i
    BY <1>4, <2>1, <2>2, <2>3
  <2>5. u[l].t = "resize"
    BY <1>2, <2>2, <2>3
  <2> QED BY <2>4, <2>5
<1>5. DOMAIN u = 1..(n - 1)
  BY <1>2
<1> QED BY <1>4, <1>5 DEF QueryLast

\* A status is said only when it was asked for, and a resize is done or refused.
Answers(ms) ==
  /\ \A i \in DOMAIN ms : ms[i].t = "status" => Head(tx).t = "status"
  /\ Head(tx).t = "resize" /\ pc # "done" => Resized' \/ HasError(ms)

\* A request is taken and ms is answered.
LEMMA ServeKeeps ==
  ASSUME CommandInv, Grows, UNCHANGED local, NEW ms, Says(ms), Fits(ms)', tx # <<>>, tx' = Tail(tx),
         Answers(ms), SessionOK', DaemonOK'
  PROVE  CommandInv'
<1>1. TypesOK /\ ResizeOK /\ tx \in Seq(Asked) /\ pc' = pc
  BY DEF CommandInv, TypesOK, local
<1>2. ASSUME cmd = "POST resize", pc # "done", ~Resized'
      PROVE  Behind(ms)
  <2>1. HasError(rx) \/ QueryLast(tx)
    BY <1>1, <1>2 DEF ResizeOK, Grows, Resized
  <2>2. 1 \in DOMAIN tx /\ Head(tx) = tx[1]
    BY <1>1, TailAt
  <2>3. QueryLast(tx) => tx[1].t # "status"
    <3>1. \A j \in DOMAIN tx : ~(j < 1)
      <4>1. DOMAIN tx = 1..Len(tx) /\ Len(tx) \in Nat
        BY <1>1
      <4>2. \A j \in 1..Len(tx) : ~(j < 1)
        BY <4>1
      <4> QED BY <4>1, <4>2
    <3> QED BY <2>2, <3>1 DEF QueryLast
  <2>4. \A i \in DOMAIN ms : ms[i].t = "status" => HasError(rx)
    BY <2>1, <2>2, <2>3 DEF Answers
  <2>5. HasError(rx) \/ HasError(ms) \/ QueryLast(tx')
    <3>1. CASE tx[1].t = "resize"
      BY <1>2, <2>2, <3>1 DEF Answers
    <3>2. CASE tx[1].t # "resize" /\ QueryLast(tx)
      <4>1. PICK s, u : s = tx /\ u = tx'
        OBVIOUS
      <4>2. QueryLast(u)
        BY <1>1, <3>2, <4>1, QueryNext
      <4> QED BY <4>1, <4>2
    <3> QED BY <2>1, <3>1, <3>2
  <2> QED BY <2>4, <2>5 DEF Behind
<1>3. ResizeOK'
  BY <1>1, <1>2, ResizeSaid
<1> QED BY <1>3, OthersKeep

\* What the handlers have in common.
LEMMA ServeIs ==
  ASSUME CommandInv, Serve
  PROVE  /\ daemon = "serving" /\ open /\ tx # <<>> /\ tx' = Tail(tx) /\ UNCHANGED <<local, sock>>
         /\ sawFree' = (sawFree \/ lock' = "free")
         /\ sawFree' \in BOOLEAN /\ (sawFree => sawFree') /\ sock /\ sock \in BOOLEAN
         /\ TypesOK /\ SessionOK /\ DaemonOK
         /\ Head(tx) \in Asked /\ Justified(Head(tx))
<1>1. /\ daemon = "serving" /\ open /\ tx # <<>> /\ tx' = Tail(tx) /\ UNCHANGED <<local, sock>>
      /\ sawFree' = (sawFree \/ lock' = "free")
  BY DEF Serve
<1>2. TypesOK /\ SessionOK /\ DaemonOK /\ tx \in Seq(Asked) /\ SentOK
  BY DEF CommandInv, TypesOK
<1>3. 1 \in DOMAIN tx /\ Head(tx) = tx[1] /\ Head(tx) \in Asked
  BY <1>1, <1>2, TailAt
<1>4. Justified(Head(tx))
  <2>1. PICK m : m = tx[1]
    OBVIOUS
  <2>2. Justified(m)
    BY <1>2, <1>3, <2>1 DEF SentOK
  <2> QED BY <1>3, <2>1, <2>2
<1>5. sock /\ sock \in BOOLEAN
  BY <1>1, <1>2 DEF DaemonOK, SessionOK
<1>6. sawFree' \in BOOLEAN /\ (sawFree => sawFree')
  BY <1>1
<1> QED BY <1>1, <1>2, <1>3, <1>4, <1>5, <1>6

\* One answer.
LEMMA AnswersOne ==
  ASSUME CommandInv, Serve, Grows, SessionOK', DaemonOK',
         NEW m \in Heard, Send(<<m>>), Backed(m)', m.t \notin {"exit", "eof"},
         m.t = "status" => Head(tx).t = "status",
         Head(tx).t = "resize" => Resized' \/ m.t = "error"
  PROVE  CommandInv'
<1>1. open /\ tx # <<>> /\ tx' = Tail(tx) /\ UNCHANGED local /\ TypesOK
  BY ServeIs
<1>2. CASE pc # "done"
  <2>1. rx' = rx \o <<m>>
    BY <1>2 DEF Send
  <2>2. Says(<<m>>) /\ Fits(<<m>>)'
    BY <1>1, <2>1, SaysOne
  <2>3. Answers(<<m>>)
    <3>1. DOMAIN <<m>> = {1} /\ <<m>>[1] = m
      OBVIOUS
    <3>2. m.t = "error" => HasError(<<m>>)
      BY <3>1 DEF HasError
    <3> QED BY <3>1, <3>2 DEF Answers
  <2> QED BY <1>1, <2>2, <2>3, ServeKeeps
<1>3. CASE pc = "done"
  <2>1. rx' = rx
    BY <1>3 DEF Send
  <2>2. Says(<<>>) /\ Fits(<<>>)'
    BY <1>1, <2>1, SaysNothing
  <2>3. Answers(<<>>)
    BY <1>3 DEF Answers
  <2> QED BY <1>1, <2>2, <2>3, ServeKeeps
<1> QED BY <1>2, <1>3

\* No answer.
LEMMA AnswersNothing ==
  ASSUME CommandInv, Serve, Grows, SessionOK', DaemonOK', rx' = rx,
         Head(tx).t = "resize" => Resized'
  PROVE  CommandInv'
<1>1. open /\ tx # <<>> /\ tx' = Tail(tx) /\ UNCHANGED local /\ TypesOK
  BY ServeIs
<1>2. Says(<<>>) /\ Fits(<<>>)'
  BY <1>1, SaysNothing
<1>3. Answers(<<>>)
  BY DEF Answers
<1> QED BY <1>1, <1>2, <1>3, ServeKeeps

\* Two answers.
LEMMA AnswersTwo ==
  ASSUME CommandInv, Serve, Grows, SessionOK', DaemonOK',
         NEW m \in Heard, NEW n \in Heard, Send(<<m, n>>), Backed(m)', Backed(n)',
         m.t \notin {"eof", "exit", "status"}, n.t \notin {"exit", "status"},
         n.t = "eof" /\ cmd' = "upgrade" => Leaves',
         Head(tx).t # "resize"
  PROVE  CommandInv'
<1>1. open /\ tx # <<>> /\ tx' = Tail(tx) /\ UNCHANGED local /\ TypesOK
  BY ServeIs
<1>2. CASE pc # "done"
  <2>1. rx' = rx \o <<m, n>>
    BY <1>2 DEF Send
  <2>2. Says(<<m, n>>) /\ Fits(<<m, n>>)'
    BY <1>1, <2>1, SaysTwo
  <2>3. Answers(<<m, n>>)
    <3>1. DOMAIN <<m, n>> = {1, 2} /\ <<m, n>>[1] = m /\ <<m, n>>[2] = n
      OBVIOUS
    <3> QED BY <3>1 DEF Answers
  <2> QED BY <1>1, <2>2, <2>3, ServeKeeps
<1>3. CASE pc = "done"
  <2>1. rx' = rx
    BY <1>3 DEF Send
  <2> QED BY <2>1, AnswersNothing
<1> QED BY <1>2, <1>3

\* What a handler leaves alone.
LEMMA ServeGrows ==
  ASSUME CommandInv, Serve, effects \subseteq effects', UNCHANGED <<image, child, screen, dropped>>,
         daemon' \in {"serving", "pending"}, open' \in BOOLEAN,
         records' \subseteq Records, IsFiniteSet(records')
  PROVE  Grows /\ SessionOK' /\ DaemonOK'
<1>1. /\ daemon = "serving" /\ open /\ UNCHANGED <<local, sock>> /\ (sawFree => sawFree')
      /\ sawFree' \in BOOLEAN /\ sock /\ sock \in BOOLEAN /\ SessionOK
  BY ServeIs
<1>2. Grows
  BY <1>1 DEF Grows, Leaves, local, Gone
<1>3. SessionOK'
  BY <1>1 DEF SessionOK
<1>4. DaemonOK'
  BY <1>1 DEF DaemonOK
<1> QED BY <1>2, <1>3, <1>4

\* A handler that changes nothing but the effects and, perhaps, whether an upgrade is due.
LEMMA HandlerGrows ==
  ASSUME CommandInv, Serve, UNCHANGED <<open, session, dropped>>,
         effects' = effects \/ (\E t, v : Done(t, v)), daemon' = daemon \/ daemon' = "pending"
  PROVE  Grows /\ SessionOK' /\ DaemonOK'
<1>1. effects \subseteq effects'
  BY DEF Done
<1>2. daemon = "serving" /\ SessionOK
  BY ServeIs
<1>3. open' \in BOOLEAN /\ records' \subseteq Records /\ IsFiniteSet(records')
  BY <1>2 DEF SessionOK, session
<1>4. daemon' \in {"serving", "pending"} /\ UNCHANGED <<image, child, screen, dropped>>
  BY <1>2 DEF session
<1> QED BY <1>1, <1>3, <1>4, ServeGrows

\* An error, or another answer without a value, is said.
LEMMA SaysPlain ==
  ASSUME CommandInv, Serve, Grows, SessionOK', DaemonOK',
         NEW t \in Replies \cup Unsolicited \cup {"error"}, Say(t), t # "status",
         Head(tx).t = "resize" => Resized' \/ t = "error", Backed(Msg(t, 0))'
  PROVE  CommandInv'
<1>1. PICK m \in Heard : m = Msg(t, 0) /\ m.t = t
  <2>1. Msg(t, 0) \in Heard
    BY PlainHeard
  <2> QED BY <2>1 DEF Msg
<1>2. Send(<<m>>) /\ Backed(m)'
  BY <1>1 DEF Say
<1>3. m.t \notin {"exit", "eof"}
  BY <1>1 DEF Replies, Unsolicited
<1> QED BY <1>1, <1>2, <1>3, AnswersOne

\* An error is said.
LEMMA SaysError ==
  ASSUME CommandInv, Serve, Grows, SessionOK', DaemonOK', Say("error")
  PROVE  CommandInv'
<1>1. Backed(Msg("error", 0))'
  BY DEF Backed, Msg
<1> QED BY <1>1, SaysPlain

\* The signal is sent and acknowledged.
LEMMA KillKeeps ==
  ASSUME CommandInv, Serve, HandleKill(Head(tx))
  PROVE  CommandInv'
<1>1. PICK m : m = Head(tx)
  OBVIOUS
<1>2. /\ m.t \in {"kill", "kill9"} /\ UNCHANGED <<daemon, open, session, dropped>>
      /\ (Say("error") /\ effects' = effects) \/ (Done(m.t, 0) /\ Say("killed"))
  BY <1>1 DEF HandleKill
<1>3. Grows /\ SessionOK' /\ DaemonOK'
  BY <1>2, HandlerGrows
<1>4. CASE Say("error")
  BY <1>3, <1>4, SaysError
<1>5. CASE Done(m.t, 0) /\ Say("killed")
  <2>1. m.t = "kill9" => cmd = "kill --kill-on-timeout"
    BY <1>1, ServeIs DEF Justified
  <2>2. cmd' = cmd
    BY <1>3 DEF Grows
  <2>3. cmd' = "kill --kill-on-timeout" \/ Msg("kill", 0) \in effects'
    BY <1>2, <1>5, <2>1, <2>2 DEF Done
  <2>4. Backed(Msg("killed", 0))'
    BY <2>3 DEF Backed, Msg
  <2>5. "killed" \in Replies
    BY DEF Replies
  <2> QED BY <1>1, <1>2, <1>3, <1>5, <2>4, <2>5, SaysPlain
<1> QED BY <1>2, <1>4, <1>5

\* A signal without an answer, a resize, a resume.
LEMMA SignalKeeps ==
  ASSUME CommandInv, Serve, HandleSignal(Head(tx))
  PROVE  CommandInv'
<1>1. /\ Head(tx).t = "signal" /\ UNCHANGED <<daemon, open, session, dropped>>
      /\ (Done("signal", 0) /\ rx' = rx) \/ (Say("error") /\ effects' = effects)
  BY DEF HandleSignal
<1>2. Grows /\ SessionOK' /\ DaemonOK'
  BY <1>1, HandlerGrows
<1> QED BY <1>1, <1>2, SaysError, AnswersNothing

\* The window is resized, or refused.
LEMMA ResizeKeeps ==
  ASSUME CommandInv, Serve, HandleResize(Head(tx))
  PROVE  CommandInv'
<1>1. /\ Head(tx).t = "resize" /\ UNCHANGED <<daemon, open, session, dropped>>
      /\ (Done("resize", 0) /\ rx' = rx) \/ (Say("error") /\ effects' = effects)
  BY DEF HandleResize
<1>2. Grows /\ SessionOK' /\ DaemonOK'
  BY <1>1, HandlerGrows
<1>3. Done("resize", 0) => Resized'
  BY DEF Done, Resized
<1> QED BY <1>1, <1>2, <1>3, SaysError, AnswersNothing

\* The child is resumed, without an answer.
LEMMA ResumeChildKeeps ==
  ASSUME CommandInv, Serve, HandleResume(Head(tx))
  PROVE  CommandInv'
<1>1. /\ Head(tx).t = "resume" /\ UNCHANGED <<daemon, open, session, dropped>>
      /\ Done("resume", 0) /\ rx' = rx
  BY DEF HandleResume
<1>2. Grows /\ SessionOK' /\ DaemonOK'
  BY <1>1, HandlerGrows
<1> QED BY <1>1, <1>2, AnswersNothing

\* The detach is acknowledged, and the connection ends.
LEMMA DetachKeeps ==
  ASSUME CommandInv, Serve, HandleDetach(Head(tx))
  PROVE  CommandInv'
<1>1. /\ Head(tx).t = "detach" /\ UNCHANGED <<daemon, image, child, records, screen, dropped>>
      /\ Send(<<Msg("detached", 0), Msg("eof", 0)>>) /\ open' = FALSE /\ Done("detach", 0)
  BY DEF HandleDetach
<1>2. Grows /\ SessionOK' /\ DaemonOK'
  <2>1. daemon = "serving" /\ SessionOK
    BY ServeIs
  <2>2. records' \subseteq Records /\ IsFiniteSet(records')
    BY <1>1, <2>1 DEF SessionOK
  <2>3. effects \subseteq effects'
    BY <1>1 DEF Done
  <2> QED BY <1>1, <2>1, <2>2, <2>3, ServeGrows
<1>3. cmd = "detach" /\ cmd' = cmd
  BY <1>1, <1>2, ServeIs DEF Justified, Grows
<1>4. PICK m \in Heard : m = Msg("detached", 0) /\ m.t = "detached"
  <2>1. Msg("detached", 0) \in Heard
    BY PlainHeard DEF Replies
  <2> QED BY <2>1 DEF Msg
<1>5. PICK n \in Heard : n = Msg("eof", 0) /\ n.t = "eof"
  <2>1. Msg("eof", 0) \in Heard
    BY PlainHeard
  <2> QED BY <2>1 DEF Msg
<1>6. Backed(m)' /\ Backed(n)'
  BY <1>1, <1>4, <1>5 DEF Backed
<1>7. Send(<<m, n>>)
  BY <1>1, <1>4, <1>5
<1> QED BY <1>1, <1>2, <1>3, <1>4, <1>5, <1>6, <1>7, AnswersTwo

\* The upgrade is acknowledged.
LEMMA UpgradeKeeps ==
  ASSUME CommandInv, Serve, HandleUpgrade(Head(tx))
  PROVE  CommandInv'
<1>1. /\ Head(tx).t = "upgrade" /\ UNCHANGED <<open, session, dropped>>
      /\ \/ daemon' = "pending" /\ Done("upgrade", 0) /\ Say("upgraded")
         \/ Say("error") /\ UNCHANGED <<daemon, effects>>
  BY DEF HandleUpgrade
<1>2. Grows /\ SessionOK' /\ DaemonOK'
  BY <1>1, HandlerGrows
<1>3. "upgraded" \in Unsolicited /\ Backed(Msg("upgraded", 0))'
  BY DEF Backed, Msg, Unsolicited
<1> QED BY <1>1, <1>2, <1>3, SaysError, SaysPlain

\* The screen, with a status, a dump or a snapshot.
LEMMA ScreenSaid ==
  ASSUME CommandInv, Serve, UNCHANGED <<daemon, open, session, effects, dropped>>,
         NEW t \in {"status", "dump", "snapshot"}, Head(tx).t = t, Send(<<Msg(t, screen)>>)
  PROVE  CommandInv'
<1>1. Grows /\ SessionOK' /\ DaemonOK'
  BY HandlerGrows
<1>2. screen \in Screens
  BY ServeIs DEF SessionOK
<1>3. PICK m \in Heard : m = Msg(t, screen) /\ m.t = t /\ m.v \in Screens
  <2>1. t \in Replies \cup Unsolicited \cup {"error", "exit", "eof", "data"}
    BY DEF Replies
  <2>2. Msg(t, screen) \in Heard
    BY <1>2, <2>1, ScreenHeard
  <2> QED BY <1>2, <2>2 DEF Msg
<1>4. Backed(m)' /\ m.t \notin {"exit", "eof"}
  BY <1>3 DEF Backed
<1> QED BY <1>1, <1>3, <1>4, AnswersOne

\* Status, dump and snapshot answer with the screen, or an error.
LEMMA QueryKeeps ==
  ASSUME CommandInv, Serve,
         HandleStatus(Head(tx)) \/ HandleDump(Head(tx)) \/ HandleSnapshot(Head(tx))
  PROVE  CommandInv'
<1>1. UNCHANGED <<daemon, open, session, effects, dropped>>
  BY DEF HandleStatus, HandleDump, HandleSnapshot
<1>2. \/ Say("error")
      \/ \E t \in {"status", "dump", "snapshot"} : Head(tx).t = t /\ Send(<<Msg(t, screen)>>)
  BY DEF HandleStatus, HandleDump, HandleSnapshot
<1>3. Grows /\ SessionOK' /\ DaemonOK'
  BY <1>1, HandlerGrows
<1> QED BY <1>1, <1>2, <1>3, SaysError, ScreenSaid

\* The bytes are typed, or refused.
LEMMA RawKeeps ==
  ASSUME CommandInv, Serve, HandleRaw(Head(tx))
  PROVE  CommandInv'
<1>1. /\ Head(tx).t = "raw" /\ UNCHANGED <<daemon, open, session, dropped>>
      /\ (Done("raw", 0) /\ Say("typed")) \/ (Say("error") /\ effects' = effects)
  BY DEF HandleRaw
<1>2. Grows /\ SessionOK' /\ DaemonOK'
  BY <1>1, HandlerGrows
<1>3. "typed" \in Replies /\ (Done("raw", 0) => Backed(Msg("typed", 0))')
  BY DEF Backed, Msg, Done, Replies
<1> QED BY <1>1, <1>2, <1>3, SaysError, SaysPlain

\* The value is set.
LEMMA SetKeeps ==
  ASSUME CommandInv, Serve, HandleSet(Head(tx))
  PROVE  CommandInv'
<1>1. /\ Head(tx).t = "set" /\ UNCHANGED <<daemon, open, session, dropped>>
      /\ (Done("set", 0) /\ Say("set")) \/ (Say("error") /\ effects' = effects)
  BY DEF HandleSet
<1>2. Grows /\ SessionOK' /\ DaemonOK'
  BY <1>1, HandlerGrows
<1>3. "set" \in Replies /\ (Done("set", 0) => Backed(Msg("set", 0))')
  BY DEF Backed, Msg, Done, Replies
<1> QED BY <1>1, <1>2, <1>3, SaysError, SaysPlain

\* The tail is sent, and its end.
LEMMA TailKeeps ==
  ASSUME CommandInv, Serve, HandleTail(Head(tx))
  PROVE  CommandInv'
<1>1. /\ Head(tx).t = "tail" /\ UNCHANGED <<daemon, open, session, effects, dropped>>
      /\ Send(<<Msg("tail.data", 0), Msg(IF arg.good THEN "tail.end" ELSE "tail.cut", 0)>>)
  BY DEF HandleTail
<1>2. Grows /\ SessionOK' /\ DaemonOK'
  BY <1>1, HandlerGrows
<1>3. PICK t \in {"tail.end", "tail.cut"} : t = IF arg.good THEN "tail.end" ELSE "tail.cut"
  <2>1. (IF arg.good THEN "tail.end" ELSE "tail.cut") \in {"tail.end", "tail.cut"}
    OBVIOUS
  <2> QED BY <2>1
<1>4. PICK m \in Heard : m = Msg("tail.data", 0) /\ m.t = "tail.data"
  <2>1. Msg("tail.data", 0) \in Heard
    BY PlainHeard DEF Replies
  <2> QED BY <2>1 DEF Msg
<1>5. PICK n \in Heard : n = Msg(t, 0) /\ n.t = t
  <2>1. Msg(t, 0) \in Heard
    BY PlainHeard DEF Replies
  <2> QED BY <2>1 DEF Msg
<1>6. Backed(m)' /\ Backed(n)'
  BY <1>4, <1>5 DEF Backed
<1>7. Send(<<m, n>>)
  BY <1>1, <1>3, <1>4, <1>5
<1> QED BY <1>1, <1>2, <1>4, <1>5, <1>6, <1>7, AnswersTwo

\* The lock is granted, or it is another's.
LEMMA AcquireKeeps ==
  ASSUME CommandInv, Serve, HandleAcquire(Head(tx))
  PROVE  CommandInv'
<1>1. /\ Head(tx).t = "acquire"
      /\ UNCHANGED <<daemon, open, image, child, records, screen, effects, dropped>>
      /\ Say("denied") \/ Send(<<Msg("locked", 0), Msg("mode.held", 0)>>)
  BY DEF HandleAcquire
<1>2. Grows /\ SessionOK' /\ DaemonOK'
  <2>1. daemon = "serving" /\ SessionOK
    BY ServeIs
  <2>2. records' \subseteq Records /\ IsFiniteSet(records') /\ open' \in BOOLEAN
    BY <1>1, <2>1 DEF SessionOK
  <2> QED BY <1>1, <2>1, <2>2, ServeGrows
<1>3. "denied" \in Replies /\ Backed(Msg("denied", 0))'
  BY DEF Backed, Msg, Replies
<1>4. CASE Say("denied")
  BY <1>1, <1>2, <1>3, <1>4, SaysPlain
<1>5. CASE Send(<<Msg("locked", 0), Msg("mode.held", 0)>>)
  <2>1. PICK m \in Heard : m = Msg("locked", 0) /\ m.t = "locked"
    <3>1. Msg("locked", 0) \in Heard
      BY PlainHeard DEF Replies
    <3> QED BY <3>1 DEF Msg
  <2>2. PICK n \in Heard : n = Msg("mode.held", 0) /\ n.t = "mode.held"
    <3>1. Msg("mode.held", 0) \in Heard
      BY PlainHeard DEF Unsolicited
    <3> QED BY <3>1 DEF Msg
  <2>3. Backed(m)' /\ Backed(n)'
    BY <2>1, <2>2 DEF Backed
  <2>4. Send(<<m, n>>)
    BY <1>5, <2>1, <2>2
  <2> QED BY <1>1, <1>2, <2>1, <2>2, <2>3, <2>4, AnswersTwo
<1> QED BY <1>1, <1>4, <1>5

\* The lock is given back.
LEMMA ReleaseKeeps ==
  ASSUME CommandInv, Serve, HandleRelease(Head(tx))
  PROVE  CommandInv'
<1>1. /\ Head(tx).t = "release"
      /\ UNCHANGED <<daemon, open, image, child, records, screen, effects, dropped>>
      /\ (lock' = "free" /\ Say("mode.free")) \/ Say("error")
  BY DEF HandleRelease
<1>2. Grows /\ SessionOK' /\ DaemonOK'
  <2>1. daemon = "serving" /\ SessionOK
    BY ServeIs
  <2>2. records' \subseteq Records /\ IsFiniteSet(records') /\ open' \in BOOLEAN
    BY <1>1, <2>1 DEF SessionOK
  <2> QED BY <1>1, <2>1, <2>2, ServeGrows
<1>3. lock' = "free" => sawFree'
  BY ServeIs
<1>4. "mode.free" \in Unsolicited /\ (lock' = "free" => Backed(Msg("mode.free", 0))')
  BY <1>3 DEF Backed, Msg, Unsolicited
<1> QED BY <1>1, <1>2, <1>4, SaysError, SaysPlain

\* The records.
LEMMA RecordKeeps ==
  ASSUME CommandInv, Serve, HandleRecord(Head(tx))
  PROVE  CommandInv'
<1>1. PICK m \in Asked : m = Head(tx) /\ Justified(m)
  BY ServeIs
<1>2. /\ m.t \in {"rec.start", "rec.list", "rec.stop", "rec.stopall"}
      /\ UNCHANGED <<daemon, open, image, child, screen, dropped>>
  BY <1>1 DEF HandleRecord
<1>3. /\ daemon = "serving" /\ SessionOK /\ records \subseteq Records /\ IsFiniteSet(records)
      /\ open' \in BOOLEAN
  BY <1>2, ServeIs DEF SessionOK
<1>4. CASE Say("error") /\ UNCHANGED <<records, effects>>
  <2>1. Grows /\ SessionOK' /\ DaemonOK'
    BY <1>2, <1>3, <1>4, ServeGrows
  <2> QED BY <1>4, <2>1, SaysError
<1>5. CASE m.t = "rec.start" /\ ~(Say("error") /\ UNCHANGED <<records, effects>>)
  <2>1. PICK r \in Records : records' = records \cup {r} /\ Done("rec.start", r) /\ Say("rec.started")
    BY <1>1, <1>5 DEF HandleRecord
  <2>2. records' \subseteq Records /\ IsFiniteSet(records') /\ effects \subseteq effects'
    BY <1>3, <2>1, FS_AddElement DEF Done
  <2>3. Grows /\ SessionOK' /\ DaemonOK'
    BY <1>2, <1>3, <2>2, ServeGrows
  <2>4. Msg("rec.start", r) \in effects'
    BY <2>1 DEF Done
  <2>5. Started'
    BY <2>4 DEF Started
  <2>6. "rec.started" \in Replies /\ Backed(Msg("rec.started", 0))'
    BY <2>5 DEF Backed, Msg, Replies
  <2> QED BY <1>1, <1>5, <2>1, <2>3, <2>6, SaysPlain
<1>6. CASE m.t = "rec.list"
  <2>1. Send(<<Msg("rec.list", records)>>) /\ Done("rec.list", records) /\ records' = records
    BY <1>1, <1>6 DEF HandleRecord
  <2>2. effects \subseteq effects' /\ Msg("rec.list", records) \in effects'
    BY <2>1 DEF Done
  <2>3. Grows /\ SessionOK' /\ DaemonOK'
    BY <1>2, <1>3, <2>1, <2>2, ServeGrows
  <2>4. PICK n \in Heard : n = Msg("rec.list", records) /\ n.t = "rec.list" /\ n.v = records
    <3>1. "rec.list" \in Replies \cup Unsolicited \cup {"error", "exit", "eof", "data"}
      BY DEF Replies
    <3>2. Msg("rec.list", records) \in Heard
      BY <1>3, <3>1 DEF Heard, Msg
    <3> QED BY <3>2 DEF Msg
  <2>5. Backed(n)'
    BY <1>3, <2>2, <2>4 DEF Backed
  <2>6. Send(<<n>>)
    BY <2>1, <2>4
  <2> QED BY <1>1, <1>6, <2>3, <2>4, <2>5, <2>6, AnswersOne
<1>7. CASE m.t = "rec.stop" /\ ~(Say("error") /\ UNCHANGED <<records, effects>>)
  <2>1. /\ m.v \in records /\ records' = records \ {m.v} /\ Done("rec.stop", m.v) /\ Say("rec.stopped")
    BY <1>1, <1>7 DEF HandleRecord
  <2>2. records' \subseteq Records /\ IsFiniteSet(records') /\ effects \subseteq effects'
    BY <1>3, <2>1, FS_RemoveElement DEF Done
  <2>3. Grows /\ SessionOK' /\ DaemonOK'
    BY <1>2, <1>3, <2>2, ServeGrows
  <2>4. PICK r \in Records : r = m.v
    BY <1>3, <2>1
  <2>5. Msg("rec.list", {r}) \in effects' /\ Msg("rec.stop", r) \in effects'
    BY <1>1, <1>7, <2>1, <2>2, <2>4 DEF Justified, Done
  <2>6. Stopped' /\ cmd' = "record stop"
    BY <1>1, <1>7, <2>3, <2>5 DEF Stopped, Justified, Grows
  <2>7. "rec.stopped" \in Replies /\ Backed(Msg("rec.stopped", 0))'
    BY <2>6 DEF Backed, Msg, Replies
  <2> QED BY <1>1, <1>7, <2>1, <2>3, <2>7, SaysPlain
<1>8. CASE m.t = "rec.stopall"
  <2>1. records' = {} /\ Done("rec.stopall", records) /\ Say("rec.stopped")
    BY <1>1, <1>8 DEF HandleRecord
  <2>2. records' \subseteq Records /\ IsFiniteSet(records') /\ effects \subseteq effects'
    BY <2>1, FS_EmptySet DEF Done
  <2>3. Grows /\ SessionOK' /\ DaemonOK'
    BY <1>2, <1>3, <2>2, ServeGrows
  <2>4. cmd' = "record stop --all" /\ AllStopped'
    BY <1>1, <1>3, <1>8, <2>1, <2>3 DEF Justified, Grows, AllStopped, Done
  <2>5. "rec.stopped" \in Replies /\ Backed(Msg("rec.stopped", 0))'
    BY <2>4 DEF Backed, Msg, Replies
  <2> QED BY <1>1, <1>8, <2>1, <2>3, <2>5, SaysPlain
<1> QED BY <1>2, <1>4, <1>5, <1>6, <1>7, <1>8

\* Whatever the daemon does.
LEMMA DaemonKeeps ==
  ASSUME CommandInv, Daemon
  PROVE  CommandInv'
<1>1. CASE Serve
  <2>1. \/ HandleKill(Head(tx)) \/ HandleSignal(Head(tx)) \/ HandleDetach(Head(tx))
        \/ HandleUpgrade(Head(tx))
        \/ HandleStatus(Head(tx)) \/ HandleDump(Head(tx)) \/ HandleSnapshot(Head(tx))
        \/ HandleResize(Head(tx)) \/ HandleRaw(Head(tx)) \/ HandleResume(Head(tx))
        \/ HandleSet(Head(tx))
        \/ HandleTail(Head(tx)) \/ HandleAcquire(Head(tx)) \/ HandleRelease(Head(tx))
        \/ HandleRecord(Head(tx))
    BY <1>1 DEF Serve
  <2> QED BY <1>1, <2>1, KillKeeps, SignalKeeps, DetachKeeps, UpgradeKeeps, QueryKeeps, ResizeKeeps,
             RawKeeps, ResumeChildKeeps, SetKeeps, TailKeeps, AcquireKeeps, ReleaseKeeps, RecordKeeps
<1> QED BY <1>1, DropKeeps, FinishKeeps, EndKeeps, ExecKeeps, ResumeKeeps, ExecFailedKeeps,
           PrepFailedKeeps DEF Daemon

-----------------------------------------------------------------------------
(* Steps of the command.                                                   *)

\* The command alone moves.
Quiet == UNCHANGED <<cmd, arg, open, daemon, sock, session, effects, sawFree, dropped>>

\* Then nothing of the session changes.
LEMMA QuietGrows ==
  ASSUME CommandInv, Quiet
  PROVE  Grows /\ SessionOK' /\ DaemonOK'
<1>1. UNCHANGED <<cmd, arg, open, daemon, sock, image, child, records, screen, effects, sawFree,
                dropped>>
  BY DEF Quiet, session
<1>2. SessionOK /\ DaemonOK
  BY DEF CommandInv, TypesOK
<1>3. Grows
  BY <1>1 DEF Grows, Leaves, Gone
<1> QED BY <1>1, <1>2, <1>3 DEF SessionOK, DaemonOK

\* Nothing is asked, or one thing more.
MayAsk == tx' = tx \/ \E m \in Asked : tx' = Append(tx, m) /\ Justified(m)

\* What is asked then is justified.
LEMMA QuietAsks ==
  ASSUME CommandInv, Quiet, MayAsk
  PROVE  tx' \in Seq(Asked) /\ SentOK'
<1>1. Grows /\ TypesOK /\ SentOK
  BY QuietGrows DEF CommandInv
<1>2. CASE tx' = tx
  BY <1>1, <1>2, AsksLess
<1>3. CASE tx' # tx
  <2>1. PICK m \in Asked : tx' = Append(tx, m) /\ Justified(m)
    BY <1>3 DEF MayAsk
  <2>2. Justified(m)'
    BY <1>1, <2>1, StaysJustified
  <2> QED BY <1>1, <2>1, <2>2, AsksOne
<1> QED BY <1>2, <1>3

\* The command reads a message.
LEMMA CommandReads ==
  ASSUME CommandInv, Quiet, MayAsk, LocalOK', StepsOK', ExitTruthful', rx # <<>>, rx' = Tail(rx),
         cmd = "upgrade" /\ mem'.eof => Leaves,
         cmd = "upgrade" /\ Head(rx).t = "exit" => pc' \in {"poll", "recv", "verify", "done"},
         cmd = "POST resize" /\ pc' # "done" => pc # "done" /\ tx' = tx /\ Head(rx).t # "error"
  PROVE  CommandInv'
<1>1. Grows /\ SessionOK' /\ DaemonOK'
  BY QuietGrows
<1>2. TypesOK /\ HeardOK /\ OrderOK /\ UpgradeOK /\ ResizeOK /\ rx \in Seq(Heard)
  BY DEF CommandInv, TypesOK
<1>3. rx[1] = Head(rx)
  BY <1>2, TailAt
<1>4. cmd = "upgrade" /\ mem'.eof => Leaves'
  BY <1>1 DEF Grows
<1>5. rx' \in Seq(Heard) /\ HeardOK' /\ OrderOK' /\ UpgradeOK'
  BY <1>1, <1>2, <1>4, HearsNext
<1>6. ResizeOK'
  BY <1>1, <1>2, <1>3, ResizeRead
<1>7. tx' \in Seq(Asked) /\ SentOK'
  BY QuietAsks
<1> QED BY <1>1, <1>5, <1>6, <1>7 DEF CommandInv, TypesOK

\* The command does not read.
LEMMA CommandStays ==
  ASSUME CommandInv, Quiet, MayAsk, LocalOK', StepsOK', ExitTruthful', rx' = rx,
         cmd = "upgrade" /\ mem'.eof => Leaves,
         cmd = "upgrade" => pc' = pc \/ pc' = "done" \/ (pc = "poll" /\ pc' = "recv") \/ rx = <<>>,
         cmd = "POST resize" /\ pc' # "done" => pc # "done" /\ tx' = tx
  PROVE  CommandInv'
<1>1. Grows /\ SessionOK' /\ DaemonOK'
  BY QuietGrows
<1>2. TypesOK /\ HeardOK /\ OrderOK /\ UpgradeOK /\ ResizeOK
  BY DEF CommandInv
<1>3. cmd = "upgrade" /\ mem'.eof => Leaves'
  BY <1>1 DEF Grows
<1>4. rx' \in Seq(Heard) /\ HeardOK' /\ OrderOK' /\ UpgradeOK'
  BY <1>1, <1>2, <1>3, HearsNothing
<1>5. ResizeOK'
  BY <1>1, <1>2, ResizeStays
<1>6. tx' \in Seq(Asked) /\ SentOK'
  BY QuietAsks
<1> QED BY <1>1, <1>4, <1>5, <1>6 DEF CommandInv, TypesOK

\* A command that has not ended, or has failed, claims nothing.
LEMMA NoClaim ==
  ASSUME pc' # "done" \/ code' # "0"
  PROVE  ExitTruthful'
BY DEF ExitTruthful, Succeeded

\* The command cannot connect.
LEMMA ConnectFailsKeeps ==
  ASSUME CommandInv, ConnectFails
  PROVE  CommandInv'
<1>1. /\ UNCHANGED <<cmd, arg, mem, rx, tx>> /\ Quiet /\ pc' = "done" /\ code' = "1"
  BY DEF ConnectFails, Exit, Quiet
<1>2. LocalOK /\ StepsOK /\ UpgradeOK
  BY DEF CommandInv, TypesOK
<1>3. LocalOK' /\ StepsOK'
  BY <1>1, <1>2 DEF LocalOK, StepsOK
<1>4. cmd = "upgrade" /\ mem'.eof => Leaves
  BY <1>1, <1>2 DEF UpgradeOK
<1> QED BY <1>1, <1>3, <1>4, NoClaim, CommandStays DEF MayAsk

\* The connection is readable.
LEMMA ReadableKeeps ==
  ASSUME CommandInv, Readable
  PROVE  CommandInv'
<1>1. /\ UNCHANGED <<cmd, arg, mem, rx, tx>> /\ Quiet /\ pc = "poll" /\ pc' = "recv"
  BY DEF Readable, Goto, Quiet
<1>2. LocalOK /\ StepsOK /\ UpgradeOK
  BY DEF CommandInv, TypesOK
<1>3. LocalOK' /\ StepsOK'
  BY <1>1, <1>2 DEF LocalOK, StepsOK
<1>4. cmd = "upgrade" /\ mem'.eof => Leaves
  BY <1>1, <1>2 DEF UpgradeOK
<1> QED BY <1>1, <1>3, <1>4, NoClaim, CommandStays DEF MayAsk

\* The row of the command that runs.
LEMMA RowRuns ==
  ASSUME CommandInv
  PROVE  cmd \in Names /\ RowOK(cmd, row)
BY RowFine, CommandsAssumption DEF CommandInv, TypesOK, LocalOK

\* The deadline passes.
LEMMA LateKeeps ==
  ASSUME CommandInv, Late
  PROVE  CommandInv'
<1>1. UNCHANGED <<cmd, arg, rx>> /\ Quiet
  BY DEF Late, Quiet
<1>2. LocalOK /\ StepsOK /\ UpgradeOK
  BY DEF CommandInv, TypesOK
<1>3. CASE row.late = "escalate" /\ ~mem.escalated
  <2>1. /\ tx' = Append(tx, Msg("kill9", 0)) /\ mem' = [mem EXCEPT !.escalated = TRUE]
        /\ UNCHANGED <<pc, code>>
    BY <1>3 DEF Late
  <2>2. cmd = "kill --kill-on-timeout"
    BY <1>3, RowRuns DEF RowOK
  <2>3. mem' \in [escalated : BOOLEAN, eof : BOOLEAN, seq : Nat, tries : Nat] /\ mem'.eof = mem.eof
    BY <1>2, <2>1 DEF LocalOK
  <2>4. LocalOK' /\ StepsOK'
    BY <1>1, <1>2, <2>1, <2>3 DEF LocalOK, StepsOK
  <2>5. MayAsk
    <3>1. Msg("kill9", 0) \in Asked /\ Justified(Msg("kill9", 0))
      BY <2>2 DEF Msg, Asked, Asks, Justified
    <3> QED BY <2>1, <3>1 DEF MayAsk
  <2>6. ExitTruthful'
    <3>1. Grows /\ ExitTruthful
      BY <1>1, QuietGrows DEF CommandInv
    <3>2. pc' = "done" => FALSE
      <4>1. pc = Waiting
        BY DEF Late
      <4> QED BY <2>1, <4>1 DEF Waiting
    <3> QED BY <3>2, NoClaim
  <2> QED BY <1>1, <2>1, <2>2, <2>4, <2>5, <2>6, CommandStays
<1>4. CASE ~(row.late = "escalate" /\ ~mem.escalated)
  <2>1. pc' = "done" /\ (code' = "1" \/ code' = row.late) /\ UNCHANGED <<tx, mem>>
    BY <1>4 DEF Late, Exit
  <2>2. LocalOK' /\ StepsOK'
    BY <1>1, <1>2, <2>1 DEF LocalOK, StepsOK
  <2>3. cmd = "upgrade" /\ mem'.eof => Leaves
    BY <1>2, <2>1 DEF UpgradeOK
  <2>4. ExitTruthful'
    <3>1. code' = "0" => cmd \in {"detach", "kill --no-terminate"}
      BY <2>1, RowRuns DEF RowOK
    <3> QED BY <1>1, <3>1 DEF ExitTruthful, Succeeded
  <2> QED BY <1>1, <2>1, <2>2, <2>3, <2>4, CommandStays DEF MayAsk
<1> QED BY <1>3, <1>4

\* The command asks again, or gives up.
LEMMA NapKeeps ==
  ASSUME CommandInv, Nap
  PROVE  CommandInv'
<1>1. UNCHANGED <<cmd, arg, rx>> /\ Quiet /\ pc = "nap"
  BY DEF Nap, Quiet
<1>2. LocalOK /\ StepsOK /\ UpgradeOK
  BY DEF CommandInv, TypesOK
<1>3. cmd \in {"wait", "idle", "lock --mode=wait", "POST input"}
  BY <1>1, <1>2 DEF StepsOK
<1>4. CASE Exit("1") /\ UNCHANGED <<tx, mem>>
  <2>1. LocalOK' /\ StepsOK'
    BY <1>1, <1>2, <1>4 DEF LocalOK, StepsOK, Exit
  <2> QED BY <1>1, <1>3, <1>4, <2>1, NoClaim, CommandStays DEF MayAsk, Exit
<1>5. CASE ~(Exit("1") /\ UNCHANGED <<tx, mem>>)
  <2>1. /\ tx' = Append(tx, Msg(row.req, 0)) /\ pc' = Waiting
        /\ mem' = mem \/ mem' = [mem EXCEPT !.tries = @ + 1]
    BY <1>5 DEF Nap, Goto
  <2>2. mem' \in [escalated : BOOLEAN, eof : BOOLEAN, seq : Nat, tries : Nat] /\ mem'.eof = mem.eof
    BY <1>2, <2>1 DEF LocalOK
  <2>3. pc' \in {"poll", "recv"}
    BY <2>1 DEF Waiting
  <2>4. LocalOK' /\ StepsOK'
    BY <1>1, <1>2, <2>2, <2>3 DEF LocalOK, StepsOK
  <2>5. MayAsk
    <3>1. PICK q \in Asks \ {"kill9", "rec.stop", "raw"} :
            q = row.req /\ (q = "detach" => cmd = "detach")
              /\ (q = "rec.stopall" => cmd = "record stop --all")
      BY RowRuns DEF RowOK
    <3>2. Msg(q, 0) \in Asked /\ Justified(Msg(q, 0))
      BY <3>1 DEF Msg, Asked, Asks, Justified
    <3> QED BY <2>1, <3>1, <3>2 DEF MayAsk
  <2> QED BY <1>1, <1>3, <2>3, <2>4, <2>5, NoClaim, CommandStays
<1> QED BY <1>4, <1>5

\* The lock is given back behind the bytes.
LEMMA RawAckedKeeps ==
  ASSUME CommandInv, RawAcked
  PROVE  CommandInv'
<1>1. UNCHANGED <<cmd, arg, mem>> /\ Quiet /\ pc = "ack"
  BY DEF RawAcked, Quiet
<1>2. LocalOK /\ StepsOK /\ HeardOK /\ rx \in Seq(Heard)
  BY DEF CommandInv, TypesOK
<1>3. cmd = "POST input"
  BY <1>1, <1>2 DEF StepsOK
<1>4. /\ rx' = rx \/ (rx # <<>> /\ rx' = Tail(rx))
      /\ \/ tx' = Append(tx, Msg("release", 0)) /\ pc' = "done" /\ code' = "1"
         \/ tx' = Append(tx, Msg("release", 0)) /\ pc' = "done" /\ code' = "0"
            /\ rx # <<>> /\ Head(rx).t = "typed"
         \/ UNCHANGED <<pc, code, tx>>
  BY DEF RawAcked, GiveBack, Exit
<1>5. MayAsk
  <2>1. Msg("release", 0) \in Asked /\ Justified(Msg("release", 0))
    BY DEF Msg, Asked, Asks, Justified
  <2> QED BY <1>4, <2>1 DEF MayAsk
<1>6. LocalOK' /\ StepsOK'
  BY <1>1, <1>2, <1>4 DEF LocalOK, StepsOK
<1>7. ExitTruthful'
  <2>1. CASE pc' = "done" /\ code' = "0"
    <3>1. rx # <<>> /\ Head(rx).t = "typed"
      BY <1>1, <1>4, <2>1
    <3>2. 1 \in DOMAIN rx /\ Head(rx) = rx[1]
      BY <1>2, <3>1, TailAt
    <3>3. Msg("raw", 0) \in effects
      BY <1>2, <3>1, <3>2 DEF HeardOK, Backed
    <3>4. Msg("raw", 0) \in effects' /\ cmd' = "POST input"
      BY <1>1, <1>3, <3>3 DEF Quiet
    <3> QED BY <3>4 DEF ExitTruthful
  <2> QED BY <2>1, NoClaim
<1> QED BY <1>1, <1>3, <1>4, <1>5, <1>6, <1>7, CommandReads, CommandStays

\* The lock is held.
LEMMA HoldReadsKeeps ==
  ASSUME CommandInv, HoldReads
  PROVE  CommandInv'
<1>1. UNCHANGED <<cmd, arg, pc, code, mem, tx>> /\ Quiet /\ pc = "hold" /\ rx # <<>> /\ rx' = Tail(rx)
  BY DEF HoldReads, Quiet, local
<1>2. LocalOK /\ StepsOK
  BY DEF CommandInv, TypesOK
<1>3. cmd \in {"lock", "lock --mode=wait"}
  BY <1>1, <1>2 DEF StepsOK
<1>4. LocalOK' /\ StepsOK'
  BY <1>1, <1>2 DEF LocalOK, StepsOK
<1> QED BY <1>1, <1>3, <1>4, NoClaim, CommandReads DEF MayAsk

\* The lock is released.
LEMMA ReleaseSaid ==
  ASSUME CommandInv, Release
  PROVE  CommandInv'
<1>1. /\ UNCHANGED <<cmd, arg, mem, rx>> /\ Quiet /\ pc = "hold" /\ pc' = "done"
      /\ tx' = Append(tx, Msg("release", 0))
  BY DEF Release, Quiet, Exit
<1>2. LocalOK /\ StepsOK
  BY DEF CommandInv, TypesOK
<1>3. cmd \in {"lock", "lock --mode=wait"} /\ cmd' = cmd
  BY <1>1, <1>2 DEF StepsOK
<1>4. LocalOK' /\ StepsOK'
  BY <1>1, <1>2 DEF LocalOK, StepsOK
<1>5. MayAsk
  <2>1. Msg("release", 0) \in Asked /\ Justified(Msg("release", 0))
    BY DEF Msg, Asked, Asks, Justified
  <2> QED BY <1>1, <2>1 DEF MayAsk
<1>6. ExitTruthful'
  BY <1>3 DEF ExitTruthful
<1> QED BY <1>1, <1>3, <1>4, <1>5, <1>6, CommandStays

\* The end of the connection that upgrade sees while it awaits it is not the session's.
LEMMA EofIsExec ==
  ASSUME CommandInv, cmd = "upgrade", pc \in {"eof", "blocked"}, rx # <<>>, Head(rx).t = "eof"
  PROVE  Leaves
<1>1. rx \in Seq(Heard) /\ UpgradeOK
  BY DEF CommandInv, TypesOK
<1>2. 1 \in DOMAIN rx /\ rx[1].t = "eof"
  BY <1>1, TailAt
<1>3. Leaves \/ (1 > 1 /\ rx[1 - 1].t = "exit") \/ pc \in {"poll", "recv", "verify", "done"}
  BY <1>1, <1>2 DEF UpgradeOK
<1>4. ~(1 > 1)
  OBVIOUS
<1> QED BY <1>3, <1>4

\* The end of the connection is awaited.
LEMMA AwaitEofKeeps ==
  ASSUME CommandInv, AwaitEof \/ AwaitEofBlocked
  PROVE  CommandInv'
<1>1. /\ UNCHANGED <<cmd, arg, tx>> /\ Quiet /\ pc \in {"eof", "blocked"}
      /\ pc' \in {"verify", "blocked"}
      /\ \/ rx # <<>> /\ rx' = Tail(rx) /\ (Head(rx).t # "data" => pc' = "verify")
         \/ rx = <<>> /\ rx' = rx
      /\ mem' = mem \/ mem' = [mem EXCEPT !.eof = (rx # <<>> /\ Head(rx).t = "eof")]
  BY DEF AwaitEof, AwaitEofBlocked, Quiet, Goto
<1>2. LocalOK /\ StepsOK /\ UpgradeOK
  BY DEF CommandInv, TypesOK
<1>3. cmd = "upgrade"
  BY <1>1, <1>2 DEF StepsOK
<1>4. /\ mem' \in [escalated : BOOLEAN, eof : BOOLEAN, seq : Nat, tries : Nat]
      /\ mem'.eof => mem.eof \/ (rx # <<>> /\ Head(rx).t = "eof")
  <2>1. mem \in [escalated : BOOLEAN, eof : BOOLEAN, seq : Nat, tries : Nat]
    BY <1>2 DEF LocalOK
  <2>2. PICK b \in BOOLEAN : b = (rx # <<>> /\ Head(rx).t = "eof")
    OBVIOUS
  <2>3. CASE mem' = mem
    BY <2>1, <2>3
  <2>4. CASE mem' = [mem EXCEPT !.eof = b]
    BY <2>1, <2>2, <2>4
  <2> QED BY <1>1, <2>2, <2>3, <2>4
<1>5. LocalOK' /\ StepsOK'
  <2>1. LocalOK'
    BY <1>1, <1>2, <1>4 DEF LocalOK
  <2>2. StepsOK'
    BY <1>1, <1>3 DEF StepsOK, Waits
  <2> QED BY <2>1, <2>2
<1>6. mem'.eof => Leaves
  BY <1>1, <1>2, <1>3, <1>4, EofIsExec DEF UpgradeOK
<1>7. rx # <<>> /\ Head(rx).t = "exit" => pc' = "verify"
  BY <1>1
<1> QED BY <1>1, <1>3, <1>5, <1>6, <1>7, NoClaim, CommandReads, CommandStays DEF MayAsk

\* The new image answers.
LEMMA VerifyKeeps ==
  ASSUME CommandInv, Verify
  PROVE  CommandInv'
<1>1. /\ UNCHANGED <<cmd, arg, mem, rx, tx>> /\ Quiet /\ pc = "verify" /\ pc' = "done"
      /\ daemon \in {"serving", "ending"}
  BY DEF Verify, Quiet, Exit
<1>2. LocalOK /\ StepsOK /\ UpgradeOK
  BY DEF CommandInv, TypesOK
<1>3. cmd = "upgrade" /\ cmd' = cmd
  BY <1>1, <1>2 DEF StepsOK
<1>4. LocalOK' /\ StepsOK'
  BY <1>1, <1>2 DEF LocalOK, StepsOK
<1>5. mem'.eof => Leaves
  BY <1>1, <1>2, <1>3 DEF UpgradeOK
<1>6. ExitTruthful'
  <2>1. mem'.eof => image' > 0 \/ dropped'
    BY <1>1, <1>5 DEF Leaves, Quiet, session
  <2> QED BY <1>3, <2>1 DEF ExitTruthful
<1> QED BY <1>1, <1>3, <1>4, <1>5, <1>6, CommandStays DEF MayAsk

\* The daemon's lock is watched.
LEMMA WatchKeeps ==
  ASSUME CommandInv, Watch
  PROVE  CommandInv'
<1>1. /\ UNCHANGED <<cmd, arg, mem, rx, tx>> /\ Quiet /\ pc = "watch" /\ pc' = "done"
      /\ code' = "0" => ~arg.lockfile \/ (Gone /\ ~sock)
  BY DEF Watch, Quiet, Exit
<1>2. LocalOK /\ StepsOK /\ UpgradeOK /\ DaemonOK
  BY DEF CommandInv, TypesOK
<1>3. cmd \in Waits /\ cmd' = cmd /\ arg' = arg
  BY <1>1, <1>2 DEF StepsOK
<1>4. LocalOK' /\ StepsOK'
  BY <1>1, <1>2 DEF LocalOK, StepsOK
<1>5. cmd # "upgrade" /\ cmd # "POST resize"
  BY <1>3 DEF Waits
<1>6. ExitTruthful'
  <2>1. ASSUME code' = "0", arg'.lockfile
        PROVE  Gone' /\ ~sock' /\ (child' = "dead" \/ daemon' = "failed")
    <3>1. Gone /\ ~sock
      BY <1>1, <1>3, <2>1
    <3>2. child = "dead" \/ daemon = "failed"
      BY <1>2, <3>1 DEF DaemonOK
    <3> QED BY <1>1, <3>1, <3>2 DEF Quiet, session, Gone
  <2> QED BY <1>3, <2>1 DEF ExitTruthful, Waits, Succeeded
<1> QED BY <1>1, <1>4, <1>5, <1>6, CommandStays DEF MayAsk

\* What is read, and what the row says of it.
LEMMA ReceiveIs ==
  ASSUME CommandInv, Receive
  PROVE  \E m \in Heard : \E next :
           /\ UNCHANGED <<cmd, arg>> /\ Quiet /\ pc = "recv" /\ rx # <<>> /\ rx' = Tail(rx)
           /\ m = Head(rx) /\ Backed(m) /\ rx[1] = m
           /\ \/ m.t \in DOMAIN row.ends /\ next = row.ends[m.t] /\ ReadOK(cmd, m.t, next)
              \/ next = "recv" /\ m.t = "data"
              \/ next = Waiting /\ m.t \notin DOMAIN row.ends
           /\ next = "select" => Select(m.v) /\ mem' = mem
           /\ next = "match" => Probe(m.v.shown) /\ tx' = tx
           /\ next = "idle" => ProbeIdle(m.v.seq) /\ tx' = tx
           /\ next = "type" => Goto("ack") /\ tx' = Append(tx, Msg("raw", 0)) /\ mem' = mem
           /\ next \in {"0", "1", "3"} => Exit(next) /\ tx' = tx /\ mem' = mem
           /\ next \notin {"select", "match", "idle", "type", "0", "1", "3"} =>
                Goto(next) /\ tx' = tx /\ mem' = mem
<1>1. UNCHANGED <<cmd, arg>> /\ Quiet /\ pc = "recv" /\ rx # <<>> /\ rx' = Tail(rx)
  BY DEF Receive, Quiet
<1>2. HeardOK /\ rx \in Seq(Heard)
  BY DEF CommandInv, TypesOK
<1>3. PICK m \in Heard : m = Head(rx) /\ m = rx[1] /\ 1 \in DOMAIN rx
  BY <1>1, <1>2, TailAt
<1>4. Backed(m)
  BY <1>2, <1>3 DEF HeardOK
<1>5. PICK next : next = IF m.t = "data" THEN "recv"
                         ELSE IF m.t \in DOMAIN row.ends THEN row.ends[m.t] ELSE Waiting
  OBVIOUS
<1>6. (CASE next = "select" -> Select(m.v) /\ UNCHANGED mem
         [] next = "match" -> Probe(m.v.shown) /\ UNCHANGED tx
         [] next = "idle" -> ProbeIdle(m.v.seq) /\ UNCHANGED tx
         [] next = "type" -> Goto("ack") /\ tx' = Append(tx, Msg("raw", 0)) /\ UNCHANGED mem
         [] next \in {"0", "1", "3"} -> Exit(next) /\ UNCHANGED <<tx, mem>>
         [] OTHER -> Goto(next) /\ UNCHANGED <<tx, mem>>)
  BY <1>3, <1>5 DEF Receive
<1>7. \A t \in DOMAIN row.ends : ReadOK(cmd, t, row.ends[t])
  BY RowRuns DEF RowOK
<1>8. \/ m.t \in DOMAIN row.ends /\ next = row.ends[m.t] /\ ReadOK(cmd, m.t, next)
      \/ next = "recv" /\ m.t = "data"
      \/ next = Waiting /\ m.t \notin DOMAIN row.ends
  BY <1>5, <1>7
<1>9. /\ next = "select" => Select(m.v) /\ mem' = mem
      /\ next = "match" => Probe(m.v.shown) /\ tx' = tx
      /\ next = "idle" => ProbeIdle(m.v.seq) /\ tx' = tx
      /\ next = "type" => Goto("ack") /\ tx' = Append(tx, Msg("raw", 0)) /\ mem' = mem
      /\ next \in {"0", "1", "3"} => Exit(next) /\ tx' = tx /\ mem' = mem
      /\ next \notin {"select", "match", "idle", "type", "0", "1", "3"} =>
           Goto(next) /\ tx' = tx /\ mem' = mem
  <2>1. CASE next = "select"
    BY <1>6, <2>1
  <2>2. CASE next = "match"
    BY <1>6, <2>2
  <2>3. CASE next = "idle"
    BY <1>6, <2>3
  <2>4. CASE next = "type"
    BY <1>6, <2>4
  <2>5. CASE next \in {"0", "1", "3"}
    BY <1>6, <2>5
  <2>6. CASE next \notin {"select", "match", "idle", "type", "0", "1", "3"}
    BY <1>6, <2>6
  <2> QED BY <2>1, <2>2, <2>3, <2>4, <2>5, <2>6
<1> QED BY <1>1, <1>3, <1>4, <1>8, <1>9

\* A message that makes the exit code 0 is backed.
LEMMA ZeroTruthful ==
  ASSUME CommandInv, Quiet, pc = "recv", rx # <<>>, NEW m \in Heard, m = Head(rx), Backed(m), rx[1] = m,
         ReadOK(cmd, m.t, "0")
  PROVE  ExitTruthful'
<1>1. /\ cmd' = cmd /\ effects' = effects /\ sawFree' = sawFree /\ open' = open
  BY DEF Quiet
<1>2. /\ cmd \notin Waits \cup {"POST input", "upgrade"}
      /\ cmd = "set" => m.t = "set"
      /\ cmd = "record start" => m.t = "rec.started"
      /\ cmd \in {"record stop", "record stop --all"} => m.t = "rec.stopped"
      /\ cmd = "POST resize" => m.t = "status"
      /\ cmd = "kill" => m.t \in {"killed", "eof"}
      /\ cmd = "unlock" => m.t = "mode.free"
  BY DEF ReadOK
<1>3. cmd = "set" => Msg("set", 0) \in effects
  BY <1>2 DEF Backed
<1>4. cmd = "record start" => \E r \in Records : Msg("rec.start", r) \in effects
  BY <1>2 DEF Backed, Started
<1>5. cmd = "record stop" =>
        \E r \in Records : {Msg("rec.list", {r}), Msg("rec.stop", r)} \subseteq effects
  BY <1>2 DEF Backed, Stopped
<1>6. cmd = "kill" => Msg("kill", 0) \in effects \/ ~open
  BY <1>2 DEF Backed
<1>7. cmd = "unlock" => sawFree
  BY <1>2 DEF Backed
<1>8. cmd = "POST resize" => Msg("resize", 0) \in effects
  <2>1. SUFFICES ASSUME cmd = "POST resize", ~Resized PROVE FALSE
    BY DEF Resized
  <2>2. StatusLast(rx) /\ rx \in Seq(Heard)
    BY <2>1 DEF CommandInv, ResizeOK, TypesOK
  <2>3. PICK n \in Nat : n = Len(rx) /\ DOMAIN rx = 1..n
    BY <2>2
  <2>4. 1 \in DOMAIN rx /\ rx[1].t = "status"
    BY <1>2, <2>1, <2>2, TailAt
  <2>5. PICK j \in 1..n : j < 1
    BY <2>2, <2>3, <2>4 DEF StatusLast
  <2> QED BY <2>3, <2>5
<1>9. cmd = "record stop --all" => \E S \in SUBSET Records : Msg("rec.stopall", S) \in effects
  BY <1>2 DEF Backed, AllStopped
<1> QED BY <1>1, <1>2, <1>3, <1>4, <1>5, <1>6, <1>7, <1>8, <1>9 DEF ExitTruthful, Waits

\* recv_control.
LEMMA ReceiveKeeps ==
  ASSUME CommandInv, Receive
  PROVE  CommandInv'
<1>1. PICK m, next :
        /\ m \in Heard /\ UNCHANGED <<cmd, arg>> /\ Quiet /\ pc = "recv" /\ rx # <<>> /\ rx' = Tail(rx)
        /\ m = Head(rx) /\ Backed(m) /\ rx[1] = m
        /\ \/ m.t \in DOMAIN row.ends /\ next = row.ends[m.t] /\ ReadOK(cmd, m.t, next)
           \/ next = "recv" /\ m.t = "data"
           \/ next = Waiting /\ m.t \notin DOMAIN row.ends
        /\ next = "select" => Select(m.v) /\ mem' = mem
        /\ next = "match" => Probe(m.v.shown) /\ tx' = tx
        /\ next = "idle" => ProbeIdle(m.v.seq) /\ tx' = tx
        /\ next = "type" => Goto("ack") /\ tx' = Append(tx, Msg("raw", 0)) /\ mem' = mem
        /\ next \in {"0", "1", "3"} => Exit(next) /\ tx' = tx /\ mem' = mem
        /\ next \notin {"select", "match", "idle", "type", "0", "1", "3"} =>
             Goto(next) /\ tx' = tx /\ mem' = mem
  BY ReceiveIs
<1>2. /\ LocalOK /\ StepsOK /\ UpgradeOK /\ RowOK(cmd, row)
      /\ mem \in [escalated : BOOLEAN, eof : BOOLEAN, seq : Nat, tries : Nat]
  BY RowRuns DEF CommandInv, TypesOK, LocalOK
<1>3. Waiting \in {"poll", "recv"} /\ (cmd = "upgrade" => Waiting = "poll")
  BY <1>2 DEF Waiting, RowOK
<1>4. /\ cmd = "upgrade" /\ mem.eof => Leaves
      /\ mem.eof => cmd = "upgrade"
  BY <1>2 DEF UpgradeOK, StepsOK
<1>5. cmd = "upgrade" /\ Head(rx).t = "exit" => next = "poll"
  BY <1>1, <1>2, <1>3 DEF RowOK
<1>6. cmd = "POST resize" /\ Head(rx).t = "error" => next = "1"
  BY <1>1, <1>2 DEF RowOK
<1>7. CASE next = "select"
  <2>1. m.t = "rec.list" /\ cmd = "record stop"
    BY <1>1, <1>3, <1>7 DEF ReadOK
  <2>2. IsFiniteSet(m.v) /\ m.v \subseteq Records /\ Msg("rec.list", m.v) \in effects
    BY <1>1, <2>1 DEF Backed
  <2>3. mem' = mem /\ pc' \in {"done", "recv"} /\ (pc' = "done" => code' = "1")
    BY <1>1, <1>7 DEF Select, Exit, Goto
  <2>4. MayAsk
    <3>1. CASE Cardinality(m.v) # 1
      BY <1>1, <1>7, <3>1 DEF Select, MayAsk
    <3>2. CASE Cardinality(m.v) = 1
      <4>1. PICK r : m.v = {r}
        BY <2>2, <3>2, FS_Singleton
      <4>2. tx' = Append(tx, Msg("rec.stop", CHOOSE x \in m.v : TRUE))
        BY <1>1, <1>7, <3>2 DEF Select
      <4>3. (CHOOSE x \in m.v : TRUE) = r
        BY <4>1
      <4>4. r \in Records /\ Msg("rec.list", {r}) \in effects
        BY <2>2, <4>1
      <4>5. Msg("rec.stop", r) \in Asked /\ Justified(Msg("rec.stop", r))
        BY <2>1, <4>4 DEF Msg, Asked, Asks, Justified
      <4> QED BY <4>2, <4>3, <4>5 DEF MayAsk
    <3> QED BY <3>1, <3>2
  <2>5. LocalOK' /\ StepsOK'
    BY <1>1, <1>2, <2>3 DEF LocalOK, StepsOK
  <2>6. ExitTruthful'
    BY <2>3, NoClaim
  <2> QED BY <1>1, <2>1, <2>4, <2>5, <2>6, CommandReads
<1>8. CASE next \in {"match", "idle"}
  <2>1. m.t = "snapshot" /\ cmd \in {"wait", "idle"}
    BY <1>1, <1>3, <1>8 DEF ReadOK
  <2>2. m.v \in Screens
    BY <1>1, <2>1 DEF Backed
  <2>3. /\ tx' = tx /\ pc' \in {"done", "nap"}
        /\ \/ mem' = [mem EXCEPT !.tries = @ + 1]
           \/ mem' = [mem EXCEPT !.tries = @ + 1, !.seq = m.v.seq]
    BY <1>1, <1>8 DEF Probe, ProbeIdle, Exit, Goto
  <2>4. mem' \in [escalated : BOOLEAN, eof : BOOLEAN, seq : Nat, tries : Nat] /\ mem'.eof = mem.eof
    <3>1. PICK q \in Nat : q = m.v.seq
      BY <2>2 DEF Screens
    <3>2. PICK l \in Nat : l = mem.tries + 1
      BY <1>2
    <3>3. mem' = [mem EXCEPT !.tries = l] \/ mem' = [mem EXCEPT !.tries = l, !.seq = q]
      BY <2>3, <3>1, <3>2
    <3> QED BY <1>2, <3>3
  <2>5. LocalOK' /\ StepsOK'
    <3>1. LocalOK'
      BY <1>1, <1>2, <2>3, <2>4 DEF LocalOK
    <3>2. StepsOK'
      BY <1>1, <1>4, <2>1, <2>3, <2>4 DEF StepsOK
    <3> QED BY <3>1, <3>2
  <2>6. ExitTruthful'
    <3>1. cmd' \in {"wait", "idle"}
      BY <1>1, <2>1
    <3> QED BY <3>1 DEF ExitTruthful
  <2> QED BY <1>1, <2>1, <2>3, <2>5, <2>6, CommandReads DEF MayAsk
<1>9. CASE next = "type"
  <2>1. cmd = "POST input"
    BY <1>1, <1>3, <1>9 DEF ReadOK
  <2>2. tx' = Append(tx, Msg("raw", 0)) /\ mem' = mem /\ pc' = "ack"
    BY <1>1, <1>9 DEF Goto
  <2>3. MayAsk
    <3>1. Msg("raw", 0) \in Asked /\ Justified(Msg("raw", 0))
      BY DEF Msg, Asked, Asks, Justified
    <3> QED BY <2>2, <3>1 DEF MayAsk
  <2>4. LocalOK' /\ StepsOK'
    BY <1>1, <1>2, <2>1, <2>2 DEF LocalOK, StepsOK
  <2>5. ExitTruthful'
    BY <2>2, NoClaim
  <2> QED BY <1>1, <2>1, <2>2, <2>3, <2>4, <2>5, CommandReads
<1>10. CASE next \in {"0", "1", "3"}
  <2>1. pc' = "done" /\ code' = next /\ tx' = tx /\ mem' = mem
    BY <1>1, <1>10 DEF Exit
  <2>2. LocalOK' /\ StepsOK'
    BY <1>1, <1>2, <2>1 DEF LocalOK, StepsOK
  <2>3. next = "0" => ReadOK(cmd, m.t, "0")
    BY <1>1, <1>3
  <2>4. ExitTruthful'
    BY <1>1, <2>1, <2>3, ZeroTruthful, NoClaim
  <2> QED BY <1>1, <1>4, <2>1, <2>2, <2>4, CommandReads DEF MayAsk
<1>11. CASE next \notin {"select", "match", "idle", "type", "0", "1", "3"}
  <2>1. pc' = next /\ tx' = tx /\ mem' = mem
    BY <1>1, <1>11 DEF Goto
  <2>2. /\ next \in {"recv", "poll", "nap", "hold", "eof", "watch"}
        /\ next = "nap" => cmd \in {"lock --mode=wait", "POST input"}
        /\ next = "hold" => cmd \in {"lock", "lock --mode=wait"}
        /\ next = "watch" => cmd \in Waits
        /\ next = "eof" => cmd = "upgrade"
    BY <1>1, <1>3, <1>11 DEF ReadOK
  <2>3. LocalOK' /\ StepsOK'
    <3>1. LocalOK'
      BY <1>1, <1>2, <2>1, <2>2 DEF LocalOK
    <3>2. StepsOK'
      BY <1>1, <1>4, <2>1, <2>2 DEF StepsOK
    <3> QED BY <3>1, <3>2
  <2>4. ExitTruthful'
    BY <2>1, <2>2, NoClaim
  <2>5. /\ cmd = "upgrade" /\ Head(rx).t = "exit" => pc' \in {"poll", "recv", "verify", "done"}
        /\ cmd = "POST resize" => Head(rx).t # "error"
    BY <1>5, <1>6, <1>11, <2>1
  <2> QED BY <1>1, <1>4, <2>1, <2>3, <2>4, <2>5, CommandReads DEF MayAsk
<1> QED BY <1>7, <1>8, <1>9, <1>10, <1>11

\* The command connects.
LEMMA ConnectKeeps ==
  ASSUME CommandInv, Connect
  PROVE  CommandInv'
<1>1. /\ pc = "connect"
      /\ UNCHANGED <<cmd, arg, mem, daemon, sock, image, child, records, screen, effects, dropped>>
      /\ open' = (daemon # "ending")
      /\ \/ rx' = <<Msg("exit", 0), Msg("eof", 0)>> /\ daemon = "ending"
         \/ rx' = <<>>
      /\ sawFree' = (lock' = "free")
  BY DEF Connect
<1>2. /\ LocalOK /\ StepsOK /\ DaemonOK /\ SessionOK /\ SentOK /\ UpgradeOK /\ tx \in Seq(Asked)
      /\ RowOK(cmd, row)
  BY RowRuns DEF CommandInv, TypesOK
<1>3. \/ pc' = "done" /\ code' \in {"1", "4"} /\ tx' = tx
      \/ /\ \/ pc' = "done" /\ row.wait = "sent"
            \/ pc' = Waiting
         /\ tx' = <<>> \/ tx' = Requests
  BY <1>2 DEF Connect, Exit, Goto, RowOK
<1>4. pc' \in {"done", "poll", "recv"}
  BY <1>3 DEF Waiting
<1>5. LocalOK' /\ StepsOK'
  BY <1>1, <1>2, <1>4 DEF LocalOK, StepsOK
<1>6. SessionOK' /\ DaemonOK'
  <2>1. open' \in BOOLEAN /\ sawFree' \in BOOLEAN
    BY <1>1
  <2> QED BY <1>1, <1>2, <2>1 DEF SessionOK, DaemonOK
<1>7. PICK a \in Heard, b \in Heard : a = Msg("exit", 0) /\ b = Msg("eof", 0)
                                         /\ a.t = "exit" /\ b.t = "eof"
  <2>1. Msg("exit", 0) \in Heard /\ Msg("eof", 0) \in Heard
    BY PlainHeard
  <2> QED BY <2>1 DEF Msg
<1>8. /\ rx' \in Seq(Heard)
      /\ \/ DOMAIN rx' = {}
         \/ DOMAIN rx' = {1, 2} /\ Len(rx') = 2 /\ rx'[1] = a /\ rx'[2] = b /\ daemon = "ending"
  <2>1. CASE rx' = <<>>
    BY <2>1
  <2>2. CASE rx' = <<a, b>> /\ daemon = "ending"
    BY <2>2
  <2> QED BY <1>1, <1>7, <2>1, <2>2
<1>9. HeardOK'
  <2>1. ASSUME NEW i \in DOMAIN rx'
        PROVE  \E m : m = rx'[i] /\ Backed(m)'
    <3>1. (rx'[i] = a \/ rx'[i] = b) /\ daemon = "ending"
      BY <1>8, <2>1
    <3>2. Backed(a)' /\ Backed(b)'
      BY <1>1, <1>7, <3>1 DEF Backed
    <3> QED BY <3>1, <3>2
  <2> QED BY <2>1, AllBacked
<1>10. OrderOK'
  <2>1. CASE DOMAIN rx' = {}
    BY <2>1 DEF OrderOK
  <2>2. CASE DOMAIN rx' = {1, 2} /\ Len(rx') = 2 /\ rx'[1] = a /\ rx'[2] = b
    <3>1. SUFFICES ASSUME NEW i \in {1, 2}
                   PROVE  /\ rx'[i].t = "eof" => i = 2
                          /\ rx'[i].t = "exit" => i + 1 = 2 /\ rx'[i + 1].t = "eof"
      BY <2>2 DEF OrderOK
    <3>2. CASE i = 1
      <4>1. i + 1 = 2
        BY <3>2
      <4> QED BY <1>7, <2>2, <3>2, <4>1
    <3>3. CASE i = 2
      BY <1>7, <2>2, <3>3
    <3> QED BY <3>2, <3>3
  <2> QED BY <1>8, <2>1, <2>2
<1>11. UpgradeOK'
  <2>1. cmd' = cmd /\ (Leaves => Leaves') /\ mem' = mem
    BY <1>1 DEF Leaves
  <2>2. \A i \in DOMAIN rx' : rx'[i].t = "eof" => i > 1 /\ rx'[i - 1].t = "exit"
    <3>1. SUFFICES ASSUME NEW i \in {1, 2}, rx'[1] = a, rx'[2] = b, rx'[i].t = "eof"
                   PROVE  i > 1 /\ rx'[i - 1].t = "exit"
      BY <1>8
    <3>2. i = 2
      BY <1>7, <3>1
    <3>3. i - 1 = 1 /\ i > 1
      BY <3>2
    <3> QED BY <1>7, <3>1, <3>3
  <2> QED BY <1>2, <2>1, <2>2 DEF UpgradeOK
<1>12. row.req \in Asks \ {"kill9", "rec.stop", "raw"}
       /\ (row.req = "detach" => cmd = "detach")
       /\ (row.req = "rec.stopall" => cmd = "record stop --all")
  BY <1>2 DEF RowOK
<1>13. PICK q \in Asked, r \in Asked, s \in Asked :
         /\ q = Msg(row.req, 0) /\ r = Msg("resize", 0) /\ s = Msg("status", 0)
         /\ q.t = row.req /\ r.t = "resize" /\ s.t = "status"
  <2>1. Msg(row.req, 0) \in Asked /\ Msg("resize", 0) \in Asked /\ Msg("status", 0) \in Asked
    BY <1>12 DEF Msg, Asked, Asks
  <2> QED BY <2>1 DEF Msg
<1>14. /\ Requests \in Seq(Asked)
       /\ \/ Requests = <<r, s>> /\ row.req = "resize"
          \/ Requests = <<q>> /\ row.req # "resize"
  <2>1. <<r, s>> \in Seq(Asked) /\ <<q>> \in Seq(Asked)
    OBVIOUS
  <2> QED BY <1>13, <2>1 DEF Requests
<1>15. tx' \in Seq(Asked) /\ SentOK'
  <2>1. tx' \in Seq(Asked)
    <3>1. <<>> \in Seq(Asked)
      OBVIOUS
    <3>2. tx' = tx \/ tx' = <<>> \/ tx' = Requests
      BY <1>3
    <3> QED BY <1>2, <1>14, <3>1, <3>2
  <2>2. ASSUME NEW i \in DOMAIN tx'
        PROVE  \E m : m = tx'[i] /\ Justified(m)'
    <3>1. CASE tx' = tx
      <4>1. PICK m : m = tx[i]
        OBVIOUS
      <4>2. Justified(m)
        BY <1>2, <2>2, <3>1, <4>1 DEF SentOK
      <4> QED BY <1>1, <3>1, <4>1, <4>2 DEF Justified
    <3>2. CASE tx' = <<>>
      BY <2>2, <3>2
    <3>3. CASE tx' = Requests
      <4>1. tx'[i] \in {q, r, s}
        BY <1>14, <2>2, <3>3
      <4>2. Justified(q)' /\ Justified(r)' /\ Justified(s)'
        BY <1>1, <1>12, <1>13 DEF Justified
      <4> QED BY <4>1, <4>2
    <3> QED BY <1>3, <3>1, <3>2, <3>3
  <2> QED BY <2>1, <2>2, AllJustified
<1>16. ResizeOK'
  <2>1. SUFFICES ASSUME cmd = "POST resize", pc' # "done"
                 PROVE  StatusLast(rx') /\ QueryLast(tx')
    BY <1>1 DEF ResizeOK
  <2>2. StatusLast(rx')
    BY <1>7, <1>8 DEF StatusLast
  <2>3. QueryLast(tx')
    <3>1. CASE tx' = <<>>
      BY <3>1 DEF QueryLast
    <3>2. CASE tx' = <<r, s>>
      <4>1. DOMAIN tx' = {1, 2} /\ tx'[1].t = "resize" /\ tx'[2].t = "status" /\ 1 < 2
        BY <1>13, <3>2
      <4> QED BY <4>1 DEF QueryLast
    <3>3. row.req = "resize"
      BY <1>2, <2>1 DEF RowOK
    <3> QED BY <1>3, <1>14, <2>1, <3>1, <3>2, <3>3
  <2> QED BY <2>2, <2>3
<1>17. ExitTruthful'
  <2>1. pc' = "done" /\ code' = "0" => cmd = "POST resume"
    BY <1>2, <1>3 DEF RowOK, Waiting
  <2> QED BY <1>1, <2>1 DEF ExitTruthful, Succeeded
<1> QED BY <1>5, <1>6, <1>8, <1>9, <1>10, <1>11, <1>15, <1>16, <1>17 DEF CommandInv, TypesOK

\* A step of nobody.
LEMMA StutterKeeps ==
  ASSUME CommandInv, UNCHANGED vars
  PROVE  CommandInv'
<1>1. UNCHANGED local /\ Quiet /\ rx' = rx /\ tx' = tx
  BY DEF vars, Quiet, local
<1>2. Grows /\ SessionOK' /\ DaemonOK'
  BY <1>1, QuietGrows
<1>3. TypesOK
  BY DEF CommandInv
<1> QED BY <1>1, <1>2, <1>3, AddsNothing, WorldKeeps

-----------------------------------------------------------------------------
(* The theorem.                                                            *)

\* Before the command connects.
LEMMA InitHolds ==
  ASSUME Init
  PROVE  CommandInv
<1>1. /\ rx = <<>> /\ tx = <<>> /\ DOMAIN rx = {} /\ DOMAIN tx = {}
  <2>1. rx = <<>> /\ tx = <<>>
    BY DEF Init
  <2>2. DOMAIN <<>> = {}
    OBVIOUS
  <2> QED BY <2>1, <2>2
<1>2. mem = [escalated |-> FALSE, eof |-> FALSE, seq |-> 0, tries |-> 0]
  BY DEF Init
<1>3. LocalOK
  <2>1. /\ cmd \in Commands /\ arg \in [good : BOOLEAN, caps : BOOLEAN, lockfile : BOOLEAN]
        /\ pc = "connect"
    BY DEF Init
  <2>2. mem \in [escalated : BOOLEAN, eof : BOOLEAN, seq : Nat, tries : Nat]
    BY <1>2
  <2> QED BY <2>1, <2>2 DEF LocalOK
<1>4. SessionOK
  <2>1. screen \in Screens
    BY DEF Init, Screens
  <2>2. /\ open = FALSE /\ sock = TRUE /\ dropped = FALSE /\ sawFree = FALSE /\ image = 0
        /\ daemon = "serving" /\ child = "run" /\ records = {}
    BY DEF Init
  <2> QED BY <2>1, <2>2, FS_EmptySet DEF SessionOK
<1>5. StepsOK /\ DaemonOK
  <2>1. pc = "connect" /\ daemon = "serving" /\ sock = TRUE
    BY DEF Init
  <2>2. mem.eof = FALSE
    BY <1>2
  <2>3. StepsOK
    BY <2>1, <2>2 DEF StepsOK
  <2>4. DaemonOK
    BY <2>1 DEF DaemonOK
  <2> QED BY <2>3, <2>4
<1>6. HeardOK /\ SentOK /\ OrderOK
  BY <1>1 DEF HeardOK, SentOK, OrderOK
<1>7. ResizeOK
  BY <1>1 DEF ResizeOK, StatusLast, QueryLast
<1>8. UpgradeOK
  BY <1>1, <1>2 DEF UpgradeOK
<1>9. ExitTruthful
  BY DEF Init, ExitTruthful, Succeeded
<1>10. rx \in Seq(Heard) /\ tx \in Seq(Asked)
  BY <1>1
<1> QED BY <1>3, <1>4, <1>5, <1>6, <1>7, <1>8, <1>9, <1>10 DEF CommandInv, TypesOK

\* Exit code 0 of a one-shot command, or the 2xx of a request of the gateway, tells the truth:
\* whatever the daemon, the child, other clients, an upgrade or a crash do meanwhile.
THEOREM ExitsTrue == Spec => []ExitTruthful
<1>1. CommandInv /\ [Next]_vars => CommandInv'
  <2>1. CommandInv /\ Command => CommandInv'
    BY ConnectKeeps, ConnectFailsKeeps, ReadableKeeps, ReceiveKeeps, LateKeeps, NapKeeps,
       RawAckedKeeps, HoldReadsKeeps, ReleaseSaid, AwaitEofKeeps, VerifyKeeps, WatchKeeps DEF Command
  <2> QED BY <2>1, DaemonKeeps, EnvironmentKeeps, StutterKeeps DEF Next
<1>2. CommandInv => ExitTruthful
  BY DEF CommandInv
<1> QED BY <1>1, <1>2, InitHolds, PTL DEF Spec

=============================================================================
