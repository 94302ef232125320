--------------------------- MODULE ClientCommands ---------------------------
(***************************************************************************)
(* The one-shot commands of the CLI (main.rs, wait_core.rs) and the HTTP   *)
(* requests of the web gateway that call a daemon (hyoui-web/src/lib.rs):  *)
(* each connects to a session's daemon, sends a request and reads frames   *)
(* until one of them, the end of the connection or a deadline decides its  *)
(* exit code (0 for a 2xx response, 1 or 4 for an error).                  *)
(* The daemon's handlers are modelled by what they do and answer; the      *)
(* child, other clients, an upgrade, a crash and a daemon that no longer   *)
(* runs are the environment.                                               *)
(*                                                                         *)
(* A command is a row: the mode and capability it asks for, its request,   *)
(* how it waits ("none": for ever, "poll": a poll with a deadline before   *)
(* each control message, "read": a deadline on every read), the exit code  *)
(* or the next step for each message that ends the wait, and the code when *)
(* the deadline passes.  Messages without an entry are skipped.            *)
(***************************************************************************)
EXTENDS Naturals, Sequences, FiniteSets

CONSTANTS
  Commands,    \* names of the commands that may run
  Records,     \* record ids
  MaxEvents    \* bound: events of the environment in one behaviour

VARIABLES
  cmd,         \* name of the command
  arg,         \* its arguments and the daemon: [good, caps, lockfile]
  pc,          \* "connect", "poll", "recv", "nap", "hold", "eof", "verify", "watch", "done"
  code,        \* exit code
  mem,         \* locals: [escalated, eof, seq, tries]
  rx, tx,      \* messages on the way to the command and to the daemon
  open,        \* the daemon's end of the connection
  daemon,      \* "serving", "pending" (an upgrade), "execing", "hung", "ending",
               \* "gone", "failed" (an upgrade could not be prepared)
  sock,        \* the socket file is there
  image,       \* execs done
  child,       \* "run", "dead"
  lock,        \* lock holder: "free", "me", "other"
  others,      \* another client is attached
  records,     \* running records
  screen,      \* [seq, shown]: sequence number, the pattern is on the screen
  effects,     \* what the daemon did for this command
  sawFree,     \* the lock was free at some time since the connection
  dropped,     \* the daemon dropped this client for another one's request
  events

local == <<cmd, arg, pc, code, mem>>
session == <<image, child, lock, others, records, screen>>
vars == <<local, rx, tx, open, daemon, sock, session, effects, sawFree, dropped, events>>

Msg(t, v) == [t |-> t, v |-> v]

-----------------------------------------------------------------------------
(* The commands.                                                           *)

\* is_unsolicited_notification
Unsolicited == {"mode.free", "mode.held", "leader", "stopped", "upgraded"}

Replies == {"killed", "detached", "status", "set", "dump", "snapshot", "tail.data", "tail.end",
            "tail.cut", "locked", "denied", "typed", "rec.started", "rec.stopped", "rec.list"}

\* The messages that end a wait, and what follows: `then' after the good ones.
Ends(good, then, bad) == [m \in good \cup bad |-> IF m \in good THEN then ELSE "1"]

\* A match over control messages whose last arm fails on what it does not know.
Strict(reply, then) ==
  [m \in (Replies \cup {"error", "exit", "eof"}) |-> IF m = reply THEN then ELSE "1"]

KillCommand ==
  [mode |-> "rw", cap |-> FALSE, nocap |-> "1", others |-> TRUE, req |-> "kill", wait |-> "none",
   ends |-> Ends({"killed", "eof"}, "0", {"error"}), late |-> "none"]

KillWait ==
  [KillCommand EXCEPT !.wait = "read", !.late = "3",
                      !.ends = Ends({"exit", "eof"}, "watch", {"error"})]

KillOnTimeout == [KillWait EXCEPT !.late = "escalate"]

SignalNoTerminate ==
  [KillCommand EXCEPT !.others = FALSE, !.req = "signal", !.wait = "read", !.late = "0",
     !.ends = [m \in Replies \cup Unsolicited \cup {"error", "exit", "eof"} |->
                 IF m = "error" THEN "1" ELSE "0"]]

DetachCommand ==
  [mode |-> "rwnl", cap |-> FALSE, nocap |-> "1", others |-> FALSE, req |-> "detach", wait |-> "poll",
   ends |-> Ends({"detached", "eof"}, "0", {"error"}), late |-> "0"]

UpgradeCommand ==
  [mode |-> "rwnl", cap |-> TRUE, nocap |-> "1", others |-> FALSE, req |-> "upgrade", wait |-> "poll",
   ends |-> Ends({"upgraded"}, "eof", {"error", "eof"}), late |-> "1"]

StatusCommand ==
  [mode |-> "ro", cap |-> FALSE, nocap |-> "1", others |-> FALSE, req |-> "status", wait |-> "none",
   ends |-> Strict("status", "0"), late |-> "none"]

SetCommand ==
  [StatusCommand EXCEPT !.mode = "rw", !.cap = TRUE, !.nocap = "4", !.req = "set",
                        !.ends = Strict("set", "0")]

ScreenDumpCommand == [StatusCommand EXCEPT !.req = "dump", !.ends = Strict("dump", "0")]

SnapshotCommand == [StatusCommand EXCEPT !.req = "snapshot", !.ends = Strict("snapshot", "0")]

TailCommand ==
  [StatusCommand EXCEPT !.req = "tail",
     !.ends = Ends({"tail.end", "eof"}, "0", {"tail.cut"})]

\* fetch_snapshot in the loops of wait_for_pattern and wait_for_idle
WaitCommand ==
  [StatusCommand EXCEPT !.req = "snapshot", !.wait = "poll", !.late = "1",
     !.ends = [m \in Replies \cup {"error", "exit", "eof"} |->
                 CASE m = "snapshot" -> "match" [] m \in {"exit", "eof"} -> "1" [] OTHER -> "3"]]

IdleWait == [WaitCommand EXCEPT !.ends["snapshot"] = "idle"]

LockAcquireFail ==
  [StatusCommand EXCEPT !.mode = "rw", !.req = "acquire", !.wait = "poll", !.late = "1",
     !.ends = Ends({"locked"}, "hold", {"denied", "error", "eof"})]

LockAcquireWait == [LockAcquireFail EXCEPT !.ends["denied"] = "nap"]

LockReleaseCommand ==
  [StatusCommand EXCEPT !.mode = "rw", !.req = "release",
     !.ends = Ends({"mode.free"}, "0", {"error", "eof"})]

RecordStartCommand == [StatusCommand EXCEPT !.req = "rec.start", !.ends = Strict("rec.started", "0")]

RecordListCommand == [StatusCommand EXCEPT !.req = "rec.list", !.ends = Strict("rec.list", "0")]

RecordStopAll == [StatusCommand EXCEPT !.req = "rec.stopall", !.ends = Strict("rec.stopped", "0")]

\* record stop without an id: the list first, then the stop of its only entry.
RecordStopAuto ==
  [StatusCommand EXCEPT !.req = "rec.list",
     !.ends = [Strict("rec.list", "select") EXCEPT !["rec.stopped"] = "0"]]

\* The gateway's requests.  dump_screen_blocking:
GetScreen == [ScreenDumpCommand EXCEPT !.cap = TRUE, !.nocap = "4"]

\* send_input_blocking: the lock for the whole request, then the bytes.
PostInput ==
  [LockAcquireWait EXCEPT !.cap = TRUE, !.nocap = "4", !.ends["locked"] = "type"]

\* resume_child_blocking sends and does not wait.
PostResume ==
  [StatusCommand EXCEPT !.mode = "rw", !.cap = TRUE, !.nocap = "4", !.req = "resume", !.wait = "sent"]

\* resize_blocking: a status query behind the resize tells that it was handled.
PostResize ==
  [StatusCommand EXCEPT !.mode = "rw", !.req = "resize", !.wait = "read", !.late = "1",
     !.ends = Ends({"status"}, "0", {"error", "eof"})]

Names ==
  {"kill", "kill --wait", "kill --kill-on-timeout", "kill --no-terminate", "detach", "upgrade",
   "status", "set", "screen dump", "snapshot", "tail", "wait", "idle", "lock", "lock --mode=wait",
   "unlock", "record start", "record list", "record stop --all", "record stop",
   "GET screen", "POST input", "POST resume", "POST resize"}

\* The row of the command that runs.
row ==
  CASE cmd = "kill" -> KillCommand [] cmd = "kill --wait" -> KillWait
    [] cmd = "kill --kill-on-timeout" -> KillOnTimeout
    [] cmd = "kill --no-terminate" -> SignalNoTerminate [] cmd = "detach" -> DetachCommand
    [] cmd = "upgrade" -> UpgradeCommand [] cmd = "status" -> StatusCommand
    [] cmd = "set" -> SetCommand [] cmd = "screen dump" -> ScreenDumpCommand
    [] cmd = "snapshot" -> SnapshotCommand [] cmd = "tail" -> TailCommand
    [] cmd = "wait" -> WaitCommand [] cmd = "idle" -> IdleWait [] cmd = "lock" -> LockAcquireFail
    [] cmd = "lock --mode=wait" -> LockAcquireWait [] cmd = "unlock" -> LockReleaseCommand
    [] cmd = "record start" -> RecordStartCommand [] cmd = "record list" -> RecordListCommand
    [] cmd = "record stop --all" -> RecordStopAll [] cmd = "record stop" -> RecordStopAuto
    [] cmd = "GET screen" -> GetScreen [] cmd = "POST input" -> PostInput
    [] cmd = "POST resume" -> PostResume [] cmd = "POST resize" -> PostResize

ASSUME CommandsAssumption == Commands \subseteq Names /\ MaxEvents \in Nat

-----------------------------------------------------------------------------
Init ==
  /\ cmd \in Commands
  /\ arg \in {a \in [good : BOOLEAN, caps : BOOLEAN, lockfile : BOOLEAN] :
                /\ ~a.caps => row.cap
                /\ ~a.lockfile => cmd \in {"kill --wait", "kill --kill-on-timeout"}}
  /\ pc = "connect" /\ code = "none"
  /\ mem = [escalated |-> FALSE, eof |-> FALSE, seq |-> 0, tries |-> 0]
  /\ rx = <<>> /\ tx = <<>> /\ open = FALSE
  /\ daemon = "serving" /\ sock = TRUE /\ image = 0
  /\ child = "run" /\ others \in BOOLEAN /\ lock \in {"free"} \cup (IF others THEN {"other"} ELSE {})
  /\ records = {} /\ screen = [seq |-> 1, shown |-> FALSE]
  /\ effects = {} /\ sawFree = FALSE /\ dropped = FALSE
  /\ events = 0

Gone == daemon \in {"gone", "failed"}

Exit(c) == pc' = "done" /\ code' = c

Goto(p) == pc' = p /\ UNCHANGED code

\* Where a wait for the next control message begins.
Waiting == IF row.wait = "poll" THEN "poll" ELSE "recv"

-----------------------------------------------------------------------------
(* The command process.                                                    *)

\* The messages sent after the handshake.
Requests == IF row.req = "resize" THEN <<Msg("resize", 0), Msg("status", 0)>> ELSE <<Msg(row.req, 0)>>

\* connect_with_retry and the handshake; an old daemon fails the capability check,
\* a daemon that lingers after its child's exit answers with the exit status only.
Connect ==
  /\ pc = "connect" /\ daemon \in {"serving", "ending"}
  /\ LET late == daemon = "ending" IN
       /\ open' = ~late
       /\ rx' = IF late THEN <<Msg("exit", 0), Msg("eof", 0)>> ELSE <<>>
       /\ others' = (others /\ ~row.others)
       /\ lock' = IF row.others /\ lock = "other" THEN "free" ELSE lock
       /\ sawFree' = (lock' = "free")
       /\ IF row.cap /\ ~arg.caps
          THEN Exit(row.nocap) /\ UNCHANGED tx
          ELSE IF row.req = "resize" /\ others THEN Exit("1") /\ UNCHANGED tx   \* not the leader
          ELSE /\ IF row.wait = "sent" THEN Exit("0") ELSE Goto(Waiting)
               /\ tx' = IF late THEN <<>> ELSE Requests
  /\ UNCHANGED <<cmd, arg, mem, daemon, sock, image, child, records, screen, effects, dropped, events>>

\* The session is gone, or its daemon turns the client away.
ConnectFails ==
  /\ pc \in {"connect", "verify"} /\ (Gone \/ daemon = "serving")
  /\ daemon = "serving" => events < MaxEvents
  /\ events' = IF daemon = "serving" THEN events + 1 ELSE events
  /\ Exit("1")
  /\ UNCHANGED <<cmd, arg, mem, rx, tx, open, daemon, sock, session, effects, sawFree, dropped>>

\* poll_recv_ready: readable, and recv_control is called.
Readable ==
  /\ pc = "poll" /\ rx # <<>>
  /\ Goto("recv")
  /\ UNCHANGED <<cmd, arg, mem, rx, tx, open, daemon, sock, session, effects, sawFree, dropped, events>>

\* record_stop_command after the list: no record or several is an error.
Select(list) ==
  IF Cardinality(list) # 1 THEN Exit("1") /\ UNCHANGED tx
  ELSE /\ tx' = Append(tx, Msg("rec.stop", CHOOSE r \in list : TRUE)) /\ Goto("recv")

\* One probe of wait_for_pattern: the pattern is there, the deadline is over, or a nap.
Probe(shown) ==
  /\ \/ shown /\ Exit("0")
     \/ ~shown /\ Exit("1")
     \/ ~shown /\ mem.tries < MaxEvents /\ Goto("nap")
  /\ mem' = [mem EXCEPT !.tries = @ + 1]

\* One probe of wait_for_idle: the same sequence number as before, for long enough.
ProbeIdle(seq) ==
  /\ \/ seq = mem.seq /\ Exit("0")
     \/ Exit("1")
     \/ mem.tries < MaxEvents /\ Goto("nap")
  /\ mem' = [mem EXCEPT !.tries = @ + 1, !.seq = seq]

\* recv_control and the command's match on the message.
Receive ==
  /\ pc = "recv" /\ rx # <<>>
  /\ LET m == Head(rx)
         next == IF m.t = "data" THEN "recv"
                 ELSE IF m.t \in DOMAIN row.ends THEN row.ends[m.t] ELSE Waiting
     IN /\ rx' = Tail(rx)
        /\ CASE next = "select" -> Select(m.v) /\ UNCHANGED mem
             [] next = "match" -> Probe(m.v.shown) /\ UNCHANGED tx
             [] next = "idle" -> ProbeIdle(m.v.seq) /\ UNCHANGED tx
             [] next = "type" -> Goto("ack") /\ tx' = Append(tx, Msg("raw", 0)) /\ UNCHANGED mem
             [] next \in {"0", "1", "3"} -> Exit(next) /\ UNCHANGED <<tx, mem>>
             [] OTHER -> Goto(next) /\ UNCHANGED <<tx, mem>>
  /\ UNCHANGED <<cmd, arg, open, daemon, sock, session, effects, sawFree, dropped, events>>

\* The deadline passes; kill --kill-on-timeout sends SIGKILL once and waits again.
Late ==
  /\ pc = Waiting /\ row.wait # "none"
  /\ row.wait = "poll" => rx = <<>>
  /\ IF row.late = "escalate"
     THEN IF mem.escalated THEN Exit("1") /\ UNCHANGED <<tx, mem>>
          ELSE tx' = Append(tx, Msg("kill9", 0)) /\ mem' = [mem EXCEPT !.escalated = TRUE] /\ UNCHANGED <<pc, code>>
     ELSE Exit(row.late) /\ UNCHANGED <<tx, mem>>
  /\ UNCHANGED <<cmd, arg, rx, open, daemon, sock, session, effects, sawFree, dropped, events>>

\* Between two attempts of lock acquire --mode=wait or two probes: again, or the deadline is over.
Nap ==
  /\ pc = "nap"
  /\ \/ row.req = "acquire" /\ Exit("1") /\ UNCHANGED <<tx, mem>>
     \/ /\ mem.tries <= MaxEvents
        /\ tx' = Append(tx, Msg(row.req, 0)) /\ Goto(Waiting)
        /\ mem' = IF row.req = "acquire" THEN [mem EXCEPT !.tries = @ + 1] ELSE mem
  /\ UNCHANGED <<cmd, arg, rx, open, daemon, sock, session, effects, sawFree, dropped, events>>

\* The auto-lock is given back whether the bytes were written or not.
GiveBack(c) == tx' = Append(tx, Msg("release", 0)) /\ Exit(c)

\* recv_raw_ack_inner: the acknowledgement, an error, the end of the connection
\* or the deadline; other messages are put aside.
RawAcked ==
  /\ pc = "ack"
  /\ \/ /\ rx # <<>> /\ rx' = Tail(rx)
        /\ CASE Head(rx).t = "typed" -> GiveBack("0")
             [] Head(rx).t \in {"error", "eof"} -> GiveBack("1")
             [] OTHER -> UNCHANGED <<pc, code, tx>>
     \/ rx = <<>> /\ GiveBack("1") /\ UNCHANGED rx
  /\ UNCHANGED <<cmd, arg, mem, open, daemon, sock, session, effects, sawFree, dropped, events>>

\* wait_until_release_signal: other messages are dropped.
HoldReads ==
  /\ pc = "hold" /\ rx # <<>> /\ Head(rx).t # "eof"
  /\ rx' = Tail(rx)
  /\ UNCHANGED <<local, tx, open, daemon, sock, session, effects, sawFree, dropped, events>>

\* A signal, the end of stdin or of the connection: the release is sent and the socket closed.
Release ==
  /\ pc = "hold"
  /\ tx' = Append(tx, Msg("release", 0))
  /\ Exit("0")
  /\ UNCHANGED <<cmd, arg, mem, rx, open, daemon, sock, session, effects, sawFree, dropped, events>>

\* upgrade_command after the ack: one poll of 5 s; data frames keep recv_control blocked.
AwaitEof ==
  /\ pc = "eof"
  /\ \/ /\ rx # <<>> /\ Head(rx).t # "data"
        /\ mem' = [mem EXCEPT !.eof = Head(rx).t = "eof"]
        /\ rx' = Tail(rx) /\ Goto("verify")
     \/ /\ rx # <<>> /\ Head(rx).t = "data"
        /\ rx' = Tail(rx) /\ Goto("blocked") /\ UNCHANGED mem
     \/ /\ rx = <<>> /\ Goto("verify") /\ UNCHANGED <<rx, mem>>
  /\ UNCHANGED <<cmd, arg, tx, open, daemon, sock, session, effects, sawFree, dropped, events>>

\* recv_control inside AwaitEof after a data frame: no deadline.
AwaitEofBlocked ==
  /\ pc = "blocked" /\ rx # <<>>
  /\ rx' = Tail(rx)
  /\ IF Head(rx).t = "data" THEN Goto("blocked") /\ UNCHANGED mem
     ELSE Goto("verify") /\ mem' = [mem EXCEPT !.eof = Head(rx).t = "eof"]
  /\ UNCHANGED <<cmd, arg, tx, open, daemon, sock, session, effects, sawFree, dropped, events>>

\* The second connection of upgrade_command.
Verify ==
  /\ pc = "verify" /\ daemon \in {"serving", "ending"}
  /\ Exit("0")
  /\ UNCHANGED <<cmd, arg, mem, rx, tx, open, daemon, sock, session, effects, sawFree, dropped, events>>

\* Mutant of Watch: the lock is not waited for.
WatchNotMutant ==
  /\ pc = "watch"
  /\ Exit("0")
  /\ UNCHANGED <<cmd, arg, mem, rx, tx, open, daemon, sock, session, effects, sawFree, dropped, events>>

\* DaemonExitWatch: no lock file, the daemon's lock is free, or its budget is over.
Watch ==
  /\ pc = "watch"
  /\ \/ ~arg.lockfile /\ Exit("0")
     \/ arg.lockfile /\ Gone /\ Exit(IF sock THEN "1" ELSE "0")
     \/ arg.lockfile /\ ~Gone /\ Exit("3")
  /\ UNCHANGED <<cmd, arg, mem, rx, tx, open, daemon, sock, session, effects, sawFree, dropped, events>>

Command ==
  \/ Connect \/ ConnectFails \/ Readable \/ Receive \/ Late \/ Nap \/ RawAcked
  \/ HoldReads \/ Release \/ AwaitEof \/ AwaitEofBlocked \/ Verify \/ Watch

-----------------------------------------------------------------------------
(* The daemon's handlers.                                                  *)

\* send_control to this client; nothing reaches a command that has ended.
Send(ms) == rx' = IF pc = "done" THEN rx ELSE rx \o ms

Say(t) == Send(<<Msg(t, 0)>>)

Done(t, v) == effects' = effects \cup {Msg(t, v)}

\* Mutant of HandleKill: the signal is sent and nothing answered.
HandleKillSilentMutant(m) ==
  /\ m.t \in {"kill", "kill9"}
  /\ IF m.t = "kill" /\ ~arg.good THEN Say("error") /\ UNCHANGED effects
     ELSE Done(m.t, 0) /\ UNCHANGED rx
  /\ UNCHANGED <<daemon, open, session, dropped>>

\* handle_kill: the signal is sent, and acknowledged.
HandleKill(m) ==
  /\ m.t \in {"kill", "kill9"}
  /\ IF m.t = "kill" /\ ~arg.good THEN Say("error") /\ UNCHANGED effects
     ELSE Done(m.t, 0) /\ Say("killed")
  /\ UNCHANGED <<daemon, open, session, dropped>>

\* handle_signal: no answer on success.
HandleSignal(m) ==
  /\ m.t = "signal"
  /\ IF arg.good THEN Done("signal", 0) /\ UNCHANGED rx ELSE Say("error") /\ UNCHANGED effects
  /\ UNCHANGED <<daemon, open, session, dropped>>

\* handle_detach_target with target all: the ack, then every client is dropped.
HandleDetach(m) ==
  /\ m.t = "detach"
  /\ Send(<<Msg("detached", 0), Msg("eof", 0)>>)
  /\ open' = FALSE /\ others' = FALSE
  /\ lock' = "free"
  /\ Done("detach", 0)
  /\ UNCHANGED <<daemon, image, child, records, screen, dropped>>

\* handle_upgrade_request: after the pre-check the ack goes to every client.
HandleUpgrade(m) ==
  /\ m.t = "upgrade"
  /\ IF arg.good THEN daemon' = "pending" /\ Done("upgrade", 0) /\ Say("upgraded")
     ELSE Say("error") /\ UNCHANGED <<daemon, effects>>
  /\ UNCHANGED <<open, session, dropped>>

\* handle_status_query
HandleStatus(m) ==
  /\ m.t = "status"
  /\ Send(<<Msg("status", screen)>>)
  /\ UNCHANGED <<daemon, open, session, effects, dropped>>

\* handle_screen_dump_request: an unimplemented format is refused.
HandleDump(m) ==
  /\ m.t = "dump"
  /\ IF arg.good THEN Send(<<Msg("dump", screen)>>) ELSE Say("error")
  /\ UNCHANGED <<daemon, open, session, effects, dropped>>

\* handle_state_snapshot_request: so are no component and the scrollback.
HandleSnapshot(m) ==
  /\ m.t = "snapshot"
  /\ IF arg.good THEN Send(<<Msg("snapshot", screen)>>) ELSE Say("error")
  /\ UNCHANGED <<daemon, open, session, effects, dropped>>

\* handle_resize of the leader, handle_raw_data and the child resume request.
HandleResize(m) ==
  /\ m.t = "resize"
  /\ IF arg.good THEN Done("resize", 0) /\ UNCHANGED rx ELSE Say("error") /\ UNCHANGED effects
  /\ UNCHANGED <<daemon, open, session, dropped>>

HandleRaw(m) ==
  /\ m.t = "raw"
  /\ IF arg.good /\ lock # "other" /\ child = "run" THEN Done("raw", 0) /\ Say("typed")
     ELSE Say("error") /\ UNCHANGED effects
  /\ UNCHANGED <<daemon, open, session, dropped>>

HandleResume(m) ==
  /\ m.t = "resume"
  /\ Done("resume", 0)
  /\ UNCHANGED <<rx, daemon, open, session, dropped>>

\* handle_set_request
HandleSet(m) ==
  /\ m.t = "set"
  /\ IF arg.good THEN Done("set", 0) /\ Say("set") ELSE Say("error") /\ UNCHANGED effects
  /\ UNCHANGED <<daemon, open, session, dropped>>

\* handle_tail_request without follow
HandleTail(m) ==
  /\ m.t = "tail"
  /\ Send(<<Msg("tail.data", 0), Msg(IF arg.good THEN "tail.end" ELSE "tail.cut", 0)>>)
  /\ UNCHANGED <<daemon, open, session, effects, dropped>>

\* handle_lock_acquire and handle_lock_release: answer, then the broadcast.
HandleAcquire(m) ==
  /\ m.t = "acquire"
  /\ IF lock = "other" THEN Say("denied") /\ UNCHANGED lock
     ELSE lock' = "me" /\ Send(<<Msg("locked", 0), Msg("mode.held", 0)>>)
  /\ UNCHANGED <<daemon, open, image, child, others, records, screen, effects, dropped>>

HandleRelease(m) ==
  /\ m.t = "release"
  /\ IF lock = "me" THEN lock' = "free" /\ Say("mode.free") ELSE Say("error") /\ UNCHANGED lock
  /\ UNCHANGED <<daemon, open, image, child, others, records, screen, effects, dropped>>

\* The record requests.
HandleRecord(m) ==
  /\ m.t \in {"rec.start", "rec.list", "rec.stop", "rec.stopall"}
  /\ CASE m.t = "rec.start" ->
            IF arg.good /\ records # Records
            THEN \E r \in Records \ records :
                    records' = records \cup {r} /\ Done("rec.start", r) /\ Say("rec.started")
            ELSE Say("error") /\ UNCHANGED <<records, effects>>
       [] m.t = "rec.list" ->
            Send(<<Msg("rec.list", records)>>) /\ Done("rec.list", records) /\ UNCHANGED records
       [] m.t = "rec.stop" ->
            IF m.v \in records THEN records' = records \ {m.v} /\ Done("rec.stop", m.v) /\ Say("rec.stopped")
            ELSE Say("error") /\ UNCHANGED <<records, effects>>
       [] m.t = "rec.stopall" ->
            records' = {} /\ Done("rec.stopall", records) /\ Say("rec.stopped")
  /\ UNCHANGED <<daemon, open, image, child, lock, others, screen, dropped>>

\* handle_control_message
Serve ==
  /\ daemon = "serving" /\ open /\ tx # <<>>
  /\ tx' = Tail(tx)
  /\ LET m == Head(tx) IN
       \/ HandleKill(m) \/ HandleSignal(m) \/ HandleDetach(m) \/ HandleUpgrade(m) \/ HandleStatus(m)
       \/ HandleDump(m) \/ HandleSnapshot(m) \/ HandleResize(m) \/ HandleRaw(m) \/ HandleResume(m)
       \/ HandleSet(m) \/ HandleTail(m) \/ HandleAcquire(m) \/ HandleRelease(m) \/ HandleRecord(m)
  /\ sawFree' = (sawFree \/ lock' = "free")
  /\ UNCHANGED <<local, sock, events>>

\* The command has ended and closed its socket: the client is dropped, its lock released.
Drop ==
  /\ daemon = "serving" /\ open /\ pc = "done" /\ tx = <<>>
  /\ open' = FALSE
  /\ lock' = IF lock = "me" THEN "free" ELSE lock
  /\ UNCHANGED <<local, rx, tx, daemon, sock, image, child, others, records, screen, effects,
                 sawFree, dropped, events>>

\* The connection ends at the daemon's side.
Cut == /\ open' = FALSE
       /\ rx' = IF open /\ pc # "done" THEN Append(rx, Msg("eof", 0)) ELSE rx

\* finalize_child and the end of serve: the exit notification, and every client is closed.
Finish ==
  /\ daemon = "serving" /\ child = "dead"
  /\ daemon' = "ending"
  /\ open' = FALSE
  /\ rx' = IF open /\ pc # "done" THEN rx \o <<Msg("exit", 0), Msg("eof", 0)>> ELSE rx
  /\ lock' = "free" /\ others' = FALSE /\ records' = {}
  /\ UNCHANGED <<local, tx, sock, image, child, screen, effects, sawFree, dropped, events>>

\* linger_for_late_attach is over: the socket is removed and the process ends.
End ==
  /\ daemon = "ending"
  /\ daemon' = "gone" /\ sock' = FALSE
  /\ UNCHANGED <<local, rx, tx, open, session, effects, sawFree, dropped, events>>

\* perform_self_exec: every connection and what was sent on it is lost.
Exec ==
  /\ daemon = "pending"
  /\ daemon' = "execing" /\ tx' = <<>>
  /\ Cut
  /\ lock' = "free" /\ others' = FALSE /\ records' = {}
  /\ UNCHANGED <<local, sock, image, child, screen, effects, sawFree, dropped, events>>

\* The new process serves the inherited listener.
Resume ==
  /\ daemon = "execing"
  /\ daemon' = "serving" /\ image' = image + 1
  /\ UNCHANGED <<local, rx, tx, open, sock, child, lock, others, records, screen, effects, sawFree,
                 dropped, events>>

\* The pre-check or execve fails: the clients stay, the lock state is fresh.
ExecFailed ==
  /\ daemon = "pending"
  /\ daemon' = "serving" /\ lock' = "free" /\ sawFree' = TRUE
  /\ UNCHANGED <<local, rx, tx, open, sock, image, child, others, records, screen, effects, dropped, events>>

\* The state file cannot be written: serve returns, the listener is dropped, the child is not waited for.
PrepFailed ==
  /\ daemon = "pending"
  /\ daemon' = "failed" /\ sock' = FALSE
  /\ Cut
  /\ lock' = "free" /\ others' = FALSE /\ records' = {}
  /\ UNCHANGED <<local, tx, image, child, screen, effects, sawFree, dropped, events>>

Daemon == Serve \/ Drop \/ Finish \/ End \/ Exec \/ Resume \/ ExecFailed \/ PrepFailed

-----------------------------------------------------------------------------
(* The environment.                                                        *)

Event == events < MaxEvents /\ events' = events + 1

Hear(t) == rx' = IF open /\ pc # "done" THEN Append(rx, Msg(t, 0)) ELSE rx

\* The child dies of the signal it was sent, or of itself.
ChildDies ==
  /\ child = "run" /\ child' = "dead"
  /\ IF effects \cap {Msg("kill", 0), Msg("kill9", 0), Msg("signal", 0)} # {}
     THEN UNCHANGED events ELSE Event
  /\ UNCHANGED <<local, rx, tx, open, daemon, sock, image, lock, others, records, screen, effects,
                 sawFree, dropped>>

\* Output of the child goes to every client and to the screen.
ChildOutput ==
  /\ Event /\ child = "run" /\ daemon = "serving"
  /\ Hear("data")
  /\ \E b \in BOOLEAN : screen' = [seq |-> screen.seq + 1, shown |-> b]
  /\ UNCHANGED <<local, tx, open, daemon, sock, image, child, lock, others, records, effects, sawFree, dropped>>

\* A broadcast that answers nobody.
Notification ==
  /\ Event /\ daemon = "serving"
  /\ \E t \in {"leader", "stopped"} : Hear(t)
  /\ UNCHANGED <<local, tx, open, daemon, sock, session, effects, sawFree, dropped>>

\* Another client takes or gives back the lock.
OtherLock ==
  /\ Event /\ daemon = "serving" /\ others /\ lock # "me"
  /\ lock' = IF lock = "free" THEN "other" ELSE "free"
  /\ Hear(IF lock = "free" THEN "mode.held" ELSE "mode.free")
  /\ sawFree' = (sawFree \/ lock' = "free")
  /\ UNCHANGED <<local, tx, open, daemon, sock, image, child, others, records, screen, effects, dropped>>

\* Another client starts or stops a record.
OtherRecord ==
  /\ Event /\ daemon = "serving" /\ others
  /\ \E r \in Records : records' = IF r \in records THEN records \ {r} ELSE records \cup {r}
  /\ UNCHANGED <<local, rx, tx, open, daemon, sock, image, child, lock, others, screen, effects, sawFree, dropped>>

\* Another client detaches everybody.
OtherDetach ==
  /\ Event /\ daemon = "serving" /\ others
  /\ Cut /\ tx' = <<>>
  /\ dropped' = (dropped \/ open)
  /\ others' = FALSE /\ lock' = "free"
  /\ UNCHANGED <<local, daemon, sock, image, child, records, screen, effects, sawFree>>

\* Another client, or SIGUSR1, asks for an upgrade.
OtherUpgrade ==
  /\ Event /\ daemon = "serving"
  /\ daemon' = "pending"
  /\ Hear("upgraded")
  /\ UNCHANGED <<local, tx, open, sock, session, effects, sawFree, dropped>>

\* The daemon is killed: its socket file stays.
Crash ==
  /\ Event /\ ~Gone
  /\ daemon' = "gone"
  /\ Cut
  /\ lock' = "free" /\ others' = FALSE /\ records' = {}
  /\ UNCHANGED <<local, tx, sock, image, child, screen, effects, sawFree, dropped>>

\* The daemon is stopped and answers nothing.
Hang ==
  /\ Event /\ daemon = "serving"
  /\ daemon' = "hung"
  /\ UNCHANGED <<local, rx, tx, open, sock, session, effects, sawFree, dropped>>

Environment ==
  \/ ChildDies \/ ChildOutput \/ Notification \/ OtherLock \/ OtherRecord \/ OtherDetach
  \/ OtherUpgrade \/ Crash \/ Hang

Next == Command \/ Daemon \/ Environment

\* The command's own steps (a lock is held for as long as its user wants) and the daemon's.
Proceed ==
  \/ Connect \/ (Gone /\ ConnectFails) \/ Readable \/ Receive \/ Late \/ Nap \/ RawAcked \/ HoldReads
  \/ AwaitEof \/ AwaitEofBlocked \/ Verify \/ Watch

Fairness == WF_vars(Proceed) /\ WF_vars(Daemon)

Spec == Init /\ [][Next]_vars /\ Fairness

-----------------------------------------------------------------------------
(* Properties.                                                             *)

Succeeded == pc = "done" /\ code = "0"

\* Exit code 0 (204 of a request) of a command that changes something means that the
\* daemon did it: the value was set, the record was started, all records or the
\* only one that was listed were stopped, the child was signalled or the connection
\* had ended, the lock was free, the bytes were written, the size was set (although
\* a resize has no answer of its own), and "upgrade OK" (an end of the connection
\* was seen) means that a new image runs.  kill --wait that succeeds against a daemon
\* with a name lock has seen the end of the daemon and of its socket file, and the
\* child is dead; the end of the connection alone (an upgrade, a crash, a detach) is
\* not taken for it.  Three report success without an answer and are promised
\* nothing: kill --no-terminate and detach when their deadline passes, and POST
\* resume, which does not wait.  Neither are the commands that only read or wait.
ExitTruthful ==
  Succeeded =>
    /\ cmd = "set" => Msg("set", 0) \in effects
    /\ cmd = "record start" => \E r \in Records : Msg("rec.start", r) \in effects
    /\ cmd = "record stop" =>
         \E r \in Records : {Msg("rec.list", {r}), Msg("rec.stop", r)} \subseteq effects
    /\ cmd = "record stop --all" => \E S \in SUBSET Records : Msg("rec.stopall", S) \in effects
    /\ cmd = "POST input" => Msg("raw", 0) \in effects
    /\ cmd = "POST resize" => Msg("resize", 0) \in effects
    /\ cmd = "kill" => Msg("kill", 0) \in effects \/ ~open
    /\ cmd = "unlock" => sawFree
    /\ cmd = "upgrade" /\ mem.eof => image > 0 \/ dropped
    /\ cmd \in {"kill --wait", "kill --kill-on-timeout"} /\ arg.lockfile =>
         Gone /\ ~sock /\ (child = "dead" \/ daemon = "failed")

\* The command still has something to come: it has not ended, or has ended and
\* still holds the lock it was granted.  A hung daemon is excused, and so is an
\* upgrade left in a read without a deadline.
Unfinished ==
  /\ daemon # "hung"
  /\ \/ pc \notin {"done", "hold"} /\ ~(pc = "blocked" /\ open)
     \/ pc = "done" /\ lock = "me"

=============================================================================
