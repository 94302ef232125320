# A TLA+ model of hyoui

hyoui runs a command on a PTY of its own behind a small per-session daemon.
Clients attach to the daemon over a Unix socket, see what the command prints,
type into it, share it, script it (`hyoui input`, `run`, `wait`), record it, and
leave without disturbing it. A web gateway serves the same sessions to a browser,
and a supervisor keeps gateways running. This directory models the parts of the
program whose correctness depends on order, on failure or on two pieces of code
that must agree.

Sources are named relative to `src/crates/`; `PROJECT.json` gives for every
definition the lines it stands for.

## 1. Inventory

| Component | State | Operations | Where it is hard |
|---|---|---|---|
| Serve loop, clients (`hyoui/src/daemon/session.rs`, `accept.rs`, `control.rs`) | clients Vec, leader flag, pending handshakes, overflow ids, indices to drop | accept, finish handshake, takeover, detach, leader request, drop and cascade | handshakes end in worker threads; several drops in one pass; drop paths that differ; limits checked before they are used |
| Input lock and leader rules (`daemon/lock.rs`) | holder, token, leader | acquire, release, garbage collection on disconnect, elevate | must agree with the clients Vec on every path |
| Child (`session.rs`, `daemon/pty.rs`) | wait status, stop latch, deferred exit, policy | waitpid from several places, SIGCHLD/SIGTERM/SIGUSR1/SIGCONT, drain window, finalize | one-shot wait events, signals lost or merged, deadlines racing the exit |
| Send queues (`daemon/broadcast.rs`) | frames, head offset, byte count, failed flag, closing clients | enqueue, partial write, retire, flush before the end | partial writes, limits, peers that never read |
| Raw input (`daemon/reducer/*`, `sys/fd.rs`, `client/attach.rs`, `client/auto_lock.rs`) | pending write and acknowledgement, lock, PTY fill | raw frame, effects and their results, acknowledgement, auto lock | partial PTY writes, feedback rounds, kills and timeouts while the lock is held |
| Recorder (`daemon/record.rs`) | registry, one bounded queue and one thread per record | start, push, abort, stop, limits | queue full, thread ended, joins in the serve loop, exec in the middle |
| Scrollback and tail (`scrollback.rs`, `daemon/tail.rs`) | ring of chunks, subscriptions | push, evict, snapshot by time and size, follow | snapshot against subscription, eviction, an upgrade in between |
| Screen (`daemon/screen/`, `screen_text.rs`) | emulator, synchronized-update flag, input log, deferred redraws | process, resize, redraw, snapshot, dump | sequences cut by a read, resize in either buffer, two paths from cells to text |
| Wire protocol, `--until`, stripping (`protocol/`, `strip.rs`) | decoder buffer, carried bytes | decode, match, strip | chunk borders |
| Session start, name lock (`hyoui-cli/src/daemonize.rs`, `sys/socket.rs`, `discovery.rs`, `daemon/upgrade.rs`) | socket file, lock file, directory lock, ready pipe | start, list and prune, end, kill, upgrade, resume, linger | several processes on two files; kills between any two steps; a time-out against a late answer |
| Attach client (`client/attach.rs`, `key_decoder.rs`, `hyoui-cli/src/main.rs`) | terminal mode, key decoder, menu, prompt, guard | relay, detach, suspend, resume, signals | two threads share the terminal guard; deadlines inside a read; nested dialogs |
| One-shot commands (`main.rs`, `wait_core.rs`, `hyoui-web/src/lib.rs`) | request, deadline, what was seen | every command and HTTP handler | an answer swallowed by an upgrade, a crash, a detach; an end of file that means several things |
| Choice of the session (`main.rs`, `socket_path.rs`, `discovery.rs`, `single_flight.rs`) | a scan, an index, shared lookups | select, scan, probe, kill all, join a lookup | a scan is not atomic; a lookup that panics |
| Command line (`cli.rs`, `completion.rs`) | none | parse, help, three completion scripts | 12 000 lines of hand-written parsers, help texts and scripts that must agree |
| WebSocket attach (`hyoui-web/src/ws_attach.rs`) | three tasks, queues, leader, pending answers | bytes, resize, take leader, close | answers told apart by their order; three ends that race |
| Passkeys, web sessions (`hyoui-web/src/auth/`, `web_passkey.rs`) | two state files, families, open sockets | register, assert, refresh, revoke, log out | two files, two updates; a revocation while a socket opens |
| Web service (`web_service.rs`) | definition file, launchd or systemd state | register, unregister, start, stop, restart | each of several steps fails, or the command is killed between two |
| Web supervisor (`hyoui-cli/src/web_daemon/`) | units, back-off, registry file, lock, channel | start, stop, restart, add, remove, shutdown | requests handled inside a request; blocking file lock; exits of old children |
| Paths, configuration, log, environment, key names | none that lasts | parsing, lookups | sequential |

The daemon is one thread that polls. Everything else reaches it through
descriptors: the listener, one socket per client, the PTY master and a self-pipe
that signal handlers write to. Helper threads do a handshake each or write one
record each. So the interleavings that matter are those of the loop's passes with
the peers, with the child and the kernel, and with the writer threads. Around the
daemon the processes share only files: the socket and its lock file, the record
files, the gateway's state files and the registry of the supervisor.

## 2. Modules

| Module | Models | Checked by |
|---|---|---|
| `SessionClients` | clients, leader, lock holder, handshakes, takeover, detach, drops, aborted upgrades | `MCClients.cfg` |
| `SessionChild`, `ChildLife` | the child, its wait events, signals, drain window, time-outs, upgrade, finalize | `SessionChild.cfg` |
| `SendQueue` | queues and sockets of attached and closing clients | `MCOutput.cfg` |
| `RawInput`, `MCRawInput` | input commands and typists, reducer, effects, PTY, lock | `MCRawInput.cfg` |
| `Recorder`, `Recording` | registry, queues and threads of records | `MCOutput.cfg`, `RecordHold.cfg` |
| `ByteStreams` | frame decoder, `--until`, ANSI stripper against whole-stream definitions | `MCClients.cfg` |
| `Scrollback` | the ring and what tail gets from it | `MCClients.cfg` |
| `ScreenState` | the daemon's emulator, its log and flags, the clients' screens | `MCClients.cfg` |
| `NameOwner` | what a session id promises (abstract) | by refinement |
| `SessionStart` | socket file, lock files, ready pipe, prune, end, upgrade | `SessionStart.cfg` |
| `AttachClient`, `MCAttachClient` | the interactive client | `MCAttachClient.cfg` |
| `ClientCommands` | one-shot commands and HTTP handlers, with the daemon's handlers | `MCCommands.cfg` |
| `SessionTarget`, `TargetChoice` | selectors, scans, shared lookups | `MCCommands.cfg` |
| `ScreenText` | dump formats and the text `wait` matches | `MCClients.cfg` |
| `CommandGrammar`, `CommandHelp`, `Completion`, `CommandLine` | parser, help texts, completion scripts, and a user who follows either | `MCCommands.cfg`, `FishValues.cfg` |
| `WsBridge`, `WebAttach` | one WebSocket attach | `WsBridge.cfg` |
| `WebAuth` | passkeys, refresh families, revocation | `MCWebAdmin.cfg` |
| `WebService` | the service under launchd or systemd | `MCWebAdmin.cfg` |
| `WebSupervisor` | units, registry, commands on them | `WebSupervisor.cfg` |
| `ClientCommandsProofs`, `RawInputProofs`, `AttachClientProofs`, `WebSupervisorProofs` | theorems about the module they are named after | tlapm |
| `SessionClientsProofs` | theorems about `SessionClients` and `SessionChild` | tlapm |
| `SendQueueProofs` | theorems about `SendQueue` and `Recorder` | tlapm |
| `SessionStartProofs` | theorems about `SessionStart` and `SessionTarget` | tlapm |
| `WebAdminProofs` | theorems about `WebAuth`, `WebService` and `WsBridge` | tlapm |

`MC` modules give values that a configuration file cannot write. `MCClients`,
`MCOutput`, `MCCommands` and `MCWebAdmin` also put components that share no state
into one run: `Init` chooses which of them moves (`part`), and a component that does not
move keeps one initial state. The state spaces add up instead of multiplying, and
nothing is lost, because no action of one reads what another writes.

`ChildLife`, `Recording`, `TargetChoice` and `WebAttach` are each a component under
names of its own (`INSTANCE ... WITH`), so that it can stand beside another one that
uses the same names for its variables: in a run, and in a module of proofs. They hold
the component's assumption and its properties; a step of it is that of the component.

A definition whose name ends in `Mutant` is a mistake of the kind the code could
contain; `PROJECT.json` pairs each checked property with one that breaks it.

### SessionClients

A pass of `serve_loop` is the sequence of steps `top`, `handshakes`, `signals`,
`accept`, `output`, `frames` and the drop of `indices_to_drop`, in the order of the
code; the poll-timeout arm is a pass with `idle` set. The clients Vec is a set of
ids because new clients are pushed at its end with growing ids. Each frame handler
that changes shared state is an action (`DetachTarget`, `LeaderRequest`,
`LockAcquire`, `LockRelease`, `KillWait`); frames that only answer their sender are
`FrameIgnored`. A broadcast reaches every client whose queue has room; the clients
in `Slow` may be full at any enqueue, and what the code then does with the ids of
those clients (kept in `overflow`, or thrown away) is followed path by path.
`seen` is what each client knows once it has read its queue.

Properties: somebody leads while an `rw` client is attached (`LeaderPresent`); the
lock holder is attached and may write (`LockHolderAttached`); exclusive writers are
alone (`SoleExclusiveWriter`); what clients were told of leader, mode and lock is so
(`ViewsAgree`); a detach of others leaves no older connection behind
(`SweptClean`). Proved but not run, because they follow from the same invariant:
at most one leader (`SoleLeader`), and neither lock nor leader is taken from a
client that stays (`LockNotStolen`, `LeaderNotStolen`).

### SessionChild

The kernel's view of the child is its state, a one-shot wait event and the exit
status; `Observed` is one `waitpid` with what the code does with the answer. `sigs`
is the self-pipe, in which equal signals merge. `shown` is what clients are told,
`latched` the latch of `pty.rs`, `deferred` the exit kept while the last output is
drained. An upgrade fails its pre-check, fails to exec, fails its preparation, or
starts the loop anew in a new process. Properties: the exit code of `serve` is the
child's (`ExitCodeFaithful`); the session ends with its child, across an upgrade
and on SIGTERM (`SessionEnds`); the reported stop follows the child, and under
auto-resume a stop does not last (`StopFollowed`).

### SendQueue

Byte-accurate queues: `push`, `fail`, the budget per pass, a `write(2)` per step,
closing clients with their own deadline and limit, and the flushes before the end
of the session or an upgrade. Frames are lengths; byte `<<n, i>>` is byte `i` of
frame `n`, and the log of accepted frames has the place in the stream where each
begins. Properties: the peer gets the bytes of the accepted frames in order, the
queue is exactly the rest and the counter counts it (`FramesIntact`); queues exceed
the limit only by the frames the code lets through, and closing clients are bounded
(`QueuesBounded`); closing clients and the end of the session end, and a peer that
reads gets what was accepted for it (`QueuesDrain`).

### RawInput

Each client is an input command (acquire, frames with acknowledgement, release), an
interactive writer, or a read-only client. The daemon takes one frame per client
and pass. A raw frame goes through `reduce_raw_data`, and its effects are executed
one by one, their results reduced and the following effects executed in the next
round, as `execute_with_feedback_ctx` does, for at least two rounds
(`MAX_FEEDBACK_ROUNDS`, `daemon/reducer/mod.rs:66`, is 8). A write to the PTY is as many
`write(2)`s as the child leaves room for. Properties: acknowledgement and record
say what became of the bytes (`FrameAccounted`: the answer of a frame in
`AckTruthful`, each byte recorded once and in the order of the PTY in
`RecordFaithful`); nothing comes between the bytes of
a command and nothing is written after a hole (`InvocationAtomic`, DR-0022); a
frame is handled to its end and a lock is returned whatever the child and the
client do (`LockReturned`).

A client's own steps are shown only between passes and while the daemon is in a
write (`Open`): client and daemon share nothing but two queues, so other places
give the same behaviours with fewer states.

### Recorder

`history` is what happened in the session, `log[r]` what was pushed to record `r`
(its indices are the sequence numbers), `queue[r]` and `file[r]` hold those
numbers. A start checks the output path (`validate_output_path`) and creates the
file. The serve loop pushes to one sink after another, aborts those that refused,
tells the others and joins their threads; the threads write, fail, reach a limit or
drain; an exec ends them between two events or within a line (`Torn`). Properties:
a file is the events its record asked for, in order and without gap, up to some
point, a missing number is a refused event, and a stopped record has all that was
accepted (`FileFaithful`, said line by line: a line's number was accepted, and so was
each line before it that was accepted written); the loop comes back unless it joins a
thread whose disk never answers (`ServeNotHeldUp`). That nothing at all holds it up,
as DR-0016 has it, is `RecordNeverHolds`, which is violated.

### ByteStreams, Scrollback, ScreenState

`ByteStreams` builds a stream byte by byte and cuts it into chunks in every way.
Each reader is compared with a definition on the whole stream: the incremental
frame decoder with `decode_from`, the watcher with "occurs", the chunked stripper
with `strip_ansi` (`ChunksInvisible`). Bytes are classes that the code tells apart.

`Scrollback` numbers the bytes of the output, so that a gap or a duplicate is
visible in what a client got. `Push` evicts as the code does, whole chunks at a
time and then a part of one; `Snapshot` is the walk by time and size; an upgrade
restores the ring from the state file, without times (`TailExact`).

`ScreenState` has the wrapper around vt100: the flag of synchronized updates and
the bytes carried for it, the log that is replayed into a new emulator on a
resize, and the redraws of clients that attach, deferred while an update is open.
The emulator is external and reduced to lines in two buffers; a client's terminal
is the same emulator fed with what it is sent. Checked: the flag follows the child
however its output is cut (`SyncTracked`), the daemon is in the child's buffer
(`BufferAgrees`), and a client's screen is the daemon's (`ClientsAgree`).
`TailExact` and these three are `ShownTrue` in `MCClients`.

### NameOwner and SessionStart

`NameOwner` is the promise of a session id: at most one owner, kept until it ends,
passed on only through a moment without one, and readiness is told only by the
owner. `SessionStart` has the processes: the fork of `hyoui run`, the pipe and its
time-out, `bind_with_lock` step by step, serve, linger, `self_exec` and resume, the
two unlinks at the end, `hyoui list` with its probe, re-check and prune, a daemon of
a version without lock files, and kills between any two steps. Inodes are named
after the process that made them. It implements `NameOwner` (`NameOwnerSpec`) under
the mapping "the owner is the daemon whose socket file is in place and that holds
the lock of the lock file in place". Further: a daemon that is up is found under
its name (`NameHeld`); what the starter reports is true (`StartTruthful`); leftovers
go (`LeftoverPruned`).

### AttachClient

The relay loop with its poll, the key decoder and its deadline, the Ctrl+Z guard,
menu and prompt, suspension, the signal thread and the guard both threads share;
daemon, child, terminal and user are the environment. `typed` and `sent` are what
the user typed into the child and what reached it. Properties: `KeysArrive`,
`TerminalSane`, `SizeFollows`, `ChildWoken`.

### ClientCommands, SessionTarget, ScreenText

A command of `ClientCommands` is a row of a table: what it sends, how it waits, and
which message, end or deadline gives which exit code; HTTP handlers are rows of the
same table. The daemon's handlers are actions. The environment upgrades, crashes,
hangs, detaches, changes records and takes the lock. `SessionTarget` has the steps
of a scan (read the directory, probe, mtime, sort) between which sessions start and
end, the selectors, `kill --all`, and the gateway's `SingleFlight`. `ScreenText` has
the way from cells to text twice: in the daemon, and in `wait`, which rebuilds rows
from sparse cells. Properties: exit code 0 is true (`ExitTruthful`); dump and wait see
the same text, in every format (`TextsAgree`, a part of `ShownTrue`); the session is the
one that was named (`TargetRight`); every command ends and a granted lock does not
outlive its command (`CommandsEnd`).

### Command line

`CommandGrammar` has one definition per `parse_*` function, as data for one
word-at-a-time parser; `CommandHelp` one per `usage_*` text; `Completion` one per
shell and command. In `CommandLine` a user writes lines following help or a shell,
and what the parser made of the words is compared with what the user meant
(`HelpFollowed`, `CompletionFollowed`). Where fish writes the value of `list --format`
or `kill --wait` as a word of its own (`FishSeparately`, `apart`) the parser does not
read it as meant: `CompletionFollowed` speaks of the other lines, `ScriptsInSync` of all
and is violated. Nested commands, values behind `=`, values
that look like options and `--` are all words of the model.

### WsBridge, WebAuth, WebService, WebSupervisor

`WsBridge`: reader task, bridge thread and writer task of `ws_attach.rs` with the
queues between them and the daemon behind; a resize is a request and a status query
whose answers are told apart by order. The bridge takes the commands of a turn one by
one (`Drain`, `TakeCommand`), because the reader may add to the channel between two
`try_recv`s; what they type is gathered in `batch` and sent as one frame (`SendBatch`).
Output that comes during an exchange stays in `raw` until its next control, and is lost
when the exchange fails (`ResizeFails`, `LeaderFails`). `BridgeFaithful`: keys arrive in order and
once, answers are true, the leader is shown. `AttachEnds`: whatever ends one side
ends all.

`WebAuth`: each update of a state file is a step (the file is locked and replaced);
a request that touches both files takes one step for each, and the gateway may
restart in between. A refresh that found a reused token writes the tombstone in a
blocking task and notifies after it; a client that leaves between the two drops the
future, and nobody is told (`Abandoned`, `untold`). `SecretsSpentOnce`: registrations,
codes and assert challenges; `RevokedSocketsClose`: the sockets of a family that was
tombstoned for reuse, in this gateway, unless the request was abandoned.

`WebService`: a command is its sequence of file operations and manager calls, each
of which may fail or be the last. `ServiceObeys` says that a register that reports
success took hold, and that a stop holds on launchd until a register, start, restart
or unregister.

`WebSupervisor`: one thread and a channel; a restart reads the channel while it
waits, so requests nest (`stack`). An answer about units asks their binaries for
their version, and one that does not come back hangs the thread (`Ends`, `pc =
"hung"`). The registry file, its lock and the commands that
use it are processes of their own. `NoStrayChild`, `RegistrySound`, `RequestsEnd`,
`StoppedStays`.

## 3. Runs

| Run | Question | Bounds |
|---|---|---|
| `Clients` | client bookkeeping, with a client that does not read and upgrades that abort; streams, ring, screen and its text | 3 ids, limit 2, 2 pending handshakes, client 3 slow; streams of up to 7 bytes; a ring of 2 bytes with 3 bytes of output; a log of 3 bytes, 4 bytes of output, sizes 1 and 2, one resize; a row of 3 cells and one in the scrollback |
| `SessionChild` | exits, stops, every way to end, one upgrade | CONT at most twice, one upgrade; otherwise unbounded |
| `MCRawInput` | input commands beside each other or a typist | 2 clients, 2 frames of 2 bytes, PTY of 1 byte, answers to client 2 may be lost |
| `Output` | send queues: partial writes, limits, closing, ending; records | 2 clients, frames of 2 bytes, socket of 1, budget 2, limit 3, one closing place; 2 records of 3 kinds and 2 refused ones, queue of 1, 3 events |
| `SessionStart` | one session id, many processes | 2 daemons and one without lock files, one lister, one kill, one upgrade |
| `AttachClient` | the interactive client | 3 events of the environment, one foreign SIGTSTP |
| `Commands` | parser against help and scripts; choice of the session; 24 commands | 3 options per line, every command; 4 sessions of which one has an old name, 2 changes, 2 requests; 2 events, 2 records |
| `WsBridge` | one attach | 2 messages, 3 events in all |
| `WebAdmin` | authentication; service commands | 2 requests, one socket, 2 challenges, 2 families, one rotation; 3 locations, 2 values of PATH |
| `WebSupervisor` | units and registry | 2 units, 2 addresses, 2 commands at a time, 2 in all, one fault |
| `RecordHold` | does a record never hold up the session (DR-0016)? violated | one record, one event |
| `FishValues` | are all three scripts in sync with the parser (`completion.rs:10`)? violated | fish, 2 options per line |

Why these are enough: the state of a client matters to another only through
leader, lock, limits and the order of the Vec, so a third client shows every
succession and a limit of two makes them bind. A frame longer than the socket and
the budget, with a limit between one and two frames, shows every cut of a frame and
every boundary of the limit. Two frames of two bytes with a PTY of one byte show a
write that is cut, times out or fails after none, some or all bytes, with a frame
behind it. A queue of one event is full after one push; the third event is the one
after an abort. Seven bytes hold two frames and a cut third; six bytes a needle of
three that begins twice. A log of three bytes is shorter than two sequences, so a
replay begins in the middle of one. Two daemons, a lister and one kill give every
pair of processes on the two files at every step. A row of three cells holds a wide
character with a neighbour on either side and both ways to write over its halves.
Deadlock is not checked: all the systems here end, and the user of the command line,
who never stops, shares a run with commands that do.

Bounds that are not the code's are the constants named `Max...` (except
`MaxClients`, `MaxPending`, `MaxClosing`, `MaxFrameSize`, `MaxCarry`, `MaxBytes`,
`MaxFeedbackRounds`), `NumFrames`, `NumClients` and the sets of values: they end a
behaviour, they do not change a step.

### Fairness

- The daemon goes on with a pass it has begun and looks at descriptors that are
  ready: it is one thread that polls, and every blocking call in it has a timeout
  (`Awake`, `Writing`, `Receive \/ Daemon`, `Loop`).
- Clocks advance: drain and flush deadlines, the close timeout, the push timeout,
  the idle timeout of a PTY write, the timeouts of a command, a grace period.
- `SpecIdle` adds that poll times out again and again; it is used only where a
  property rests on the timeout arm, and the deviation without it is listed below.
- In `RawInput` a command takes steps infinitely often if it can infinitely often:
  the process runs by itself, and `Open` is a restriction of the model only.
- In `Recorder` the loop goes on unless it joins a thread that is not over, and a thread
  goes on when it waits for its queue. A write and the header of a file may never end:
  nothing is assumed of the disk (`Awake`, `AtDisk`).
- Processes and threads that have a step to take take it (daemons and listers in
  `SessionStart`, both threads of `AttachClient`, commands, the tasks of `WsBridge`,
  requests of the gateway, the supervisor). A handler of the gateway may instead be
  dropped with its client, and the supervisor stops for ever in an answer whose
  `--version` does not come back. `LeftoverPruned` assumes that somebody
  lists sessions again and again, which is what it is about.
- A process that was sent SIGKILL ends.
- Nothing is assumed of peers, of the child, of the user or of who sends signals.

## 4. Proofs

A theorem holds for every value of the constants that satisfies the assumption named
with it; the runs show the same property on one instance and give the fairness that
the proofs do not use. Each inductive invariant was first checked by TLC on the
instance of the run.

| Module | Theorem | Property | Assumption |
|---|---|---|---|
| `SessionClientsProofs` | `TypeCorrect` | `TypeOK` | `BoundsAssumption`: the limits are positive |
| | `OneLeader` | `SoleLeader` | |
| | `ExclusiveIsAlone` | `SoleExclusiveWriter` | |
| | `LeaderKept` | `LeaderNotStolen` | |
| | `LockKept` | `LockNotStolen` | and no upgrade aborts |
| | `LockHolderStays` | `LockHolderAttached` | |
| | `LeaderFound` | `LeaderPresent` | |
| | `ClientsInformed` | `ViewsAgree` | |
| | `DetachSweeps` | `SweptClean` | |
| | `ExitCodeKept` | `ExitCodeFaithful` | `EnvironmentAssumption`: types |
| `SendQueueProofs` | `MemoryBounded` | `QueuesBounded` | `SizesAssumption`: sizes and limits are positive, no frame exceeds `MaxFrameSize` |
| | `WireIntact` | `FramesIntact` | |
| | `RecordsFaithful` | `FileFaithful` | `RecordAssumption`: types |
| `RawInputProofs` | `InputInOnePiece` | `InvocationAtomic` | `InputAssumption`: types, sizes are positive, at least two feedback rounds |
| | `FramesAccounted` | `FrameAccounted` | |
| `SessionStartProofs` | `NameIsHeld` | `NameHeld` | `StartAssumption`: daemons and listers are different, at most one daemon without lock files |
| | `ReportsTrue` | `StartTruthful` | |
| | `NameOwnership` | `NameOwnerSpec` (refinement) | |
| | `ChoiceRight` | `TargetRight` | `ChoiceAssumption`: finitely many sessions, numbered in the order of their first use |
| `AttachClientProofs` | `TerminalKeptSane` | `TerminalSane` | `AttachAssumption`: types; sizes are no names of requests |
| | `SizeFollowed` | `SizeFollows` | |
| `WebAdminProofs` | `SpentOnce` | `SecretsSpentOnce` | `BoundsAssumption`: at least one attempt |
| | `ServiceHolds` | `ServiceObeys` | `LocationsAssumption`: the mark of no definition is not a location |
| | `BridgeHolds` | `BridgeFaithful` | `AttachAssumption`: types |
| `WebSupervisorProofs` | `NoneAstray` | `NoStrayChild` | `UnitsAssumption`: units and addresses are positive numbers, finitely many units |
| | `RegistryKept` | `RegistrySound` | |
| `ClientCommandsProofs` | `ExitsTrue` | `ExitTruthful` | `CommandsAssumption`: the commands are those of the table |

### SessionClientsProofs

`SoleLeader` and `SoleExclusiveWriter` are not inductive: that a new client does not
coincide with an attached one needs `FreshIds` (attached ids are below `nextId`), that
a handled frame belongs to an attached client needs `FrameOrder` (`todo` is attached,
and empty outside the frames step), and the exclusive flag must stay within the
clients. The invariant is `ClientsInv`, the conjunction of these with `TypeOK` and the
two properties. `LeaderKept` and `LockKept` are action properties from the same
invariant. `ReadersInv` adds that every overflow id is that of an admitted slow client,
so that the drop path without the cascade removes nobody else, and states
`LockHolderAttached` and `LeaderPresent` relative to that. `ViewsAgree` is inductive
beside `ReadersInv`; lemmas about what `LeaderNotify`, `ModeChange` and the cascade tell
each client (`LeaderNotifyAt`, `ModeChangeAt`, `CascadeSeenAt`) carry the three actions
that tell anything: an admission, a frame and a drop.
`SweepInv` follows a detach of others through the pass: from the frame on, any two
clients are one, or one of them is to be dropped.

The argument of the cascade (`CascadeSole` and the type lemmas) is stated once and
cited by both drop paths and by the takeover. `First` is a `CHOOSE` of a least
element; `FirstIn` shows that it is an element, from the well-foundedness of `<`.

`ExitInv` is about the child, under the names of `ChildLife`: the child has a status exactly when it is neither running nor stopped
(`HasStatus`); what is deferred is the status of the reaped child, and before the first
upgrade a child that is reaped while the daemon runs is one whose status is deferred
(`DeferredTrue`); an upgrade is counted before anything follows from it
(`UpgradeCounted`), so that the exception for upgrades covers its effects; and how the
loop was left fits what `serve` still has to do (`Ending`).

### SendQueueProofs

`QueueInv` has for each queue that its frames were accepted and the front one is not
written to its end (`QueueOK`), that there is at most one redraw and none while one is
owed, and `Within`: the counter plus the written part of the front frame is within the
largest frame or limit, the redraws and the notices that are queued, and, if the front
frame is a plain one, that part again. `Within` is what makes the bound inductive: a
partial write takes from the counter without taking the frame from the queue, and a
redraw or notice that is finished takes its share of the bound with it. `ClosingInv`
bounds the closing clients.

`StreamInv` says of each queue (`StreamOK`) that the frames in it are the last ones of
the log, that the log tells where each frame begins, and that the socket has the bytes
of the log up to the front frame and its written part; every portion of a write adds
bytes of the front frame alone, so each byte keeps the place the log gives it. The
sequences are never flattened: a byte is found by its position, which is what makes the
argument one about indices and not an induction over the frames.

`RecordInv` relates, for each record, the history, what was pushed to it, its queue and
its file. `SinkFine`: a record that has refused nothing has got every event it wants up
to now, except the one that is being pushed. `LogFine`: events are pushed in order and
after a refusal nothing but notices is accepted. `FileFine` and `QueueFine`: the lines
of the file followed by the queue are the accepted numbers, in order, unless the thread
is dead. `RecordLoopOK` ties the set of sinks to the step of the loop: without it a
refusal in one push could be followed by an event of the next one.

### RawInputProofs

Three invariants. `FrameInv` is the discipline of one frame: it is in its write, after
its write, or nothing is under way (`InWrite`, `AfterWrite`, `NoFrame`), and the effects
and results that are left are those of this phase. `HoleInv`: a client with
a frame that was not written to its end is `Doomed` - dropped, about to be, or with the
disconnect among the effects under way - so no further frame of it is taken, and
nothing of it is in the PTY after that frame. `PieceInv`: what a
command has in the PTY is contiguous, and at the end of it unless the command is
finished (`OnePiece`); a command that may still send or write holds the lock
(`Entitled`, `ProgramOK`); and a client in a write holds the lock or nobody does. `InvocationAtomic` needs all three.

`AccInv` is the book-keeping of the bytes. The PTY has bytes of frames with an answer
and the first `off` of the frame under way (`PtyOK`); the record has each byte of every
answered frame once, and of the frame under way the first `Noted`, which follows from
the effects that are left (`RecordOK`); the bytes recorded as input are those in the
PTY, in the same order (`MatchOK`); a command has at most one frame on its way, so the
answer it reads is that of its last frame (`CommandOK`). `FramesAccounted` needs two
feedback rounds: a frame is answered and recorded by effects of the second.

### SessionStartProofs

`StartInv` is `LocksInv`, `LegacyKept` and `ReportsInv`. `LocksInv` says who holds the
directory lock and the lock file in each phase, that a held lock file is the one at
the path, so that no two processes hold one (`OneLock`), and that the socket of a
daemon with its lock stays its own (`SockPhases`). `OneLock` is the heart: it fails if a
lock file is removed by anybody but its holder, and all steps that remove one are
checked against it. `LegacyKept` says what remains true beside a daemon without lock
files as long as nothing is killed; `ReportsInv` what the starter may conclude from the
pipe, its end and its knock. `NameOwnership` maps each action to taking the name,
giving it up, telling that one is ready, or a stutter, with `StartInv` before and after
the step.

`ChoiceInv` is about `SessionTarget`. `WorldOK`: sessions that were ever up have
different mtimes, and a session that stayed up through the command keeps its own.
`ScanOK`: what a scan found was up, with its mtime or, if its socket file went in
between, none, and it has passed over no session that stayed. `LoopOK` carries that
through `kill --all` and `list`. `RankOK` is what an index means although the scan is
not atomic: the sessions that stayed and sort before the target are fewer than the
index, and at most those that were ever older, or have ended, come before it. The step
that picks the target counts positions in the sorted list; three lemmas compare it with
those two sets. That a session's own is never attached is `SelfOK`.

### AttachClientProofs

`ControlInv` follows the terminal through both threads: one that is not raw has a
thread that will make it so, or was restored at the end (`Restored`); from the reset to
the end, or to the next frame, the modes of the child are not set (`ModesReset`); and
without a foreign SIGTSTP the signal thread does not take part in a suspension
(`Undisturbed`). `SizeInv`
is about what is on the way: the notifications of leadership in the socket alternate
and the last one is the role the daemon gave (`Alternates`, `Tells`); and while the
client leads, a SIGWINCH, a notification or the terminal's size is on its way, or the
PTY has that size (`Sized`). That each notification is a change is needed: the client
sends its size when it becomes leader.

### WebAdminProofs

`AuthInv`: a live registration counts all attempts and has one left
(`RegistrationInv`), and an assert challenge is in one place - live in the file, taken
by one request, or behind one family (`ChallengeInv`). The minting of a family is
two updates of two files; the challenge is taken in the first.

`BridgeInv` says where each message of the browser is. The keys are those the daemon
has, then those of the one frame or batch on its way, then those in the channel
(`BytesOK`, `KeysAre`, by positions); the numbers of answers, waiting controls and
commands in the channel ascend in this order (`RequestsOK`); while a resize is awaited
its query is behind it and its status behind its error, and otherwise no answer is on
its way, unless an exchange failed before (`AwaitedOK`, `ExchangeOK`: an answer is told
apart by its place alone); and the last notification among those on their way is the
leader, or the browser is shown it already (`NotifiedOK`).

`ServiceInv`: a command in progress has a rest of its plan to do (`CommandOK`, with
one lemma per plan); on launchd a loaded job is that of the file and enabled unless
launchd refused to let it go, and a file is written or removed only without a job
(`LaunchdOK`); on systemd each step of a register finds what the steps before it left
(`SystemdOK`); after a stop that was complete the label stays disabled and down, and
what a successful register left is not undone by the manager (`ReportOK`).

### WebSupervisorProofs

`ChildrenInv`: types, `NoStrayChild`, and every exit in the channel is that of a dead
process (`ExitsTrue`), so that burying it does not lose a live one. A handler works on
one unit at a time; `Kept` states what every handler makes of a unit, and the nested
requests of a restart, however deep, are each one such step. `RegistryInv` adds to
`RegistrySound` that an add past its checks holds the lock and that what it checked is
still so (`AddGuarded`).

### ClientCommandsProofs

`ExitTruthful` speaks of what the daemon did and a command knows what it read, so
`CommandInv` says what each message on its way tells. `HeardOK`: every message in `rx`
is `Backed` by an effect that has happened, and stays so, because effects are only
added (`Grows`). `SentOK`: what is asked is what the row asks, and a record that is to be
stopped was the only one in a list the daemon sent (`Justified`). `OrderOK`: the end of
the connection comes last, right behind an exit. Two commands conclude more than a
message says and have a part of their own: the status behind a resize tells that the
resize was handled, or an error comes before it (`ResizeOK`), and an end of the
connection that `upgrade` takes for the exec was not that of the session (`UpgradeOK`).
`DaemonOK` is what `kill --wait` rests on: the socket file goes only with a daemon that
saw its child end or failed to upgrade. The table of commands is read once, row by row
(`RowFine`); after that the steps of a command and of the daemon are each one lemma.

### Only model-checked

- Liveness (`SessionEnds`, `StopFollowed`, `QueuesDrain`, `LockReturned`,
  `ServeNotHeldUp`, `LeftoverPruned`, `ChildWoken`, `CommandsEnd`, `AttachEnds`,
  `RevokedSocketsClose`, `RequestsEnd`, `StoppedStays`): the prover has no fairness.
- Induction over data: what recursive definitions and folds compute (`ChunksInvisible`,
  `ShownTrue`, `HelpFollowed`, `CompletionFollowed`, and in `KeysArrive` the key decoder
  and the guard that folds its tokens). The library's induction theorems take an
  operator as a parameter, which none of the installed provers instantiates.

Where the provers read a definition badly, the definition was rewritten with the same
meaning: the two arms of the probe on SIGCONT exclude each other, `RawInput` names a
frame under way instead of comparing records, and the steps of a service command are
names without spaces.

## 5. Deviations and limits seen while modelling

Two of these have a run of their own, in which TLC finds the disagreement. Each of the
others is named in, or excepted from, the property it would break, so the property
fails if the exception is taken out; or it is a limit of what the code promises. Line
numbers are those of the source.

Serve loop, child, queues, input, records:

- `daemon/session.rs:1864`: the poll-timeout arm removes overflowed clients without
  the Lock reducer and without the leader cascade, although `lock.rs:239` promises the
  release (excepted in `LockHolderAttached` and `LeaderPresent` through `Slow`).
- `daemon/control.rs:834`: overflow ids of lock, leader and cascade broadcasts are
  thrown away; the client is told that it is disconnected and stays.
- `accept.rs:68` calls the client limit a limit of established clients; it is
  checked at accept, so `MaxClients + MaxPending - 1` can be attached.
- `session.rs:1496`: an aborted upgrade re-enters the loop with a fresh lock state
  while the holder is attached; the clients are not told (`ViewsAgree`).
- `session.rs:1571`: an upgrade in the exit drain window loses the reaped exit
  status; `upgrade.rs:354`: the new process does not know that its child is stopped
  (`Upgraded` in the properties of `SessionChild`).
- `session.rs:1064`: the probe on SIGCONT reaps an exit and drops it (`lost`).
- `session.rs:2410`: a kill or SIGTERM in the drain window reports 143.
- `session.rs:1832`: with descriptors that are always ready the timeout arm never
  runs (`StopFollowed` fails under `Spec` instead of `SpecIdle`).
- `record.rs:737`, `record.rs:398`: the serve loop joins the thread of an aborted or
  stopped record without a limit, and the thread may be in a write to a disk that does
  not answer. DR-0016 (line 332) says that this accident is prevented by construction
  (run `RecordHold`; excepted in `ServeNotHeldUp` through `JoinsTheDisk`). Opening the
  file of a record happens in the serve loop as well.
- `control.rs:125`: a raw frame that meets a pending upgrade is answered by an error
  and no RawAck, although `raw_ack.rs:9` says one for one.
- `hyoui input --lock-token` skips the acquire, but the daemon compares client ids,
  so such input is refused while the outer command holds the lock (DR-0022 section 3).
- `Session::drop` (`session.rs:938`) is not reached in the daemon process.

Streams, ring, screen:

- After an upgrade the chunks of the ring have lost their times and `last_evicted`.
- `tail --follow --strip-ansi` strips each chunk by itself; `StripAnsiCarry` withholds
  text after a stray ESC inside OSC or DCS; `normalize_lf` and `normalize_crlf` have no
  caller.
- `screen/state.rs:241`: "replay 中に `?2026h` を踏めば再度 detect される" (a begin met in
  the replay is detected again) - the replay goes to the emulator only and the flag is
  cleared after it, so a resize inside a synchronized update forgets it until the
  next begin (`forgot`). It clears the carry as well.
- A redraw sent while a control sequence is cut by a read: that client shows the rest
  as text. A redraw draws only the buffer that is shown. A resize in the alternate
  buffer drops its content and the primary's, and one that cuts a sequence there may
  leave the daemon in the wrong buffer (`lost`). Other clients get no redraw after a
  resize. A redraw stays deferred if the child never ends its update; the redraw after
  a resume does not wait for it.
- `screen dump --rect` is sent and ignored (`control.rs:1370`).

Starting and ending:

- `hyoui list` during the linger of two seconds uses up `linger_for_late_attach`
  (`session.rs:891`). The attach of `hyoui run` reaches whichever daemon has the name
  by then. A failed resume leaves socket and lock file until a list prunes them. A start that is killed
  beside a daemon without lock files leaves a lock file that makes a list take that
  daemon for dead (`socket.rs:210`; the exception `crashes = 0` in `NameHeld`).
- `upgrade.rs:185` writes the state file through a BufWriter that is not flushed
  explicitly. `daemonize.rs:127`: the ready pipe is inherited by the child.

Attach client:

- A SIGTSTP from outside together with Ctrl+Z stops the client in raw mode (the
  exception `tstps = 0`). A resize while the client is stopped is missed (`missed`). A client that becomes read-write does not
  wake a stopped child. `OUTER_TTY_RESET` is not sent on some ends. The menu drops
  bytes the decoder held. A pending key polls every millisecond.

Commands:

- `upgrade` waits without a deadline after an exec that failed (`main.rs:2700`), and
  prints OK for any end of the connection. A plain `kill` takes the end of the
  connection for success; `kill --no-terminate` counts a broadcast as its answer;
  `unlock` exits 0 because of another's release; `screen --timeout` is ignored
  (`main.rs:3373`, `3534`); `tail` ignores an Error; `POST resume` answers 204 when the
  request was sent.
- An index is resolved anew by each command. A socket that vanishes between probe
  and mtime sorts first (`main.rs:862`). `kill --all` blocks on a hung daemon and counts
  a session that ended by itself as a failure. `attach --socket` to the session it runs
  in is not refused for an old id (`main.rs:2391`). A hung daemon with a full backlog is
  skipped.

Command line:

- `completion.rs:1224`, `:1232`: fish offers the values of `list --format` and `kill
  --wait` as separate words, where the parser wants `=`; the test that feeds the offered
  flags to the parser writes `--flag=value` only (run `FishValues`). Examples in the help that do not parse: `hyoui record start
  my-session ...`, `hyoui kill -- -dash-id`, `hyoui attach 1`, `hyoui kill 1`. `--socket`
  together with an id or `--index` is accepted. `wait <uuid>` inside a session is taken
  for a pattern. kill, attach and run look for values greedily. The comment of
  `parse_record_start` names redact-after-prompt as the default; it is record-all.

Web:

- `ws_attach.rs:635`: a LeaderNotify that arrives while a resize is awaited is
  swallowed; `:633`: a late StatusResponse answers the next resize; `:386`, `:401`: output
  put aside during the wait for an acknowledgement is not polled for; bytes and
  controls of one batch are reordered; output that was held back in a resize or leader
  exchange that fails is lost (`:539`, `:618`); input queued before the authentication was lost
  is still sent.
- `auth/routes.rs:423-528`: two requests with one registration challenge may both pass
  the checks and mint a family before one of them consumes it, and a crash between the
  minting and line 528 leaves it unspent; DR-0036 (line 174) wants each challenge
  consumed once.
- `auth/routes.rs:640`: a client that leaves while its refresh is written keeps the
  gateway from closing the sockets of the reused family, although DR-0036 (line 188) has
  them closed at once. The sockets of another unit's gateway are not told in any case.
- Removing a passkey or a session from the command line does not reach open sockets
  (up to four hours). An expired refresh token presented as current is rotated first.
- launchd: a failed bootout is ignored; an unregister whose removal fails re-enables
  the label. systemd: a register after a failed install reports "unchanged". A failed
  disable after a stop is ignored. Two service commands at once are not modelled.
- `probe.rs:33`, called from `supervisor.rs:713-762`: `--version` is awaited without a
  limit on the only thread of the supervisor; a binary that hangs there blocks all
  requests and SIGTERM (`pc = "hung"` in `RequestsEnd` and `StoppedStays`).
  `mod.rs:907`: a supervisor that starts between the stop and the erasing of a remove
  is not asked to reload and keeps the unit.
- `supervisor.rs:293`: a start while the unit is stopping is lost; `mod.rs:874`: restart
  --all revives a unit that was removed meanwhile; `supervisor.rs:378`: a stop may
  signal a pid that was reaped; `:829`: a log follower that does not read;
  `:945`: two supervisors that start together.

## 6. Not modelled

- The terminal emulator (vt100) beyond lines, buffers and wide cells; drawing of
  menus; all formatting, wording and logging.
- Paths, configuration files, the environment of the child, names of keys: data
  without state.
- The safe wrappers of the system layer, CBOR encoding (serde), cryptography,
  static assets, the JSON contract and the router of the gateway.
- Two arms of `finish_write` that descriptor I/O does not reach (an error of
  `write_all` itself, a short write without an error). Spawning the child is one step.
- Did-you-mean suggestions and the arithmetic of durations and sizes.

## 7. Plan

All components of the inventory that keep state are modelled, and the safety invariants
that do not rest on an induction over data are proved.
