----------------------------- MODULE ScreenState -----------------------------
(***************************************************************************)
(* The daemon's own terminal (daemon/screen): it reads what the child      *)
(* writes, in chunks, so that a client that attaches can be sent a redraw. *)
(* Beside the emulator (vt100, external) it keeps the flag of synchronized *)
(* updates and a log of the output, replayed into a new emulator on a      *)
(* resize.  A client's terminal is the same emulator, fed with the redraw  *)
(* and the chunks that follow.                                             *)
(*                                                                         *)
(* A printed character is a line; a control sequence is ESC and one byte   *)
(* that says which: it may be cut between two chunks.                      *)
(***************************************************************************)
EXTENDS Naturals, Sequences, SequencesExt

CONSTANTS
  Viewers,   \* clients
  Sizes,     \* numbers of rows
  Capacity,  \* capacity of the input log
  MaxChunk,  \* bound: bytes of one read
  MaxMade,   \* bound: bytes of output
  MaxResizes \* bound: resizes

VARIABLES
  child,     \* what the output means to the child: in a sequence, buffer, synchronized
  made,      \* bytes of output
  parser,    \* vt100::Parser
  sync,      \* sync_in_progress
  carry,     \* sync_scan_carry
  input_log,
  pass,      \* serve loop: "accept" clients, or "serve" frames and the child
  st,        \* clients: "new", "here", "gone"
  pending,   \* pending_redraws
  view,      \* their terminals
  agree,     \* what a client's terminal has been told of: "no", "alt", "all"
  forgot,    \* a resize dropped an update, or part of its sequence
  lost,      \* a resize cut a sequence while the alternate buffer was shown
  resizes

emulator == <<parser, sync, carry, input_log>>
viewers == <<st, pending, view, agree>>
vars == <<child, made, emulator, pass, viewers, forgot, lost, resizes>>

ESC == 0
SyncOn == 1
SyncOff == 2
AltOn == 3
AltOff == 4
Text == 5
Own == 6     \* what a client's terminal shows before it attaches

\* The last n elements.
Newest(s, n) == SubSeq(s, IF Len(s) > n THEN Len(s) - n + 1 ELSE 1, Len(s))

-----------------------------------------------------------------------------
(* The emulator: vt100 in the daemon, the terminal of a client.            *)

New(rows) == [rows |-> rows, esc |-> FALSE, alt |-> FALSE, primary |-> <<>>, other |-> <<>>]

Printed(t, b) ==
  IF t.alt THEN [t EXCEPT !.other = Newest(Append(@, b), t.rows)]
  ELSE [t EXCEPT !.primary = Newest(Append(@, b), t.rows)]

\* The alternate buffer is cleared when it is entered.
Feed(t, b) ==
  CASE b = ESC -> [t EXCEPT !.esc = TRUE]
    [] t.esc /\ b = AltOn -> [t EXCEPT !.esc = FALSE, !.alt = TRUE, !.other = <<>>]
    [] t.esc /\ b = AltOff -> [t EXCEPT !.esc = FALSE, !.alt = FALSE]
    [] t.esc -> [t EXCEPT !.esc = FALSE]
    [] OTHER -> Printed(t, b)

Process(t, bytes) == FoldLeft(Feed, t, bytes)

Lines(t) == IF t.alt THEN t.other ELSE t.primary

\* Lines enough for all the child prints.
Home == [New(MaxMade + 2) EXCEPT !.primary = <<Own>>]

-----------------------------------------------------------------------------
Init ==
  /\ child = [esc |-> FALSE, alt |-> FALSE, sync |-> FALSE] /\ made = 0
  /\ parser \in {New(rows) : rows \in Sizes}
  /\ sync = FALSE /\ carry = <<>> /\ input_log = <<>>
  /\ pass = "accept"
  /\ st = [c \in Viewers |-> "new"] /\ pending = {}
  /\ view = [c \in Viewers |-> Home] /\ agree = [c \in Viewers |-> "no"]
  /\ forgot = FALSE /\ lost = FALSE /\ resizes = 0

\* visible_state_is_pristine: nothing printed and the primary buffer shown.
Pristine == ~parser.alt /\ parser.primary = <<>>

\* build_attach_redraw on a client's terminal: the buffer mode and what
\* state_formatted draws of the buffer shown; nothing of a pristine screen.
Redrawn(v) ==
  IF Pristine THEN v
  ELSE IF parser.alt THEN [v EXCEPT !.esc = FALSE, !.alt = TRUE, !.other = parser.other]
  ELSE [v EXCEPT !.esc = FALSE, !.alt = FALSE, !.primary = parser.primary]

\* After a redraw in the middle of a sequence the rest of it is taken for text;
\* a redraw does not draw the buffer that is not shown.
Told(before) ==
  IF child.esc THEN "no" ELSE IF Pristine THEN before ELSE IF parser.alt THEN "alt" ELSE "all"

\* process_pending_handshakes: the redraw of a client that comes in during a
\* synchronized update is deferred.
Attach(c) ==
  /\ pass = "accept" /\ st[c] = "new"
  /\ st' = [st EXCEPT ![c] = "here"]
  /\ IF sync
     THEN pending' = pending \cup {c} /\ UNCHANGED <<view, agree>>
     ELSE /\ view' = [view EXCEPT ![c] = Redrawn(@)]
          /\ agree' = [agree EXCEPT ![c] = Told("all")]
          /\ UNCHANGED pending
  /\ UNCHANGED <<child, made, emulator, pass, forgot, lost, resizes>>

\* flush_pending_redraws_if_sync_over, once in a pass.  (A client that was
\* deferred has seen output: a pristine screen leaves it as it is.)
Flush ==
  /\ pass = "accept" /\ pass' = "serve"
  /\ LET due == IF sync THEN {} ELSE pending
     IN /\ view' = [c \in Viewers |-> IF c \in due THEN Redrawn(view[c]) ELSE view[c]]
        /\ agree' = [c \in Viewers |-> IF c \in due THEN Told("no") ELSE agree[c]]
        /\ pending' = pending \ due
  /\ UNCHANGED <<child, made, emulator, st, forgot, lost, resizes>>

Detach(c) ==
  /\ pass = "serve" /\ st[c] = "here"
  /\ st' = [st EXCEPT ![c] = "gone"] /\ pending' = pending \ {c}
  /\ UNCHANGED <<child, made, emulator, pass, view, agree, forgot, lost, resizes>>

\* session.child.resume.request sends a redraw, also during an update.
Resume(c) ==
  /\ pass = "serve" /\ st[c] = "here"
  /\ view' = [view EXCEPT ![c] = Redrawn(@)]
  /\ agree' = [agree EXCEPT ![c] = Told(@)]
  /\ UNCHANGED <<child, made, emulator, pass, st, pending, forgot, lost, resizes>>

-----------------------------------------------------------------------------
(* Output.                                                                 *)

\* The child writes whole sequences; a read may cut one.
Chunks(esc) ==
  {s \in UNION {[1..n -> {ESC, SyncOn, SyncOff, AltOn, AltOff, Text}] : n \in 1..MaxChunk} :
     \A i \in DOMAIN s :
       (IF i = 1 THEN esc ELSE s[i - 1] = ESC) <=> s[i] \in {SyncOn, SyncOff, AltOn, AltOff}}
FreshChunks == Chunks(FALSE)
CutChunks == Chunks(TRUE)

\* No two lines are the same.
Numbered(s) == [i \in DOMAIN s |-> IF s[i] = Text THEN Own + made + i ELSE s[i]]

Meant(k, b) ==
  [esc |-> b = ESC,
   alt |-> b = AltOn \/ (k.alt /\ b # AltOff),
   sync |-> b = SyncOn \/ (k.sync /\ b # SyncOff)]

\* find_last_subseq: where the last ESC b begins; 0 if there is none.
LastIndexOf(s, b) ==
  LET at == {i \in 1..(Len(s) - 1) : s[i] = ESC /\ s[i + 1] = b}
  IN IF at = {} THEN 0 ELSE CHOOSE i \in at : \A j \in at : j <= i

\* update_sync_flag_with_carry: the carry is one byte shorter than a sequence.
Scanned(bytes) == carry \o bytes
SyncSeen(bytes) == LastIndexOf(Scanned(bytes), SyncOn) > LastIndexOf(Scanned(bytes), SyncOff)
SyncAfter(bytes) ==
  IF LastIndexOf(Scanned(bytes), SyncOn) = LastIndexOf(Scanned(bytes), SyncOff) THEN sync
  ELSE SyncSeen(bytes)

\* Mutant of Logged: the buffer of before the chunk decides.
LoggedBeforeMutant(bytes) == IF parser.alt THEN input_log ELSE Newest(input_log \o bytes, Capacity)

\* InputLog::push, after set_alt_mode: only what ends in the primary buffer.
Logged(bytes) ==
  IF Process(parser, bytes).alt THEN input_log ELSE Newest(input_log \o bytes, Capacity)

\* A read of the child's terminal: ScreenState::process, then every client gets
\* the bytes.
Output(bytes) ==
  /\ pass = "serve" /\ pass' = "accept"
  /\ made + Len(bytes) <= MaxMade /\ made' = made + Len(bytes)
  /\ child' = FoldLeft(Meant, child, bytes)
  /\ parser' = Process(parser, bytes)
  /\ sync' = SyncAfter(bytes)
  /\ carry' = Newest(Scanned(bytes), 1)
  /\ input_log' = Logged(bytes)
  /\ view' = [c \in Viewers |-> IF st[c] = "here" THEN Process(view[c], bytes) ELSE view[c]]
  /\ forgot' = (forgot /\ SyncAfter(bytes) # child'.sync)
  /\ lost' = (lost /\ parser'.alt # child'.alt)
  /\ UNCHANGED <<st, pending, agree, resizes>>

\* A pass without output of the child.
Quiet ==
  /\ pass = "serve" /\ pass' = "accept"
  /\ UNCHANGED <<child, made, emulator, viewers, forgot, lost, resizes>>

\* handle_resize, ScreenState::resize: a new emulator reads the log; of an
\* alternate buffer only the mode is kept.
Resize(rows) ==
  /\ pass = "serve" /\ resizes < MaxResizes
  /\ resizes' = resizes + 1
  /\ parser' = IF parser.alt THEN [New(rows) EXCEPT !.alt = TRUE]
               ELSE Process(New(rows), input_log)
  /\ sync' = FALSE /\ carry' = <<>>
  /\ forgot' = (child.sync \/ child.esc)
  /\ lost' = (lost \/ (parser.alt /\ child.esc))
  /\ agree' = [c \in Viewers |-> "no"]
  /\ UNCHANGED <<child, made, input_log, pass, st, pending, view>>

-----------------------------------------------------------------------------
Next ==
  \/ Flush \/ Quiet
  \/ \E c \in Viewers : Attach(c) \/ Detach(c) \/ Resume(c)
  \/ \E s \in IF child.esc THEN CutChunks ELSE FreshChunks : Output(Numbered(s))
  \/ \E rows \in Sizes : Resize(rows)

Spec == Init /\ [][Next]_vars

-----------------------------------------------------------------------------
(* Properties.                                                             *)

\* However the output is cut, the flag says whether the child is inside a
\* synchronized update, unless a resize came in one.
SyncTracked == ~forgot => sync = child.sync

\* The daemon shows the buffer that the child writes to, whatever a resize
\* replays of a log that has lost its beginning and skips the alternate buffer.
BufferAgrees == ~lost => parser.alt = child.alt

\* A redraw and the output after it give a client the daemon's screen, until
\* there is a resize; a redraw of the alternate buffer until the child leaves it.
ClientsAgree ==
  \A c \in Viewers :
    st[c] = "here" /\ (agree[c] = "all" \/ (agree[c] = "alt" /\ parser.alt)) =>
      /\ view[c].alt = parser.alt
      /\ IsSuffix(Lines(parser), Lines(view[c]))

\* The daemon's screen follows the child, and the clients' screens follow it.
ScreenFollows == SyncTracked /\ BufferAgrees /\ ClientsAgree

=============================================================================
