----------------------------- MODULE MCClients -----------------------------
(***************************************************************************)
(* What the clients of a session are told, in one run: who leads, who has  *)
(* the lock and who is attached at all (SessionClients), the ring that     *)
(* tail reads (Scrollback), the screen that an attach is drawn from        *)
(* (ScreenState), the text that dump and wait read off it (ScreenText) and *)
(* the readers that get a stream in chunks (ByteStreams).  They share no   *)
(* state, so Init chooses which of them moves.                             *)
(***************************************************************************)
EXTENDS SessionClients, Sequences

CONSTANTS
  Readers, HeaderLen, Base, MaxFrameSize, MaxCarry,
  Clients, MaxBytes, MaxChunk, MaxOutput, MaxTime, Lasts,
  Viewers, Sizes, LogCapacity, MaxRead, MaxMade, MaxResizes,
  Cols, Rows, ScrollbackLen

VARIABLES
  part, reader, needle, sent, buf, pos, out, ended, dropped,
  now, output, chunks, last_evicted, tail, execs, over,
  child, made, parser, sync, carry, input_log, mirror, st, pent, view, agree, forgot, lost, resizes,
  grid, scroll

streamVars == <<reader, needle, sent, buf, pos, out, ended, dropped>>
tailVars == <<now, output, chunks, last_evicted, tail, execs, over>>
screenVars == <<child, made, parser, sync, carry, input_log, mirror, st, pent, view, agree, forgot,
                lost, resizes>>
textVars == <<grid, scroll>>

MaxStream == [frames |-> 7, until |-> 6, strip |-> 5]
Needles == {<<>>, <<"a">>, <<"a", "b">>, <<"a", "a", "b">>}

Streams == INSTANCE ByteStreams
Ring == INSTANCE Scrollback
Screen == INSTANCE ScreenState
            WITH Capacity <- LogCapacity, MaxChunk <- MaxRead, pass <- mirror, pending <- pent
Text == INSTANCE ScreenText

\* The parts that do not move keep one of their initial states.
MCInit ==
  /\ Init /\ Streams!Init /\ Ring!Init /\ Screen!Init /\ Text!Init
  /\ part \in {"clients", "stream", "tail", "screen", "text"}
  /\ part # "stream" => reader = "frames"
  /\ part # "screen" => parser.rows = 1

MCNext ==
  /\ UNCHANGED part
  /\ \/ part = "clients" /\ Next /\ UNCHANGED <<streamVars, tailVars, screenVars, textVars>>
     \/ part = "stream" /\ Streams!Next /\ UNCHANGED <<vars, tailVars, screenVars, textVars>>
     \/ part = "tail" /\ Ring!Next /\ UNCHANGED <<vars, streamVars, screenVars, textVars>>
     \/ part = "screen" /\ Screen!Next /\ UNCHANGED <<vars, streamVars, tailVars, textVars>>
     \/ part = "text" /\ Text!Next /\ UNCHANGED <<vars, streamVars, tailVars, screenVars>>

MCSpec == MCInit /\ [][MCNext]_<<part, vars, streamVars, tailVars, screenVars, textVars>>

\* ByteStreams!ChunksInvisible: no reader's result depends on how its stream is cut.
ChunksInvisible == part = "stream" => Streams!ChunksInvisible

\* What is shown of the past is what the child wrote: a tail client gets what it
\* asked for, without gap or duplicate (Scrollback!TailExact), the daemon's
\* screen follows the child and the clients' follow it (ScreenState!ScreenFollows),
\* and what dump prints and wait matches is the text on it (ScreenText!TextsAgree).
ShownTrue ==
  /\ part = "tail" => Ring!TailExact
  /\ part = "screen" => Screen!ScreenFollows
  /\ part = "text" => Text!TextsAgree

=============================================================================
