----------------------------- MODULE Scrollback -----------------------------
(***************************************************************************)
(* The ring of output chunks (scrollback.rs) and the tail requests served  *)
(* from it (daemon/tail.rs): a snapshot by time or size, then the output   *)
(* as it comes.  The output of the child is the numbers 1, 2, ...          *)
(***************************************************************************)
EXTENDS Naturals, Sequences, FiniteSets, SequencesExt

CONSTANTS
  Clients,
  MaxBytes,     \* capacity of the ring
  MaxChunk,     \* bound: bytes of one read of the child's terminal
  MaxOutput,    \* bound: bytes of output
  MaxTime,      \* bound: ticks of the clock
  Lasts         \* values of last_bytes

VARIABLES
  now,
  output,       \* [1 .. n -> time]: when each byte was read
  chunks,       \* sequence of [ts, bytes]
  last_evicted, \* [is, ts]
  tail,         \* [Clients -> [sub, got, ask, at, from, exec, end]]; at, from, exec: when it asked
  execs,        \* upgrades done
  over          \* the daemon has left its loop

vars == <<now, output, chunks, last_evicted, tail, execs, over>>

Never == [is |-> FALSE, ts |-> 0]

Bytes(cs) == FlattenSeq([i \in DOMAIN cs |-> cs[i].bytes])

Total(cs) == Len(Bytes(cs))

LastN(s, n) == SubSeq(s, IF Len(s) > n THEN Len(s) - n + 1 ELSE 1, Len(s))

\* tail.request: since (MaxTime + 1: not given), since_strict, last_bytes (MaxOutput: not given).
Asks == {a \in [since : 0 .. MaxTime + 1, strict : BOOLEAN, last : Lasts] :
           a.strict => a.since <= MaxTime}

Init ==
  /\ now = 0 /\ output = <<>> /\ chunks = <<>> /\ last_evicted = Never
  /\ tail = [c \in Clients |-> [sub |-> "raw", got |-> <<>>, ask |-> <<>>, at |-> 0, from |-> 0, exec |-> 0,
                             end |-> "none"]]
  /\ execs = 0 /\ over = FALSE

-----------------------------------------------------------------------------
\* push: whole chunks are evicted from the front until the rest fits, the new one too.
Kept(cs) ==
  LET fits == {i \in 1 .. Len(cs) + 1 : Total(SubSeq(cs, i, Len(cs))) <= MaxBytes}
  IN SubSeq(cs, CHOOSE i \in fits : \A j \in fits : i <= j, Len(cs))

Push(chunk) ==
  LET all == Append(chunks, chunk)
      evicted == Len(all) - Len(Kept(all))
  IN /\ chunks' = Kept(all)
     /\ last_evicted' = IF evicted > 0 THEN [is |-> TRUE, ts |-> all[evicted].ts] ELSE last_evicted

\* A read of the master: into the ring, then to every follower.
Output(n) ==
  /\ ~over /\ Len(output) + n <= MaxOutput
  /\ LET bytes == [i \in 1 .. n |-> Len(output) + i] IN
       /\ output' = output \o [i \in 1 .. n |-> now]
       /\ Push([ts |-> now, bytes |-> bytes])
       /\ tail' = [c \in Clients |-> IF tail[c].sub = "follow"
                                     THEN [tail[c] EXCEPT !.got = @ \o bytes] ELSE tail[c]]
  /\ UNCHANGED <<now, execs, over>>

Tick == now < MaxTime /\ now' = now + 1 /\ UNCHANGED <<output, chunks, last_evicted, tail, execs, over>>

\* since: the chunks read at or after the start of the range.
Since(dur) ==
  Bytes(SelectSeq(chunks, LAMBDA c : c.ts + dur >= now))

\* since_strict fails when something evicted was in the range.
Truncated(a) == a.strict /\ last_evicted.is /\ last_evicted.ts + a.since >= now

\* last_n_bytes, or since and then its last bytes.
Snapshot(a) == LastN(IF a.since <= MaxTime THEN Since(a.since) ELSE Bytes(chunks), a.last)

\* handle_tail_request; a client asks once.
TailRequest(c, a, follow) ==
  /\ ~over /\ tail[c].end = "none" /\ tail[c].sub = "raw"
  /\ tail' = [tail EXCEPT ![c] =
       IF Truncated(a) THEN [@ EXCEPT !.end = "truncated"]
       ELSE [sub |-> IF follow THEN "follow" ELSE "raw", got |-> Snapshot(a), ask |-> <<a>>,
             at |-> now, from |-> Len(output), exec |-> execs, end |-> IF follow THEN "none" ELSE "eof"]]
  /\ UNCHANGED <<now, output, chunks, last_evicted, execs, over>>

\* The end of the session: followers are told; after an error they are not.
Finish(reason) ==
  /\ ~over /\ over' = TRUE
  /\ tail' = IF reason = "error" THEN tail
             ELSE [c \in Clients |-> IF tail[c].sub = "follow" THEN [tail[c] EXCEPT !.end = reason] ELSE tail[c]]
  /\ UNCHANGED <<now, output, chunks, last_evicted, execs>>

\* read_and_consume_state_file: what was saved, or nothing if the file cannot be
\* read, does not decode or has another format version.
Restored(saved) == {saved, <<>>}

\* An upgrade: the new process pushes the saved bytes as one chunk; every client is gone.
Upgrade ==
  /\ ~over /\ execs = 0 /\ execs' = 1
  /\ \E bytes \in Restored(Bytes(chunks)) :
       chunks' = IF bytes = <<>> THEN <<>> ELSE <<[ts |-> now, bytes |-> bytes]>>
  /\ last_evicted' = Never
  /\ tail' = [c \in Clients |-> IF tail[c].sub = "follow" THEN [tail[c] EXCEPT !.sub = "cut"] ELSE tail[c]]
  /\ UNCHANGED <<now, output, over>>

Next ==
  \/ \E n \in 1 .. MaxChunk : Output(n)
  \/ Tick
  \/ \E c \in Clients, a \in Asks, follow \in BOOLEAN : TailRequest(c, a, follow)
  \/ \E reason \in {"child exited", "cancelled", "error"} : Finish(reason)
  \/ Upgrade

-----------------------------------------------------------------------------
(* Properties.                                                             *)

\* What a tail client gets has no gap and no duplicate: its snapshot is the end of
\* the output at the moment of the request and, with --follow, goes on with the
\* next byte, although the ring evicts and the clock runs in between.  The snapshot
\* holds nothing from before the time it asked for, at most the bytes it asked for,
\* and with --since-strict all of them (the chunks of an upgraded daemon have lost
\* their times, so that --since is only exact before an upgrade).
TailExact ==
  \A c \in Clients : tail[c].ask # <<>> =>
    LET t == tail[c]
        a == t.ask[1]
        snapshot == SubSeq(t.got, 1, Len(t.got) - (IF t.sub = "follow" THEN Len(output) - t.from ELSE 0))
        inRange == {b \in 1 .. t.from : a.since > MaxTime \/ output[b] + a.since >= t.at}
        want == IF Cardinality(inRange) > a.last THEN a.last ELSE Cardinality(inRange)
    IN t.sub # "cut" =>
         /\ Len(t.got) > 0 =>
              t.got = [i \in 1 .. Len(t.got) |-> t.got[1] + i - 1]
         /\ snapshot # <<>> => snapshot[Len(snapshot)] = t.from
         /\ t.sub = "follow" /\ Len(output) > t.from => t.got[Len(t.got)] = Len(output)
         /\ Len(snapshot) <= a.last
         /\ t.exec = 0 => Len(snapshot) <= want /\ (a.strict => Len(snapshot) = want)

=============================================================================
