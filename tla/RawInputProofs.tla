--------------------------- MODULE RawInputProofs ---------------------------
(***************************************************************************)
(* Proofs about RawInput, for any number of clients in any roles, frames   *)
(* of any size and a PTY of any size: the input of a command reaches the   *)
(* child in one piece and without a hole, and what the commands are        *)
(* answered and the records hold is what the PTY took.                     *)
(***************************************************************************)
EXTENDS RawInput, TLAPS

-----------------------------------------------------------------------------
(* The pass of the serve loop and the effects of a frame.                  *)

Cmds == {"start", "locking", "denied", "ready", "waiting", "typing", "done", "failed"}
Msgs == {"acquire", "raw", "release", "eof"}
Answers == {"acquired", "denied", "error", "ok", "err"}
Outcomes == {"written", "timeout", "io"}
Kinds == {"in", "unwritten", "rejected", "ok", "err", "error", "disconnect"}
Effects == [seq : Nat \ {0}, kind : Kinds]
Results == [seq : Nat \ {0}, outcome : {"ok", "failed"}]
Octets == Clients \X Nat \X Nat

Has(s, m) == \E i \in DOMAIN s : s[i] = m
HasKind(s, m) == \E i \in DOMAIN s : s[i].kind = m

RawTypeOK ==
  /\ cmd \in [Clients -> Cmds]
  /\ inbox \in [Clients -> Seq(Msgs)]
  /\ outbox \in [Clients -> Seq(Answers)]
  /\ holder \in Clients \cup {NoClient}
  /\ off \in 0..FrameSize
  /\ pty \in Seq(Octets) /\ record \in Seq(Kinds \X Octets)
  /\ \A c \in Clients : Len(answers[c]) \in Nat
  /\ DOMAIN answers = Clients

\* One frame of each client is taken in a pass, and a client is dropped after its frame.
PassOK ==
  /\ attached \subseteq Clients /\ todo \subseteq attached /\ todrop \cap todo = {}
  /\ \A c \in todo : inbox[c] # <<>>
  /\ todo # {} => pc \in {"frames", "execute"}
  /\ pc = "pass" => todrop = {}
  /\ cur = NoClient <=> pc # "execute"
  /\ cur # NoClient => cur \in attached \ (todo \cup todrop)

\* A frame that is not written to its end is followed by the disconnection.
Closed(s) ==
  \A i \in DOMAIN s : s[i].kind = "unwritten" =>
    \E j \in DOMAIN s : i < j /\ s[j].kind = "disconnect"

Written == \E r \in Outcomes : results = <<[seq |-> pending.write, outcome |-> r]>>

\* The write of a frame: it is the only effect, its result the only result.
InWrite ==
  /\ pc = "execute" /\ pending.write \in Nat \ {0}
  /\ further = <<>> /\ disconnects = {}
  /\ \/ effects = <<[seq |-> pending.write, kind |-> "write"]>> /\ results = <<>>
     \/ effects = <<>> /\ Written

\* What follows it, or an error acknowledgement.
AfterWrite ==
  /\ pc = "execute" /\ pending.write = None
  /\ effects \in Seq(Effects) /\ results \in Seq(Results) /\ further \in Seq(Effects)
  /\ Closed(effects) /\ Closed(further)

NoFrame ==
  /\ pc # "execute" /\ pending.write = None
  /\ effects = <<>> /\ results = <<>> /\ further = <<>> /\ disconnects = {}

FrameOK ==
  /\ pending.seq \in Nat \ {0} /\ DOMAIN pending = {"write", "ack", "seq"}
  /\ InWrite \/ AfterWrite \/ NoFrame

FrameInv == RawTypeOK /\ PassOK /\ FrameOK

\* An element taken from the front of a sequence, and one added at its end.
LEMMA TailAt ==
  ASSUME NEW T, NEW s \in Seq(T), s # <<>>
  PROVE  /\ Tail(s) \in Seq(T) /\ Len(s) \in Nat /\ DOMAIN s = 1..Len(s) /\ Len(s) >= 1
         /\ Len(Tail(s)) = Len(s) - 1 /\ DOMAIN Tail(s) = 1..(Len(s) - 1)
         /\ \A i \in 1..(Len(s) - 1) : Tail(s)[i] = s[i + 1]
         /\ Head(s) = s[1] /\ Head(s) \in T
OBVIOUS

\* What the provers need to know of a concatenation.
LEMMA ConcatAt ==
  ASSUME NEW T, NEW s \in Seq(T), NEW t \in Seq(T)
  PROVE  /\ s \o t \in Seq(T) /\ Len(s) \in Nat /\ Len(t) \in Nat
         /\ DOMAIN s = 1..Len(s) /\ DOMAIN t = 1..Len(t)
         /\ Len(s \o t) = Len(s) + Len(t) /\ DOMAIN (s \o t) = 1..(Len(s) + Len(t))
         /\ \A i \in 1..Len(s) : (s \o t)[i] = s[i]
         /\ \A i \in 1..Len(t) : (s \o t)[Len(s) + i] = t[i]
OBVIOUS

\* What has been executed leaves what was to follow it.
LEMMA EffectsTail ==
  ASSUME NEW s \in Seq(Effects), s # <<>>, Closed(s)
  PROVE  /\ Tail(s) \in Seq(Effects) /\ Closed(Tail(s)) /\ Head(s) \in Effects
         /\ HasKind(s, "disconnect") /\ Head(s).kind # "disconnect" => HasKind(Tail(s), "disconnect")
         /\ Head(s).kind = "unwritten" => HasKind(Tail(s), "disconnect")
         /\ \A m : HasKind(Tail(s), m) => HasKind(s, m)
<1> DEFINE t == Tail(s)
           n == Len(s)
<1>1. /\ t \in Seq(Effects) /\ n \in Nat /\ DOMAIN s = 1..n /\ n >= 1
      /\ Len(t) = n - 1 /\ DOMAIN t = 1..(n - 1)
      /\ \A i \in 1..(n - 1) : t[i] = s[i + 1]
      /\ Head(s) = s[1] /\ Head(s) \in Effects
  BY TailAt
<1> HIDE DEF t, n
<1>2. ASSUME NEW j \in 1..n, j # 1
      PROVE  j - 1 \in DOMAIN t /\ t[j - 1] = s[j]
  <2>1. j - 1 \in 1..(n - 1) /\ (j - 1) + 1 = j
    BY <1>1, <1>2
  <2>2. t[j - 1] = s[(j - 1) + 1]
    BY <1>1, <2>1
  <2> QED BY <1>1, <2>1, <2>2
<1>3. Closed(t)
  <2> SUFFICES ASSUME NEW i \in DOMAIN t, t[i].kind = "unwritten"
               PROVE  \E j \in DOMAIN t : i < j /\ t[j].kind = "disconnect"
    BY DEF Closed
  <2>1. i \in Nat /\ i + 1 \in 1..n /\ s[i + 1].kind = "unwritten"
    BY <1>1
  <2>2. PICK j \in 1..n : i + 1 < j /\ s[j].kind = "disconnect"
    BY <1>1, <2>1 DEF Closed
  <2>3. j # 1 /\ i < j - 1
    BY <2>1, <2>2
  <2> QED BY <1>2, <2>2, <2>3
<1>4. HasKind(s, "disconnect") /\ Head(s).kind # "disconnect" => HasKind(t, "disconnect")
  BY <1>1, <1>2 DEF HasKind
<1>5. Head(s).kind = "unwritten" => HasKind(t, "disconnect")
  <2> SUFFICES ASSUME s[1].kind = "unwritten" PROVE HasKind(t, "disconnect")
    BY <1>1
  <2>1. PICK j \in 1..n : 1 < j /\ s[j].kind = "disconnect"
    BY <1>1 DEF Closed
  <2> QED BY <1>2, <2>1 DEF HasKind
<1>6. ASSUME NEW m, HasKind(t, m) PROVE HasKind(s, m)
  <2>1. PICK i \in 1..(n - 1) : t[i].kind = m
    BY <1>1, <1>6 DEF HasKind
  <2>2. i + 1 \in 1..n /\ s[i + 1].kind = m
    BY <1>1, <2>1
  <2> QED BY <1>1, <2>2 DEF HasKind
<1> QED BY <1>1, <1>3, <1>4, <1>5, <1>6 DEF t

\* Two complete lists of effects make a complete list.
LEMMA ClosedConcat ==
  ASSUME NEW s \in Seq(Effects), NEW t \in Seq(Effects), Closed(s), Closed(t)
  PROVE  s \o t \in Seq(Effects) /\ Closed(s \o t)
<1> DEFINE u == s \o t
           n == Len(s)
<1>1. /\ u \in Seq(Effects) /\ n \in Nat /\ Len(t) \in Nat
      /\ DOMAIN s = 1..n /\ DOMAIN t = 1..Len(t) /\ DOMAIN u = 1..(n + Len(t))
      /\ \A i \in 1..n : u[i] = s[i]
      /\ \A i \in 1..Len(t) : u[n + i] = t[i]
  BY ConcatAt
<1> HIDE DEF u, n
<1>2. ASSUME NEW i \in 1..n, u[i].kind = "unwritten"
      PROVE  \E j \in DOMAIN u : i < j /\ u[j].kind = "disconnect"
  <2>1. PICK j \in 1..n : i < j /\ s[j].kind = "disconnect"
    BY <1>1, <1>2 DEF Closed
  <2> QED BY <1>1, <2>1
<1>3. ASSUME NEW i \in 1..Len(t), u[n + i].kind = "unwritten"
      PROVE  \E j \in DOMAIN u : n + i < j /\ u[j].kind = "disconnect"
  <2>1. PICK j \in 1..Len(t) : i < j /\ t[j].kind = "disconnect"
    BY <1>1, <1>3 DEF Closed
  <2>2. n + j \in DOMAIN u /\ n + i < n + j
    BY <1>1, <2>1
  <2> QED BY <1>1, <2>1, <2>2
<1>4. ASSUME NEW i \in DOMAIN u, u[i].kind = "unwritten"
      PROVE  \E j \in DOMAIN u : i < j /\ u[j].kind = "disconnect"
  <2>1. CASE i <= n
    BY <1>1, <1>2, <1>4, <2>1
  <2>2. CASE n < i
    <3>1. i - n \in 1..Len(t) /\ n + (i - n) = i
      BY <1>1, <2>2
    <3> QED BY <1>3, <1>4, <3>1
  <2> QED BY <1>1, <2>1, <2>2
<1> QED BY <1>1, <1>4 DEF Closed, u

\* What follows a write: if it did not end, the client will be disconnected.
LEMMA FinishWriteIs ==
  ASSUME NEW r \in Outcomes
  PROVE  LET kinds == FinishWrite(r) IN
         /\ kinds \in Seq(Kinds)
         /\ \A i \in DOMAIN kinds : kinds[i] = "unwritten" =>
              \E j \in DOMAIN kinds : i < j /\ kinds[j] = "disconnect"
<1> DEFINE good(kinds) ==
             /\ kinds \in Seq(Kinds)
             /\ \A i \in DOMAIN kinds : kinds[i] = "unwritten" =>
                  \E j \in DOMAIN kinds : i < j /\ kinds[j] = "disconnect"
<1>1. good(<<"ok">>)
  BY DEF Kinds
<1>2. good(<<"unwritten", "err", "error", "disconnect">>)
  BY DEF Kinds
<1>3. good(<<"unwritten", "err", "disconnect">>)
  BY DEF Kinds
<1>4. ASSUME NEW t, good(t) PROVE good(<<"in">> \o t)
  <2> DEFINE u == <<"in">> \o t
  <2>1. <<"in">> \in Seq(Kinds) /\ Len(<<"in">>) = 1 /\ <<"in">>[1] = "in"
    BY DEF Kinds
  <2>2. /\ u \in Seq(Kinds) /\ Len(t) \in Nat /\ DOMAIN t = 1..Len(t)
        /\ DOMAIN u = 1..(1 + Len(t)) /\ u[1] = "in"
        /\ \A i \in 1..Len(t) : u[1 + i] = t[i]
    BY <1>4, <2>1, ConcatAt
  <2> HIDE DEF u
  <2>3. ASSUME NEW i \in DOMAIN u, u[i] = "unwritten"
        PROVE  \E j \in DOMAIN u : i < j /\ u[j] = "disconnect"
    <3>1. i - 1 \in 1..Len(t) /\ 1 + (i - 1) = i
      BY <2>2, <2>3
    <3>2. t[i - 1] = "unwritten"
      BY <2>2, <2>3, <3>1
    <3>3. PICK j \in 1..Len(t) : i - 1 < j /\ t[j] = "disconnect"
      BY <1>4, <2>2, <3>1, <3>2
    <3>4. 1 + j \in DOMAIN u /\ i < 1 + j
      BY <2>2, <3>1, <3>3
    <3> QED BY <2>2, <3>3, <3>4
  <2> QED BY <2>2, <2>3 DEF u
<1>5. ASSUME NEW t, good(t) PROVE good(<<>> \o t)
  <2>1. <<>> \o t = t
    BY <1>5
  <2> QED BY <1>5, <2>1
<1>6. \E t : good(t) /\ FinishWrite(r) \in {<<"in">> \o t, <<>> \o t}
  <2> HIDE DEF good
  <2>1. CASE r = "written"
    BY <1>1, <2>1 DEF FinishWrite
  <2>2. CASE r = "timeout"
    BY <1>2, <2>2 DEF FinishWrite
  <2>3. CASE r = "io"
    BY <1>3, <2>3 DEF FinishWrite
  <2> QED BY <2>1, <2>2, <2>3 DEF Outcomes
<1> HIDE DEF good
<1>7. good(FinishWrite(r))
  BY <1>4, <1>5, <1>6
<1> QED BY <1>7 DEF good

-----------------------------------------------------------------------------
(* The frame being handled, step by step.                                  *)

\* A program of a client touches its own connection only.
LEMMA ProgramIs ==
  ASSUME RawTypeOK, NEW c \in Clients, Program(c) \/ Vanish(c)
  PROVE  /\ UNCHANGED <<role, daemon, run, tty, trace>>
         /\ cmd' \in [Clients -> Cmds] /\ outbox' \in [Clients -> Seq(Answers)]
         /\ \E msgs \in Seq(Msgs) : inbox' = [inbox EXCEPT ![c] = @ \o msgs]
<1>1. /\ UNCHANGED <<role, daemon, run, tty, trace>>
      /\ \E m \in Cmds : cmd' = [cmd EXCEPT ![c] = m]
  <2>1. CASE SendAcquire(c)
    BY <2>1 DEF SendAcquire, Cmds
  <2>2. CASE LockAnswered(c)
    BY <2>2 DEF LockAnswered, Cmds
  <2>3. CASE SendRaw(c)
    BY <2>3 DEF SendRaw, Cmds, RawTypeOK
  <2>4. CASE Acked(c)
    BY <2>4 DEF Acked, Cmds, RawTypeOK
  <2>5. CASE Release(c) \/ GiveUp(c) \/ Vanish(c)
    BY <2>5 DEF Release, GiveUp, Vanish, Cmds
  <2> QED BY <2>1, <2>2, <2>3, <2>4, <2>5 DEF Program
<1>2. outbox' = outbox \/ (outbox[c] # <<>> /\ outbox' = [outbox EXCEPT ![c] = Tail(@)])
  BY DEF Program, SendAcquire, LockAnswered, SendRaw, Acked, Release, GiveUp, Vanish
<1>3. \E msgs \in {<<>>, <<"acquire">>, <<"eof">>, <<"raw">>, <<"release", "eof">>} :
        inbox' = [inbox EXCEPT ![c] = @ \o msgs]
  BY DEF Program, SendAcquire, LockAnswered, SendRaw, Acked, Release, GiveUp, Vanish, Send
<1>4. {<<>>, <<"acquire">>, <<"eof">>, <<"raw">>, <<"release", "eof">>} \subseteq Seq(Msgs)
  <2>1. {"acquire", "eof", "raw", "release"} \subseteq Msgs
    BY DEF Msgs
  <2> QED BY <2>1
<1>5. outbox' \in [Clients -> Seq(Answers)]
  <2>1. outbox[c] # <<>> => Tail(outbox[c]) \in Seq(Answers)
    BY DEF RawTypeOK
  <2> QED BY <1>2, <2>1 DEF RawTypeOK
<1> QED BY <1>1, <1>3, <1>4, <1>5 DEF RawTypeOK

\* A step of a client program keeps the frame invariant.
LEMMA ProgramFrame ==
  ASSUME FrameInv, NEW c \in Clients, Program(c) \/ Vanish(c)
  PROVE  FrameInv'
<1>1. /\ UNCHANGED <<role, daemon, run, tty, trace>>
      /\ cmd' \in [Clients -> Cmds] /\ outbox' \in [Clients -> Seq(Answers)]
  BY ProgramIs DEF FrameInv
<1>2. PICK msgs \in Seq(Msgs) : inbox' = [inbox EXCEPT ![c] = @ \o msgs]
  BY ProgramIs DEF FrameInv
<1>3. inbox' \in [Clients -> Seq(Msgs)] /\ \A d \in Clients : inbox[d] # <<>> => inbox'[d] # <<>>
  <2>1. inbox[c] \in Seq(Msgs)
    BY DEF FrameInv, RawTypeOK
  <2>2. inbox[c] \o msgs \in Seq(Msgs) /\ (inbox[c] # <<>> => inbox[c] \o msgs # <<>>)
    BY <2>1
  <2> QED BY <1>2, <2>2 DEF FrameInv, RawTypeOK
<1>4. RawTypeOK'
  BY <1>1, <1>3 DEF FrameInv, RawTypeOK, daemon, run, trace
<1>5. PassOK'
  BY <1>1, <1>3 DEF FrameInv, PassOK, daemon, run
<1>6. FrameOK'
  BY <1>1 DEF FrameInv, FrameOK, InWrite, AfterWrite, NoFrame, Written, Closed, daemon, run
<1> QED BY <1>4, <1>5, <1>6 DEF FrameInv

\* A reply changes the outbox of one client only.
LEMMA ReplyIs ==
  ASSUME RawTypeOK, NEW c \in Clients, NEW msgs \in Seq(Answers), Reply(c, msgs)
  PROVE  /\ outbox' \in [Clients -> Seq(Answers)]
         /\ \A d \in Clients : d # c => outbox'[d] = outbox[d]
         /\ Has(outbox'[c], "acquired") => Has(outbox[c], "acquired") \/ Has(msgs, "acquired")
<1>1. outbox' = outbox \/ outbox' = [outbox EXCEPT ![c] = @ \o msgs]
  BY DEF Reply, RawTypeOK
<1>2. outbox[c] \in Seq(Answers) /\ outbox \in [Clients -> Seq(Answers)]
  BY DEF RawTypeOK
<1> DEFINE u == outbox[c] \o msgs
<1>3. /\ u \in Seq(Answers) /\ Len(outbox[c]) \in Nat /\ Len(msgs) \in Nat
      /\ DOMAIN outbox[c] = 1..Len(outbox[c]) /\ DOMAIN msgs = 1..Len(msgs)
      /\ DOMAIN u = 1..(Len(outbox[c]) + Len(msgs))
      /\ \A i \in 1..Len(outbox[c]) : u[i] = outbox[c][i]
      /\ \A i \in 1..Len(msgs) : u[Len(outbox[c]) + i] = msgs[i]
  BY <1>2, ConcatAt
<1> HIDE DEF u
<1>4. ASSUME NEW i \in DOMAIN u, u[i] = "acquired"
      PROVE  Has(outbox[c], "acquired") \/ Has(msgs, "acquired")
  <2>1. CASE i <= Len(outbox[c])
    BY <1>3, <1>4, <2>1 DEF Has
  <2>2. CASE Len(outbox[c]) < i
    <3>1. i - Len(outbox[c]) \in 1..Len(msgs) /\ Len(outbox[c]) + (i - Len(outbox[c])) = i
      BY <1>3, <2>2
    <3> QED BY <1>3, <1>4, <3>1 DEF Has
  <2> QED BY <1>3, <2>1, <2>2
<1>5. CASE outbox' = outbox
  BY <1>2, <1>5
<1>6. CASE outbox' = [outbox EXCEPT ![c] = @ \o msgs]
  <2>1. outbox' = [outbox EXCEPT ![c] = u]
    BY <1>6 DEF u
  <2> QED BY <1>2, <1>3, <1>4, <2>1 DEF Has
<1> QED BY <1>1, <1>5, <1>6

\* Taking a frame shortens the inbox of one client and ends its turn.
LEMMA TakeIs ==
  ASSUME RawTypeOK, PassOK, NEW c \in todo, Take(c)
  PROVE  /\ inbox' \in [Clients -> Seq(Msgs)] /\ todo' = todo \ {c} /\ c \in Clients
         /\ \A d \in Clients : d # c => inbox'[d] = inbox[d]
         /\ inbox[c] \in Seq(Msgs) /\ inbox[c] # <<>> /\ inbox'[c] = Tail(inbox[c])
<1>1. c \in Clients /\ inbox[c] \in Seq(Msgs) /\ inbox[c] # <<>>
  BY DEF PassOK, RawTypeOK
<1>2. Tail(inbox[c]) \in Seq(Msgs)
  BY <1>1
<1> QED BY <1>1, <1>2 DEF Take, RawTypeOK

\* One frame of a client is taken.
LEMMA FrameFrame ==
  ASSUME FrameInv, NEW c \in Clients, Frame(c)
  PROVE  FrameInv'
<1>1. pc = "frames" /\ c \in todo /\ Take(c) /\ UNCHANGED <<client, attached, tty, pty, record, upgrade>>
  BY DEF Frame, EndOfFile, LockAcquire, LockRelease, RawRefused, RawData, Handling, trace
<1>2. /\ inbox' \in [Clients -> Seq(Msgs)] /\ todo' = todo \ {c}
      /\ \A d \in Clients : d # c => inbox'[d] = inbox[d]
  BY <1>1, TakeIs DEF FrameInv
<1>3. outbox' \in [Clients -> Seq(Answers)]
  <2>1. {<<"acquired">>, <<"denied">>, <<"denied", "error">>, <<"error">>} \subseteq Seq(Answers)
    <3>1. {"acquired", "denied", "error"} \subseteq Answers
      BY DEF Answers
    <3> QED BY <3>1
  <2>2. \/ outbox' = outbox
        \/ \E msgs \in {<<"acquired">>, <<"denied">>, <<"denied", "error">>, <<"error">>} : Reply(c, msgs)
    BY DEF Frame, EndOfFile, LockAcquire, LockRelease, RawRefused, RawData
  <2> QED BY <2>1, <2>2, ReplyIs DEF FrameInv, RawTypeOK
<1>4. holder' \in Clients \cup {NoClient} /\ off' \in 0..FrameSize
  <2>1. holder' \in {holder, c, NoClient} /\ off' \in {off, 0}
    BY DEF Frame, EndOfFile, LockAcquire, LockRelease, RawRefused, RawData, run
  <2> QED BY <2>1, InputAssumption DEF FrameInv, RawTypeOK
<1>5. DOMAIN answers' = Clients /\ \A d \in Clients : Len(answers'[d]) \in Nat
  <2>1. answers' = answers \/ answers' = [answers EXCEPT ![c] = Append(@, "refused")]
    BY DEF Frame, EndOfFile, LockAcquire, LockRelease, RawRefused, RawData, trace
  <2> QED BY <2>1 DEF FrameInv, RawTypeOK
<1>6. RawTypeOK'
  BY <1>1, <1>2, <1>3, <1>4, <1>5 DEF FrameInv, RawTypeOK, client
<1>7. NoFrame
  BY <1>1 DEF FrameInv, FrameOK, InWrite, AfterWrite
<1>8. CASE pc' = "frames" /\ UNCHANGED run
  <2>1. todrop' \in {todrop, todrop \cup {c}}
    BY DEF Frame, EndOfFile, LockAcquire, LockRelease, RawRefused, RawData
  <2>2. PassOK'
    BY <1>1, <1>2, <1>8, <2>1 DEF FrameInv, PassOK, run
  <2>3. FrameOK'
    BY <1>7, <1>8 DEF FrameInv, FrameOK, NoFrame, run
  <2> QED BY <1>6, <2>2, <2>3 DEF FrameInv
<1>9. CASE RawData(c)
  <2>1. cur' = c /\ pc' = "execute" /\ UNCHANGED <<todrop, attached, results, further, disconnects>>
    BY <1>9 DEF RawData
  <2>2. PassOK'
    <3>1. c # NoClient
      BY InputAssumption DEF Clients, NoClient
    <3>2. /\ attached \subseteq Clients /\ todo \subseteq attached /\ todrop \cap todo = {}
          /\ \A d \in todo : inbox[d] # <<>>
      BY DEF FrameInv, PassOK
    <3> QED BY <1>1, <1>2, <2>1, <3>1, <3>2 DEF PassOK
  <2> DEFINE n == pending.seq
  <2>3. n \in Nat \ {0} /\ DOMAIN pending = {"write", "ack", "seq"}
    BY DEF FrameInv, FrameOK
  <2>4. CASE Rejected(c)
    <3>1. /\ effects' = <<[seq |-> n, kind |-> "rejected"], [seq |-> n + 1, kind |-> "err"]>>
          /\ pending' = [pending EXCEPT !.ack = n + 1, !.seq = n + 2]
      BY <1>9, <2>4 DEF RawData
    <3> HIDE DEF n
    <3>2. effects' \in Seq(Effects) /\ Closed(effects')
      <4> DEFINE a == [seq |-> n, kind |-> "rejected"]
                 b == [seq |-> n + 1, kind |-> "err"]
      <4>1. a \in Effects /\ b \in Effects /\ a.kind # "unwritten" /\ b.kind # "unwritten"
        BY <2>3 DEF Effects, Kinds
      <4>2. effects' = <<a, b>>
        BY <3>1
      <4> HIDE DEF a, b
      <4> QED BY <4>1, <4>2 DEF Closed
    <3>3. pending'.write = pending.write /\ pending'.seq \in Nat \ {0} /\ DOMAIN pending' = {"write", "ack", "seq"}
      BY <2>3, <3>1
    <3>4. AfterWrite'
      BY <1>7, <2>1, <3>2, <3>3 DEF AfterWrite, NoFrame, Closed
    <3> QED BY <1>6, <2>2, <3>3, <3>4 DEF FrameInv, FrameOK
  <2>5. CASE ~Rejected(c)
    <3>1. /\ effects' = <<[seq |-> n, kind |-> "write"]>>
          /\ pending' = [pending EXCEPT !.write = n, !.seq = n + 1]
      BY <1>9, <2>5 DEF RawData
    <3> HIDE DEF n
    <3>2. pending'.write = n /\ pending'.seq \in Nat \ {0} /\ DOMAIN pending' = {"write", "ack", "seq"}
      BY <2>3, <3>1
    <3>3. InWrite'
      BY <1>7, <2>1, <2>3, <3>1, <3>2 DEF InWrite, NoFrame
    <3> QED BY <1>6, <2>2, <3>2, <3>3 DEF FrameInv, FrameOK
  <2> QED BY <2>4, <2>5
<1>10. (pc' = "frames" /\ UNCHANGED run) \/ RawData(c)
  <2>1. CASE EndOfFile(c) \/ LockAcquire(c) \/ LockRelease(c)
    BY <1>1, <2>1 DEF EndOfFile, LockAcquire, LockRelease
  <2>2. CASE RawRefused(c)
    BY <1>1, <2>2 DEF RawRefused
  <2> QED BY <2>1, <2>2 DEF Frame
<1> QED BY <1>8, <1>9, <1>10

\* The bytes i to j of a client's n-th frame are of that frame.
LEMMA BytesOfOne ==
  ASSUME NEW c \in Clients, NEW n \in Nat, NEW i \in Nat \ {0}, NEW j \in Nat, i <= j + 1
  PROVE  LET b == Bytes(c, n, i, j) IN
         /\ b \in Seq(Octets) /\ Len(b) \in Nat /\ DOMAIN b = 1..Len(b) /\ (i <= j => Len(b) >= 1)
         /\ \A k \in DOMAIN b : b[k][1] = c /\ b[k][2] = n
<1> DEFINE m == j - i + 1
           b == [k \in 1..m |-> <<c, n, i + k - 1>>]
<1>1. m \in Nat /\ (i <= j => m >= 1) /\ \A k \in 1..m : i + k - 1 \in Nat
  OBVIOUS
<1>2. \A k \in 1..m : <<c, n, i + k - 1>> \in Octets
  BY <1>1 DEF Octets
<1> HIDE DEF m
<1>3. b \in Seq(Octets) /\ Len(b) = m /\ DOMAIN b = 1..m
  BY <1>1, <1>2
<1>4. \A k \in 1..m : b[k][1] = c /\ b[k][2] = n
  OBVIOUS
<1>5. Bytes(c, n, i, j) = b
  BY DEF Bytes, m
<1> HIDE DEF b
<1> QED BY <1>1, <1>3, <1>4, <1>5

\* An element of a concatenation is one of the first or one of the second sequence.
LEMMA ConcatFrom ==
  ASSUME NEW T, NEW s \in Seq(T), NEW t \in Seq(T), NEW k \in DOMAIN (s \o t)
  PROVE  \/ k \in DOMAIN s /\ (s \o t)[k] = s[k]
         \/ \E i \in DOMAIN t : k = Len(s) + i /\ (s \o t)[k] = t[i]
<1> DEFINE u == s \o t
<1>1. /\ Len(s) \in Nat /\ Len(t) \in Nat
      /\ DOMAIN s = 1..Len(s) /\ DOMAIN t = 1..Len(t) /\ DOMAIN u = 1..(Len(s) + Len(t))
      /\ \A i \in 1..Len(s) : u[i] = s[i]
      /\ \A i \in 1..Len(t) : u[Len(s) + i] = t[i]
  BY ConcatAt
<1>2. k \in DOMAIN u
  OBVIOUS
<1> HIDE DEF u
<1>3. CASE k <= Len(s)
  BY <1>1, <1>2, <1>3 DEF u
<1>4. CASE Len(s) < k
  <2>1. k - Len(s) \in 1..Len(t) /\ k = Len(s) + (k - Len(s))
    BY <1>1, <1>2, <1>4
  <2>2. u[Len(s) + (k - Len(s))] = t[k - Len(s)]
    BY <1>1, <2>1
  <2>3. u[k] = t[k - Len(s)]
    BY <2>1, <2>2
  <2> QED BY <1>1, <2>1, <2>3 DEF u
<1> QED BY <1>1, <1>2, <1>3, <1>4

\* While a frame is executed.
LEMMA Execute ==
  ASSUME FrameInv, pc = "execute"
  PROVE  /\ cur \in Clients /\ cur \in attached \ (todo \cup todrop) /\ frameNo \in Nat /\ Len(answers[cur]) \in Nat
         /\ InWrite \/ AfterWrite
         /\ InWrite /\ effects # <<>> => Head(effects).kind = "write" /\ Head(effects).seq = pending.write
         /\ AfterWrite /\ effects # <<>> => Head(effects) \in Effects /\ Head(effects).kind # "write"
<1>1. cur \in Clients /\ cur \in attached \ (todo \cup todrop) /\ Len(answers[cur]) \in Nat
  BY DEF FrameInv, PassOK, RawTypeOK
<1>2. AfterWrite /\ effects # <<>> => Head(effects) \in Effects /\ Head(effects).kind # "write"
  <2>1. AfterWrite /\ effects # <<>> => Head(effects) \in Effects
    BY DEF AfterWrite
  <2> QED BY <2>1 DEF Effects, Kinds
<1>3. InWrite /\ effects # <<>> => Head(effects).kind = "write" /\ Head(effects).seq = pending.write
  BY DEF InWrite
<1> QED BY <1>1, <1>2, <1>3 DEF FrameInv, FrameOK, NoFrame, frameNo

\* An effect that is no write.
LEMMA FollowFrame ==
  ASSUME FrameInv, ExecRecord \/ ExecAck \/ ExecReply \/ ExecDisconnect
  PROVE  FrameInv' /\ AfterWrite /\ Head(effects) \in Effects
<1>1. /\ pc = "execute" /\ effects # <<>> /\ Head(effects).kind # "write" /\ effects' = Tail(effects)
      /\ UNCHANGED <<client, inbox, daemon, cur, further, pending, off, pty>>
  BY DEF ExecRecord, ExecAck, ExecReply, ExecDisconnect, Executing, trace
<1>2. AfterWrite /\ cur \in Clients /\ Head(effects) \in Effects /\ frameNo \in Nat
  BY <1>1, Execute
<1>3. effects' \in Seq(Effects) /\ Closed(effects')
  BY <1>1, <1>2, EffectsTail DEF AfterWrite
<1>4. results' \in Seq(Results)
  <2>1. \/ results' = results
        \/ \E o \in {"ok", "failed"} : results' = Append(results, [seq |-> Head(effects).seq, outcome |-> o])
    BY DEF ExecRecord, ExecAck, ExecReply, ExecDisconnect, Result
  <2>2. \A o \in {"ok", "failed"} : [seq |-> Head(effects).seq, outcome |-> o] \in Results
    BY <1>2 DEF Effects, Results
  <2>3. ASSUME NEW r \in Results PROVE Append(results, r) \in Seq(Results)
    BY <1>2, <2>3 DEF AfterWrite
  <2> QED BY <1>2, <2>1, <2>2, <2>3 DEF AfterWrite
<1>5. outbox' \in [Clients -> Seq(Answers)]
  <2>1. {"ok", "err", "error"} \subseteq Answers /\ <<"error">> \in Seq(Answers)
    BY DEF Answers
  <2>2. CASE ExecReply
    BY <1>2, <2>1, <2>2, ReplyIs DEF ExecReply, FrameInv
  <2>3. CASE ExecAck
    <3>1. outbox' = outbox \/ \E k \in {"ok", "err"} : outbox' = [outbox EXCEPT ![cur] = Append(@, k)]
      BY <2>3 DEF ExecAck, Executing, FrameInv, RawTypeOK
    <3>2. ASSUME NEW k \in {"ok", "err"} PROVE Append(outbox[cur], k) \in Seq(Answers)
      <4>1. outbox[cur] \in Seq(Answers) /\ k \in Answers
        BY <1>2, <2>1 DEF FrameInv, RawTypeOK
      <4> QED BY <4>1
    <3> QED BY <1>2, <3>1, <3>2 DEF FrameInv, RawTypeOK
  <2> QED BY <2>2, <2>3 DEF ExecRecord, ExecDisconnect, FrameInv, RawTypeOK
<1>6. DOMAIN answers' = Clients /\ \A c \in Clients : Len(answers'[c]) \in Nat
  <2>1. \/ answers' = answers
        \/ \E a : answers' = [answers EXCEPT ![cur] = Append(@, a)]
    BY DEF ExecRecord, ExecAck, ExecReply, ExecDisconnect, trace
  <2> QED BY <1>2, <2>1 DEF FrameInv, RawTypeOK
<1>7. record' \in Seq(Kinds \X Octets)
  <2>1. CASE ExecRecord
    <3>1. PICK bytes \in {Bytes(cur, frameNo, 1, off), Bytes(cur, frameNo, off + 1, FrameSize),
                          Bytes(cur, frameNo, 1, FrameSize)} :
            record' = record \o [k \in DOMAIN bytes |-> <<Head(effects).kind, bytes[k]>>]
      BY <2>1 DEF ExecRecord, Executing
    <3>2. bytes \in Seq(Octets)
      <4>1. off \in Nat /\ off <= FrameSize /\ FrameSize \in Nat
        BY InputAssumption DEF FrameInv, RawTypeOK
      <4>2. /\ 1 \in Nat \ {0} /\ off + 1 \in Nat \ {0}
            /\ 1 <= off + 1 /\ 1 <= FrameSize + 1 /\ off + 1 <= FrameSize + 1
        BY <4>1
      <4>3. Bytes(cur, frameNo, 1, off) \in Seq(Octets)
        BY <1>2, <4>1, <4>2, BytesOfOne
      <4>4. Bytes(cur, frameNo, off + 1, FrameSize) \in Seq(Octets)
        BY <1>2, <4>1, <4>2, BytesOfOne
      <4>5. Bytes(cur, frameNo, 1, FrameSize) \in Seq(Octets)
        BY <1>2, <4>1, <4>2, BytesOfOne
      <4> QED BY <3>1, <4>3, <4>4, <4>5
    <3> DEFINE kind == Head(effects).kind
               added == [k \in DOMAIN bytes |-> <<kind, bytes[k]>>]
    <3>3. kind \in Kinds
      BY <1>2 DEF Effects
    <3> HIDE DEF kind
    <3>4. added \in Seq(Kinds \X Octets)
      BY <3>2, <3>3
    <3>5. record' = record \o added
      BY <3>1 DEF kind
    <3> HIDE DEF added
    <3> QED BY <3>4, <3>5, ConcatAt DEF FrameInv, RawTypeOK
  <2> QED BY <2>1 DEF ExecAck, ExecReply, ExecDisconnect, trace, FrameInv, RawTypeOK
<1>8. RawTypeOK'
  BY <1>1, <1>5, <1>6, <1>7 DEF FrameInv, RawTypeOK, client, daemon
<1>9. PassOK'
  BY <1>1 DEF FrameInv, PassOK, client, daemon
<1>10. AfterWrite'
  BY <1>1, <1>2, <1>3, <1>4 DEF AfterWrite, daemon, Closed
<1> QED BY <1>1, <1>2, <1>8, <1>9, <1>10 DEF FrameInv, FrameOK

\* The write and its result.
LEMMA WriteFrame ==
  ASSUME FrameInv, WriteSome \/ ExecWritten
  PROVE  FrameInv' /\ InWrite /\ effects # <<>>
<1>1. /\ pc = "execute" /\ effects # <<>> /\ Head(effects).kind = "write"
      /\ UNCHANGED <<client, inbox, outbox, daemon, cur, further, disconnects, pending, record, answers>>
  BY DEF WriteSome, ExecWritten, Executing, trace
<1>2. InWrite /\ cur \in Clients /\ frameNo \in Nat
  BY <1>1, Execute
<1>3. effects = <<[seq |-> pending.write, kind |-> "write"]>> /\ results = <<>>
  BY <1>1, <1>2 DEF InWrite
<1>4. PassOK'
  BY <1>1 DEF FrameInv, PassOK, client, daemon
<1>5. CASE WriteSome
  <2>1. PICK n \in 1..(FrameSize - off) :
          pty' = pty \o Bytes(cur, frameNo, off + 1, off + n) /\ off' = off + n
    BY <1>5 DEF WriteSome
  <2>2. off \in Nat /\ FrameSize \in Nat /\ n \in Nat /\ off + n <= FrameSize /\ off + 1 \in Nat \ {0}
        /\ off + n \in Nat /\ off + 1 <= (off + n) + 1
    BY <2>1, InputAssumption DEF FrameInv, RawTypeOK
  <2>3. Bytes(cur, frameNo, off + 1, off + n) \in Seq(Octets)
    BY <1>2, <2>2, BytesOfOne
  <2>4. pty' \in Seq(Octets) /\ off' \in 0..FrameSize
    BY <2>1, <2>2, <2>3, ConcatAt DEF FrameInv, RawTypeOK
  <2>5. RawTypeOK'
    BY <1>1, <2>4 DEF FrameInv, RawTypeOK, client, daemon
  <2>6. FrameOK'
    BY <1>1, <1>2, <1>3, <1>5 DEF FrameInv, FrameOK, InWrite, daemon, WriteSome
  <2> QED BY <1>1, <1>2, <1>4, <2>5, <2>6 DEF FrameInv
<1>6. CASE ExecWritten
  <2>1. PICK r \in Outcomes : results' = Append(results, [seq |-> Head(effects).seq, outcome |-> r])
    BY <1>6 DEF ExecWritten, WriteOutcome, Outcomes, Result
  <2>2. Head(effects).seq = pending.write /\ effects' = <<>> /\ UNCHANGED <<off, pty>>
    BY <1>3, <1>6 DEF ExecWritten, trace
  <2>3. results' = <<[seq |-> pending.write, outcome |-> r]>>
    BY <1>3, <2>1, <2>2
  <2>4. InWrite'
    BY <1>1, <1>2, <2>2, <2>3 DEF InWrite, Written, daemon
  <2>5. RawTypeOK'
    BY <1>1, <2>2 DEF FrameInv, RawTypeOK, client, daemon
  <2> QED BY <1>1, <1>2, <1>4, <2>4, <2>5 DEF FrameInv, FrameOK
<1> QED BY <1>5, <1>6

\* A result is followed by effects that are no write.
LEMMA FeedbackFrame ==
  ASSUME FrameInv, Feedback
  PROVE  FrameInv' /\ AfterWrite'
<1> DEFINE res == Head(results)
           kinds == Followed(res)
           s == pending.seq
           new == [k \in DOMAIN kinds |-> [seq |-> s + k - 1, kind |-> kinds[k]]]
<1>1. /\ pc = "execute" /\ effects = <<>> /\ results # <<>> /\ results' = Tail(results)
      /\ UNCHANGED <<client, inbox, outbox, daemon, cur, effects, disconnects, off, tty, trace>>
      /\ further' = further \o new
      /\ pending'.write = (IF res.seq = pending.write THEN None ELSE pending.write)
      /\ pending'.seq = s + Len(kinds) /\ DOMAIN pending' = {"write", "ack", "seq"}
  BY DEF Feedback
<1>2. s \in Nat \ {0} /\ (InWrite \/ AfterWrite)
  BY <1>1, Execute DEF FrameInv, FrameOK
<1>3. /\ kinds \in Seq(Kinds)
      /\ \A i \in DOMAIN kinds : kinds[i] = "unwritten" =>
           \E j \in DOMAIN kinds : i < j /\ kinds[j] = "disconnect"
  <2>1. ASSUME NEW t \in {<<"disconnect">>, <<>>}
        PROVE  t \in Seq(Kinds) /\ \A i \in DOMAIN t : t[i] # "unwritten"
    <3>1. CASE t = <<"disconnect">>
      BY <3>1 DEF Kinds
    <3>2. CASE t = <<>>
      BY <3>2
    <3> QED BY <3>1, <3>2
  <2>2. CASE res.seq = pending.write
    <3>1. InWrite
      <4>1. ASSUME AfterWrite PROVE FALSE
        <5>1. res \in Results
          BY <1>1, <4>1 DEF AfterWrite
        <5> QED BY <2>2, <4>1, <5>1 DEF AfterWrite, Results, None
      <4> QED BY <1>2, <4>1
    <3>2. PICK r \in Outcomes : results = <<[seq |-> pending.write, outcome |-> r]>>
      BY <1>1, <3>1 DEF InWrite, Written
    <3>3. res.outcome = r
      BY <3>2
    <3>4. kinds = FinishWrite(r)
      BY <2>2, <3>3 DEF Followed
    <3> HIDE DEF kinds
    <3> QED BY <3>4, FinishWriteIs
  <2>3. CASE res.seq # pending.write
    <3>1. kinds \in {<<"disconnect">>, <<>>}
      BY <2>3 DEF Followed
    <3> HIDE DEF kinds
    <3> QED BY <2>1, <3>1
  <2> QED BY <2>2, <2>3
<1>4. pending'.write = None
  <2>1. CASE InWrite
    BY <1>1, <2>1 DEF InWrite, Written
  <2>2. CASE AfterWrite
    BY <1>1, <2>2 DEF AfterWrite
  <2> QED BY <1>2, <2>1, <2>2
<1>5. results' \in Seq(Results) /\ further \in Seq(Effects) /\ Closed(further)
  <2>1. CASE InWrite
    <3>1. \A x : Tail(<<x>>) = <<>>
      OBVIOUS
    <3>2. further = <<>> /\ Tail(results) = <<>>
      BY <1>1, <2>1, <3>1 DEF InWrite, Written
    <3>3. <<>> \in Seq(Results) /\ <<>> \in Seq(Effects) /\ Closed(<<>>)
      BY DEF Closed
    <3> QED BY <1>1, <3>2, <3>3
  <2>2. CASE AfterWrite
    BY <1>1, <2>2 DEF AfterWrite
  <2> QED BY <1>2, <2>1, <2>2
<1> HIDE DEF kinds, s, res
<1>6. new \in Seq(Effects) /\ Closed(new) /\ Len(kinds) \in Nat
  <2>1. Len(kinds) \in Nat /\ DOMAIN kinds = 1..Len(kinds) /\ \A k \in 1..Len(kinds) : kinds[k] \in Kinds
    BY <1>3
  <2>2. \A k \in 1..Len(kinds) : [seq |-> s + k - 1, kind |-> kinds[k]] \in Effects
    BY <1>2, <2>1 DEF Effects
  <2>3. new \in Seq(Effects) /\ DOMAIN new = 1..Len(kinds) /\ \A k \in 1..Len(kinds) : new[k].kind = kinds[k]
    BY <2>1, <2>2
  <2> HIDE DEF new
  <2> QED BY <1>3, <2>1, <2>3 DEF Closed
<1> HIDE DEF new
<1>7. further' \in Seq(Effects) /\ Closed(further')
  BY <1>1, <1>5, <1>6, ClosedConcat
<1>8. effects' \in Seq(Effects) /\ Closed(effects') /\ pending'.seq \in Nat \ {0}
  BY <1>1, <1>2, <1>6 DEF Closed
<1>9. AfterWrite'
  BY <1>1, <1>4, <1>5, <1>7, <1>8 DEF AfterWrite, daemon, Closed
<1>10. RawTypeOK' /\ PassOK'
  BY <1>1 DEF FrameInv, RawTypeOK, PassOK, client, daemon, trace
<1> QED BY <1>1, <1>8, <1>9, <1>10 DEF FrameInv, FrameOK

\* The other steps of the daemon, and of the child.
LEMMA OtherFrame ==
  ASSUME FrameInv,
         NextRound \/ FrameDone \/ Receive \/ EndPass \/ UpgradeExec \/ UpgradeRequest \/ ChildReads
           \/ ChildGone \/ UNCHANGED vars
  PROVE  FrameInv'
<1>1. CASE NextRound
  <2>1. /\ pc = "execute" /\ results = <<>> /\ effects = <<>> /\ effects' = further /\ further' = <<>> /\ further # <<>>
        /\ UNCHANGED <<client, inbox, outbox, daemon, cur, results, disconnects, pending, off, tty, trace>>
    BY <1>1 DEF NextRound, RoundOver
  <2>2. AfterWrite
    BY <2>1, Execute DEF InWrite
  <2>3. AfterWrite'
    BY <2>1, <2>2 DEF AfterWrite, Closed, daemon
  <2>4. RawTypeOK' /\ PassOK'
    BY <2>1 DEF FrameInv, RawTypeOK, PassOK, client, daemon, trace
  <2> QED BY <2>1, <2>3, <2>4 DEF FrameInv, FrameOK
<1>2. CASE FrameDone
  <2>1. /\ pc = "execute" /\ results = <<>> /\ effects = <<>> /\ further' = <<>>
        /\ pc' = "frames" /\ cur' = NoClient /\ disconnects' = {} /\ off' = 0
        /\ todrop' = todrop \cup (disconnects \cap {cur})
        /\ UNCHANGED <<client, inbox, outbox, attached, holder, todo, effects, results, pending, trace>>
    BY <1>2 DEF FrameDone, RoundOver
  <2>2. AfterWrite
    BY <2>1, Execute DEF InWrite, Written
  <2>3. NoFrame' /\ FrameOK'
    BY <2>1, <2>2 DEF AfterWrite, NoFrame, FrameInv, FrameOK
  <2>4. RawTypeOK'
    BY <2>1, InputAssumption DEF FrameInv, RawTypeOK, client, trace
  <2>5. PassOK'
    BY <2>1 DEF FrameInv, PassOK, client
  <2> QED BY <2>3, <2>4, <2>5 DEF FrameInv
<1>3. CASE Receive \/ EndPass \/ UpgradeExec
  <2>1. /\ UNCHANGED <<client, outbox, run, tty, trace>> /\ pc # "execute" /\ pc' # "execute"
        /\ inbox' = inbox \/ inbox' = [c \in Clients |-> IF c \in todrop THEN <<>> ELSE inbox[c]]
        /\ holder' \in {holder, NoClient}
    BY <1>3 DEF Receive, EndPass, UpgradeExec, Collected
  <2>2. inbox' \in [Clients -> Seq(Msgs)]
    <3>1. inbox \in [Clients -> Seq(Msgs)] /\ <<>> \in Seq(Msgs)
      BY DEF FrameInv, RawTypeOK
    <3>2. \A c \in Clients : (IF c \in todrop THEN <<>> ELSE inbox[c]) \in Seq(Msgs)
      BY <3>1
    <3> QED BY <2>1, <3>1, <3>2
  <2>3. RawTypeOK'
    BY <2>1, <2>2 DEF FrameInv, RawTypeOK, client, run, trace
  <2>4. NoFrame
    BY <2>1 DEF FrameInv, FrameOK, InWrite, AfterWrite
  <2>5. FrameOK'
    BY <2>1, <2>4 DEF FrameInv, FrameOK, NoFrame, run
  <2>6. cur' = NoClient /\ attached \subseteq Clients /\ (pc = "pass" => todrop = {}) /\ (todo # {} => pc = "frames")
    BY <2>1 DEF FrameInv, PassOK, run
  <2>7. CASE Receive
    <3>1. /\ todo' = {c \in attached : inbox[c] # <<>>} /\ pc = "pass" /\ pc' = "frames"
          /\ UNCHANGED <<inbox, attached, todrop>>
      BY <2>7 DEF Receive
    <3>2. PassOK'
      BY <2>1, <2>6, <3>1 DEF PassOK
    <3> QED BY <2>3, <2>5, <3>2 DEF FrameInv
  <2>8. CASE EndPass
    <3>1. todo' = {} /\ todrop' = {} /\ attached' = attached \ todrop
      BY <2>8 DEF EndPass
    <3>2. PassOK'
      BY <2>1, <2>6, <3>1 DEF PassOK
    <3> QED BY <2>3, <2>5, <3>2 DEF FrameInv
  <2>9. CASE UpgradeExec
    <3>1. todo' = todo /\ todrop' = todrop /\ attached' = {} /\ pc = "upgrade" /\ pc' = "gone" /\ inbox' = inbox
      BY <2>9 DEF UpgradeExec
    <3>2. todo = {}
      BY <2>6, <3>1
    <3>3. PassOK'
      BY <2>1, <2>6, <3>1, <3>2 DEF PassOK
    <3> QED BY <2>3, <2>5, <3>3 DEF FrameInv
  <2> QED BY <1>3, <2>7, <2>8, <2>9
<1>4. CASE UpgradeRequest \/ ChildReads \/ ChildGone \/ UNCHANGED vars
  <2>1. UNCHANGED <<client, inbox, outbox, daemon, run, trace>>
    BY <1>4 DEF UpgradeRequest, ChildReads, ChildGone, vars
  <2> QED BY <2>1 DEF FrameInv, RawTypeOK, PassOK, FrameOK, InWrite, Written, AfterWrite, NoFrame, Closed,
                     client, daemon, run, trace
<1> QED BY <1>1, <1>2, <1>3, <1>4

\* Every step keeps the frame invariant ...
LEMMA FrameSteps ==
  ASSUME FrameInv, [Next]_vars
  PROVE  FrameInv'
BY ProgramFrame, FrameFrame, FollowFrame, WriteFrame, FeedbackFrame, OtherFrame DEF Next, Daemon, Reduce

\* ... which holds initially.
LEMMA FrameInit == Init => FrameInv
<1> SUFFICES ASSUME Init PROVE FrameInv
  OBVIOUS
<1>1. RawTypeOK
  BY InputAssumption DEF Init, RawTypeOK, Cmds
<1>2. PassOK
  BY DEF Init, PassOK
<1>3. NoFrame /\ FrameOK
  BY DEF Init, NoFrame, FrameOK, None
<1> QED BY <1>1, <1>2, <1>3 DEF FrameInv

-----------------------------------------------------------------------------
(* No hole.                                                                *)

\* No further frame of c will be taken.
Doomed(c) ==
  \/ c \notin attached \/ c \in todrop
  \/ cur = c /\ (c \in disconnects \/ HasKind(effects, "disconnect"))

\* No byte of c in s is from a frame after its n-th.
NoneAfter(s, c, n) == \A i \in DOMAIN s : s[i][1] = c => s[i][2] <= n

\* The record s has bytes of the n-th frame of c that were not written.
Lost(s, c, n) ==
  \E k \in DOMAIN s : s[k][1] = "unwritten" /\ s[k][2][1] = c /\ s[k][2][2] = n

HoleInv ==
  \A c \in Clients :
    /\ NoneAfter(pty, c, Len(answers[c]) + 1)
    /\ \A n \in Nat : Lost(record, c, n) => Doomed(c) /\ NoneAfter(pty, c, n)

\* A client that is to be disconnected stays so until it is dropped.
LEMMA DoomedStays ==
  ASSUME FrameInv, [Next]_vars, NEW c \in Clients, Doomed(c)
  PROVE  Doomed(c)'
<1> DEFINE Final == cur = c /\ (c \in disconnects \/ HasKind(effects, "disconnect"))
<1>1. c # NoClient /\ (c \notin attached \/ c \in todrop \/ Final)
  BY InputAssumption DEF Clients, NoClient, Doomed
<1>2. ASSUME UNCHANGED <<attached, todrop, cur>>, Final => Final' PROVE Doomed(c)'
  BY <1>1, <1>2 DEF Doomed
<1>3. CASE UNCHANGED <<attached, todrop, cur, disconnects, effects>>
  BY <1>2, <1>3 DEF HasKind
<1>4. CASE \E d \in Clients : Frame(d)
  <2>1. attached' = attached /\ todrop \subseteq todrop' /\ pc = "frames"
    BY <1>4 DEF Frame, EndOfFile, LockAcquire, LockRelease, RawRefused, RawData, Handling
  <2>2. ~Final
    BY <1>1, <2>1 DEF FrameInv, PassOK
  <2> QED BY <1>1, <2>1, <2>2 DEF Doomed
<1>5. CASE ExecRecord \/ ExecAck \/ ExecReply \/ ExecDisconnect
  <2>1. /\ UNCHANGED <<attached, todrop, cur>> /\ effects # <<>> /\ effects' = Tail(effects)
        /\ \/ disconnects' = disconnects /\ Head(effects).kind # "disconnect"
           \/ disconnects' = disconnects \cup {cur}
    BY <1>5 DEF ExecRecord, ExecAck, ExecReply, ExecDisconnect, Executing, daemon
  <2>2. HasKind(effects, "disconnect") /\ Head(effects).kind # "disconnect" => HasKind(effects', "disconnect")
    BY <1>5, <2>1, FollowFrame, EffectsTail DEF AfterWrite
  <2> QED BY <1>2, <2>1, <2>2
<1>6. CASE WriteSome \/ ExecWritten
  <2>1. InWrite /\ UNCHANGED <<attached, todrop, cur>> /\ effects # <<>>
    BY <1>6, WriteFrame DEF WriteSome, ExecWritten, daemon
  <2>2. ~Final
    BY <2>1 DEF InWrite, HasKind
  <2> QED BY <1>2, <2>1, <2>2
<1>7. CASE Feedback
  BY <1>3, <1>7 DEF Feedback, daemon
<1>8. CASE NextRound
  <2>1. UNCHANGED <<attached, todrop, cur, disconnects>> /\ effects = <<>>
    BY <1>8 DEF NextRound, RoundOver, daemon
  <2> QED BY <1>2, <2>1 DEF HasKind
<1>9. CASE FrameDone
  <2>1. attached' = attached /\ todrop' = todrop \cup (disconnects \cap {cur}) /\ effects = <<>>
    BY <1>9 DEF FrameDone, RoundOver
  <2> QED BY <1>1, <2>1 DEF Doomed, HasKind
<1>10. CASE Receive \/ UpgradeRequest \/ ChildReads \/ ChildGone \/ UNCHANGED vars
  BY <1>3, <1>10 DEF Receive, UpgradeRequest, ChildReads, ChildGone, vars, daemon, run
<1>11. CASE EndPass \/ UpgradeExec
  <2>1. ~Final
    BY <1>1, <1>11 DEF EndPass, UpgradeExec, FrameInv, PassOK
  <2>2. attached' = attached \ todrop \/ attached' = {}
    BY <1>11 DEF EndPass, UpgradeExec
  <2> QED BY <1>1, <2>1, <2>2 DEF Doomed
<1>12. CASE \E d \in Clients : Program(d) \/ Vanish(d)
  <2>1. UNCHANGED <<daemon, run>>
    BY <1>12, ProgramIs DEF FrameInv
  <2> QED BY <1>3, <2>1 DEF daemon, run
<1> QED BY <1>3, <1>4, <1>5, <1>6, <1>7, <1>8, <1>9, <1>10, <1>11, <1>12 DEF Next, Daemon, Reduce

\* Answers are added, never taken back; bytes and records come with a write and a record.
LEMMA TraceGrows ==
  ASSUME FrameInv, [Next]_vars
  PROVE  /\ \A c \in Clients : Len(answers[c]) <= Len(answers'[c])
         /\ pty' = pty \/ WriteSome
         /\ record' = record \/ ExecRecord
<1>1. CASE UNCHANGED trace
  BY <1>1 DEF trace, FrameInv, RawTypeOK
<1>2. CASE \E c \in Clients : RawRefused(c)
  BY <1>2 DEF RawRefused, FrameInv, RawTypeOK
<1>3. CASE ExecRecord \/ WriteSome
  <2>1. answers' = answers /\ (pty' = pty \/ WriteSome) /\ (record' = record \/ ExecRecord)
    BY <1>3 DEF ExecRecord, WriteSome
  <2> QED BY <2>1 DEF FrameInv, RawTypeOK
<1>4. CASE ExecAck
  <2>1. cur \in Clients
    BY <1>4, Execute DEF ExecAck, Executing
  <2>2. \E a : answers' = [answers EXCEPT ![cur] = Append(@, a)]
    BY <1>4 DEF ExecAck
  <2> QED BY <1>4, <2>1, <2>2 DEF ExecAck, FrameInv, RawTypeOK
<1>5. CASE ChildReads \/ ChildGone \/ UpgradeRequest \/ Receive \/ EndPass \/ UpgradeExec \/ UNCHANGED vars
  BY <1>1, <1>5 DEF ChildReads, ChildGone, UpgradeRequest, Receive, EndPass, UpgradeExec, vars, trace
<1>6. CASE \E c \in Clients : Program(c) \/ Vanish(c)
  BY <1>1, <1>6, ProgramIs DEF FrameInv
<1>7. CASE \E c \in Clients : EndOfFile(c) \/ LockAcquire(c) \/ LockRelease(c) \/ RawData(c)
  BY <1>1, <1>7 DEF EndOfFile, LockAcquire, LockRelease, RawData
<1>8. CASE ExecReply \/ ExecDisconnect \/ ExecWritten \/ Feedback \/ NextRound \/ FrameDone
  BY <1>1, <1>8 DEF ExecReply, ExecDisconnect, ExecWritten, Feedback, NextRound, FrameDone
<1> QED BY <1>2, <1>3, <1>4, <1>5, <1>6, <1>7, <1>8 DEF Next, Daemon, Reduce, Frame

\* More bytes, of the same frame or of another client.
LEMMA NoneAfterStays ==
  ASSUME NEW s \in Seq(Octets), NEW t \in Seq(Octets), NEW c, NEW n, NEW d, NEW f,
         \A k \in DOMAIN t : t[k][1] = d /\ t[k][2] = f,
         d = c => f <= n,
         NoneAfter(s, c, n)
  PROVE  NoneAfter(s \o t, c, n)
<1> DEFINE u == s \o t
<1>1. ASSUME NEW k \in DOMAIN u, u[k][1] = c PROVE u[k][2] <= n
  <2>1. \/ k \in DOMAIN s /\ u[k] = s[k]
        \/ \E i \in DOMAIN t : u[k] = t[i]
    BY <1>1, ConcatFrom
  <2> QED BY <1>1, <2>1 DEF NoneAfter
<1> QED BY <1>1 DEF NoneAfter

\* Every step keeps the hole invariant.
LEMMA HoleSteps ==
  ASSUME FrameInv, HoleInv, [Next]_vars
  PROVE  HoleInv'
<1>1. pty \in Seq(Octets) /\ record \in Seq(Kinds \X Octets)
  BY DEF FrameInv, RawTypeOK
<1>2. ASSUME NEW i \in DOMAIN pty
      PROVE  pty[i][2] \in Nat
  <2>1. pty[i] \in Octets
    BY <1>1
  <2> QED BY <2>1 DEF Octets
<1>3. ASSUME NEW c \in Clients
      PROVE  /\ Len(answers[c]) \in Nat /\ Len(answers'[c]) \in Nat /\ Len(answers[c]) <= Len(answers'[c])
             /\ Doomed(c) => Doomed(c)'
  BY FrameSteps, TraceGrows, DoomedStays DEF FrameInv, RawTypeOK
<1> SUFFICES ASSUME NEW c \in Clients
             PROVE  /\ NoneAfter(pty', c, Len(answers'[c]) + 1)
                    /\ \A n \in Nat : Lost(record', c, n) => Doomed(c)' /\ NoneAfter(pty', c, n)
  BY DEF HoleInv
<1>4. NoneAfter(pty, c, Len(answers[c]) + 1)
  BY DEF HoleInv
<1>5. NoneAfter(pty, c, Len(answers'[c]) + 1)
  BY <1>2, <1>3, <1>4 DEF NoneAfter
<1>6. CASE pty' = pty /\ record' = record
  BY <1>3, <1>5, <1>6 DEF HoleInv
<1>7. CASE WriteSome
  <2>1. InWrite /\ effects # <<>> /\ cur \in Clients /\ cur \in attached \ todrop /\ frameNo \in Nat
    BY <1>7, WriteFrame, Execute DEF InWrite
  <2>2. ~Doomed(cur)
    BY <2>1 DEF InWrite, HasKind, Doomed
  <2>3. PICK n \in 1..(FrameSize - off) :
          pty' = pty \o Bytes(cur, frameNo, off + 1, off + n) /\ UNCHANGED <<record, answers>>
    BY <1>7 DEF WriteSome
  <2> DEFINE b == Bytes(cur, frameNo, off + 1, off + n)
             f == frameNo
  <2>4. b \in Seq(Octets) /\ \A k \in DOMAIN b : b[k][1] = cur /\ b[k][2] = f
    <3>1. off + 1 \in Nat \ {0} /\ off + n \in Nat /\ off + 1 <= (off + n) + 1
      BY <2>3, InputAssumption DEF FrameInv, RawTypeOK
    <3>2. /\ Bytes(cur, frameNo, off + 1, off + n) \in Seq(Octets)
          /\ \A k \in DOMAIN Bytes(cur, frameNo, off + 1, off + n) :
               /\ Bytes(cur, frameNo, off + 1, off + n)[k][1] = cur
               /\ Bytes(cur, frameNo, off + 1, off + n)[k][2] = frameNo
      BY <2>1, <3>1, BytesOfOne
    <3> QED BY <3>2
  <2>5. f = Len(answers[cur]) + 1 /\ pty' = pty \o b
    BY <2>3 DEF frameNo
  <2> HIDE DEF b, f
  <2>6. NoneAfter(pty', c, Len(answers'[c]) + 1)
    <3> DEFINE m == Len(answers'[c]) + 1
    <3>1. cur = c => f <= m
      BY <1>3, <2>3, <2>5
    <3> HIDE DEF m
    <3>2. NoneAfter(pty, c, m)
      BY <1>5 DEF m
    <3>3. NoneAfter(pty \o b, c, m)
      BY <1>1, <2>4, <3>1, <3>2, NoneAfterStays
    <3> QED BY <2>5, <3>3 DEF m
  <2>7. ASSUME NEW m \in Nat, Lost(record', c, m)
        PROVE  Doomed(c)' /\ NoneAfter(pty', c, m)
    <3>1. Doomed(c) /\ NoneAfter(pty, c, m)
      BY <2>3, <2>7 DEF HoleInv
    <3>2. NoneAfter(pty \o b, c, m)
      BY <1>1, <2>2, <2>4, <3>1, NoneAfterStays
    <3> QED BY <1>3, <2>5, <3>1, <3>2
  <2> QED BY <2>6, <2>7
<1>8. CASE ExecRecord
  <2> DEFINE kind == Head(effects).kind
             f == frameNo
  <2>1. /\ AfterWrite /\ cur \in Clients /\ f \in Nat /\ f = Len(answers[cur]) + 1 /\ effects # <<>>
        /\ kind \in {"in", "unwritten", "rejected"}
        /\ effects' = Tail(effects) /\ UNCHANGED <<pty, answers, cur>>
    BY <1>8, FollowFrame, Execute DEF ExecRecord, Executing, AfterWrite, frameNo
  <2>2. PICK bytes \in {Bytes(cur, f, 1, off), Bytes(cur, f, off + 1, FrameSize), Bytes(cur, f, 1, FrameSize)} :
          record' = record \o [k \in DOMAIN bytes |-> <<kind, bytes[k]>>]
    BY <1>8 DEF ExecRecord, Executing
  <2> DEFINE r == [k \in DOMAIN bytes |-> <<kind, bytes[k]>>]
  <2> HIDE DEF kind, f
  <2>3. bytes \in Seq(Octets) /\ \A k \in DOMAIN bytes : bytes[k][1] = cur /\ bytes[k][2] = f
    <3>1. /\ off \in Nat /\ FrameSize \in Nat /\ 1 \in Nat \ {0} /\ off + 1 \in Nat \ {0}
          /\ 1 <= off + 1 /\ 1 <= FrameSize + 1 /\ off + 1 <= FrameSize + 1
      BY InputAssumption DEF FrameInv, RawTypeOK
    <3>2. CASE bytes = Bytes(cur, f, 1, off)
      BY <2>1, <3>1, <3>2, BytesOfOne
    <3>3. CASE bytes = Bytes(cur, f, off + 1, FrameSize)
      BY <2>1, <3>1, <3>3, BytesOfOne
    <3>4. CASE bytes = Bytes(cur, f, 1, FrameSize)
      BY <2>1, <3>1, <3>4, BytesOfOne
    <3> QED BY <2>2, <3>2, <3>3, <3>4
  <2>4. r \in Seq(Kinds \X Octets) /\ \A k \in DOMAIN r : r[k][1] = kind /\ r[k][2][1] = cur /\ r[k][2][2] = f
    <3>1. DOMAIN r = DOMAIN bytes /\ \A k \in DOMAIN r : r[k] = <<kind, bytes[k]>>
      OBVIOUS
    <3>2. kind \in Kinds
      BY <2>1 DEF Kinds
    <3>3. r \in Seq(Kinds \X Octets)
      BY <2>3, <3>2
    <3> QED BY <2>3, <3>1, <3>3
  <2>5. record' = record \o r
    BY <2>2
  <2> HIDE DEF r
  <2>6. kind = "unwritten" /\ cur = c => Doomed(c)'
    <3>1. kind = "unwritten" => HasKind(Tail(effects), "disconnect")
      BY <2>1, EffectsTail DEF AfterWrite, kind
    <3> QED BY <2>1, <3>1 DEF Doomed
  <2>7. ASSUME NEW n \in Nat, Lost(record', c, n)
        PROVE  Doomed(c)' /\ NoneAfter(pty', c, n)
    <3>1. PICK k \in DOMAIN (record \o r) :
            LET e == (record \o r)[k] IN e[1] = "unwritten" /\ e[2][1] = c /\ e[2][2] = n
      BY <2>5, <2>7 DEF Lost
    <3>2. CASE k \in DOMAIN record /\ (record \o r)[k] = record[k]
      <4>1. Lost(record, c, n)
        BY <3>1, <3>2 DEF Lost
      <4> QED BY <1>3, <2>1, <4>1 DEF HoleInv
    <3>3. CASE \E i \in DOMAIN r : (record \o r)[k] = r[i]
      <4>1. kind = "unwritten" /\ c = cur /\ n = f
        BY <2>4, <3>1, <3>3
      <4> QED BY <1>4, <2>1, <2>6, <4>1
    <3> QED BY <1>1, <2>4, <3>2, <3>3, ConcatFrom
  <2> QED BY <1>5, <2>1, <2>7
<1> QED BY <1>6, <1>7, <1>8, TraceGrows DEF ExecRecord, WriteSome

-----------------------------------------------------------------------------
(* In one piece.                                                           *)

Begun == {"ready", "waiting", "done", "failed"}
Over == {"done", "failed"}

Writes(c) == cur = c /\ effects # <<>> /\ Head(effects).kind = "write"

\* A command that may still send or write has been given the lock.
Entitled(c) ==
  \/ cmd[c] \in {"ready", "waiting"}
  \/ cmd[c] \notin Over /\ Has(outbox[c], "acquired")
  \/ Has(inbox[c], "raw")
  \/ Writes(c)

\* No raw frame follows a release or the end of the connection.
Ordered(s) ==
  \A i, j \in DOMAIN s : i < j /\ s[i] \in {"release", "eof"} => s[j] # "raw"

Started(s, c) == \E k \in DOMAIN s : s[k][1] = c

\* A command: it ends before it releases its lock, writes after it was given it, and keeps
\* it while it may send or write.
ProgramOK(c) ==
  /\ cmd[c] # "typing" /\ Ordered(inbox[c])
  /\ Has(inbox[c], "release") \/ Has(inbox[c], "eof") => cmd[c] \in Over
  /\ Has(inbox[c], "raw") \/ Writes(c) \/ Started(pty, c) => cmd[c] \in Begun
  /\ c \in attached /\ Entitled(c) => holder = c

\* Nothing of c will be written any more.
Finished(c) ==
  c \notin attached \/ (cmd[c] \in Over /\ ~Has(inbox[c], "raw") /\ ~Writes(c))

Contiguous(s, c) ==
  \A i, k \in DOMAIN s : s[i][1] = c /\ s[k][1] = c => \A j \in i..k : s[j][1] = c

OnePiece(c) ==
  /\ Contiguous(pty, c)
  /\ Started(pty, c) => pty[Len(pty)][1] = c \/ Finished(c)

PieceInv ==
  /\ \A c \in Inputs : ProgramOK(c) /\ OnePiece(c)
  /\ \A c \in Clients : Writes(c) => holder \in {NoClient, c}

\* The first message of a connection taken, others added.
LEMMA TakeOrdered ==
  ASSUME NEW s \in Seq(Msgs), s # <<>>, Ordered(s)
  PROVE  /\ Ordered(Tail(s)) /\ Has(s, Head(s)) /\ \A m : Has(Tail(s), m) => Has(s, m)
         /\ Head(s) \in {"release", "eof"} => ~Has(Tail(s), "raw")
<1> DEFINE t == Tail(s)
           n == Len(s)
<1>1. /\ n \in Nat /\ DOMAIN s = 1..n /\ n >= 1 /\ DOMAIN t = 1..(n - 1)
      /\ \A i \in 1..(n - 1) : t[i] = s[i + 1]
      /\ Head(s) = s[1]
  BY TailAt
<1> HIDE DEF t, n
<1>2. ASSUME NEW i \in DOMAIN t
      PROVE  i + 1 \in DOMAIN s /\ t[i] = s[i + 1] /\ 1 < i + 1 /\ i \in Nat
  BY <1>1
<1>3. Ordered(t)
  <2> SUFFICES ASSUME NEW i \in DOMAIN t, NEW j \in DOMAIN t, i < j, t[i] \in {"release", "eof"}
               PROVE  t[j] # "raw"
    BY DEF Ordered
  <2>1. i + 1 < j + 1
    BY <1>2
  <2> QED BY <1>2, <2>1 DEF Ordered
<1>4. \A m : Has(t, m) => Has(s, m)
  BY <1>2 DEF Has
<1>5. Has(s, Head(s))
  BY <1>1 DEF Has
<1>6. Head(s) \in {"release", "eof"} => ~Has(t, "raw")
  <2> SUFFICES ASSUME s[1] \in {"release", "eof"}, NEW i \in DOMAIN t PROVE t[i] # "raw"
    BY <1>1 DEF Has
  <2>1. 1 \in DOMAIN s /\ i + 1 \in DOMAIN s /\ 1 < i + 1 /\ t[i] = s[i + 1]
    BY <1>1, <1>2
  <2> QED BY <2>1 DEF Ordered
<1> QED BY <1>3, <1>4, <1>5, <1>6 DEF t

\* What a client sends after an orderly inbox leaves it orderly.
LEMMA SendOrdered ==
  ASSUME NEW s \in Seq(Msgs), NEW t \in Seq(Msgs), Ordered(s), Ordered(t),
         Has(t, "raw") => ~Has(s, "release") /\ ~Has(s, "eof")
  PROVE  Ordered(s \o t) /\ \A m : Has(s \o t, m) => Has(s, m) \/ Has(t, m)
<1> DEFINE u == s \o t
<1>1. ASSUME NEW k \in DOMAIN u
      PROVE  \/ k \in DOMAIN s /\ u[k] = s[k]
             \/ \E i \in DOMAIN t : k = Len(s) + i /\ u[k] = t[i]
  BY ConcatFrom
<1>2. Len(s) \in Nat /\ Len(t) \in Nat /\ DOMAIN s = 1..Len(s) /\ DOMAIN t = 1..Len(t)
  BY ConcatAt
<1> HIDE DEF u
<1>3. Ordered(u)
  <2> SUFFICES ASSUME NEW i \in DOMAIN u, NEW j \in DOMAIN u, i < j, u[i] \in {"release", "eof"}
               PROVE  u[j] # "raw"
    BY DEF Ordered
  <2>1. CASE j \in DOMAIN s /\ u[j] = s[j]
    <3>1. i \in DOMAIN s /\ u[i] = s[i]
      BY <1>1, <1>2, <2>1
    <3> QED BY <2>1, <3>1 DEF Ordered
  <2>2. ASSUME NEW k \in DOMAIN t, j = Len(s) + k, u[j] = t[k]
        PROVE  u[j] # "raw"
    <3>1. CASE i \in DOMAIN s /\ u[i] = s[i]
      BY <2>2, <3>1 DEF Has
    <3>2. ASSUME NEW l \in DOMAIN t, i = Len(s) + l, u[i] = t[l]
          PROVE  u[j] # "raw"
      <4>1. l < k
        BY <1>2, <2>2, <3>2
      <4> QED BY <2>2, <3>2, <4>1 DEF Ordered
    <3> QED BY <1>1, <3>1, <3>2
  <2> QED BY <1>1, <2>1, <2>2
<1>4. \A m : Has(u, m) => Has(s, m) \/ Has(t, m)
  BY <1>1 DEF Has
<1> QED BY <1>3, <1>4 DEF u

\* Nothing happens that would let c send or write again.
LEMMA QuietPiece ==
  ASSUME NEW c, ProgramOK(c), OnePiece(c), pty' = pty, cmd'[c] = cmd[c],
         Ordered(inbox'[c]), \A m : Has(inbox'[c], m) => Has(inbox[c], m),
         Has(outbox'[c], "acquired") => Has(outbox[c], "acquired"),
         Writes(c)' => Writes(c), c \in attached' => c \in attached,
         c \in attached' /\ Entitled(c)' /\ holder = c => holder' = c
  PROVE  ProgramOK(c)' /\ OnePiece(c)'
<1>1. ProgramOK(c)'
  BY DEF ProgramOK, Entitled
<1>2. OnePiece(c)'
  BY DEF OnePiece, Finished
<1> QED BY <1>1, <1>2

\* A step of the command itself.
LEMMA OwnProgram ==
  ASSUME FrameInv, NEW c \in Inputs, ProgramOK(c), OnePiece(c), Program(c) \/ Vanish(c)
  PROVE  ProgramOK(c)' /\ OnePiece(c)'
<1>1. /\ UNCHANGED <<attached, holder, pty, cur, effects>> /\ c \in Clients
      /\ cmd \in [Clients -> Cmds] /\ inbox[c] \in Seq(Msgs) /\ outbox[c] \in Seq(Answers)
      /\ DOMAIN inbox = Clients /\ DOMAIN outbox = Clients
  BY ProgramIs DEF FrameInv, RawTypeOK, Inputs, daemon, run, trace
<1>2. PICK msgs \in {<<>>, <<"acquire">>, <<"raw">>, <<"eof">>, <<"release", "eof">>} :
        /\ inbox' = [inbox EXCEPT ![c] = @ \o msgs]
        /\ \/ cmd[c] \in {"start", "denied"} /\ cmd'[c] = "locking" /\ msgs = <<"acquire">> /\ outbox' = outbox
           \/ /\ cmd[c] = "locking" /\ cmd'[c] \in {"ready", "denied"} /\ msgs = <<>>
              /\ outbox[c] # <<>> /\ outbox' = [outbox EXCEPT ![c] = Tail(@)]
              /\ cmd'[c] = "ready" => Head(outbox[c]) = "acquired"
           \/ cmd[c] = "ready" /\ cmd'[c] = "waiting" /\ msgs = <<"raw">> /\ outbox' = outbox
           \/ /\ cmd[c] = "waiting" /\ cmd'[c] \in {"ready", "waiting"} /\ msgs = <<>>
              /\ outbox[c] # <<>> /\ outbox' = [outbox EXCEPT ![c] = Tail(@)]
           \/ /\ cmd[c] \notin Over /\ cmd'[c] \in Over /\ msgs \in {<<>>, <<"eof">>, <<"release", "eof">>}
  <2>1. CASE SendAcquire(c)
    BY <1>1, <2>1 DEF SendAcquire, Send
  <2>2. CASE LockAnswered(c)
    <3>1. CASE Head(outbox[c]) \in {"acquired", "denied"}
      BY <1>1, <2>2, <3>1 DEF LockAnswered, Send
    <3>2. CASE Head(outbox[c]) \notin {"acquired", "denied"}
      BY <1>1, <2>2, <3>2 DEF LockAnswered, Send, Over
    <3> QED BY <3>1, <3>2
  <2>3. CASE SendRaw(c)
    BY <1>1, <2>3 DEF SendRaw, Send, ProgramOK
  <2>4. CASE Acked(c)
    BY <1>1, <2>4 DEF Acked, Send, Over
  <2>5. CASE Release(c)
    BY <1>1, <2>5 DEF Release, Send, Over
  <2>6. CASE GiveUp(c)
    BY <1>1, <2>6 DEF GiveUp, Send, Over
  <2>7. CASE Vanish(c)
    BY <1>1, <2>7 DEF Vanish, Send, Over
  <2> QED BY <2>1, <2>2, <2>3, <2>4, <2>5, <2>6, <2>7 DEF Program
<1> DEFINE s == inbox[c]
           u == s \o msgs
<1>3. inbox'[c] = u
  BY <1>1, <1>2
<1>4. /\ msgs \in Seq(Msgs) /\ Ordered(msgs)
      /\ msgs # <<"raw">> => ~Has(msgs, "raw")
      /\ msgs \in {<<>>, <<"acquire">>, <<"raw">>} => ~Has(msgs, "release") /\ ~Has(msgs, "eof")
  <2>1. Ordered(<<>>) /\ Ordered(<<"acquire">>) /\ Ordered(<<"raw">>) /\ Ordered(<<"eof">>)
    BY DEF Ordered
  <2>2. Ordered(<<"release", "eof">>)
    BY DEF Ordered
  <2>3. /\ ~Has(<<>>, "raw") /\ ~Has(<<"acquire">>, "raw") /\ ~Has(<<"eof">>, "raw")
        /\ ~Has(<<"release", "eof">>, "raw")
        /\ ~Has(<<>>, "release") /\ ~Has(<<"acquire">>, "release") /\ ~Has(<<"raw">>, "release")
        /\ ~Has(<<>>, "eof") /\ ~Has(<<"acquire">>, "eof") /\ ~Has(<<"raw">>, "eof")
    BY DEF Has
  <2>4. msgs \in Seq(Msgs)
    <3>1. {"acquire", "raw", "eof", "release"} \subseteq Msgs
      BY DEF Msgs
    <3>2. {<<>>, <<"acquire">>, <<"eof">>, <<"raw">>, <<"release", "eof">>} \subseteq Seq(Msgs)
      BY <3>1
    <3> QED BY <3>2
  <2> QED BY <2>1, <2>2, <2>3, <2>4
<1>5. Ordered(u) /\ \A m : Has(u, m) => Has(s, m) \/ Has(msgs, m)
  <2>1. Has(msgs, "raw") => ~Has(s, "release") /\ ~Has(s, "eof")
    BY <1>2 DEF ProgramOK, Over
  <2> QED BY <1>1, <1>4, <2>1, SendOrdered DEF ProgramOK
<1> HIDE DEF u
<1>6. Has(u, "release") \/ Has(u, "eof") => cmd'[c] \in Over
  <2>1. ~Has(s, "release") /\ ~Has(s, "eof")
    BY <1>2 DEF ProgramOK, Over
  <2>2. cmd'[c] \notin Over => msgs \in {<<>>, <<"acquire">>, <<"raw">>}
    BY <1>2 DEF Over
  <2> QED BY <1>4, <1>5, <2>1, <2>2
<1>7. Has(u, "raw") => Has(s, "raw") \/ (cmd[c] = "ready" /\ cmd'[c] = "waiting")
  <2>1. msgs = <<"raw">> => cmd[c] = "ready" /\ cmd'[c] = "waiting"
    <3>1. <<"raw">> \notin {<<>>, <<"acquire">>, <<"eof">>, <<"release", "eof">>}
      OBVIOUS
    <3> QED BY <1>2, <3>1
  <2> QED BY <1>4, <1>5, <2>1
<1>8. Writes(c)' = Writes(c) /\ Started(pty, c)' = Started(pty, c)
  BY <1>1 DEF Writes, Started
<1>9. cmd[c] \in Begun => cmd'[c] \in Begun
  BY <1>2 DEF Begun, Over
<1>10. Has(u, "raw") \/ Writes(c) \/ Started(pty, c) => cmd'[c] \in Begun
  BY <1>7, <1>9 DEF ProgramOK, Begun
<1>11. Entitled(c)' => Entitled(c)
  <2>1. Has(Tail(outbox[c]), "acquired") /\ outbox[c] # <<>> => Has(outbox[c], "acquired")
    <3> DEFINE o == outbox[c]
               t == Tail(o)
    <3>1. o # <<>> => /\ DOMAIN o = 1..Len(o) /\ Len(o) \in Nat /\ DOMAIN t = 1..(Len(o) - 1)
                      /\ \A i \in 1..(Len(o) - 1) : t[i] = o[i + 1] /\ i + 1 \in 1..Len(o)
      BY <1>1, TailAt
    <3> HIDE DEF o, t
    <3>2. o # <<>> /\ Has(t, "acquired") => Has(o, "acquired")
      BY <3>1 DEF Has
    <3> QED BY <3>2 DEF o, t
  <2>2. outbox[c] # <<>> /\ Head(outbox[c]) = "acquired" => Has(outbox[c], "acquired")
    <3>1. outbox[c] # <<>> => 1 \in DOMAIN outbox[c] /\ Head(outbox[c]) = outbox[c][1]
      BY <1>1
    <3> QED BY <3>1 DEF Has
  <2>3. CASE cmd'[c] \in Over
    BY <1>2, <1>3, <1>7, <1>8, <2>3 DEF Entitled, Over
  <2>4. CASE cmd'[c] \notin Over
    <3>1. outbox'[c] = outbox[c] \/ (outbox[c] # <<>> /\ outbox'[c] = Tail(outbox[c]))
      BY <1>1, <1>2, <2>4
    <3>2. Has(outbox'[c], "acquired") => Has(outbox[c], "acquired")
      BY <2>1, <3>1
    <3> QED BY <1>2, <1>3, <1>7, <1>8, <2>2, <2>4, <3>2 DEF Entitled, Over
  <2> QED BY <2>3, <2>4
<1>12. ProgramOK(c)'
  BY <1>1, <1>2, <1>3, <1>5, <1>6, <1>8, <1>10, <1>11 DEF ProgramOK, Over
<1>13. OnePiece(c)'
  <2>1. Finished(c) => Finished(c)'
    BY <1>1, <1>2 DEF Finished, Over
  <2> QED BY <1>1, <2>1 DEF OnePiece
<1> QED BY <1>12, <1>13

\* The daemon takes a frame.
LEMMA FramePiece ==
  ASSUME FrameInv, PieceInv, NEW d \in Clients, Frame(d)
  PROVE  PieceInv'
<1>1. /\ pc = "frames" /\ d \in todo /\ Take(d) /\ cur = NoClient /\ d \in attached
      /\ UNCHANGED <<role, cmd, attached, pty>> /\ NoClient \notin Clients
  <2>1. pc = "frames" /\ d \in todo /\ Take(d) /\ UNCHANGED <<role, cmd, attached, pty>>
    BY DEF Frame, EndOfFile, LockAcquire, LockRelease, RawRefused, RawData, Handling, client, trace
  <2> QED BY <2>1, InputAssumption DEF FrameInv, PassOK, Clients, NoClient
<1>2. /\ \A c \in Clients : c # d => inbox'[c] = inbox[c]
      /\ inbox[d] \in Seq(Msgs) /\ inbox[d] # <<>> /\ inbox'[d] = Tail(inbox[d])
  BY <1>1, TakeIs DEF FrameInv
<1>3. \A c \in Clients : ~Writes(c)
  BY <1>1 DEF Writes
<1>4. ASSUME NEW c \in Clients, Writes(c)'
      PROVE  c = d /\ RawData(d) /\ holder \in {NoClient, d} /\ holder' = holder
  <2>1. RawData(d)
    BY <1>1, <1>4 DEF Frame, EndOfFile, LockAcquire, LockRelease, RawRefused, run, Writes
  <2>2. cur' = d /\ holder' = holder
    BY <2>1 DEF RawData
  <2>3. ~Rejected(d)
    <3>1. ASSUME Rejected(d) PROVE Head(effects').kind = "rejected"
      BY <2>1, <3>1 DEF RawData
    <3> QED BY <1>4, <3>1 DEF Writes
  <2> QED BY <1>4, <2>1, <2>2, <2>3 DEF Writes, Rejected
<1>5. \A c \in Clients : c # d => outbox'[c] = outbox[c]
  <2>1. {<<"acquired">>, <<"denied">>, <<"denied", "error">>, <<"error">>} \subseteq Seq(Answers)
    <3>1. {"acquired", "denied", "error"} \subseteq Answers
      BY DEF Answers
    <3> QED BY <3>1
  <2>2. outbox' = outbox \/ \E msgs \in Seq(Answers) : Reply(d, msgs)
    BY <2>1 DEF Frame, EndOfFile, LockAcquire, LockRelease, RawRefused, RawData
  <2> QED BY <2>2, ReplyIs DEF FrameInv
<1>6. ASSUME NEW c \in Inputs, c # d PROVE ProgramOK(c)' /\ OnePiece(c)'
  <2>1. c \in Clients /\ ProgramOK(c) /\ OnePiece(c)
    BY DEF Inputs, PieceInv
  <2>2. inbox'[c] = inbox[c] /\ outbox'[c] = outbox[c] /\ ~Writes(c)' /\ ~Writes(c)
    BY <1>2, <1>3, <1>4, <1>5, <1>6, <2>1
  <2>3. holder = c => holder' = c
    BY <1>1, <1>6, <2>1 DEF Frame, EndOfFile, LockAcquire, LockRelease, RawRefused, RawData
  <2> QED BY <1>1, <2>1, <2>2, <2>3, QuietPiece DEF ProgramOK
<1>7. ASSUME d \in Inputs PROVE ProgramOK(d)' /\ OnePiece(d)'
  <2>1. ProgramOK(d) /\ OnePiece(d)
    BY <1>7 DEF PieceInv
  <2>2. /\ Ordered(inbox'[d]) /\ Has(inbox[d], Head(inbox[d])) /\ \A m : Has(inbox'[d], m) => Has(inbox[d], m)
        /\ Head(inbox[d]) \in {"release", "eof"} => ~Has(inbox'[d], "raw")
    BY <1>2, <2>1, TakeOrdered DEF ProgramOK
  <2>3. ASSUME Has(outbox'[d], "acquired") => Has(outbox[d], "acquired"), ~Writes(d)',
               holder' = holder \/ ~Entitled(d)' \/ holder' = d
        PROVE  ProgramOK(d)' /\ OnePiece(d)'
    BY <1>1, <2>1, <2>2, <2>3, QuietPiece
  <2>4. ASSUME NEW msgs \in {<<"denied">>, <<"denied", "error">>, <<"error">>}, Reply(d, msgs)
        PROVE  Has(outbox'[d], "acquired") => Has(outbox[d], "acquired")
    <3>1. msgs \in Seq(Answers) /\ ~Has(msgs, "acquired")
      <4>1. {"denied", "error"} \subseteq Answers
        BY DEF Answers
      <4>2. {<<"denied">>, <<"denied", "error">>, <<"error">>} \subseteq Seq(Answers)
        BY <4>1
      <4>3. ~Has(<<"denied">>, "acquired") /\ ~Has(<<"denied", "error">>, "acquired") /\ ~Has(<<"error">>, "acquired")
        BY DEF Has
      <4> QED BY <4>2, <4>3
    <3> QED BY <2>4, <3>1, ReplyIs DEF FrameInv
  <2>5. CASE EndOfFile(d)
    BY <1>3, <2>3, <2>5 DEF EndOfFile, run, Writes
  <2>6. CASE LockAcquire(d)
    <3>1. ~Writes(d)'
      BY <1>3, <2>6 DEF LockAcquire, run, Writes
    <3>2. CASE Reply(d, <<"denied">>) \/ Reply(d, <<"denied", "error">>)
      BY <2>3, <2>4, <2>6, <3>1, <3>2 DEF LockAcquire
    <3>3. CASE holder' = d
      <4>1. ProgramOK(d)'
        BY <1>1, <2>1, <2>2, <3>1, <3>3 DEF ProgramOK
      <4>2. OnePiece(d)'
        BY <1>1, <2>1, <2>2, <3>1 DEF OnePiece, Finished
      <4> QED BY <4>1, <4>2
    <3> QED BY <2>6, <3>2, <3>3 DEF LockAcquire
  <2>7. CASE LockRelease(d)
    <3>1. ~Writes(d)' /\ Head(inbox[d]) = "release"
      BY <1>3, <2>7 DEF LockRelease, run, Writes, Handling
    <3>2. Has(outbox'[d], "acquired") => Has(outbox[d], "acquired")
      BY <2>4, <2>7 DEF LockRelease
    <3>3. ~Entitled(d)'
      BY <1>1, <2>1, <2>2, <3>1 DEF Entitled, ProgramOK, Over
    <3> QED BY <2>3, <3>1, <3>2, <3>3
  <2>8. CASE RawRefused(d)
    <3>1. ~Writes(d)' /\ holder' = holder
      BY <1>3, <2>8 DEF RawRefused, run, Writes
    <3> QED BY <2>3, <2>4, <2>8, <3>1 DEF RawRefused
  <2>9. CASE RawData(d)
    <3>1. Has(inbox[d], "raw") /\ UNCHANGED <<holder, outbox>>
      BY <2>2, <2>9 DEF RawData, Handling
    <3>2. holder = d /\ cmd[d] \in Begun
      BY <1>1, <2>1, <3>1 DEF ProgramOK, Entitled
    <3>3. ProgramOK(d)'
      BY <1>1, <2>1, <2>2, <3>1, <3>2 DEF ProgramOK
    <3>4. ~Finished(d)
      BY <1>1, <3>1 DEF Finished
    <3>5. OnePiece(d)'
      BY <1>1, <2>1, <3>4 DEF OnePiece
    <3> QED BY <3>3, <3>5
  <2> QED BY <2>5, <2>6, <2>7, <2>8, <2>9 DEF Frame
<1>8. Inputs' = Inputs
  BY <1>1 DEF Inputs
<1> QED BY <1>4, <1>6, <1>7, <1>8 DEF PieceInv

\* The other steps of the daemon but the write, and of the child.
LEMMA DaemonPiece ==
  ASSUME FrameInv, PieceInv,
         \/ ExecRecord \/ ExecAck \/ ExecReply \/ ExecDisconnect \/ ExecWritten \/ Feedback \/ NextRound \/ FrameDone
         \/ Receive \/ EndPass \/ UpgradeExec \/ UpgradeRequest \/ ChildReads \/ ChildGone \/ UNCHANGED vars
  PROVE  PieceInv'
<1>1. UNCHANGED <<role, cmd, pty>> /\ attached' \subseteq attached
  BY Zenon DEF ExecRecord, ExecAck, ExecReply, ExecDisconnect, ExecWritten, Feedback, NextRound, FrameDone,
         Receive, EndPass, UpgradeExec, UpgradeRequest, ChildReads, ChildGone, vars, client, daemon, trace
<1>2. \/ UNCHANGED <<holder, inbox, attached>>
      \/ EndPass
      \/ attached' = {} /\ inbox' = inbox /\ UpgradeExec
  BY Zenon DEF ExecRecord, ExecAck, ExecReply, ExecDisconnect, ExecWritten, Feedback, NextRound, FrameDone,
         Receive, UpgradeExec, UpgradeRequest, ChildReads, ChildGone, vars, daemon
<1>3. \A c \in Clients : Writes(c)' => Writes(c)
  <2>1. CASE ExecRecord \/ ExecAck \/ ExecReply \/ ExecDisconnect
    <3>1. effects' \in Seq(Effects)
      BY <2>1, FollowFrame, EffectsTail DEF AfterWrite, ExecRecord, ExecAck, ExecReply, ExecDisconnect, Executing
    <3>2. effects' # <<>> => Head(effects') \in Effects
      BY <3>1
    <3> QED BY <3>2 DEF Writes, Effects, Kinds
  <2>2. CASE ExecWritten
    <3>1. InWrite /\ effects # <<>> /\ effects' = Tail(effects)
      BY <2>2, WriteFrame DEF ExecWritten
    <3>2. \A x : Tail(<<x>>) = <<>>
      OBVIOUS
    <3> QED BY <3>1, <3>2 DEF InWrite, Writes
  <2>3. CASE Feedback \/ FrameDone
    <3>1. effects' = <<>>
      BY <2>3 DEF Feedback, FrameDone, RoundOver
    <3> QED BY <3>1 DEF Writes
  <2>4. CASE NextRound
    <3>1. effects' = further /\ further # <<>> /\ (InWrite \/ AfterWrite)
      BY <2>4, Execute DEF NextRound, RoundOver
    <3>2. Head(effects') \in Effects
      BY <3>1 DEF InWrite, AfterWrite
    <3> QED BY <3>2 DEF Writes, Effects, Kinds
  <2>5. CASE UNCHANGED <<cur, effects>>
    BY <2>5 DEF Writes
  <2> QED BY <2>1, <2>2, <2>3, <2>4, <2>5
          DEF Receive, EndPass, UpgradeExec, UpgradeRequest, ChildReads, ChildGone, vars, run
<1>4. \A c \in Clients : Has(outbox'[c], "acquired") => Has(outbox[c], "acquired")
  <2>1. CASE ExecReply
    <3>1. <<"error">> \in Seq(Answers) /\ ~Has(<<"error">>, "acquired")
      BY DEF Answers, Has
    <3>2. cur \in Clients
      BY <2>1, Execute DEF ExecReply, Executing
    <3>3. Reply(cur, <<"error">>)
      BY <2>1 DEF ExecReply
    <3> QED BY <3>1, <3>2, <3>3, ReplyIs DEF FrameInv
  <2>2. CASE ExecAck
    <3>1. cur \in Clients /\ outbox \in [Clients -> Seq(Answers)]
      BY <2>2, Execute DEF ExecAck, Executing, FrameInv, RawTypeOK
    <3>2. outbox' = outbox \/ \E k \in {"ok", "err"} : outbox' = [outbox EXCEPT ![cur] = Append(@, k)]
      BY <2>2, <3>1 DEF ExecAck, Executing
    <3>3. ASSUME NEW k \in {"ok", "err"}, Has(Append(outbox[cur], k), "acquired") PROVE Has(outbox[cur], "acquired")
      BY <3>1, <3>3 DEF Has
    <3> QED BY <3>1, <3>2, <3>3
  <2>3. CASE outbox' = outbox
    BY <2>3
  <2> QED BY <2>1, <2>2, <2>3
          DEF ExecRecord, ExecDisconnect, ExecWritten, Feedback, NextRound, FrameDone,
              Receive, EndPass, UpgradeExec, UpgradeRequest, ChildReads, ChildGone, vars
<1>5. ASSUME NEW c \in Inputs PROVE ProgramOK(c)' /\ OnePiece(c)'
  <2>1. c \in Clients /\ ProgramOK(c) /\ OnePiece(c)
    BY DEF Inputs, PieceInv
  <2>2. Ordered(inbox'[c]) /\ \A m : Has(inbox'[c], m) => Has(inbox[c], m)
    <3>1. inbox'[c] = inbox[c] \/ inbox'[c] = <<>>
      BY <1>2, <2>1 DEF EndPass
    <3>2. Ordered(<<>>) /\ \A m : ~Has(<<>>, m)
      BY DEF Ordered, Has
    <3> QED BY <2>1, <3>1, <3>2 DEF ProgramOK
  <2>3. c \in attached' /\ holder = c => holder' = c
    BY <1>2 DEF EndPass, Collected
  <2> QED BY <1>1, <1>3, <1>4, <2>1, <2>2, <2>3, QuietPiece
<1>6. ASSUME NEW c \in Clients, Writes(c)' PROVE holder' \in {NoClient, c}
  <2>1. Writes(c) /\ c # NoClient
    BY <1>3, <1>6, InputAssumption DEF Clients, NoClient
  <2>2. pc = "execute"
    BY <2>1 DEF Writes, FrameInv, PassOK
  <2>3. holder' = holder
    BY <1>2, <2>2 DEF EndPass, UpgradeExec
  <2> QED BY <2>1, <2>3 DEF PieceInv
<1>7. Inputs' = Inputs
  BY <1>1 DEF Inputs
<1> QED BY <1>5, <1>6, <1>7 DEF PieceInv

\* Bytes behind those of one client, or behind those of others.
LEMMA Behind ==
  ASSUME NEW s \in Seq(Octets), NEW t \in Seq(Octets), t # <<>>, NEW c, NEW d,
         \A k \in DOMAIN t : t[k][1] = d,
         Contiguous(s, c), c = d /\ Started(s, c) => s[Len(s)][1] = c
  PROVE  /\ Contiguous(s \o t, c) /\ (s \o t)[Len(s \o t)][1] = d
         /\ Started(s \o t, c) => Started(s, c) \/ c = d
<1> DEFINE u == s \o t
           n == Len(s)
<1>1. /\ n \in Nat /\ Len(t) \in Nat /\ Len(t) >= 1 /\ DOMAIN s = 1..n /\ DOMAIN t = 1..Len(t)
      /\ Len(u) = n + Len(t) /\ DOMAIN u = 1..(n + Len(t))
      /\ \A i \in 1..n : u[i] = s[i]
      /\ \A i \in 1..Len(t) : u[n + i] = t[i]
  BY ConcatAt
<1>2. n = Len(s)
  OBVIOUS
<1> HIDE DEF u, n
<1>3. ASSUME NEW k \in DOMAIN u, n < k PROVE u[k][1] = d
  <2>1. k - n \in 1..Len(t) /\ n + (k - n) = k
    BY <1>1, <1>3
  <2>2. u[n + (k - n)] = t[k - n]
    BY <1>1, <2>1
  <2> QED BY <1>1, <2>1, <2>2
<1>4. u[Len(u)][1] = d
  BY <1>1, <1>3
<1>5. Started(u, c) => Started(s, c) \/ c = d
  <2> SUFFICES ASSUME NEW k \in DOMAIN u, u[k][1] = c PROVE Started(s, c) \/ c = d
    BY DEF Started
  <2>1. CASE k <= n
    BY <1>1, <2>1 DEF Started
  <2>2. CASE n < k
    BY <1>3, <2>2
  <2> QED BY <1>1, <2>1, <2>2
<1>6. Contiguous(u, c)
  <2> SUFFICES ASSUME NEW i \in DOMAIN u, NEW k \in DOMAIN u, u[i][1] = c, u[k][1] = c, NEW j \in i..k
               PROVE  u[j][1] = c
    BY DEF Contiguous
  <2>1. i \in Nat /\ j \in Nat /\ k \in Nat /\ j \in DOMAIN u /\ i <= j /\ j <= k
    BY <1>1
  <2>2. CASE k <= n
    <3>1. i \in DOMAIN s /\ j \in DOMAIN s /\ k \in DOMAIN s /\ s[i][1] = c /\ s[k][1] = c
      BY <1>1, <2>1, <2>2
    <3> QED BY <1>1, <3>1 DEF Contiguous
  <2>3. CASE n < k /\ n < j
    BY <1>3, <2>1, <2>3
  <2>4. CASE n < k /\ j <= n
    <3>1. c = d
      BY <1>3, <2>4
    <3>2. i \in DOMAIN s /\ j \in DOMAIN s /\ n \in DOMAIN s /\ s[i][1] = c /\ j \in i..n
      BY <1>1, <2>1, <2>4
    <3>3. s[n][1] = c
      BY <1>2, <3>1, <3>2 DEF Started
    <3>4. s[j][1] = c
      BY <3>2, <3>3 DEF Contiguous
    <3> QED BY <1>1, <3>2, <3>4
  <2> QED BY <1>1, <2>1, <2>2, <2>3, <2>4
<1> QED BY <1>4, <1>5, <1>6 DEF u

\* Bytes are written: those of the holder of the lock, or nobody holds it.
LEMMA WritePiece ==
  ASSUME FrameInv, PieceInv, WriteSome
  PROVE  PieceInv'
<1>1. UNCHANGED <<role, cmd, inbox, outbox, attached, holder, cur, effects>> /\ Inputs' = Inputs
  BY DEF WriteSome, client, daemon, Inputs
<1>2. /\ cur \in Clients /\ frameNo \in Nat /\ cur \in attached /\ Writes(cur)
      /\ off \in Nat /\ pty \in Seq(Octets)
  BY Execute, WriteFrame, InputAssumption, SMTT(30) DEF WriteSome, Executing, Writes, FrameInv, RawTypeOK
<1>3. PICK n \in 1..(FrameSize - off) : pty' = pty \o Bytes(cur, frameNo, off + 1, off + n)
  BY DEF WriteSome
<1> DEFINE b == Bytes(cur, frameNo, off + 1, off + n)
<1>4. b \in Seq(Octets) /\ b # <<>> /\ \A k \in DOMAIN b : b[k][1] = cur
  <2>1. off + 1 \in Nat \ {0} /\ off + n \in Nat /\ off + 1 <= (off + n) + 1 /\ off + 1 <= off + n
    BY <1>2, <1>3, InputAssumption
  <2>2. b \in Seq(Octets) /\ Len(b) >= 1 /\ \A k \in DOMAIN b : b[k][1] = cur
    BY <1>2, <2>1, BytesOfOne
  <2> HIDE DEF b
  <2> QED BY <2>2
<1>5. pty' = pty \o b
  BY <1>3
<1> HIDE DEF b
<1>6. ASSUME NEW c \in Inputs PROVE ProgramOK(c)' /\ OnePiece(c)'
  <2>1. c \in Clients /\ ProgramOK(c) /\ OnePiece(c)
    BY DEF Inputs, PieceInv
  <2>2. c = cur => ~Finished(c)
    BY <1>2 DEF Finished
  <2>3. /\ Contiguous(pty', c) /\ pty'[Len(pty')][1] = cur
        /\ Started(pty', c) => Started(pty, c) \/ c = cur
    <3>1. Contiguous(pty, c) /\ (c = cur /\ Started(pty, c) => pty[Len(pty)][1] = c)
      BY <2>1, <2>2 DEF OnePiece
    <3>2. /\ Contiguous(pty \o b, c) /\ (pty \o b)[Len(pty \o b)][1] = cur
          /\ Started(pty \o b, c) => Started(pty, c) \/ c = cur
      BY <1>2, <1>4, <3>1, Behind
    <3> QED BY <1>5, <3>2
  <2>4. ProgramOK(c)'
    BY <1>1, <1>2, <2>1, <2>3 DEF ProgramOK, Entitled, Writes
  <2>5. Started(pty', c) => c = cur \/ Finished(c)
    <3> SUFFICES ASSUME Started(pty, c), c # cur, c \in attached PROVE Finished(c)
      BY <2>3 DEF Finished
    <3>1. holder # c
      <4>1. holder \in {NoClient, cur}
        BY <1>2 DEF PieceInv
      <4>2. c # NoClient
        BY <2>1, InputAssumption DEF Clients, NoClient
      <4> QED BY <4>1, <4>2
    <3>2. ~Entitled(c) /\ cmd[c] \in Begun
      BY <2>1, <3>1 DEF ProgramOK
    <3> QED BY <3>2 DEF Entitled, Begun, Over, Finished
  <2>6. OnePiece(c)'
    BY <1>1, <2>3, <2>5 DEF OnePiece, Finished, Writes
  <2> QED BY <2>4, <2>6
<1>7. \A c \in Clients : Writes(c)' => holder' \in {NoClient, c}
  BY <1>1 DEF PieceInv, Writes
<1> QED BY <1>1, <1>6, <1>7 DEF PieceInv

\* A client takes a step.
LEMMA ProgramPiece ==
  ASSUME FrameInv, PieceInv, NEW d \in Clients, Program(d) \/ Vanish(d)
  PROVE  PieceInv'
<1>1. UNCHANGED <<role, attached, holder, cur, effects, pty>> /\ Inputs' = Inputs
  BY ProgramIs DEF FrameInv, daemon, run, trace, Inputs
<1>2. ASSUME NEW c \in Inputs, c # d PROVE ProgramOK(c)' /\ OnePiece(c)'
  <2>1. c \in Clients /\ ProgramOK(c) /\ OnePiece(c)
    BY DEF Inputs, PieceInv
  <2>2. cmd'[c] = cmd[c] /\ inbox'[c] = inbox[c] /\ outbox'[c] = outbox[c]
    <3>1. /\ cmd' = cmd \/ \E m : cmd' = [cmd EXCEPT ![d] = m]
          /\ \E m : inbox' = [inbox EXCEPT ![d] = m]
          /\ outbox' = outbox \/ \E m : outbox' = [outbox EXCEPT ![d] = m]
      BY DEF Program, SendAcquire, LockAnswered, SendRaw, Acked, Release, GiveUp, Vanish, Send
    <3> QED BY <1>2, <2>1, <3>1 DEF FrameInv, RawTypeOK
  <2>3. Writes(c)' = Writes(c)
    BY <1>1 DEF Writes
  <2> QED BY <1>1, <2>1, <2>2, <2>3, QuietPiece DEF ProgramOK
<1>3. ASSUME d \in Inputs PROVE ProgramOK(d)' /\ OnePiece(d)'
  BY <1>3, OwnProgram DEF PieceInv
<1>4. \A c \in Clients : Writes(c)' => holder' \in {NoClient, c}
  BY <1>1 DEF PieceInv, Writes
<1> QED BY <1>1, <1>2, <1>3, <1>4 DEF PieceInv

\* Every step keeps the piece invariant.
LEMMA PieceSteps ==
  ASSUME FrameInv, PieceInv, [Next]_vars
  PROVE  PieceInv'
BY ProgramPiece, FramePiece, DaemonPiece, WritePiece DEF Next, Daemon, Reduce

\* The three invariants hold in every behaviour.
LEMMA RawInvHolds == Spec => [](FrameInv /\ HoleInv /\ PieceInv)
<1>1. Init => HoleInv /\ PieceInv
  <2> SUFFICES ASSUME Init PROVE HoleInv /\ PieceInv
    OBVIOUS
  <2>1. HoleInv
    BY DEF Init, HoleInv, NoneAfter, Lost
  <2>2. ASSUME NEW c \in Inputs PROVE ProgramOK(c) /\ OnePiece(c)
    BY DEF Init, Inputs, ProgramOK, OnePiece, Ordered, Has, Writes, Started, Contiguous, Entitled, Over
  <2> QED BY <2>1, <2>2 DEF Init, PieceInv, Writes
<1>2. FrameInv /\ HoleInv /\ PieceInv /\ [Next]_vars => (FrameInv /\ HoleInv /\ PieceInv)'
  BY FrameSteps, HoleSteps, PieceSteps
<1> QED BY <1>1, <1>2, FrameInit, PTL DEF Spec

\* For any number of clients that lock, type, fail, time out or are killed in any order: the
\* input of a command reaches the child in one piece, and after a frame that was not written
\* to its end nothing its client sent later is written (lock.rs, reduce_raw_data,
\* finish_write, auto_lock.rs; DR-0022).
THEOREM InputInOnePiece == Spec => []InvocationAtomic
<1>1. ASSUME FrameInv, HoleInv, PieceInv PROVE InvocationAtomic
  <2>1. \A c \in Inputs : Contiguous(pty, c)
    BY <1>1 DEF PieceInv, OnePiece
  <2>2. ASSUME NEW c \in Clients, NEW n \in 1..NumFrames,
               \E k \in DOMAIN record : record[k][1] = "unwritten" /\ record[k][2] = <<c, n, FrameSize>>,
               NEW m \in (n + 1)..NumFrames
        PROVE  BytesOf(c, m) = {}
    <3>1. Lost(record, c, n)
      BY <2>2 DEF Lost
    <3>2. NoneAfter(pty, c, n)
      BY <1>1, <3>1 DEF HoleInv
    <3>3. ~(m <= n)
      BY <2>2, InputAssumption
    <3> QED BY <3>2, <3>3 DEF NoneAfter, BytesOf
  <2> QED BY <2>1, <2>2 DEF InvocationAtomic, Contiguous
<1> QED BY <1>1, RawInvHolds, PTL

-----------------------------------------------------------------------------
(* Every frame is accounted for.                                           *)

Verdicts == {"ok", "err", "lost", "refused"}

\* What follows a write or a refusal, from its end: nothing but the error and the
\* disconnection, the acknowledgement before them, the records before that.
Rest(s) == \A i \in DOMAIN s : s[i].kind \in {"error", "disconnect"}
AckNext(s) ==
  s # <<>> /\ Rest(Tail(s)) /\ Head(s).kind = (IF off = FrameSize THEN "ok" ELSE "err")
LostNext(s) == s # <<>> /\ Head(s).kind = "unwritten" /\ off < FrameSize /\ AckNext(Tail(s))
InNext(s) ==
  /\ s # <<>> /\ Head(s).kind = "in" /\ off > 0
  /\ (off = FrameSize /\ AckNext(Tail(s))) \/ LostNext(Tail(s))
RefusalNext(s) == s # <<>> /\ Head(s).kind = "rejected" /\ off = 0 /\ AckNext(Tail(s))
Steps(s) == AckNext(s) \/ LostNext(s) \/ InNext(s) \/ RefusalNext(s)

\* The frame being handled has no answer yet ...
InWriteOK ==
  /\ InWrite /\ rounds = 1
  /\ \A k \in DOMAIN results : results[k].outcome = "written" <=> off = FrameSize
Following ==
  /\ pc = "execute" /\ pending.write = None /\ results = <<>>
  /\ \/ Steps(effects) /\ further = <<>>
     \/ effects = <<>> /\ Steps(further) /\ rounds = 1
Unanswered == InWriteOK \/ Following

\* ... or it has, and only the error and the disconnection may still come.
Answered == pc = "execute" /\ pending.write = None /\ Rest(effects) /\ Rest(further)

StageOK == pc = "execute" => Unanswered \/ Answered

\* The bytes of the frame that are in the record.
Noted ==
  LET s == IF effects # <<>> THEN effects ELSE further
  IN IF InWriteOK \/ Head(s).kind \in {"in", "rejected"} THEN 0
     ELSE IF Head(s).kind = "unwritten" THEN off
     ELSE FrameSize

IsCur(c, n) == cur = c /\ Unanswered /\ n = Len(answers[c]) + 1
HasAnswer(c, n) == n \in 1..Len(answers[c])
InRecordAs(kind, b) == \E j \in DOMAIN record : record[j] = <<kind, b>>

\* The bytes in the PTY: of frames that have their answer, and what is written of the last.
PtyOK ==
  /\ \A c \in Clients : \A n, i \in Nat : InPty(<<c, n, i>>) =>
       i \in 1..FrameSize /\ (HasAnswer(c, n) \/ (IsCur(c, n) /\ i <= off))
  /\ \A k, l \in DOMAIN pty : pty[k] = pty[l] => k = l
  /\ Unanswered => /\ off <= Len(pty)
                   /\ \A i \in 1..off : pty[Len(pty) - off + i] = <<cur, frameNo, i>>

\* The answers.
AnswersOK ==
  \A c \in Clients : \A n \in DOMAIN answers[c] :
    /\ answers[c][n] = "ok" => \A i \in 1..FrameSize : InPty(<<c, n, i>>)
    /\ answers[c][n] \in {"err", "refused"} => ~InPty(<<c, n, FrameSize>>)

\* The bytes in the record, once each: of the frames that have an answer other than the
\* refusal of an upgrade, and what is recorded of the last.
RecordOK ==
  /\ \A c \in Clients : \A n, i \in Nat : InRecord(<<c, n, i>>) <=>
       /\ i \in 1..FrameSize
       /\ (HasAnswer(c, n) /\ answers[c][n] # "refused") \/ (IsCur(c, n) /\ i <= Noted)
  /\ \A i, j \in DOMAIN record : record[i][2] = record[j][2] => i = j

\* The record and the PTY.
MatchOK ==
  /\ \A c \in Clients : \A n, i \in Nat :
       /\ InRecordAs("in", <<c, n, i>>) => InPty(<<c, n, i>>)
       /\ InPty(<<c, n, i>>) => InRecordAs("in", <<c, n, i>>) \/ (IsCur(c, n) /\ Noted < i)
  /\ \A i, j \in DOMAIN record : i < j /\ record[i][1] = "in" /\ record[j][1] = "in" =>
       \A k, l \in DOMAIN pty : pty[k] = record[i][2] /\ pty[l] = record[j][2] => k < l

AtMostOne(s, m) == \A i, j \in DOMAIN s : s[i] = m /\ s[j] = m => i = j

\* A command has one frame at most on its way, and an `ok' on its way back is the
\* answer to its last.
CommandOK(c) ==
  /\ cmd[c] \notin Over =>
       /\ AtMostOne(inbox[c], "raw") /\ AtMostOne(outbox[c], "ok")
       /\ Len(answers[c]) <= sent[c]
       /\ Has(inbox[c], "raw") \/ (cur = c /\ Unanswered) =>
            cmd[c] = "waiting" /\ Len(answers[c]) + 1 = sent[c]
       /\ ~(Has(inbox[c], "raw") /\ cur = c /\ Unanswered)
       /\ Has(outbox[c], "ok") =>
            cmd[c] = "waiting" /\ Len(answers[c]) = sent[c] /\ sent[c] > 0 /\ answers[c][sent[c]] = "ok"
  /\ cmd[c] # "failed" =>
       \A n \in 1..sent[c] : n < sent[c] \/ cmd[c] # "waiting" =>
         n \in DOMAIN answers[c] /\ answers[c][n] = "ok"
  /\ cmd[c] = "done" => sent[c] = NumFrames

AccInv ==
  /\ sent \in [Clients -> Nat] /\ answers \in [Clients -> Seq(Verdicts)]
  /\ StageOK /\ PtyOK /\ AnswersOK /\ RecordOK /\ MatchOK
  /\ \A c \in Inputs : CommandOK(c)

\* The first effect and the others.
LEMMA StepHead ==
  ASSUME NEW s \in Seq(Effects)
  PROVE  /\ Rest(s) /\ s # <<>> => Head(s).kind \in {"error", "disconnect"} /\ Rest(Tail(s))
         /\ Steps(s) => s # <<>> /\ Head(s).kind \in {"ok", "err", "unwritten", "in", "rejected"}
<1>1. s # <<>> => /\ DOMAIN s = 1..Len(s) /\ Len(s) \in Nat /\ Len(s) >= 1 /\ Head(s) = s[1]
                  /\ DOMAIN Tail(s) = 1..(Len(s) - 1)
                  /\ \A i \in 1..(Len(s) - 1) : Tail(s)[i] = s[i + 1] /\ i + 1 \in 1..Len(s)
  BY TailAt
<1>2. Rest(s) /\ s # <<>> => Head(s).kind \in {"error", "disconnect"} /\ Rest(Tail(s))
  BY <1>1 DEF Rest
<1>3. Steps(s) => s # <<>> /\ Head(s).kind \in {"ok", "err", "unwritten", "in", "rejected"}
  BY DEF Steps, AckNext, LostNext, InNext, RefusalNext
<1> QED BY <1>2, <1>3

\* A frame either has its answer or has none.
LEMMA OneStage ==
  ASSUME FrameInv
  PROVE  /\ Unanswered => pc = "execute"
         /\ Answered => ~Unanswered
         /\ Following => AfterWrite
<1>1. Unanswered => pc = "execute"
  BY DEF Unanswered, InWriteOK, InWrite, Following
<1>2. Following => AfterWrite
  BY DEF Following, FrameInv, FrameOK, InWrite, NoFrame, None
<1>3. ASSUME Answered, Unanswered PROVE FALSE
  <2>1. Following
    BY <1>3 DEF Answered, Unanswered, InWriteOK, InWrite, None
  <2>2. effects \in Seq(Effects) /\ further \in Seq(Effects)
    BY <1>2, <2>1 DEF AfterWrite
  <2> QED BY <1>3, <2>1, <2>2, StepHead DEF Answered, Following
<1> QED BY <1>1, <1>2, <1>3

\* What the effects after a write are, as they stand in the list.
LEMMA FinishSteps ==
  ASSUME FrameInv, NEW r \in Outcomes, r = "written" <=> off = FrameSize,
         NEW s \in Seq(Effects), NEW kinds, kinds = FinishWrite(r),
         DOMAIN s = DOMAIN kinds, \A k \in DOMAIN kinds : s[k].kind = kinds[k]
  PROVE  /\ Steps(s)
         /\ Head(s).kind = (IF off > 0 THEN "in" ELSE "unwritten")
<1> DEFINE ack == IF off = FrameSize THEN "ok" ELSE "err"
<1>1. off \in Nat /\ FrameSize \in Nat /\ FrameSize > 0 /\ off <= FrameSize
  BY InputAssumption DEF FrameInv, RawTypeOK
<1>2. ASSUME NEW t \in Seq(Effects)
      PROVE  /\ Len(t) \in Nat /\ DOMAIN t = 1..Len(t)
             /\ Len(t) >= 1 => /\ t # <<>> /\ Head(t) = t[1] /\ Tail(t) \in Seq(Effects)
                               /\ Len(Tail(t)) = Len(t) - 1
                               /\ \A i \in 1..(Len(t) - 1) : Tail(t)[i] = t[i + 1]
  <2>1. Len(t) \in Nat /\ DOMAIN t = 1..Len(t) /\ (Len(t) >= 1 => t # <<>>)
    OBVIOUS
  <2> QED BY <2>1, TailAt
<1>3. ASSUME NEW t \in Seq(Effects), Len(t) >= 1, t[1].kind = ack,
             \A i \in 2..Len(t) : t[i].kind \in {"error", "disconnect"}
      PROVE  AckNext(t)
  <2>1. DOMAIN Tail(t) = 1..(Len(t) - 1) /\ \A i \in 1..(Len(t) - 1) : i + 1 \in 2..Len(t)
    BY <1>2, <1>3
  <2> QED BY <1>2, <1>3, <2>1 DEF AckNext, Rest
<1>4. ASSUME NEW t \in Seq(Effects), Len(t) >= 2, t[1].kind = "unwritten", t[2].kind = "err", off < FrameSize,
             \A i \in 3..Len(t) : t[i].kind \in {"error", "disconnect"}
      PROVE  LostNext(t)
  <2> DEFINE u == Tail(t)
  <2>1. /\ u \in Seq(Effects) /\ Len(u) = Len(t) - 1 /\ Len(u) >= 1 /\ Len(t) \in Nat
        /\ t # <<>> /\ Head(t) = t[1] /\ u[1] = t[2]
        /\ \A i \in 2..(Len(t) - 1) : u[i] = t[i + 1] /\ i + 1 \in 3..Len(t)
    BY <1>2, <1>4
  <2> HIDE DEF u
  <2>2. u[1].kind = ack
    BY <1>1, <1>4, <2>1
  <2>3. \A i \in 2..Len(u) : u[i].kind \in {"error", "disconnect"}
    BY <1>4, <2>1
  <2>4. AckNext(u)
    BY <1>3, <2>1, <2>2, <2>3
  <2> QED BY <1>4, <2>1, <2>4 DEF LostNext, u
<1>5. ASSUME NEW t \in Seq(Effects), Len(t) >= 1, t[1].kind = "in", off > 0,
             (off = FrameSize /\ AckNext(Tail(t))) \/ LostNext(Tail(t))
      PROVE  InNext(t)
  BY <1>2, <1>5 DEF InNext
<1>6. Len(s) \in Nat /\ DOMAIN s = 1..Len(s) /\ \A n \in Nat : DOMAIN s = 1..n => Len(s) = n
  BY <1>2
<1>7. CASE r = "written"
  <2>1. kinds = <<"in">> \o <<"ok">>
    BY <1>1, <1>7 DEF FinishWrite
  <2>2. DOMAIN kinds = 1..2 /\ kinds[1] = "in" /\ kinds[2] = "ok"
    BY <2>1
  <2>3. Len(s) = 2 /\ s[1].kind = "in" /\ s[2].kind = "ok"
    <3>1. Len(s) = 2
      BY <1>6, <2>2
    <3> QED BY <2>2, <3>1
  <2> DEFINE t == Tail(s)
  <2>4. t \in Seq(Effects) /\ Len(t) = 1 /\ t[1] = s[2] /\ Head(s) = s[1]
    <3>1. 1 \in 1..(Len(s) - 1) /\ 1 + 1 = 2 /\ Len(s) >= 1 /\ Len(s) - 1 = 1
      BY <2>3
    <3>2. /\ Tail(s) \in Seq(Effects) /\ Len(Tail(s)) = Len(s) - 1 /\ Head(s) = s[1]
          /\ Tail(s)[1] = s[1 + 1]
      BY <1>2, <3>1
    <3> QED BY <3>1, <3>2
  <2> HIDE DEF t
  <2>5. t[1].kind = ack
    BY <1>7, <2>3, <2>4
  <2>6. AckNext(t)
    BY <1>3, <2>4, <2>5
  <2> QED BY <1>1, <1>5, <1>7, <2>3, <2>4, <2>6 DEF Steps, t
<1>8. CASE r # "written"
  <2>1. PICK rest \in {<<"unwritten", "err", "error", "disconnect">>, <<"unwritten", "err", "disconnect">>} :
          kinds = (IF off > 0 THEN <<"in">> ELSE <<>>) \o rest
    <3>1. r = "timeout" \/ r = "io"
      BY <1>8 DEF Outcomes
    <3> QED BY <1>8, <3>1 DEF FinishWrite
  <2>2. /\ rest \in Seq(Kinds) /\ Len(rest) \in Nat /\ Len(rest) >= 3 /\ DOMAIN rest = 1..Len(rest)
        /\ rest[1] = "unwritten" /\ rest[2] = "err"
        /\ \A i \in 3..Len(rest) : rest[i] \in {"error", "disconnect"}
    <3>1. CASE rest = <<"unwritten", "err", "error", "disconnect">>
      BY <3>1 DEF Kinds
    <3>2. CASE rest = <<"unwritten", "err", "disconnect">>
      BY <3>2 DEF Kinds
    <3> QED BY <3>1, <3>2
  <2>3. off < FrameSize
    BY <1>1, <1>8
  <2>4. CASE off = 0
    <3>1. kinds = rest
      <4>1. kinds = <<>> \o rest
        BY <2>1, <2>4
      <4> QED BY <2>2, <4>1
    <3>2. /\ Len(s) = Len(rest) /\ s[1].kind = "unwritten" /\ s[2].kind = "err"
          /\ \A i \in 3..Len(s) : s[i].kind \in {"error", "disconnect"}
      <4>1. Len(s) = Len(rest)
        BY <1>6, <2>2, <3>1
      <4> QED BY <2>2, <3>1, <4>1
    <3>3. LostNext(s)
      BY <1>4, <2>2, <2>3, <3>2
    <3> QED BY <1>2, <2>2, <2>4, <3>2, <3>3 DEF Steps
  <2>5. CASE off # 0
    <3>1. kinds = <<"in">> \o rest
      BY <1>1, <2>1, <2>5
    <3>2. /\ DOMAIN kinds = 1..(1 + Len(rest)) /\ kinds[1] = "in"
          /\ \A i \in 1..Len(rest) : kinds[1 + i] = rest[i]
      <4>1. <<"in">> \in Seq(Kinds) /\ Len(<<"in">>) = 1 /\ <<"in">>[1] = "in"
        BY DEF Kinds
      <4> QED BY <2>2, <3>1, <4>1, ConcatAt
    <3>3. Len(s) = 1 + Len(rest) /\ s[1].kind = "in" /\ \A i \in 1..Len(rest) : s[i + 1].kind = rest[i]
      <4>1. Len(s) = 1 + Len(rest)
        <5>1. 1 + Len(rest) \in Nat /\ DOMAIN s = 1..(1 + Len(rest))
          BY <2>2, <3>2
        <5> QED BY <1>6, <5>1
      <4>2. ASSUME NEW i \in 1..Len(rest) PROVE s[i + 1].kind = rest[i]
        <5>1. i + 1 = 1 + i /\ i + 1 \in DOMAIN kinds
          BY <2>2, <3>2
        <5>2. kinds[i + 1] = rest[i]
          BY <3>2, <5>1
        <5> QED BY <5>1, <5>2
      <4>3. 1 \in DOMAIN kinds
        BY <2>2, <3>2
      <4> QED BY <3>2, <4>1, <4>2, <4>3
    <3> DEFINE t == Tail(s)
    <3>4. /\ t \in Seq(Effects) /\ Len(t) = Len(rest) /\ Head(s) = s[1]
          /\ \A i \in 1..Len(rest) : t[i].kind = rest[i]
      BY <1>2, <2>2, <3>3
    <3> HIDE DEF t
    <3>5. /\ Len(t) >= 2 /\ t[1].kind = "unwritten" /\ t[2].kind = "err"
          /\ \A i \in 3..Len(t) : t[i].kind \in {"error", "disconnect"}
      BY <2>2, <3>4
    <3>6. LostNext(t)
      BY <1>4, <2>3, <3>4, <3>5
    <3> QED BY <1>1, <1>5, <2>2, <2>5, <3>3, <3>4, <3>6 DEF Steps, t
  <2> QED BY <2>4, <2>5
<1> QED BY <1>7, <1>8

\* A frame is taken for execution: nothing of it is written or recorded.
LEMMA RawDataStage ==
  ASSUME FrameInv, NEW c \in Clients, RawData(c)
  PROVE  ~Unanswered /\ Unanswered' /\ Noted' = 0 /\ off' = 0 /\ cur' = c /\ pc' = "execute"
<1>1. /\ pc = "frames" /\ cur' = c /\ pc' = "execute" /\ off' = 0 /\ rounds' = 1
      /\ UNCHANGED <<results, further, disconnects>>
  BY DEF RawData, Handling
<1>2. ~Unanswered
  BY <1>1, OneStage
<1>3. NoFrame
  BY <1>1 DEF FrameInv, FrameOK, InWrite, AfterWrite
<1> DEFINE n == pending.seq
<1>4. n \in Nat \ {0} /\ DOMAIN pending = {"write", "ack", "seq"} /\ FrameSize \in Nat /\ FrameSize > 0
  BY InputAssumption DEF FrameInv, FrameOK
<1>5. CASE Rejected(c)
  <2>1. /\ effects' = <<[seq |-> n, kind |-> "rejected"], [seq |-> n + 1, kind |-> "err"]>>
        /\ pending' = [pending EXCEPT !.ack = n + 1, !.seq = n + 2]
    BY <1>5 DEF RawData
  <2> DEFINE a == [seq |-> n, kind |-> "rejected"]
             b == [seq |-> n + 1, kind |-> "err"]
  <2>2. a.kind = "rejected" /\ b.kind = "err" /\ effects' = <<a, b>> /\ pending'.write = None
    BY <1>3, <1>4, <2>1 DEF NoFrame
  <2> HIDE DEF a, b, n
  <2>3. effects' # <<>> /\ Head(effects') = a /\ Tail(effects') = <<b>> /\ Head(<<b>>) = b /\ Tail(<<b>>) = <<>> /\ <<b>> # <<>>
    BY <2>2
  <2>4. RefusalNext(effects)'
    BY <1>1, <1>4, <2>2, <2>3 DEF RefusalNext, AckNext, Rest
  <2>5. Following'
    BY <1>1, <1>3, <2>2, <2>4 DEF Following, Steps, NoFrame
  <2> QED BY <1>1, <1>2, <2>2, <2>3, <2>5 DEF Unanswered, Noted
<1>6. CASE ~Rejected(c)
  <2>1. InWrite'
    <3>1. /\ effects' = <<[seq |-> n, kind |-> "write"]>>
          /\ pending' = [pending EXCEPT !.write = n, !.seq = n + 1]
      BY <1>6 DEF RawData
    <3> HIDE DEF n
    <3>2. pending'.write = n
      BY <1>4, <3>1
    <3> QED BY <1>1, <1>3, <1>4, <3>1, <3>2 DEF InWrite, NoFrame
  <2>2. InWriteOK'
    BY <1>1, <1>3, <2>1 DEF InWriteOK, NoFrame
  <2> QED BY <1>1, <1>2, <2>2 DEF Unanswered, Noted
<1> QED BY <1>5, <1>6

\* A record: the bytes of the frame that are not in the record yet, as many as its kind says.
LEMMA RecordStage ==
  ASSUME FrameInv, StageOK, ExecRecord
  PROVE  /\ Unanswered /\ Unanswered' /\ UNCHANGED <<pty, answers, cur, off, pc>>
         /\ record' = record \o LET b == Bytes(cur, frameNo, Noted + 1, Noted')
                                IN [k \in DOMAIN b |-> <<Head(effects).kind, b[k]>>]
         /\ Noted \in 0..FrameSize /\ Noted' \in Noted..FrameSize /\ Head(effects).kind \in Kinds
         /\ Head(effects).kind = "in" => Noted = 0 /\ Noted' = off
         /\ Head(effects).kind # "in" => Noted = off
<1> DEFINE kind == Head(effects).kind
<1>1. /\ pc = "execute" /\ effects # <<>> /\ kind \in {"in", "unwritten", "rejected"}
      /\ effects' = Tail(effects)
      /\ UNCHANGED <<pty, answers, cur, off, pc, further, results, pending, rounds>>
  BY DEF ExecRecord, Executing, daemon
<1>2. AfterWrite /\ ~InWriteOK /\ effects \in Seq(Effects) /\ effects' \in Seq(Effects)
  BY <1>1, FollowFrame, TailAt DEF AfterWrite, InWriteOK, InWrite, None
<1>3. Following /\ Steps(effects) /\ further = <<>>
  <2>1. ~Answered
    BY <1>1, <1>2, StepHead DEF Answered
  <2>2. Following
    BY <1>1, <1>2, <2>1 DEF StageOK, Unanswered
  <2> QED BY <1>1, <2>2 DEF Following
<1>4. off \in Nat /\ FrameSize \in Nat /\ FrameSize > 0 /\ off <= FrameSize
  BY InputAssumption DEF FrameInv, RawTypeOK
<1>5. ~InWriteOK'
  BY <1>1, <1>2 DEF AfterWrite, InWriteOK, InWrite, None
<1>6. ASSUME AckNext(effects')
      PROVE  Following' /\ Noted' = FrameSize
  <2>1. Following'
    BY <1>1, <1>3, <1>6 DEF Following, Steps, AckNext, Rest
  <2>2. effects' # <<>> /\ Head(effects').kind \in {"ok", "err"}
    BY <1>6 DEF AckNext
  <2> QED BY <1>5, <2>1, <2>2 DEF Noted
<1>7. ASSUME LostNext(effects')
      PROVE  Following' /\ Noted' = off
  <2>1. Following'
    BY <1>1, <1>3, <1>7 DEF Following, Steps, LostNext, AckNext, Rest
  <2>2. effects' # <<>> /\ Head(effects').kind = "unwritten"
    BY <1>7 DEF LostNext
  <2> QED BY <1>1, <1>5, <2>1, <2>2 DEF Noted
<1>8. Unanswered
  BY <1>3 DEF Unanswered
<1>9. CASE kind = "in"
  <2>1. off > 0 /\ ((off = FrameSize /\ AckNext(effects')) \/ LostNext(effects'))
    BY <1>1, <1>3, <1>9 DEF Steps, AckNext, LostNext, InNext, RefusalNext
  <2>2. Following' /\ Noted' = off
    BY <1>6, <1>7, <2>1
  <2>3. Noted = 0
    BY <1>1, <1>2, <1>9 DEF Noted
  <2>4. record' = record \o LET b == Bytes(cur, frameNo, 1, off)
                            IN [k \in DOMAIN b |-> <<Head(effects).kind, b[k]>>]
    BY <1>9 DEF ExecRecord
  <2>5. 0 + 1 = 1
    OBVIOUS
  <2> QED BY <1>1, <1>4, <1>8, <1>9, <2>2, <2>3, <2>4, <2>5 DEF Unanswered, Kinds
<1>10. CASE kind = "unwritten"
  <2>1. AckNext(effects')
    BY <1>1, <1>3, <1>10 DEF Steps, AckNext, LostNext, InNext, RefusalNext
  <2>2. Following' /\ Noted' = FrameSize
    BY <1>6, <2>1
  <2>3. Noted = off
    BY <1>1, <1>2, <1>10 DEF Noted
  <2>4. record' = record \o LET b == Bytes(cur, frameNo, off + 1, FrameSize)
                            IN [k \in DOMAIN b |-> <<Head(effects).kind, b[k]>>]
    BY <1>10 DEF ExecRecord
  <2> QED BY <1>1, <1>4, <1>8, <1>10, <2>2, <2>3, <2>4 DEF Unanswered, Kinds
<1>11. CASE kind = "rejected"
  <2>1. off = 0 /\ AckNext(effects')
    BY <1>1, <1>3, <1>11 DEF Steps, AckNext, LostNext, InNext, RefusalNext
  <2>2. Following' /\ Noted' = FrameSize
    BY <1>6, <2>1
  <2>3. Noted = 0
    BY <1>1, <1>2, <1>11 DEF Noted
  <2>4. record' = record \o LET b == Bytes(cur, frameNo, 1, FrameSize)
                            IN [k \in DOMAIN b |-> <<Head(effects).kind, b[k]>>]
    BY <1>11 DEF ExecRecord
  <2>5. 0 + 1 = 1
    OBVIOUS
  <2> QED BY <1>1, <1>4, <1>8, <1>11, <2>1, <2>2, <2>3, <2>4, <2>5 DEF Unanswered, Kinds
<1> QED BY <1>1, <1>9, <1>10, <1>11

\* The acknowledgement: all bytes of the frame are in the record, and `ok' if all are written.
LEMMA AckStage ==
  ASSUME FrameInv, StageOK, ExecAck
  PROVE  /\ Unanswered /\ Answered' /\ ~Unanswered' /\ Noted = FrameSize
         /\ UNCHANGED <<pty, record, cur, off, pc, cmd, sent, inbox, role>>
         /\ Head(effects).kind = (IF off = FrameSize THEN "ok" ELSE "err")
<1>1. /\ pc = "execute" /\ effects # <<>> /\ Head(effects).kind \in {"ok", "err"}
      /\ effects' = Tail(effects) /\ results' # <<>>
      /\ UNCHANGED <<pty, record, cur, off, pc, further, pending, rounds, cmd, sent, inbox, role>>
  <2>1. PICK r \in {"ok", "failed"} : results' = Append(results, [seq |-> Head(effects).seq, outcome |-> r])
    BY DEF ExecAck, Result
  <2>2. AfterWrite /\ Head(effects) \in Effects
    BY FollowFrame
  <2>3. results' # <<>>
    <3> DEFINE e == [seq |-> Head(effects).seq, outcome |-> r]
    <3>1. e \in Results /\ results \in Seq(Results)
      BY <2>2 DEF Effects, Results, AfterWrite
    <3>2. results' = Append(results, e)
      BY <2>1
    <3> HIDE DEF e
    <3> QED BY <3>1, <3>2
  <2> QED BY <2>3 DEF ExecAck, Executing, daemon, client
<1>2. AfterWrite /\ ~InWriteOK /\ effects \in Seq(Effects) /\ effects' \in Seq(Effects)
  BY <1>1, FollowFrame, TailAt DEF AfterWrite, InWriteOK, InWrite, None
<1>3. Following /\ Steps(effects) /\ further = <<>>
  <2>1. ~Answered
    BY <1>1, <1>2, StepHead DEF Answered
  <2>2. Following
    BY <1>1, <1>2, <2>1 DEF StageOK, Unanswered
  <2> QED BY <1>1, <2>2 DEF Following
<1>4. AckNext(effects)
  BY <1>1, <1>3 DEF Steps, LostNext, InNext, RefusalNext
<1>5. Answered'
  BY <1>1, <1>3, <1>4 DEF Answered, AckNext, Rest, Following
<1>6. ~Unanswered'
  BY <1>1, <1>3 DEF Unanswered, InWriteOK, InWrite, Following, None
<1>7. Noted = FrameSize
  BY <1>1, <1>2 DEF Noted
<1> QED BY <1>1, <1>3, <1>4, <1>5, <1>6, <1>7 DEF Unanswered, AckNext

\* Bytes are written.
LEMMA WriteStage ==
  ASSUME FrameInv, StageOK, WriteSome \/ ExecWritten
  PROVE  /\ InWriteOK /\ Unanswered /\ InWriteOK' /\ Unanswered' /\ Noted = 0 /\ Noted' = 0
         /\ UNCHANGED <<record, answers, cur, pc>>
<1>1. /\ pc = "execute" /\ effects # <<>> /\ InWrite /\ InWrite'
      /\ UNCHANGED <<record, answers, cur, pc, rounds>>
  <2>1. /\ pc = "execute" /\ effects # <<>> /\ UNCHANGED <<record, answers, cur, pc, rounds, pending>>
    BY DEF WriteSome, ExecWritten, Executing, daemon, trace
  <2>2. InWrite /\ FrameInv'
    BY WriteFrame
  <2>3. InWrite'
    BY <2>1, <2>2 DEF FrameInv, FrameOK, AfterWrite, NoFrame, InWrite, None
  <2> QED BY <2>1, <2>2, <2>3
<1>2. InWriteOK /\ results = <<>>
  <2>1. ~Answered /\ ~Following
    BY <1>1 DEF Answered, Following, InWrite, None
  <2> QED BY <1>1, <2>1 DEF StageOK, Unanswered, InWrite
<1>3. \A k \in DOMAIN results' : results'[k].outcome = "written" <=> off' = FrameSize
  <2>1. CASE WriteSome
    BY <1>2, <2>1 DEF WriteSome
  <2>2. CASE ExecWritten
    <3>1. PICK r \in WriteOutcome : Result(r)
      BY <2>2 DEF ExecWritten
    <3>2. (r = "written" <=> off = FrameSize) /\ off' = off
      BY <2>2, <3>1 DEF WriteOutcome, ExecWritten
    <3> DEFINE e == [seq |-> Head(effects).seq, outcome |-> r]
    <3>3. results' = <<e>> /\ e.outcome = r
      BY <1>2, <3>1 DEF Result
    <3> HIDE DEF e
    <3> QED BY <3>2, <3>3
  <2> QED BY <2>1, <2>2
<1>4. InWriteOK'
  BY <1>1, <1>2, <1>3 DEF InWriteOK
<1> QED BY <1>1, <1>2, <1>4 DEF Unanswered, Noted

\* The other effects come after the answer.
LEMMA RestStage ==
  ASSUME FrameInv, StageOK, ExecReply \/ ExecDisconnect
  PROVE  ~Unanswered /\ ~Unanswered' /\ Answered' /\ UNCHANGED <<trace, cur>>
<1>1. /\ pc = "execute" /\ effects # <<>> /\ Head(effects).kind \in {"error", "disconnect"}
      /\ effects' = Tail(effects)
      /\ UNCHANGED <<trace, cur, pc, further, pending>>
  BY DEF ExecReply, ExecDisconnect, Executing, daemon
<1>2. AfterWrite /\ effects \in Seq(Effects) /\ FrameInv'
  BY FollowFrame DEF AfterWrite
<1>3. ~Unanswered
  <2>1. ~Following
    BY <1>1, <1>2, StepHead DEF Following
  <2> QED BY <1>2, <2>1 DEF Unanswered, InWriteOK, InWrite, AfterWrite, None
<1>4. Answered
  BY <1>1, <1>3 DEF StageOK
<1>5. Answered'
  <2>1. Rest(Tail(effects))
    BY <1>1, <1>2, <1>4, StepHead DEF Answered
  <2> QED BY <1>1, <1>4, <2>1 DEF Answered, Rest
<1>6. ~Unanswered'
  <2>1. effects' \in Seq(Effects) /\ further' \in Seq(Effects) /\ pending'.write = None
    BY <1>1, <1>2, TailAt DEF AfterWrite
  <2>2. ~Steps(effects)' /\ ~Steps(further)'
    <3>1. Rest(effects') /\ Rest(further')
      BY <1>5 DEF Answered, Rest
    <3>2. ASSUME NEW s \in Seq(Effects), Rest(s), s # <<>>,
                 Head(s).kind \in {"ok", "err", "unwritten", "in", "rejected"}
          PROVE  FALSE
      BY <3>2, StepHead
    <3>3. Steps(effects)' => effects' # <<>> /\ Head(effects').kind \in {"ok", "err", "unwritten", "in", "rejected"}
      BY DEF Steps, AckNext, LostNext, InNext, RefusalNext
    <3>4. Steps(further)' => further' # <<>> /\ Head(further').kind \in {"ok", "err", "unwritten", "in", "rejected"}
      BY DEF Steps, AckNext, LostNext, InNext, RefusalNext
    <3> QED BY <2>1, <3>1, <3>2, <3>3, <3>4
  <2> QED BY <2>1, <2>2 DEF Unanswered, InWriteOK, InWrite, Following, None
<1> QED BY <1>1, <1>3, <1>5, <1>6

\* A result goes back through the reducer: what follows a write, or a disconnection.
LEMMA FeedbackStage ==
  ASSUME FrameInv, StageOK, Feedback
  PROVE  /\ Unanswered' <=> Unanswered
         /\ Unanswered => Noted = 0 /\ Noted' = 0
         /\ StageOK' /\ UNCHANGED <<trace, cur, off>>
<1> DEFINE res == Head(results)
           kinds == Followed(res)
           s == pending.seq
           new == [k \in DOMAIN kinds |-> [seq |-> s + k - 1, kind |-> kinds[k]]]
<1>1. /\ pc = "execute" /\ effects = <<>> /\ effects' = <<>> /\ results # <<>> /\ results' = Tail(results)
      /\ UNCHANGED <<trace, cur, off, pc, rounds>>
      /\ further' = further \o new
  BY DEF Feedback, daemon
<1>2. FrameInv' /\ AfterWrite' /\ pending'.write = None /\ further' \in Seq(Effects) /\ s \in Nat \ {0}
  BY FeedbackFrame DEF AfterWrite, FrameInv, FrameOK
<1>3. CASE InWriteOK
  <2>1. PICK r \in Outcomes : results = <<[seq |-> pending.write, outcome |-> r]>>
    BY <1>1, <1>3 DEF InWriteOK, InWrite, Written
  <2> DEFINE e == [seq |-> pending.write, outcome |-> r]
  <2>2. results = <<e>> /\ e.seq = pending.write /\ e.outcome = r
    BY <2>1
  <2> HIDE DEF e
  <2>3. res = e /\ results' = <<>> /\ (r = "written" <=> off = FrameSize)
    BY <1>1, <1>3, <2>2 DEF InWriteOK
  <2>4. kinds = FinishWrite(r) /\ further = <<>>
    BY <1>3, <2>2, <2>3 DEF Followed, InWriteOK, InWrite
  <2> HIDE DEF kinds, res, s
  <2>5. kinds \in Seq(Kinds)
    BY <2>4, FinishWriteIs
  <2>6. new \in Seq(Effects) /\ DOMAIN new = DOMAIN kinds /\ \A k \in DOMAIN kinds : new[k].kind = kinds[k]
    <3>1. Len(kinds) \in Nat /\ DOMAIN kinds = 1..Len(kinds) /\ \A k \in 1..Len(kinds) : kinds[k] \in Kinds
      BY <2>5
    <3>2. \A k \in 1..Len(kinds) : [seq |-> s + k - 1, kind |-> kinds[k]] \in Effects
      BY <1>2, <3>1 DEF Effects
    <3> QED BY <3>1, <3>2
  <2>7. further' = new
    <3> HIDE DEF new
    <3> QED BY <1>1, <2>4, <2>6
  <2> HIDE DEF new
  <2>8. Steps(new) /\ Head(new).kind = (IF off > 0 THEN "in" ELSE "unwritten")
    BY <2>3, <2>4, <2>6, FinishSteps
  <2>9. Following'
    <3>1. Steps(further)'
      BY <1>1, <2>7, <2>8 DEF Steps, AckNext, LostNext, InNext, RefusalNext, Rest
    <3> QED BY <1>1, <1>2, <1>3, <2>3, <3>1 DEF Following, InWriteOK
  <2>10. ~InWriteOK'
    BY <1>2 DEF InWriteOK, InWrite, None
  <2>11. Noted' = 0
    <3>1. off \in Nat /\ off' = off
      BY <1>1, InputAssumption DEF FrameInv, RawTypeOK
    <3> QED BY <1>1, <2>7, <2>8, <2>10, <3>1 DEF Noted
  <2>12. Noted = 0
    BY <1>3 DEF Noted
  <2> QED BY <1>1, <1>3, <2>9, <2>11, <2>12 DEF Unanswered, StageOK
<1>4. CASE ~InWriteOK
  <2>1. ~Following
    BY <1>1 DEF Following
  <2>2. Answered /\ ~Unanswered
    BY <1>1, <1>4, <2>1 DEF StageOK, Unanswered
  <2>3. AfterWrite
    BY <1>1, <2>2, Execute DEF Answered, InWrite, None
  <2>4. res \in Results /\ res.seq # pending.write
    <3>1. res \in Results
      BY <1>1, <2>3 DEF AfterWrite
    <3> QED BY <2>3, <3>1 DEF AfterWrite, Results, None
  <2>5. kinds \in {<<"disconnect">>, <<>>}
    BY <2>4 DEF Followed
  <2> HIDE DEF kinds, s
  <2>6. new \in Seq(Effects) /\ Rest(new)
    <3>1. CASE kinds = <<"disconnect">>
      <4>1. Len(kinds) = 1 /\ DOMAIN kinds = 1..1 /\ kinds[1] = "disconnect"
        BY <3>1
      <4>2. \A k \in 1..1 : s + k - 1 \in Nat \ {0}
        BY <1>2
      <4>3. new \in Seq(Effects) /\ \A k \in DOMAIN new : new[k].kind = "disconnect"
        <5>1. \A k \in 1..1 : [seq |-> s + k - 1, kind |-> kinds[k]] \in Effects /\ kinds[k] = "disconnect"
          BY <4>1, <4>2 DEF Effects, Kinds
        <5> QED BY <4>1, <5>1
      <4> QED BY <4>3 DEF Rest
    <3>2. CASE kinds = <<>>
      <4>1. new = <<>>
        BY <3>2
      <4> QED BY <4>1 DEF Rest
    <3> QED BY <2>5, <3>1, <3>2
  <2> HIDE DEF new
  <2>7. Rest(further \o new)
    <3>1. further \in Seq(Effects) /\ Rest(further)
      BY <2>2, <2>3 DEF Answered, AfterWrite
    <3>2. ASSUME NEW i \in DOMAIN (further \o new)
          PROVE  (further \o new)[i].kind \in {"error", "disconnect"}
      BY <2>6, <3>1, ConcatFrom DEF Rest
    <3> QED BY <3>2 DEF Rest
  <2>8. Answered'
    <3>1. Rest(effects') /\ Rest(further')
      BY <1>1, <2>7 DEF Rest
    <3> QED BY <1>1, <1>2, <3>1 DEF Answered, Rest
  <2>9. ~Unanswered'
    <3>1. Steps(further)' => further' # <<>> /\ Head(further').kind \in {"ok", "err", "unwritten", "in", "rejected"}
      BY DEF Steps, AckNext, LostNext, InNext, RefusalNext
    <3>2. Rest(further')
      BY <1>1, <2>7
    <3>3. ~Steps(further)'
      BY <1>2, <3>1, <3>2, StepHead
    <3>4. ~Steps(effects)'
      BY <1>1 DEF Steps, AckNext, LostNext, InNext, RefusalNext
    <3> QED BY <1>2, <3>3, <3>4 DEF Unanswered, InWriteOK, InWrite, Following, None
  <2> QED BY <1>1, <2>2, <2>8, <2>9 DEF StageOK
<1> QED BY <1>3, <1>4

\* A further round; the frame is done, which it is not before it has an answer.
LEMMA RoundStage ==
  ASSUME FrameInv, StageOK, NextRound \/ FrameDone
  PROVE  /\ Unanswered' <=> Unanswered
         /\ Unanswered => Noted' = Noted /\ cur' = cur /\ off' = off
         /\ StageOK' /\ UNCHANGED trace
<1>1. pc = "execute" /\ effects = <<>> /\ results = <<>> /\ UNCHANGED <<trace, pending, results>> /\ ~InWriteOK
  BY DEF NextRound, FrameDone, RoundOver, InWriteOK, InWrite, Written
<1>2. CASE NextRound
  <2>1. effects' = further /\ further' = <<>> /\ further # <<>> /\ UNCHANGED <<cur, off, pc>>
    BY <1>2 DEF NextRound, daemon
  <2>2. ~InWriteOK'
    <3>1. AfterWrite
      BY <1>1, Execute DEF InWrite, Written
    <3> QED BY <1>1, <3>1 DEF AfterWrite, InWriteOK, InWrite, None
  <2>3. AfterWrite /\ further \in Seq(Effects)
    BY <1>1, Execute DEF InWrite, Written, AfterWrite
  <2>4. Steps(effects)' <=> Steps(further)
    BY <2>1 DEF Steps, AckNext, LostNext, InNext, RefusalNext, Rest
  <2>5. ~Steps(effects) /\ ~Steps(further)'
    BY <1>1, <2>1 DEF Steps, AckNext, LostNext, InNext, RefusalNext
  <2>6. CASE Following
    <3>1. Steps(further) /\ pending.write = None
      BY <2>5, <2>6 DEF Following
    <3>2. Following'
      BY <1>1, <2>1, <2>4, <3>1 DEF Following
    <3>3. Noted' = Noted
      BY <1>1, <2>1, <2>2 DEF Noted
    <3> QED BY <1>1, <2>1, <2>6, <3>2, <3>3 DEF Unanswered, StageOK
  <2>7. CASE ~Following
    <3>1. Answered /\ ~Unanswered
      BY <1>1, <2>7 DEF StageOK, Unanswered
    <3>2. ~Steps(further)
      BY <2>1, <2>3, <3>1, StepHead DEF Answered
    <3>3. ~Unanswered'
      BY <2>2, <2>4, <2>5, <3>2 DEF Unanswered, Following
    <3>4. Answered'
      BY <1>1, <2>1, <3>1 DEF Answered, Rest
    <3> QED BY <1>1, <3>1, <3>3, <3>4 DEF StageOK
  <2> QED BY <2>6, <2>7
<1>3. CASE FrameDone
  <2>1. pc' = "frames" /\ (further = <<>> \/ rounds = MaxFeedbackRounds)
    BY <1>3 DEF FrameDone
  <2>2. ~Unanswered'
    BY <2>1 DEF Unanswered, InWriteOK, InWrite, Following
  <2>3. ~Steps(effects) /\ (further = <<>> => ~Steps(further))
    BY <1>1 DEF Steps, AckNext, LostNext, InNext, RefusalNext
  <2>4. MaxFeedbackRounds \in Nat /\ MaxFeedbackRounds >= 2
    BY InputAssumption
  <2>5. ~Unanswered
    BY <1>1, <2>1, <2>3, <2>4 DEF Unanswered, Following
  <2> QED BY <1>1, <2>1, <2>2, <2>5 DEF StageOK
<1> QED BY <1>2, <1>3

TraceOK == PtyOK /\ AnswersOK /\ RecordOK /\ MatchOK
AccTypeOK == sent \in [Clients -> Nat] /\ answers \in [Clients -> Seq(Verdicts)]

\* Nothing is written, recorded or answered.
LEMMA QuietTrace ==
  ASSUME TraceOK, UNCHANGED trace, Unanswered' <=> Unanswered,
         Unanswered => cur' = cur /\ off' = off /\ Noted' = Noted
  PROVE  TraceOK'
<1>1. UNCHANGED <<pty, record, answers>> /\ \A c, n : IsCur(c, n)' <=> IsCur(c, n)
  BY DEF trace, IsCur
<1>2. \A c, n : HasAnswer(c, n)' <=> HasAnswer(c, n)
  BY <1>1 DEF HasAnswer
<1>3. \A c, n : IsCur(c, n) => off' = off /\ Noted' = Noted
  BY DEF IsCur
<1>4. \A b : InPty(b)' <=> InPty(b)
  BY <1>1 DEF InPty
<1>5. \A b : (InRecord(b)' <=> InRecord(b)) /\ (InRecordAs("in", b)' <=> InRecordAs("in", b))
  BY <1>1 DEF InRecord, InRecordAs
<1>6. PtyOK'
  <2>1. Unanswered => frameNo' = frameNo
    BY <1>1 DEF frameNo
  <2> QED BY <1>1, <1>2, <1>3, <1>4, <2>1 DEF TraceOK, PtyOK
<1>7. AnswersOK'
  BY <1>1, <1>4 DEF TraceOK, AnswersOK
<1>8. RecordOK'
  BY <1>1, <1>2, <1>3, <1>5 DEF TraceOK, RecordOK
<1>9. MatchOK'
  BY <1>1, <1>3, <1>4, <1>5 DEF TraceOK, MatchOK
<1> QED BY <1>6, <1>7, <1>8, <1>9 DEF TraceOK

\* A frame is begun.
LEMMA BeginTrace ==
  ASSUME TraceOK, UNCHANGED trace, FrameInv, ~Unanswered, off' = 0, Noted' = 0
  PROVE  TraceOK'
<1>1. UNCHANGED <<pty, record, answers>> /\ \A c, n : ~IsCur(c, n)
  BY DEF trace, IsCur
<1>2. \A c, n : HasAnswer(c, n)' <=> HasAnswer(c, n)
  BY <1>1 DEF HasAnswer
<1>3. \A b : InPty(b)' <=> InPty(b)
  BY <1>1 DEF InPty
<1>4. \A b : (InRecord(b)' <=> InRecord(b)) /\ (InRecordAs("in", b)' <=> InRecordAs("in", b))
  BY <1>1 DEF InRecord, InRecordAs
<1>5. PtyOK'
  <2>1. Len(pty) \in Nat
    BY DEF FrameInv, RawTypeOK
  <2> QED BY <1>1, <1>2, <1>3, <2>1 DEF TraceOK, PtyOK
<1>6. AnswersOK'
  BY <1>1, <1>3 DEF TraceOK, AnswersOK
<1>7. RecordOK'
  <2>1. \A i \in 1..FrameSize : ~(i <= 0)
    OBVIOUS
  <2> QED BY <1>1, <1>2, <1>4, <2>1 DEF TraceOK, RecordOK
<1>8. MatchOK'
  BY <1>1, <1>3, <1>4 DEF TraceOK, MatchOK
<1> QED BY <1>5, <1>6, <1>7, <1>8 DEF TraceOK

\* b is the bytes after the i-th up to the j-th of a frame, u is s and those bytes.
AreBytes(b, c, n, i, j) ==
  /\ b \in Seq(Octets) /\ Len(b) = j - i /\ DOMAIN b = 1..(j - i)
  /\ \A k \in 1..(j - i) : b[k] = <<c, n, i + k>>
Extends(u, s, c, n, i, j) ==
  /\ Len(s) \in Nat /\ DOMAIN s = 1..Len(s) /\ Len(u) = Len(s) + (j - i) /\ DOMAIN u = 1..(Len(s) + (j - i))
  /\ \A k \in 1..Len(s) : u[k] = s[k]
  /\ \A k \in 1..(j - i) : u[Len(s) + k] = <<c, n, i + k>>

\* The bytes of a frame, one by one.
LEMMA BytesAt ==
  ASSUME NEW c \in Clients, NEW n \in Nat, NEW i \in Nat, NEW a \in Nat, NEW j \in Nat, a = i + 1, i <= j
  PROVE  AreBytes(Bytes(c, n, a, j), c, n, i, j)
<1> DEFINE m == j - i
           d == [k \in 1..m |-> <<c, n, i + k>>]
<1>1. m \in Nat /\ j - (i + 1) + 1 = m /\ \A k \in 1..m : (i + 1) + k - 1 = i + k /\ i + k \in Nat
  OBVIOUS
<1>2. \A k \in 1..m : <<c, n, i + k>> \in Octets
  BY <1>1 DEF Octets
<1>3. Bytes(c, n, a, j) = d
  BY <1>1 DEF Bytes
<1> HIDE DEF m
<1>4. d \in Seq(Octets) /\ Len(d) = m /\ DOMAIN d = 1..m /\ \A k \in 1..m : d[k] = <<c, n, i + k>>
  BY <1>1, <1>2
<1> HIDE DEF d
<1> QED BY <1>3, <1>4 DEF m, AreBytes

\* Bytes of a frame behind others.
LEMMA Grown ==
  ASSUME NEW s \in Seq(Octets), NEW c \in Clients, NEW n \in Nat, NEW i \in Nat, NEW a \in Nat, NEW j \in Nat,
         a = i + 1, i <= j
  PROVE  Extends(s \o Bytes(c, n, a, j), s, c, n, i, j)
<1> DEFINE b == Bytes(c, n, a, j)
<1>1. AreBytes(b, c, n, i, j)
  BY BytesAt
<1> HIDE DEF b
<1>2. b \in Seq(Octets) /\ Len(b) = j - i /\ \A k \in 1..(j - i) : b[k] = <<c, n, i + k>>
  BY <1>1 DEF AreBytes
<1>3. b \in Seq(Octets)
  BY <1>2
<1> DEFINE v == s \o b
<1>4. /\ Len(s) \in Nat /\ DOMAIN s = 1..Len(s) /\ Len(v) = Len(s) + Len(b) /\ DOMAIN v = 1..(Len(s) + Len(b))
      /\ \A k \in 1..Len(s) : v[k] = s[k]
      /\ \A k \in 1..Len(b) : v[Len(s) + k] = b[k]
  BY <1>3, ConcatAt
<1> HIDE DEF v
<1>5. Extends(v, s, c, n, i, j)
  BY <1>2, <1>4 DEF Extends
<1> QED BY <1>5 DEF v, b

\* The components of a byte.
LEMMA Octet ==
  ASSUME NEW b \in Octets
  PROVE  b[1] \in Clients /\ b[2] \in Nat /\ b[3] \in Nat /\ b = <<b[1], b[2], b[3]>>
BY DEF Octets

\* Bytes of the frame are written.
LEMMA WriteTrace ==
  ASSUME FrameInv, AccTypeOK, StageOK, TraceOK, WriteSome
  PROVE  TraceOK'
<1>1. /\ Unanswered /\ Unanswered' /\ Noted = 0 /\ Noted' = 0 /\ UNCHANGED <<record, answers, cur>>
  BY WriteStage
<1>2. PICK n \in 1..(FrameSize - off) : pty' = pty \o Bytes(cur, frameNo, off + 1, off + n) /\ off' = off + n
  BY DEF WriteSome
<1>3. /\ off \in Nat /\ FrameSize \in Nat /\ n \in Nat /\ n > 0 /\ off + n <= FrameSize
      /\ pty \in Seq(Octets) /\ record \in Seq(Kinds \X Octets)
  BY <1>2, InputAssumption DEF FrameInv, RawTypeOK
<1>4. PICK q \in Clients, f \in Nat, o \in Nat :
        /\ q = cur /\ q = cur' /\ f = frameNo /\ f = frameNo' /\ o = off /\ off' = o + n
        /\ Len(answers[q]) \in Nat /\ f = Len(answers[q]) + 1
  <2>1. pc = "execute"
    BY DEF WriteSome, Executing
  <2>2. cur \in Clients /\ frameNo \in Nat /\ Len(answers[cur]) \in Nat
    BY <2>1, Execute
  <2>3. frameNo = Len(answers[cur]) + 1 /\ frameNo' = frameNo
    BY <1>1 DEF frameNo
  <2> QED BY <1>1, <1>2, <1>3, <2>2, <2>3
<1> DEFINE L == Len(pty)
           M == L + n
<1>5. /\ L \in Nat /\ DOMAIN pty = 1..L /\ Len(pty') = M /\ DOMAIN pty' = 1..M
      /\ \A k \in 1..L : pty'[k] = pty[k]
      /\ \A k \in 1..n : pty'[L + k] = <<q, f, o + k>>
  <2>1. PICK a \in Nat, j \in Nat : a = o + 1 /\ j = o + n /\ o <= j /\ j - o = n
    BY <1>3
  <2>2. pty' = pty \o Bytes(q, f, a, j)
    BY <1>2, <1>4, <2>1
  <2>3. Extends(pty', pty, q, f, o, j)
    BY <1>3, <2>1, <2>2, Grown
  <2> QED BY <2>1, <2>3 DEF Extends
<1> HIDE DEF L
<1>6. ASSUME NEW k \in DOMAIN pty' PROVE k \in DOMAIN pty \/ (\E i \in 1..n : k = L + i)
  <2>1. CASE k <= L
    BY <1>5, <1>6, <2>1
  <2>2. CASE L < k
    <3>1. k - L \in 1..n /\ k = L + (k - L)
      BY <1>3, <1>5, <1>6, <2>2
    <3> QED BY <3>1
  <2>3. k \in Nat /\ L \in Nat
    BY <1>5, <1>6
  <2> QED BY <2>1, <2>2, <2>3
<1> HIDE DEF M
<1>7. ASSUME NEW k \in DOMAIN pty PROVE k \in DOMAIN pty' /\ pty'[k] = pty[k]
  BY <1>3, <1>5, <1>7 DEF M
<1>8. ASSUME NEW d, NEW m, NEW x
      PROVE  /\ InPty(<<d, m, x>>)' <=> InPty(<<d, m, x>>) \/ (d = q /\ m = f /\ \E i \in 1..n : x = o + i)
             /\ InPty(<<d, m, x>>) => InPty(<<d, m, x>>)'
  <2>1. InPty(<<d, m, x>>) => InPty(<<d, m, x>>)'
    BY <1>7 DEF InPty
  <2>2. ASSUME NEW i \in 1..n PROVE InPty(<<q, f, o + i>>)'
    <3>1. L + i \in DOMAIN pty' /\ pty'[L + i] = <<q, f, o + i>>
      BY <1>3, <1>5, <2>2 DEF M
    <3> QED BY <3>1 DEF InPty
  <2>3. ASSUME NEW k \in DOMAIN pty', pty'[k] = <<d, m, x>>, ~InPty(<<d, m, x>>)
        PROVE  d = q /\ m = f /\ \E i \in 1..n : x = o + i
    <3>1. PICK i \in 1..n : k = L + i
      BY <1>6, <1>7, <2>3 DEF InPty
    <3>2. <<d, m, x>> = <<q, f, o + i>>
      BY <1>5, <2>3, <3>1
    <3> QED BY <3>2
  <2> QED BY <2>1, <2>2, <2>3 DEF InPty
<1>9. \A d, m : (IsCur(d, m)' <=> IsCur(d, m)) /\ (HasAnswer(d, m)' <=> HasAnswer(d, m))
  BY <1>1 DEF IsCur, HasAnswer
<1>10. IsCur(q, f) /\ ~HasAnswer(q, f)
  BY <1>1, <1>4 DEF IsCur, HasAnswer
<1>11. ASSUME NEW i \in 1..n PROVE ~InPty(<<q, f, o + i>>) /\ o + i \in Nat /\ o + i \in 1..FrameSize /\ o + i > o
  <2>1. o + i \in Nat /\ o + i \in 1..FrameSize /\ o + i > o /\ ~(o + i <= off)
    BY <1>3, <1>4, <1>11
  <2> QED BY <1>4, <1>10, <2>1 DEF TraceOK, PtyOK
<1>12. PtyOK'
  <2>1. ASSUME NEW d \in Clients, NEW m \in Nat, NEW x \in Nat, InPty(<<d, m, x>>)'
        PROVE  x \in 1..FrameSize /\ (HasAnswer(d, m)' \/ (IsCur(d, m)' /\ x <= off'))
    <3>1. CASE InPty(<<d, m, x>>)
      <4>1. x \in 1..FrameSize /\ (HasAnswer(d, m) \/ (IsCur(d, m) /\ x <= off))
        BY <3>1 DEF TraceOK, PtyOK
      <4>2. x <= off => x <= off'
        BY <1>2, <1>3
      <4> QED BY <1>9, <4>1, <4>2
    <3>2. ASSUME NEW i \in 1..n, d = q, m = f, x = o + i
          PROVE  x \in 1..FrameSize /\ IsCur(d, m)' /\ x <= off'
      <4>1. o + i <= off'
        BY <1>3, <1>4, <3>2
      <4> QED BY <1>9, <1>10, <1>11, <3>2, <4>1
    <3> QED BY <1>8, <2>1, <3>1, <3>2
  <2>2. ASSUME NEW k \in DOMAIN pty', NEW l \in DOMAIN pty', pty'[k] = pty'[l] PROVE k = l
    <3>1. CASE k \in DOMAIN pty /\ l \in DOMAIN pty
      BY <1>7, <2>2, <3>1 DEF TraceOK, PtyOK
    <3>2. ASSUME NEW i \in 1..n, NEW j \in DOMAIN pty PROVE pty'[L + i] # pty'[j]
      BY <1>5, <1>7, <1>11, <3>2 DEF InPty
    <3>3. ASSUME NEW i \in 1..n, NEW j \in 1..n, k = L + i, l = L + j PROVE k = l
      <4>1. <<q, f, o + i>> = <<q, f, o + j>>
        BY <1>5, <2>2, <3>3
      <4>2. o + i = o + j
        BY <4>1
      <4> QED BY <1>3, <3>3, <4>2
    <3> QED BY <1>6, <2>2, <3>1, <3>2, <3>3
  <2>3. off' <= Len(pty') /\ \A i \in 1..off' : pty'[Len(pty') - off' + i] = <<q, f, i>>
    <3>1. o <= L /\ \A i \in 1..o : pty[L - o + i] = <<q, f, i>>
      BY <1>1, <1>4 DEF TraceOK, PtyOK, L
    <3>2. Len(pty') - off' = L - o /\ off' <= Len(pty')
      BY <1>2, <1>3, <1>4, <1>5, <3>1 DEF M
    <3>3. ASSUME NEW i \in 1..off' PROVE pty'[L - o + i] = <<q, f, i>>
      <4>1. CASE i <= o
        <5>1. i \in 1..o /\ L - o + i \in 1..L
          BY <1>3, <1>5, <3>1, <3>3, <4>1
        <5> QED BY <1>5, <3>1, <5>1
      <4>2. CASE o < i
        <5>1. i - o \in 1..n /\ L - o + i = L + (i - o) /\ o + (i - o) = i
          BY <1>3, <1>4, <1>5, <3>3, <4>2
        <5>2. pty'[L + (i - o)] = <<q, f, o + (i - o)>>
          BY <1>5, <5>1
        <5> QED BY <5>1, <5>2
      <4>3. i \in Nat
        BY <1>2, <1>3, <3>3
      <4> QED BY <1>3, <4>1, <4>2, <4>3
    <3> QED BY <3>2, <3>3
  <2> QED BY <1>1, <1>4, <2>1, <2>2, <2>3 DEF PtyOK
<1>13. AnswersOK'
  <2> SUFFICES ASSUME NEW d \in Clients, NEW m \in DOMAIN answers[d]
               PROVE  /\ answers[d][m] = "ok" => \A i \in 1..FrameSize : InPty(<<d, m, i>>)'
                      /\ answers[d][m] \in {"err", "refused"} => ~InPty(<<d, m, FrameSize>>)'
    BY <1>1 DEF AnswersOK
  <2>1. m # f \/ d # q
    <3>1. d = q => DOMAIN answers[d] = 1..Len(answers[q])
      BY <1>4 DEF AccTypeOK
    <3> QED BY <1>4, <3>1
  <2>2. InPty(<<d, m, FrameSize>>)' => InPty(<<d, m, FrameSize>>)
    BY <1>8, <2>1
  <2> QED BY <1>8, <2>2 DEF TraceOK, AnswersOK
<1>14. RecordOK'
  <2>1. \A b : InRecord(b)' <=> InRecord(b)
    BY <1>1 DEF InRecord
  <2> QED BY <1>1, <1>9, <2>1 DEF TraceOK, RecordOK
<1>15. ASSUME NEW d \in Clients, NEW m \in Nat, NEW x \in Nat, InRecord(<<d, m, x>>), InPty(<<d, m, x>>)'
       PROVE  InPty(<<d, m, x>>)
  <2>1. x \in 1..FrameSize /\ (HasAnswer(d, m) \/ x <= 0)
    BY <1>1, <1>15 DEF TraceOK, RecordOK
  <2> QED BY <1>8, <1>10, <1>15, <2>1
<1>16. MatchOK'
  <2>1. \A b : InRecordAs("in", b)' <=> InRecordAs("in", b)
    BY <1>1 DEF InRecordAs
  <2>2. ASSUME NEW d \in Clients, NEW m \in Nat, NEW x \in Nat
        PROVE  /\ InRecordAs("in", <<d, m, x>>)' => InPty(<<d, m, x>>)'
               /\ InPty(<<d, m, x>>)' => InRecordAs("in", <<d, m, x>>)' \/ (IsCur(d, m)' /\ Noted' < x)
    <3>1. /\ InRecordAs("in", <<d, m, x>>) => InPty(<<d, m, x>>)
          /\ InPty(<<d, m, x>>) => InRecordAs("in", <<d, m, x>>) \/ (IsCur(d, m) /\ Noted < x)
      BY DEF TraceOK, MatchOK
    <3>2. \A i \in 1..n : x = o + i => 0 < x
      BY <1>3
    <3> QED BY <1>1, <1>8, <1>9, <1>10, <2>1, <3>1, <3>2
  <2>3. ASSUME NEW i \in DOMAIN record, NEW k \in DOMAIN pty', pty'[k] = record[i][2]
        PROVE  k \in DOMAIN pty /\ pty[k] = record[i][2]
    <3>1. record[i][2] \in Octets
      BY <1>3
    <3>2. PICK d \in Clients, m \in Nat, x \in Nat : record[i][2] = <<d, m, x>>
      BY <3>1, Octet
    <3>3. InRecord(<<d, m, x>>) /\ InPty(<<d, m, x>>)'
      BY <2>3, <3>2 DEF InRecord, InPty
    <3>4. PICK l \in DOMAIN pty : pty[l] = <<d, m, x>>
      BY <1>15, <3>3 DEF InPty
    <3>5. l \in DOMAIN pty' /\ pty'[l] = pty'[k]
      BY <1>7, <2>3, <3>2, <3>4
    <3>6. l = k
      BY <1>12, <2>3, <3>5 DEF PtyOK
    <3> QED BY <3>2, <3>4, <3>6
  <2>4. ASSUME NEW i \in DOMAIN record, NEW j \in DOMAIN record, i < j, record[i][1] = "in", record[j][1] = "in",
               NEW k \in DOMAIN pty', NEW l \in DOMAIN pty', pty'[k] = record[i][2], pty'[l] = record[j][2]
        PROVE  k < l
    BY <2>3, <2>4 DEF TraceOK, MatchOK
  <2> QED BY <1>1, <2>2, <2>4 DEF MatchOK
<1> QED BY <1>12, <1>13, <1>14, <1>16 DEF TraceOK

\* u is the record s and the bytes after the i-th up to the j-th of a frame, under a kind.
ExtendsAs(u, s, kind, c, n, i, j) ==
  /\ Len(s) \in Nat /\ DOMAIN s = 1..Len(s) /\ DOMAIN u = 1..(Len(s) + (j - i))
  /\ \A k \in 1..Len(s) : u[k] = s[k]
  /\ \A k \in 1..(j - i) : u[Len(s) + k] = <<kind, <<c, n, i + k>>>>

\* Bytes of a frame behind others in the record.
LEMMA GrownAs ==
  ASSUME NEW s \in Seq(Kinds \X Octets), NEW kind \in Kinds,
         NEW c \in Clients, NEW n \in Nat, NEW i \in Nat, NEW a \in Nat, NEW j \in Nat, a = i + 1, i <= j,
         NEW b, b = Bytes(c, n, a, j), NEW u, u = s \o [k \in DOMAIN b |-> <<kind, b[k]>>]
  PROVE  ExtendsAs(u, s, kind, c, n, i, j)
<1> DEFINE r == [k \in DOMAIN b |-> <<kind, b[k]>>]
<1>1. AreBytes(b, c, n, i, j)
  BY BytesAt
<1>2. b \in Seq(Octets) /\ DOMAIN b = 1..(j - i) /\ j - i \in Nat /\ \A k \in 1..(j - i) : b[k] = <<c, n, i + k>>
  BY <1>1 DEF AreBytes
<1>3. \A k \in DOMAIN b : <<kind, b[k]>> \in Kinds \X Octets
  BY <1>2
<1>4. r \in Seq(Kinds \X Octets) /\ Len(r) = j - i /\ \A k \in 1..(j - i) : r[k] = <<kind, b[k]>>
  <2>1. PICK d \in Nat : d = j - i
    BY <1>2
  <2>2. r = [k \in 1..d |-> <<kind, b[k]>>] /\ \A k \in 1..d : <<kind, b[k]>> \in Kinds \X Octets
    BY <1>2, <1>3, <2>1
  <2> HIDE DEF r
  <2> QED BY <2>1, <2>2
<1>5. u = s \o r
  OBVIOUS
<1> HIDE DEF r
<1>6. r \in Seq(Kinds \X Octets)
  BY <1>4
<1> DEFINE v == s \o r
<1>7. /\ Len(s) \in Nat /\ DOMAIN s = 1..Len(s) /\ DOMAIN v = 1..(Len(s) + Len(r))
      /\ \A k \in 1..Len(s) : v[k] = s[k]
      /\ \A k \in 1..Len(r) : v[Len(s) + k] = r[k]
  BY <1>6, ConcatAt
<1> HIDE DEF v
<1>8. \A k \in 1..(j - i) : r[k] = <<kind, <<c, n, i + k>>>>
  BY <1>2, <1>4
<1>9. ExtendsAs(v, s, kind, c, n, i, j)
  BY <1>4, <1>7, <1>8 DEF ExtendsAs
<1> QED BY <1>5, <1>9 DEF v

\* Bytes of the frame are recorded.
LEMMA RecordTrace ==
  ASSUME FrameInv, AccTypeOK, StageOK, TraceOK, ExecRecord
  PROVE  TraceOK'
<1>1. /\ Unanswered /\ Unanswered' /\ UNCHANGED <<pty, answers, cur, off, pc>>
      /\ Noted \in 0..FrameSize /\ Noted' \in Noted..FrameSize
  BY RecordStage
<1>2. /\ off \in Nat /\ FrameSize \in Nat /\ pty \in Seq(Octets) /\ record \in Seq(Kinds \X Octets)
  BY InputAssumption DEF FrameInv, RawTypeOK
<1>3. PICK q \in Clients, f \in Nat, o \in Nat, g \in Nat, h \in Nat, kind \in Kinds :
        /\ q = cur /\ q = cur' /\ f = frameNo /\ f = frameNo' /\ o = off /\ o = off' /\ kind = Head(effects).kind
        /\ g = Noted /\ h = Noted' /\ g <= h /\ h <= FrameSize
        /\ Len(answers[q]) \in Nat /\ f = Len(answers[q]) + 1
        /\ kind = "in" => g = 0 /\ h = o
        /\ kind # "in" => g = o
  <2>1. pc = "execute"
    BY DEF ExecRecord, Executing
  <2>2. cur \in Clients /\ frameNo \in Nat /\ Len(answers[cur]) \in Nat
    BY <2>1, Execute
  <2>3. frameNo = Len(answers[cur]) + 1 /\ frameNo' = frameNo
    BY <1>1 DEF frameNo
  <2>4. Noted \in Nat /\ Noted' \in Nat /\ Noted <= Noted' /\ Noted' <= FrameSize
    BY <1>1, <1>2
  <2>5. /\ Head(effects).kind \in Kinds
        /\ Head(effects).kind = "in" => Noted = 0 /\ Noted' = off
        /\ Head(effects).kind # "in" => Noted = off
    BY RecordStage
  <2> QED BY <1>1, <1>2, <2>2, <2>3, <2>4, <2>5
<1> DEFINE L == Len(record)
           m == h - g
<1>n. /\ g \in Nat /\ h \in Nat /\ o \in Nat /\ FrameSize \in Nat /\ m = h - g /\ m \in Nat
      /\ g <= h /\ h <= FrameSize /\ (kind = "in" => g = 0 /\ h = o /\ m = o)
  <2>1. g <= h /\ h <= FrameSize /\ (kind = "in" => g = 0 /\ h = o)
    BY <1>3
  <2> QED BY <1>2, <2>1
<1>4. /\ L \in Nat /\ m \in Nat /\ DOMAIN record = 1..L /\ DOMAIN record' = 1..(L + m)
      /\ \A k \in 1..L : record'[k] = record[k]
      /\ \A k \in 1..m : record'[L + k] = <<kind, <<q, f, g + k>>>>
  <2>1. PICK a \in Nat : a = g + 1
    OBVIOUS
  <2>2. record' = record \o LET b == Bytes(q, f, a, h) IN [k \in DOMAIN b |-> <<kind, b[k]>>]
    BY <1>3, <2>1, RecordStage
  <2>3. /\ record \in Seq(Kinds \X Octets) /\ kind \in Kinds /\ q \in Clients
        /\ f \in Nat /\ g \in Nat /\ h \in Nat /\ g <= h
    BY <1>2, <1>3
  <2>4. PICK b, u : /\ b = Bytes(q, f, a, h) /\ u = record'
                    /\ u = record \o [k \in DOMAIN b |-> <<kind, b[k]>>]
    BY <2>2
  <2>5. ExtendsAs(u, record, kind, q, f, g, h)
    BY <2>1, <2>3, <2>4, GrownAs
  <2>6. ExtendsAs(record', record, kind, q, f, g, h)
    BY <2>4, <2>5
  <2> QED BY <1>n, <2>6 DEF ExtendsAs
<1> HIDE DEF L
<1>5. ASSUME NEW k \in DOMAIN record' PROVE k \in DOMAIN record \/ (\E i \in 1..m : k = L + i)
  <2>1. CASE k <= L
    BY <1>4, <1>5, <2>1
  <2>2. CASE L < k
    <3>1. k - L \in 1..m /\ k = L + (k - L)
      BY <1>4, <1>5, <2>2
    <3> QED BY <3>1
  <2>3. k \in Nat /\ L \in Nat
    BY <1>4, <1>5
  <2> QED BY <2>1, <2>2, <2>3
<1>6. ASSUME NEW k \in DOMAIN record PROVE k \in DOMAIN record' /\ record'[k] = record[k]
  BY <1>4, <1>6
<1>7. ASSUME NEW k \in 1..m
      PROVE  /\ L + k \in DOMAIN record' /\ record'[L + k][1] = kind /\ record'[L + k][2] = <<q, f, g + k>>
             /\ record'[L + k] = <<kind, <<q, f, g + k>>>>
  BY <1>4, <1>7
<1>8. \A i \in 1..m : g + i \in Nat /\ g + i \in 1..FrameSize /\ ~(g + i <= g) /\ g + i <= h
  BY <1>n
<1>9. \A x \in Nat : g < x /\ x <= h => x - g \in 1..m /\ g + (x - g) = x
  BY <1>n
<1> HIDE DEF m
<1>10. \A d, e : (IsCur(d, e)' <=> IsCur(d, e)) /\ (HasAnswer(d, e)' <=> HasAnswer(d, e))
  BY <1>1 DEF IsCur, HasAnswer
<1>11. /\ \A d, e : IsCur(d, e) <=> d = q /\ e = f
       /\ ~HasAnswer(q, f)
  BY <1>1, <1>3 DEF IsCur, HasAnswer
<1>12. ASSUME NEW i \in 1..m PROVE ~InRecord(<<q, f, g + i>>)
  BY <1>3, <1>8, <1>11 DEF TraceOK, RecordOK
<1>13. ASSUME NEW d \in Clients, NEW e \in Nat, NEW x \in Nat
       PROVE  InRecord(<<d, e, x>>)' <=> InRecord(<<d, e, x>>) \/ (d = q /\ e = f /\ g < x /\ x <= h)
  <2>1. InRecord(<<d, e, x>>) => InRecord(<<d, e, x>>)'
    BY <1>6 DEF InRecord
  <2>2. ASSUME d = q, e = f, g < x, x <= h PROVE InRecord(<<d, e, x>>)'
    <3>1. x - g \in 1..m /\ g + (x - g) = x
      BY <1>9, <2>2
    <3>2. record'[L + (x - g)][2] = <<d, e, x>> /\ L + (x - g) \in DOMAIN record'
      BY <1>7, <2>2, <3>1
    <3> QED BY <3>2 DEF InRecord
  <2>3. ASSUME NEW k \in DOMAIN record', record'[k][2] = <<d, e, x>>, ~InRecord(<<d, e, x>>)
        PROVE  d = q /\ e = f /\ g < x /\ x <= h
    <3>1. PICK i \in 1..m : k = L + i
      BY <1>5, <1>6, <2>3 DEF InRecord
    <3>2. <<d, e, x>> = <<q, f, g + i>>
      BY <1>7, <2>3, <3>1
    <3>3. d = q /\ e = f /\ x = g + i
      BY <3>2
    <3> QED BY <1>3, <1>8, <3>3
  <2> QED BY <2>1, <2>2, <2>3 DEF InRecord
<1>14. PtyOK'
  <2>1. \A b : InPty(b)' <=> InPty(b)
    BY <1>1 DEF InPty
  <2> QED BY <1>1, <1>3, <1>10, <2>1 DEF TraceOK, PtyOK
<1>15. AnswersOK'
  <2>1. \A b : InPty(b)' <=> InPty(b)
    BY <1>1 DEF InPty
  <2> QED BY <1>1, <2>1 DEF TraceOK, AnswersOK
<1>16. RecordOK'
  <2>1. ASSUME NEW d \in Clients, NEW e \in Nat, NEW x \in Nat
        PROVE  InRecord(<<d, e, x>>)' <=>
                 /\ x \in 1..FrameSize
                 /\ (HasAnswer(d, e)' /\ answers'[d][e] # "refused") \/ (IsCur(d, e)' /\ x <= Noted')
    <3>1. InRecord(<<d, e, x>>) <=>
            /\ x \in 1..FrameSize
            /\ (HasAnswer(d, e) /\ answers[d][e] # "refused") \/ (IsCur(d, e) /\ x <= g)
      BY <1>3 DEF TraceOK, RecordOK
    <3>2. g < x /\ x <= h => x \in 1..FrameSize
      BY <1>2, <1>3
    <3>3. x <= g => x <= h
      BY <1>3
    <3>4. x <= h => x <= g \/ g < x
      BY <1>3
    <3> QED BY <1>1, <1>3, <1>10, <1>11, <1>13, <3>1, <3>2, <3>3, <3>4
  <2>2. ASSUME NEW i \in DOMAIN record', NEW j \in DOMAIN record', record'[i][2] = record'[j][2] PROVE i = j
    <3>1. CASE i \in DOMAIN record /\ j \in DOMAIN record
      BY <1>6, <2>2, <3>1 DEF TraceOK, RecordOK
    <3>2. ASSUME NEW k \in 1..m, NEW l \in DOMAIN record PROVE record'[L + k][2] # record'[l][2]
      <4>1. record'[L + k][2] = <<q, f, g + k>> /\ record'[l] = record[l]
        BY <1>6, <1>7
      <4>2. record[l][2] # <<q, f, g + k>>
        BY <1>12 DEF InRecord
      <4> QED BY <4>1, <4>2
    <3>3. ASSUME NEW k \in 1..m, NEW l \in 1..m, i = L + k, j = L + l PROVE i = j
      <4>1. <<q, f, g + k>> = <<q, f, g + l>>
        BY <1>7, <2>2, <3>3
      <4>2. g + k = g + l
        BY <4>1
      <4> QED BY <1>3, <1>4, <3>3, <4>2 DEF m
    <3> QED BY <1>5, <2>2, <3>1, <3>2, <3>3
  <2> QED BY <2>1, <2>2 DEF RecordOK
<1>17. ASSUME NEW i \in 1..o PROVE i \in Nat /\ InPty(<<q, f, i>>) /\ \A k \in DOMAIN pty : pty[k] = <<q, f, i>> => k = Len(pty) - o + i
  <2>1. o <= Len(pty) /\ pty[Len(pty) - o + i] = <<q, f, i>>
    BY <1>1, <1>3 DEF TraceOK, PtyOK
  <2>2. Len(pty) - o + i \in DOMAIN pty /\ i \in Nat
    <3>1. Len(pty) \in Nat /\ DOMAIN pty = 1..Len(pty)
      BY <1>2
    <3> QED BY <1>3, <2>1, <3>1
  <2>3. \A k \in DOMAIN pty : pty[k] = <<q, f, i>> => k = Len(pty) - o + i
    BY <2>1, <2>2 DEF TraceOK, PtyOK
  <2> QED BY <2>1, <2>2, <2>3 DEF InPty
<1>18. MatchOK'
  <2>1. ASSUME NEW d \in Clients, NEW e \in Nat, NEW x \in Nat
        PROVE  /\ InRecordAs("in", <<d, e, x>>) => InRecordAs("in", <<d, e, x>>)'
               /\ InRecordAs("in", <<d, e, x>>)' =>
                    InRecordAs("in", <<d, e, x>>) \/ (kind = "in" /\ d = q /\ e = f /\ x \in 1..o)
               /\ kind = "in" /\ d = q /\ e = f /\ x \in 1..o => InRecordAs("in", <<d, e, x>>)'
    <3>1. InRecordAs("in", <<d, e, x>>) => InRecordAs("in", <<d, e, x>>)'
      BY <1>6 DEF InRecordAs
    <3>2. ASSUME NEW k \in DOMAIN record', record'[k] = <<"in", <<d, e, x>>>>, ~InRecordAs("in", <<d, e, x>>)
          PROVE  kind = "in" /\ d = q /\ e = f /\ x \in 1..o
      <4>1. PICK i \in 1..m : k = L + i
        BY <1>5, <1>6, <3>2 DEF InRecordAs
      <4>2. <<"in", <<d, e, x>>>> = <<kind, <<q, f, g + i>>>>
        BY <1>7, <3>2, <4>1
      <4>3. kind = "in" /\ d = q /\ e = f /\ x = g + i
        BY <4>2
      <4> QED BY <1>3, <1>8, <4>3
    <3>3. ASSUME kind = "in", d = q, e = f, x \in 1..o PROVE InRecordAs("in", <<d, e, x>>)'
      <4>1. g = 0 /\ x - g \in 1..m /\ g + (x - g) = x
        BY <1>3, <1>9, <3>3
      <4>2. record'[L + (x - g)] = <<"in", <<d, e, x>>>> /\ L + (x - g) \in DOMAIN record'
        BY <1>7, <3>3, <4>1
      <4> QED BY <4>2 DEF InRecordAs
    <3> QED BY <3>1, <3>2, <3>3 DEF InRecordAs
  <2>2. ASSUME NEW d \in Clients, NEW e \in Nat, NEW x \in Nat
        PROVE  /\ InRecordAs("in", <<d, e, x>>)' => InPty(<<d, e, x>>)'
               /\ InPty(<<d, e, x>>)' => InRecordAs("in", <<d, e, x>>)' \/ (IsCur(d, e)' /\ Noted' < x)
    <3>1. /\ InRecordAs("in", <<d, e, x>>) => InPty(<<d, e, x>>)
          /\ InPty(<<d, e, x>>) => InRecordAs("in", <<d, e, x>>) \/ (IsCur(d, e) /\ g < x)
      BY <1>3 DEF TraceOK, MatchOK
    <3>2. InPty(<<d, e, x>>)' <=> InPty(<<d, e, x>>)
      BY <1>1 DEF InPty
    <3>3. InPty(<<d, e, x>>) /\ IsCur(d, e) => x \in 1..o
      <4>1. InPty(<<d, e, x>>) => x \in 1..FrameSize /\ (HasAnswer(d, e) \/ x <= o)
        BY <1>3 DEF TraceOK, PtyOK
      <4> QED BY <1>3, <1>11, <4>1
    <3>4. kind # "in" /\ x \in 1..o => ~(g < x)
      BY <1>3
    <3> QED BY <1>11, <1>17, <2>1, <3>1, <3>2, <3>3, <3>4
  <2>3. ASSUME NEW i \in DOMAIN record', NEW j \in DOMAIN record', i < j, record'[i][1] = "in", record'[j][1] = "in",
               NEW k \in DOMAIN pty, NEW l \in DOMAIN pty, pty[k] = record'[i][2], pty[l] = record'[j][2]
        PROVE  k < l
    <3>1. CASE j \in DOMAIN record
      <4>1. i \in DOMAIN record
        <5>1. i \in Nat /\ 1 <= i /\ j <= L /\ i <= L
          BY <1>4, <2>3, <3>1
        <5> QED BY <1>4, <5>1
      <4> QED BY <1>6, <2>3, <3>1, <4>1 DEF TraceOK, MatchOK
    <3>2. ASSUME NEW y \in 1..m, j = L + y PROVE k < l
      <4>1. kind = "in" /\ g = 0 /\ h = o /\ pty[l] = <<q, f, y>> /\ y \in 1..o
        <5>1. record'[j][1] = kind /\ record'[j][2] = <<q, f, g + y>>
          BY <1>7, <3>2
        <5>2. kind = "in" /\ g = 0 /\ h = o /\ pty[l] = <<q, f, g + y>>
          BY <1>3, <2>3, <5>1
        <5>3. g + y = y /\ y \in 1..o
          BY <1>n, <5>2
        <5> QED BY <5>2, <5>3
      <4>2. l = Len(pty) - o + y
        BY <1>17, <4>1
      <4>3. Len(pty) \in Nat /\ DOMAIN pty = 1..Len(pty) /\ o <= Len(pty)
        BY <1>1, <1>2, <1>3 DEF TraceOK, PtyOK
      <4>4. CASE i \in DOMAIN record
        <5>1. pty[k] = record[i][2] /\ pty[k] \in Octets
          BY <1>2, <1>6, <2>3, <4>4
        <5>2. ~(Len(pty) - o < k)
          <6> SUFFICES ASSUME Len(pty) - o < k PROVE FALSE
            OBVIOUS
          <6>1. PICK z \in 1..o : k = Len(pty) - o + z
            <7>0. k \in 1..Len(pty) /\ Len(pty) \in Nat /\ o \in Nat /\ o <= Len(pty) /\ Len(pty) - o < k
              BY <4>3
            <7>1. k - (Len(pty) - o) \in 1..o /\ k = Len(pty) - o + (k - (Len(pty) - o))
              BY <7>0
            <7> QED BY <7>1
          <6>2. pty[k] = <<q, f, z>> /\ z \in Nat
            <7>1. \A w \in 1..o : pty[Len(pty) - o + w] = <<q, f, w>>
              BY <1>1, <1>3 DEF TraceOK, PtyOK
            <7>2. z \in Nat
              BY <6>1
            <7> QED BY <6>1, <7>1, <7>2
          <6>3. InRecord(<<q, f, z>>)
            BY <4>4, <5>1, <6>2 DEF InRecord
          <6>4. z <= 0
            BY <1>3, <1>11, <4>1, <6>2, <6>3 DEF TraceOK, RecordOK
          <6> QED BY <6>1, <6>4
        <5> QED BY <1>3, <2>3, <4>1, <4>2, <4>3, <5>2
      <4>5. ASSUME NEW z \in 1..m, i = L + z PROVE k < l
        <5>0. L \in Nat /\ z \in Nat /\ y \in Nat /\ L + z < L + y
          BY <1>4, <2>3, <3>2, <4>5
        <5>1. record'[i][2] = <<q, f, g + z>> /\ g + z = z /\ z \in 1..o /\ z < y
          <6>1. record'[i][2] = <<q, f, g + z>>
            BY <1>7, <4>5
          <6>2. g + z = z /\ z \in 1..o
            BY <1>n, <4>1
          <6>3. z < y
            BY <5>0
          <6> QED BY <6>1, <6>2, <6>3
        <5>2. k = Len(pty) - o + z
          BY <1>17, <2>3, <5>1
        <5> QED BY <1>3, <4>1, <4>2, <4>3, <5>1, <5>2
      <4> QED BY <1>5, <2>3, <4>4, <4>5
    <3> QED BY <1>5, <2>3, <3>1, <3>2
  <2> QED BY <1>1, <2>2, <2>3 DEF MatchOK
<1> QED BY <1>14, <1>15, <1>16, <1>18 DEF TraceOK

\* A frame has its answer: an acknowledgement, or the refusal during an upgrade.
LEMMA AnswerTrace ==
  ASSUME FrameInv, AccTypeOK, TraceOK, NEW c \in Clients, NEW v \in Verdicts,
         answers' = [answers EXCEPT ![c] = Append(@, v)], UNCHANGED <<pty, record>>, ~Unanswered',
         v = "refused" => ~Unanswered,
         v # "refused" => /\ cur = c /\ Unanswered /\ Noted = FrameSize
                          /\ v = "ok" => off = FrameSize
                          /\ v = "err" => off < FrameSize
  PROVE  TraceOK'
<1>1. PICK f \in Nat : f = Len(answers[c]) + 1 /\ Len(answers[c]) \in Nat
  BY DEF FrameInv, RawTypeOK
<1>2. /\ Len(answers'[c]) = f /\ answers'[c][f] = v /\ DOMAIN answers[c] = 1..Len(answers[c])
      /\ DOMAIN answers'[c] = 1..f
      /\ \A n \in 1..Len(answers[c]) : answers'[c][n] = answers[c][n]
      /\ \A d \in Clients : d # c => answers'[d] = answers[d]
  <2>1. answers[c] \in Seq(Verdicts) /\ answers'[c] = Append(answers[c], v)
        /\ \A d \in Clients : d # c => answers'[d] = answers[d]
    BY DEF AccTypeOK
  <2>2. \A s \in Seq(Verdicts) : /\ Len(Append(s, v)) = Len(s) + 1 /\ Append(s, v)[Len(s) + 1] = v
                                 /\ DOMAIN s = 1..Len(s) /\ DOMAIN Append(s, v) = 1..(Len(s) + 1)
                                 /\ \A n \in 1..Len(s) : Append(s, v)[n] = s[n]
    OBVIOUS
  <2> QED BY <1>1, <2>1, <2>2
<1>3. \A d \in Clients : \A e \in Nat :
        /\ HasAnswer(d, e)' <=> HasAnswer(d, e) \/ (d = c /\ e = f)
        /\ HasAnswer(d, e) => answers'[d][e] = answers[d][e]
        /\ d = c /\ e = f => ~HasAnswer(d, e)
  <2>1. \A e \in Nat : e \in 1..f <=> e \in 1..Len(answers[c]) \/ e = f
    BY <1>1
  <2>2. f \notin 1..Len(answers[c])
    BY <1>1
  <2> QED BY <1>2, <2>1, <2>2 DEF HasAnswer
<1>4. /\ \A d, e : ~IsCur(d, e)'
      /\ \A d, e : IsCur(d, e) => v # "refused" /\ d = c /\ e = f
      /\ v # "refused" => IsCur(c, f)
  BY <1>1 DEF IsCur
<1>5. /\ \A b : InPty(b)' <=> InPty(b)
      /\ \A b : (InRecord(b)' <=> InRecord(b)) /\ (InRecordAs("in", b)' <=> InRecordAs("in", b))
  BY DEF InPty, InRecord, InRecordAs
<1>6. FrameSize \in Nat /\ FrameSize > 0 /\ off \in Nat /\ off <= FrameSize
  BY InputAssumption DEF FrameInv, RawTypeOK
<1>7. ASSUME NEW d \in Clients, NEW e \in Nat, NEW i \in Nat, InPty(<<d, e, i>>)
      PROVE  i \in 1..FrameSize /\ (HasAnswer(d, e) \/ (IsCur(d, e) /\ i <= off))
  BY <1>7 DEF TraceOK, PtyOK
<1>8. PtyOK'
  <2>1. \A d \in Clients : \A e, i \in Nat : InPty(<<d, e, i>>) => i \in 1..FrameSize /\ HasAnswer(d, e)'
    BY <1>3, <1>4, <1>7
  <2>2. \A k, l \in DOMAIN pty : pty[k] = pty[l] => k = l
    BY DEF TraceOK, PtyOK
  <2> QED BY <1>5, <2>1, <2>2 DEF PtyOK
<1>9. AnswersOK'
  <2> SUFFICES ASSUME NEW d \in Clients, NEW n \in DOMAIN answers'[d]
               PROVE  /\ answers'[d][n] = "ok" => \A i \in 1..FrameSize : InPty(<<d, n, i>>)'
                      /\ answers'[d][n] \in {"err", "refused"} => ~InPty(<<d, n, FrameSize>>)'
    BY DEF AnswersOK
  <2>1. CASE n \in DOMAIN answers[d]
    <3>1. answers'[d][n] = answers[d][n]
      BY <1>2, <2>1
    <3> QED BY <1>5, <2>1, <3>1 DEF TraceOK, AnswersOK
  <2>2. CASE d = c /\ n = f
    <3>1. ASSUME v = "ok", NEW i \in 1..FrameSize PROVE InPty(<<c, f, i>>)
      <4>1. Unanswered /\ off = FrameSize /\ cur = c /\ frameNo = f
        BY <1>1, <3>1 DEF frameNo
      <4>2. off <= Len(pty) /\ pty[Len(pty) - off + i] = <<c, f, i>>
        BY <4>1 DEF TraceOK, PtyOK
      <4>3. Len(pty) \in Nat /\ DOMAIN pty = 1..Len(pty)
        BY DEF FrameInv, RawTypeOK
      <4>4. Len(pty) - off + i \in DOMAIN pty
        BY <1>6, <4>1, <4>2, <4>3
      <4> QED BY <4>2, <4>4 DEF InPty
    <3>2. ASSUME v \in {"err", "refused"}, InPty(<<c, f, FrameSize>>) PROVE FALSE
      <4>1. v # "refused" /\ FrameSize <= off
        BY <1>3, <1>4, <1>6, <1>7, <3>2
      <4> QED BY <1>6, <3>2, <4>1
    <3> QED BY <1>2, <1>5, <2>2, <3>1, <3>2
  <2>3. CASE ~(n \in DOMAIN answers[d]) /\ ~(d = c /\ n = f)
    <3>1. d = c
      BY <1>2, <2>3
    <3>2. n \in 1..f /\ n \notin 1..Len(answers[c])
      BY <1>2, <2>3, <3>1
    <3> QED BY <1>1, <2>3, <3>1, <3>2
  <2> QED BY <2>1, <2>2, <2>3
<1>10. RecordOK'
  <2>1. ASSUME NEW d \in Clients, NEW e \in Nat, NEW i \in Nat
        PROVE  InRecord(<<d, e, i>>) <=>
                 i \in 1..FrameSize /\ HasAnswer(d, e)' /\ answers'[d][e] # "refused"
    <3>1. InRecord(<<d, e, i>>) <=>
            /\ i \in 1..FrameSize
            /\ (HasAnswer(d, e) /\ answers[d][e] # "refused") \/ (IsCur(d, e) /\ i <= Noted)
      BY DEF TraceOK, RecordOK
    <3>2. IsCur(d, e) /\ i \in 1..FrameSize => i <= Noted
      BY <1>4, <1>6
    <3> QED BY <1>2, <1>3, <1>4, <3>1, <3>2
  <2>2. \A i, j \in DOMAIN record : record[i][2] = record[j][2] => i = j
    BY DEF TraceOK, RecordOK
  <2> QED BY <1>4, <1>5, <2>1, <2>2 DEF RecordOK
<1>11. MatchOK'
  <2>1. ASSUME NEW d \in Clients, NEW e \in Nat, NEW i \in Nat
        PROVE  InRecordAs("in", <<d, e, i>>) <=> InPty(<<d, e, i>>)
    <3>1. /\ InRecordAs("in", <<d, e, i>>) => InPty(<<d, e, i>>)
          /\ InPty(<<d, e, i>>) => InRecordAs("in", <<d, e, i>>) \/ (IsCur(d, e) /\ Noted < i)
      BY DEF TraceOK, MatchOK
    <3>2. IsCur(d, e) /\ i \in 1..FrameSize => ~(Noted < i)
      BY <1>4, <1>6
    <3> QED BY <1>7, <3>1, <3>2
  <2>2. \A i, j \in DOMAIN record : i < j /\ record[i][1] = "in" /\ record[j][1] = "in" =>
          \A k, l \in DOMAIN pty : pty[k] = record[i][2] /\ pty[l] = record[j][2] => k < l
    BY DEF TraceOK, MatchOK
  <2> QED BY <1>5, <2>1, <2>2 DEF MatchOK
<1> QED BY <1>8, <1>9, <1>10, <1>11 DEF TraceOK

\* No effect is executed.
LEMMA QuietStage ==
  ASSUME FrameInv, StageOK, UNCHANGED run, pc' = pc \/ (pc # "execute" /\ pc' # "execute")
  PROVE  /\ StageOK' /\ (Unanswered' <=> Unanswered)
         /\ Unanswered => cur' = cur /\ off' = off /\ Noted' = Noted
<1>1. UNCHANGED <<cur, effects, results, further, rounds, disconnects, pending, off>>
  BY DEF run
<1>2. CASE pc' = pc
  <2>1. (InWriteOK' <=> InWriteOK) /\ (Following' <=> Following)
    BY <1>1, <1>2 DEF InWriteOK, InWrite, Written, Following, Steps, AckNext, LostNext, InNext, RefusalNext, Rest
  <2>2. Answered => Answered'
    BY <1>1, <1>2 DEF Answered, Rest
  <2>3. Noted' = Noted
    BY <1>1, <2>1 DEF Noted
  <2> QED BY <1>1, <1>2, <2>1, <2>2, <2>3 DEF StageOK, Unanswered
<1>3. CASE pc # "execute" /\ pc' # "execute"
  BY <1>3 DEF StageOK, Unanswered, InWriteOK, InWrite, Following
<1> QED BY <1>2, <1>3

\* Every step keeps what the PTY, the answers and the record say of each other.
LEMMA TraceSteps ==
  ASSUME FrameInv, FrameInv', AccTypeOK, StageOK, TraceOK, [Next]_vars
  PROVE  AccTypeOK' /\ StageOK' /\ TraceOK'
<1>1. ASSUME UNCHANGED <<run, trace>>, pc' = pc \/ (pc # "execute" /\ pc' # "execute")
      PROVE  StageOK' /\ TraceOK'
  BY <1>1, QuietStage, QuietTrace
<1>2. ASSUME NEW c \in Clients, NEW n \in Nat, sent' = [sent EXCEPT ![c] = n]
      PROVE  sent' \in [Clients -> Nat]
  BY <1>2 DEF AccTypeOK
<1>3. ASSUME NEW c \in Clients, NEW v \in Verdicts, answers' = [answers EXCEPT ![c] = Append(@, v)]
      PROVE  answers' \in [Clients -> Seq(Verdicts)]
  <2>1. Append(answers[c], v) \in Seq(Verdicts)
    BY DEF AccTypeOK
  <2> QED BY <1>3, <2>1 DEF AccTypeOK
<1>4. ASSUME UNCHANGED <<sent, answers>> PROVE AccTypeOK'
  BY <1>4 DEF AccTypeOK
<1>5. ASSUME NEW c \in Clients, Program(c) \/ Vanish(c) PROVE AccTypeOK' /\ StageOK' /\ TraceOK'
  <2>1. UNCHANGED <<role, daemon, run, tty, trace>>
    BY <1>5, ProgramIs DEF FrameInv
  <2>2. UNCHANGED <<pc, answers>>
    BY <2>1 DEF daemon, trace
  <2>3. sent' = sent \/ sent' = [sent EXCEPT ![c] = @ + 1]
    BY <1>5 DEF Program, Vanish, SendAcquire, LockAnswered, SendRaw, Acked, Release, GiveUp
  <2>4. AccTypeOK'
    <3>1. sent[c] + 1 \in Nat
      BY DEF AccTypeOK
    <3>2. sent' \in [Clients -> Nat]
      BY <2>3, <3>1 DEF AccTypeOK
    <3> QED BY <2>2, <3>2 DEF AccTypeOK
  <2> QED BY <1>1, <2>1, <2>2, <2>4
<1>6. ASSUME NEW c \in Clients, EndOfFile(c) \/ LockAcquire(c) \/ LockRelease(c)
      PROVE  AccTypeOK' /\ StageOK' /\ TraceOK'
  <2>1. UNCHANGED <<client, run, trace, pc>>
    BY <1>6 DEF EndOfFile, LockAcquire, LockRelease
  <2> QED BY <1>1, <1>4, <2>1 DEF client, trace
<1>7. ASSUME NEW c \in Clients, RawRefused(c) PROVE AccTypeOK' /\ StageOK' /\ TraceOK'
  <2>1. /\ pc = "frames" /\ UNCHANGED <<client, run, pc, pty, record>>
        /\ answers' = [answers EXCEPT ![c] = Append(@, "refused")]
    BY <1>7 DEF RawRefused, Handling
  <2>2. StageOK' /\ ~Unanswered /\ ~Unanswered'
    BY <2>1 DEF StageOK, Unanswered, InWriteOK, InWrite, Following
  <2>3. "refused" \in Verdicts
    BY DEF Verdicts
  <2>4. TraceOK'
    BY <2>1, <2>2, <2>3, AnswerTrace
  <2> QED BY <1>3, <2>1, <2>2, <2>3, <2>4 DEF AccTypeOK, client
<1>8. ASSUME NEW c \in Clients, RawData(c) PROVE AccTypeOK' /\ StageOK' /\ TraceOK'
  <2>1. UNCHANGED <<client, trace>>
    BY <1>8 DEF RawData
  <2>2. ~Unanswered /\ Unanswered' /\ Noted' = 0 /\ off' = 0
    BY <1>8, RawDataStage
  <2>3. TraceOK'
    BY <2>1, <2>2, BeginTrace
  <2> QED BY <1>4, <2>1, <2>2, <2>3 DEF StageOK, client, trace
<1>9. CASE ExecRecord
  <2>1. UNCHANGED <<client, answers>> /\ Unanswered'
    BY <1>9, RecordStage DEF ExecRecord
  <2> QED BY <1>4, <1>9, <2>1, RecordTrace DEF StageOK, client
<1>10. CASE ExecAck
  <2>1. /\ Unanswered /\ Answered' /\ ~Unanswered' /\ Noted = FrameSize
        /\ UNCHANGED <<pty, record, sent>>
        /\ Head(effects).kind = (IF off = FrameSize THEN "ok" ELSE "err")
    BY <1>10, AckStage
  <2>2. PICK v \in {"ok", "err", "lost"} : /\ answers' = [answers EXCEPT ![cur] = Append(@, v)]
                                           /\ v = Head(effects).kind \/ v = "lost"
    BY <1>10 DEF ExecAck, Executing
  <2>3. cur \in Clients /\ off \in Nat /\ off <= FrameSize /\ FrameSize \in Nat
    BY <1>10, Execute, InputAssumption DEF ExecAck, Executing, FrameInv, RawTypeOK
  <2>4. v \in Verdicts /\ v # "refused"
    BY DEF Verdicts
  <2>5. (v = "ok" => off = FrameSize) /\ (v = "err" => off < FrameSize)
    BY <2>1, <2>2, <2>3
  <2>6. PICK c \in Clients : c = cur
    BY <2>3
  <2>7. TraceOK'
    BY <2>1, <2>2, <2>4, <2>5, <2>6, AnswerTrace
  <2> QED BY <1>3, <2>1, <2>2, <2>4, <2>6, <2>7 DEF AccTypeOK, StageOK
<1>11. CASE ExecReply \/ ExecDisconnect
  <2>1. UNCHANGED <<client, trace>>
    BY <1>11 DEF ExecReply, ExecDisconnect
  <2>2. ~Unanswered /\ ~Unanswered' /\ Answered'
    BY <1>11, RestStage
  <2> QED BY <1>4, <2>1, <2>2, QuietTrace DEF StageOK, client, trace
<1>12. CASE WriteSome
  <2>1. UNCHANGED <<client, answers>> /\ Unanswered'
    BY <1>12, WriteStage DEF WriteSome
  <2> QED BY <1>4, <1>12, <2>1, WriteTrace DEF StageOK, client
<1>13. CASE ExecWritten
  <2>1. UNCHANGED <<client, trace, off, cur>>
    BY <1>13 DEF ExecWritten
  <2>2. Unanswered /\ Unanswered' /\ Noted = 0 /\ Noted' = 0
    BY <1>13, WriteStage
  <2> QED BY <1>4, <2>1, <2>2, QuietTrace DEF StageOK, client, trace
<1>14. CASE Feedback
  <2>1. UNCHANGED client
    BY <1>14 DEF Feedback
  <2>2. (Unanswered' <=> Unanswered) /\ (Unanswered => Noted' = Noted) /\ StageOK' /\ UNCHANGED <<trace, cur, off>>
    BY <1>14, FeedbackStage
  <2> QED BY <1>4, <2>1, <2>2, QuietTrace DEF client, trace
<1>15. CASE NextRound \/ FrameDone
  <2>1. UNCHANGED client
    BY <1>15 DEF NextRound, FrameDone
  <2>2. /\ (Unanswered' <=> Unanswered) /\ (Unanswered => Noted' = Noted /\ cur' = cur /\ off' = off)
        /\ StageOK' /\ UNCHANGED trace
    BY <1>15, RoundStage
  <2> QED BY <1>4, <2>1, <2>2, QuietTrace DEF client, trace
<1>16. CASE Receive \/ EndPass \/ UpgradeExec
  <2>1. UNCHANGED <<client, run, trace>> /\ pc # "execute" /\ pc' # "execute"
    BY <1>16 DEF Receive, EndPass, UpgradeExec
  <2> QED BY <1>1, <1>4, <2>1 DEF client, trace
<1>17. CASE UpgradeRequest \/ ChildReads \/ ChildGone \/ UNCHANGED vars
  <2>1. UNCHANGED <<client, daemon, run, trace>>
    BY <1>17 DEF UpgradeRequest, ChildReads, ChildGone, vars
  <2> QED BY <1>1, <1>4, <2>1 DEF client, trace, daemon
<1> QED BY <1>5, <1>6, <1>7, <1>8, <1>9, <1>10, <1>11, <1>12, <1>13, <1>14, <1>15, <1>16, <1>17
        DEF Next, Daemon, Frame, Reduce

-----------------------------------------------------------------------------
(* What a command is told.                                                 *)

\* A message at most once in a sequence, when the first is taken ...
LEMMA TailOne ==
  ASSUME NEW T, NEW s \in Seq(T), s # <<>>, NEW m
  PROVE  /\ Has(s, Head(s)) /\ (Has(Tail(s), m) => Has(s, m))
         /\ AtMostOne(s, m) => AtMostOne(Tail(s), m)
         /\ AtMostOne(s, m) /\ Head(s) = m => ~Has(Tail(s), m)
<1> DEFINE t == Tail(s)
           n == Len(s)
<1>1. /\ n \in Nat /\ DOMAIN s = 1..n /\ n >= 1 /\ DOMAIN t = 1..(n - 1)
      /\ \A i \in 1..(n - 1) : t[i] = s[i + 1]
      /\ Head(s) = s[1]
  BY TailAt
<1> HIDE DEF t, n
<1>2. ASSUME NEW i \in DOMAIN t
      PROVE  i + 1 \in DOMAIN s /\ t[i] = s[i + 1] /\ 1 < i + 1 /\ i \in Nat
  BY <1>1
<1>3. AtMostOne(s, m) => AtMostOne(t, m)
  <2> SUFFICES ASSUME AtMostOne(s, m), NEW i \in DOMAIN t, NEW j \in DOMAIN t, t[i] = m, t[j] = m PROVE i = j
    BY DEF AtMostOne
  <2>1. i + 1 = j + 1
    BY <1>2 DEF AtMostOne
  <2> QED BY <1>2, <2>1
<1>4. AtMostOne(s, m) /\ Head(s) = m => ~Has(t, m)
  <2> SUFFICES ASSUME AtMostOne(s, m), s[1] = m, NEW i \in DOMAIN t, t[i] = m PROVE FALSE
    BY <1>1 DEF Has
  <2>1. 1 \in DOMAIN s /\ i + 1 \in DOMAIN s /\ s[i + 1] = m
    BY <1>1, <1>2
  <2>2. 1 = i + 1
    BY <2>1 DEF AtMostOne
  <2> QED BY <1>2, <2>2
<1>5. Has(s, Head(s)) /\ (Has(t, m) => Has(s, m))
  BY <1>1, <1>2 DEF Has
<1> QED BY <1>3, <1>4, <1>5 DEF t

\* ... and when others are added.
LEMMA ConcatOne ==
  ASSUME NEW T, NEW s \in Seq(T), NEW t \in Seq(T), NEW m
  PROVE  /\ Has(s \o t, m) => Has(s, m) \/ Has(t, m)
         /\ AtMostOne(s, m) /\ ~Has(t, m) => AtMostOne(s \o t, m)
         /\ AtMostOne(t, m) /\ ~Has(s, m) => AtMostOne(s \o t, m)
<1> DEFINE u == s \o t
<1>1. ASSUME NEW k \in DOMAIN u
      PROVE  \/ k \in DOMAIN s /\ u[k] = s[k]
             \/ \E i \in DOMAIN t : k = Len(s) + i /\ u[k] = t[i]
  BY ConcatFrom
<1> HIDE DEF u
<1>2. Has(u, m) => Has(s, m) \/ Has(t, m)
  BY <1>1 DEF Has
<1>3. AtMostOne(s, m) /\ ~Has(t, m) => AtMostOne(u, m)
  <2>1. ~Has(t, m) => \A k \in DOMAIN u : u[k] = m => k \in DOMAIN s /\ u[k] = s[k]
    BY <1>1 DEF Has
  <2> QED BY <2>1 DEF AtMostOne
<1>4. AtMostOne(t, m) /\ ~Has(s, m) => AtMostOne(u, m)
  <2>1. ~Has(s, m) => \A k \in DOMAIN u : u[k] = m => \E i \in DOMAIN t : k = Len(s) + i /\ t[i] = m
    BY <1>1 DEF Has
  <2> QED BY <2>1 DEF AtMostOne
<1> QED BY <1>2, <1>3, <1>4 DEF u

InWork(c) == cur = c /\ Unanswered

\* Nothing new is on its way.
LEMMA QuietCommand ==
  ASSUME NEW c, CommandOK(c), cmd'[c] = cmd[c], sent'[c] = sent[c], answers'[c] = answers[c],
         AtMostOne(inbox[c], "raw") => AtMostOne(inbox'[c], "raw"), Has(inbox'[c], "raw") => Has(inbox[c], "raw"),
         AtMostOne(outbox[c], "ok") => AtMostOne(outbox'[c], "ok"), Has(outbox'[c], "ok") => Has(outbox[c], "ok"),
         InWork(c)' => InWork(c)
  PROVE  CommandOK(c)'
BY DEF CommandOK, InWork

\* What a command sends and takes.
LEMMA OwnCommand ==
  ASSUME FrameInv, AccTypeOK, StageOK, NEW c \in Inputs, ProgramOK(c), CommandOK(c), Program(c) \/ Vanish(c)
  PROVE  CommandOK(c)'
<1>1. /\ UNCHANGED <<run, answers>> /\ c \in Clients /\ cmd \in [Clients -> Cmds] /\ inbox[c] \in Seq(Msgs)
      /\ outbox[c] \in Seq(Answers) /\ DOMAIN inbox = Clients /\ DOMAIN outbox = Clients
      /\ sent[c] \in Nat /\ sent \in [Clients -> Nat] /\ answers[c] \in Seq(Verdicts)
  BY ProgramIs DEF FrameInv, RawTypeOK, AccTypeOK, Inputs, trace
<1>2. Len(answers[c]) \in Nat /\ DOMAIN answers[c] = 1..Len(answers[c])
  BY <1>1
<1>3. InWork(c)' <=> InWork(c)
  <2>1. UNCHANGED pc
    BY <1>1, ProgramIs DEF FrameInv, daemon
  <2>2. Unanswered' <=> Unanswered
    BY <1>1, <2>1, QuietStage
  <2> QED BY <1>1, <2>2 DEF InWork, run
<1>4. /\ ~Has(<<>>, "raw") /\ ~Has(<<"acquire">>, "raw") /\ ~Has(<<"eof">>, "raw")
      /\ ~Has(<<"release", "eof">>, "raw") /\ AtMostOne(<<"raw">>, "raw")
  BY DEF Has, AtMostOne
<1>5. {<<>>, <<"acquire">>, <<"eof">>, <<"raw">>, <<"release", "eof">>} \subseteq Seq(Msgs)
  <2>1. {"acquire", "eof", "raw", "release"} \subseteq Msgs
    BY DEF Msgs
  <2> QED BY <2>1
<1>6. ASSUME NEW msgs \in Seq(Msgs), inbox' = [inbox EXCEPT ![c] = @ \o msgs], ~Has(msgs, "raw")
      PROVE  /\ AtMostOne(inbox[c], "raw") => AtMostOne(inbox'[c], "raw")
             /\ Has(inbox'[c], "raw") => Has(inbox[c], "raw")
  <2>1. inbox'[c] = inbox[c] \o msgs
    BY <1>1, <1>6
  <2> QED BY <1>1, <1>6, <2>1, ConcatOne
<1>7. ASSUME outbox[c] # <<>>, outbox' = [outbox EXCEPT ![c] = Tail(@)]
      PROVE  /\ AtMostOne(outbox[c], "ok") => AtMostOne(outbox'[c], "ok")
             /\ Has(outbox'[c], "ok") => Has(outbox[c], "ok")
             /\ Head(outbox[c]) = "ok" => Has(outbox[c], "ok")
             /\ Head(outbox[c]) = "ok" /\ AtMostOne(outbox[c], "ok") => ~Has(outbox'[c], "ok")
  <2>1. outbox'[c] = Tail(outbox[c])
    BY <1>1, <1>7
  <2> QED BY <1>1, <1>7, <2>1, TailOne
<1>8. CASE SendAcquire(c)
  <2>1. /\ cmd[c] \in {"start", "denied"} /\ cmd'[c] = "locking" /\ UNCHANGED <<sent, outbox>>
        /\ inbox' = [inbox EXCEPT ![c] = @ \o <<"acquire">>]
    BY <1>1, <1>8 DEF SendAcquire, Send
  <2>2. /\ AtMostOne(inbox[c], "raw") => AtMostOne(inbox'[c], "raw")
        /\ Has(inbox'[c], "raw") => Has(inbox[c], "raw")
    BY <1>4, <1>5, <1>6, <2>1
  <2> QED BY <1>1, <1>3, <2>1, <2>2 DEF CommandOK, Over, InWork
<1>9. CASE LockAnswered(c)
  <2>1. /\ cmd[c] = "locking" /\ cmd'[c] \in {"ready", "denied", "failed"} /\ UNCHANGED sent
        /\ outbox[c] # <<>> /\ outbox' = [outbox EXCEPT ![c] = Tail(@)]
        /\ \E msgs \in {<<>>, <<"eof">>} : inbox' = [inbox EXCEPT ![c] = @ \o msgs]
    BY <1>1, <1>9 DEF LockAnswered, Send
  <2>2. /\ AtMostOne(inbox[c], "raw") => AtMostOne(inbox'[c], "raw")
        /\ Has(inbox'[c], "raw") => Has(inbox[c], "raw")
    BY <1>4, <1>5, <1>6, <2>1
  <2> QED BY <1>1, <1>3, <1>7, <2>1, <2>2 DEF CommandOK, Over, InWork
<1>10. CASE SendRaw(c)
  <2>1. /\ cmd[c] = "ready" /\ cmd'[c] = "waiting" /\ sent'[c] = sent[c] + 1 /\ UNCHANGED outbox
        /\ inbox' = [inbox EXCEPT ![c] = @ \o <<"raw">>]
    BY <1>1, <1>10 DEF SendRaw, Send, ProgramOK
  <2>2. /\ ~Has(inbox[c], "raw") /\ ~InWork(c) /\ ~Has(outbox[c], "ok") /\ Len(answers[c]) <= sent[c]
        /\ \A n \in 1..sent[c] : n \in DOMAIN answers[c] /\ answers[c][n] = "ok"
        /\ AtMostOne(outbox[c], "ok")
    BY <2>1 DEF CommandOK, Over, InWork
  <2>3. Len(answers[c]) = sent[c]
    <3>1. sent[c] # 0 => sent[c] \in 1..Len(answers[c])
      BY <1>1, <1>2, <2>2
    <3> QED BY <1>1, <1>2, <2>2, <3>1
  <2>4. AtMostOne(inbox'[c], "raw")
    <3>1. inbox'[c] = inbox[c] \o <<"raw">>
      BY <1>1, <2>1
    <3>2. PICK t \in Seq(Msgs) : t = <<"raw">>
      BY <1>5
    <3>3. inbox[c] \in Seq(Msgs) /\ AtMostOne(t, "raw") /\ inbox'[c] = inbox[c] \o t /\ ~Has(inbox[c], "raw")
      BY <1>1, <1>4, <2>2, <3>1, <3>2
    <3>4. AtMostOne(inbox[c] \o t, "raw")
      BY <3>3, ConcatOne
    <3> QED BY <3>3, <3>4
  <2>5. \A n \in 1..(sent[c] + 1) : n < sent[c] + 1 => n \in 1..sent[c]
    BY <1>1
  <2>6. Len(answers[c]) <= sent[c] + 1
    BY <1>1, <2>3
  <2>7. answers' = answers /\ outbox' = outbox
    BY <1>1, <2>1
  <2> QED BY <1>3, <2>1, <2>2, <2>3, <2>4, <2>5, <2>6, <2>7 DEF CommandOK, Over, InWork
<1>11. CASE Acked(c)
  <2>1. /\ cmd[c] = "waiting" /\ UNCHANGED sent
        /\ outbox[c] # <<>> /\ outbox' = [outbox EXCEPT ![c] = Tail(@)]
        /\ cmd'[c] = (CASE Head(outbox[c]) = "ok" -> "ready" [] Head(outbox[c]) = "err" -> "failed"
                        [] OTHER -> "waiting")
        /\ \E msgs \in {<<>>, <<"release", "eof">>} : inbox' = [inbox EXCEPT ![c] = @ \o msgs]
    BY <1>1, <1>11 DEF Acked, Send
  <2>2. /\ AtMostOne(inbox[c], "raw") => AtMostOne(inbox'[c], "raw")
        /\ Has(inbox'[c], "raw") => Has(inbox[c], "raw")
    BY <1>4, <1>5, <1>6, <2>1
  <2>3. CASE Head(outbox[c]) = "ok"
    <3>1. cmd'[c] = "ready" /\ Has(outbox[c], "ok") /\ ~Has(outbox'[c], "ok") /\ AtMostOne(outbox'[c], "ok")
      BY <1>7, <2>1, <2>3 DEF CommandOK, Over
    <3>2. Len(answers[c]) = sent[c] /\ sent[c] > 0 /\ answers[c][sent[c]] = "ok"
      BY <2>1, <3>1 DEF CommandOK, Over
    <3>3. ~Has(inbox'[c], "raw") /\ ~InWork(c) /\ AtMostOne(inbox'[c], "raw")
      <4>1. Len(answers[c]) + 1 # sent[c]
        BY <1>1, <3>2
      <4> QED BY <2>1, <2>2, <4>1 DEF CommandOK, Over, InWork
    <3>4. \A n \in 1..sent[c] : n \in DOMAIN answers[c] /\ answers[c][n] = "ok"
      <4>1. \A n \in 1..sent[c] : n < sent[c] \/ n = sent[c]
        BY <1>1
      <4> QED BY <1>2, <2>1, <3>2, <4>1 DEF CommandOK
    <3>5. Len(answers[c]) <= sent[c] /\ answers' = answers /\ sent' = sent
      BY <1>1, <2>1, <3>2
    <3> QED BY <1>3, <3>1, <3>3, <3>4, <3>5 DEF CommandOK, Over, InWork
  <2>4. CASE Head(outbox[c]) = "err"
    BY <2>1, <2>4 DEF CommandOK, Over
  <2>5. CASE Head(outbox[c]) \notin {"ok", "err"}
    <3>1. cmd'[c] = cmd[c]
      BY <2>1, <2>5
    <3> QED BY <1>1, <1>3, <1>7, <2>1, <2>2, <3>1, QuietCommand
  <2> QED BY <2>3, <2>4, <2>5
<1>12. CASE Release(c)
  <2>1. cmd[c] = "ready" /\ cmd'[c] = "done" /\ sent[c] = NumFrames /\ UNCHANGED sent
    BY <1>1, <1>12 DEF Release
  <2> QED BY <1>1, <2>1 DEF CommandOK, Over
<1>13. CASE GiveUp(c) \/ Vanish(c)
  <2>1. cmd'[c] = "failed"
    BY <1>1, <1>13 DEF GiveUp, Vanish
  <2> QED BY <2>1 DEF CommandOK, Over
<1> QED BY <1>8, <1>9, <1>10, <1>11, <1>12, <1>13 DEF Program

\* A frame of c is taken.
LEMMA TakeCommand ==
  ASSUME FrameInv, NEW c \in todo, Take(c)
  PROVE  /\ c \in Clients
         /\ AtMostOne(inbox[c], "raw") => AtMostOne(inbox'[c], "raw")
         /\ Has(inbox'[c], "raw") => Has(inbox[c], "raw")
         /\ Head(inbox[c]) = "raw" => Has(inbox[c], "raw")
         /\ AtMostOne(inbox[c], "raw") /\ Head(inbox[c]) = "raw" => ~Has(inbox'[c], "raw")
         /\ \A d \in Clients : d # c => inbox'[d] = inbox[d]
<1>1. c \in Clients /\ inbox[c] # <<>> /\ inbox[c] \in Seq(Msgs) /\ inbox'[c] = Tail(inbox[c])
      /\ \A d \in Clients : d # c => inbox'[d] = inbox[d]
  BY DEF FrameInv, PassOK, RawTypeOK, Take
<1>2. /\ Has(inbox[c], Head(inbox[c])) /\ (Has(Tail(inbox[c]), "raw") => Has(inbox[c], "raw"))
      /\ AtMostOne(inbox[c], "raw") => AtMostOne(Tail(inbox[c]), "raw")
      /\ AtMostOne(inbox[c], "raw") /\ Head(inbox[c]) = "raw" => ~Has(Tail(inbox[c]), "raw")
  BY <1>1, TailOne
<1> QED BY <1>1, <1>2

\* A reply that is no `ok'.
LEMMA ReplyCommand ==
  ASSUME FrameInv, NEW c \in Clients, NEW msgs \in Seq(Answers), ~Has(msgs, "ok"), Reply(c, msgs)
  PROVE  \A d \in Clients : /\ AtMostOne(outbox[d], "ok") => AtMostOne(outbox'[d], "ok")
                            /\ Has(outbox'[d], "ok") => Has(outbox[d], "ok")
<1>1. outbox' = outbox \/ outbox' = [outbox EXCEPT ![c] = @ \o msgs]
  BY DEF Reply, FrameInv, RawTypeOK
<1>2. outbox[c] \in Seq(Answers) /\ outbox \in [Clients -> Seq(Answers)]
  BY DEF FrameInv, RawTypeOK
<1>3. /\ AtMostOne(outbox[c], "ok") => AtMostOne(outbox[c] \o msgs, "ok")
      /\ Has(outbox[c] \o msgs, "ok") => Has(outbox[c], "ok")
  BY <1>2, ConcatOne
<1> QED BY <1>1, <1>2, <1>3

\* What the daemon takes from a command and answers it.
LEMMA DaemonCommand ==
  ASSUME FrameInv, FrameInv', AccTypeOK, StageOK, NEW c \in Inputs, CommandOK(c),
         Receive \/ Daemon \/ UpgradeRequest \/ ChildReads \/ ChildGone \/ UNCHANGED vars
  PROVE  CommandOK(c)'
<1>1. c \in Clients /\ UNCHANGED <<role, cmd, sent>>
  BY DEF Inputs, Receive, Daemon, Frame, EndOfFile, LockAcquire, LockRelease, RawRefused, RawData, Reduce,
         ExecRecord, ExecAck, ExecReply, ExecDisconnect, WriteSome, ExecWritten, Feedback, NextRound, FrameDone,
         EndPass, UpgradeExec, UpgradeRequest, ChildReads, ChildGone, client, vars
<1>2. inbox[c] \in Seq(Msgs) /\ outbox[c] \in Seq(Answers) /\ DOMAIN outbox = Clients
      /\ answers[c] \in Seq(Verdicts) /\ DOMAIN answers = Clients /\ sent[c] \in Nat
  BY <1>1 DEF FrameInv, RawTypeOK, AccTypeOK
<1>3. ~Has(<<"acquired">>, "ok") /\ ~Has(<<"denied">>, "ok") /\ ~Has(<<"error">>, "ok") /\ ~Has(<<"denied", "error">>, "ok")
  BY DEF Has
<1>4. <<"acquired">> \in Seq(Answers) /\ <<"denied">> \in Seq(Answers) /\ <<"error">> \in Seq(Answers)
      /\ <<"denied", "error">> \in Seq(Answers)
  <2>1. {"acquired", "denied", "error"} \subseteq Answers
    BY DEF Answers
  <2> QED BY <2>1
<1>5. ASSUME UNCHANGED <<run, answers, inbox, outbox>>, pc' = pc \/ (pc # "execute" /\ pc' # "execute")
      PROVE  CommandOK(c)'
  <2>1. InWork(c)' => InWork(c)
    BY <1>5, QuietStage DEF InWork, run
  <2> QED BY <1>1, <1>5, <2>1, QuietCommand
<1>6. ASSUME NEW d \in todo, Take(d), UNCHANGED <<run, answers, pc>>,
             AtMostOne(outbox[c], "ok") => AtMostOne(outbox'[c], "ok"),
             Has(outbox'[c], "ok") => Has(outbox[c], "ok")
      PROVE  CommandOK(c)'
  <2>1. InWork(c)' => InWork(c)
    BY <1>6, QuietStage DEF InWork, run
  <2>2. /\ AtMostOne(inbox[c], "raw") => AtMostOne(inbox'[c], "raw")
        /\ Has(inbox'[c], "raw") => Has(inbox[c], "raw")
    BY <1>1, <1>6, TakeCommand
  <2> QED BY <1>1, <1>6, <2>1, <2>2, QuietCommand
<1>7. ASSUME NEW d \in Clients, EndOfFile(d) PROVE CommandOK(c)'
  <2>1. d \in todo /\ Take(d) /\ UNCHANGED <<run, trace, pc, outbox>>
    BY <1>7 DEF EndOfFile, Handling
  <2> QED BY <1>6, <2>1 DEF trace
<1>8. ASSUME NEW d \in Clients, LockAcquire(d) \/ LockRelease(d) PROVE CommandOK(c)'
  <2>1. d \in todo /\ Take(d) /\ UNCHANGED <<run, trace, pc>>
    BY <1>8 DEF LockAcquire, LockRelease, Handling
  <2>2. outbox' = outbox \/ \E msgs \in {<<"acquired">>, <<"denied">>, <<"error">>, <<"denied", "error">>} : Reply(d, msgs)
    BY <1>8 DEF LockAcquire, LockRelease
  <2>3. /\ AtMostOne(outbox[c], "ok") => AtMostOne(outbox'[c], "ok")
        /\ Has(outbox'[c], "ok") => Has(outbox[c], "ok")
    BY <1>1, <1>3, <1>4, <2>2, ReplyCommand
  <2> QED BY <1>6, <2>1, <2>3 DEF trace
<1>9. ASSUME NEW d \in Clients, RawRefused(d) PROVE CommandOK(c)'
  <2>1. /\ d \in todo /\ Take(d) /\ Head(inbox[d]) = "raw" /\ pc = "frames" /\ UNCHANGED <<run, pc>>
        /\ Reply(d, <<"error">>) /\ answers' = [answers EXCEPT ![d] = Append(@, "refused")]
    BY <1>9 DEF RawRefused, Handling
  <2>2. /\ AtMostOne(outbox[c], "ok") => AtMostOne(outbox'[c], "ok")
        /\ Has(outbox'[c], "ok") => Has(outbox[c], "ok")
    BY <1>1, <1>3, <1>4, <2>1, ReplyCommand
  <2>3. ~InWork(c) /\ ~InWork(c)'
    BY <2>1, OneStage, QuietStage DEF InWork
  <2>4. CASE d # c
    <3>1. inbox'[c] = inbox[c] /\ answers'[c] = answers[c]
      BY <1>1, <1>2, <2>1, <2>4, TakeCommand
    <3> QED BY <1>1, <2>2, <2>3, <3>1, QuietCommand
  <2>5. CASE d = c
    <3>1. PICK s : s = answers[c] /\ s \in Seq(Verdicts) /\ answers'[c] = Append(s, "refused")
      BY <1>2, <2>1, <2>5
    <3>2. /\ Len(s) \in Nat /\ DOMAIN s = 1..Len(s) /\ Len(answers'[c]) = Len(s) + 1
          /\ DOMAIN answers'[c] = 1..(Len(s) + 1) /\ \A n \in 1..Len(s) : answers'[c][n] = s[n]
      BY <3>1 DEF Verdicts
    <3>3. /\ Has(inbox[c], "raw")
          /\ AtMostOne(inbox[c], "raw") => ~Has(inbox'[c], "raw") /\ AtMostOne(inbox'[c], "raw")
      BY <2>1, <2>5, TakeCommand
    <3>4. \A n \in DOMAIN s : n \in DOMAIN answers'[c] /\ answers'[c][n] = s[n]
      BY <3>2
    <3>5. cmd[c] \notin Over => /\ cmd[c] = "waiting" /\ Len(s) + 1 = sent[c] /\ ~Has(outbox[c], "ok")
                                /\ ~Has(inbox'[c], "raw") /\ AtMostOne(inbox'[c], "raw") /\ AtMostOne(outbox'[c], "ok")
      <4>1. cmd[c] \notin Over => cmd[c] = "waiting" /\ Len(s) + 1 = sent[c] /\ AtMostOne(inbox[c], "raw")
                                  /\ AtMostOne(outbox[c], "ok") /\ (Has(outbox[c], "ok") => Len(s) = sent[c])
        BY <3>1, <3>3 DEF CommandOK
      <4> QED BY <2>2, <3>2, <3>3, <4>1
    <3>6. cmd[c] # "failed" => \A n \in 1..sent[c] : n < sent[c] \/ cmd[c] # "waiting" =>
            n \in DOMAIN answers'[c] /\ answers'[c][n] = "ok"
      BY <3>1, <3>4 DEF CommandOK
    <3>7. cmd[c] = "done" => sent[c] = NumFrames
      BY DEF CommandOK
    <3>8. Len(s) + 1 = sent[c] => Len(answers'[c]) <= sent[c]
      BY <1>2, <3>2
    <3> QED BY <1>1, <2>2, <2>3, <3>5, <3>6, <3>7, <3>8 DEF CommandOK, InWork
  <2> QED BY <2>4, <2>5
<1>10. ASSUME NEW d \in Clients, RawData(d) PROVE CommandOK(c)'
  <2>1. /\ d \in todo /\ Take(d) /\ Head(inbox[d]) = "raw" /\ pc = "frames" /\ UNCHANGED <<trace, outbox>> /\ cur' = d
    BY <1>10 DEF RawData, Handling
  <2>2. UNCHANGED answers /\ ~InWork(c)
    BY <2>1, OneStage DEF InWork, trace
  <2>3. CASE d # c
    <3>1. inbox'[c] = inbox[c] /\ ~InWork(c)'
      BY <1>1, <2>1, <2>3, TakeCommand DEF InWork
    <3> QED BY <1>1, <2>1, <2>2, <3>1, QuietCommand
  <2>4. CASE d = c
    <3>1. /\ Has(inbox[c], "raw")
          /\ AtMostOne(inbox[c], "raw") => ~Has(inbox'[c], "raw") /\ AtMostOne(inbox'[c], "raw")
      BY <2>1, <2>4, TakeCommand
    <3> QED BY <1>1, <2>1, <2>2, <3>1 DEF CommandOK, InWork
  <2> QED BY <2>3, <2>4
<1>11. CASE ExecRecord \/ WriteSome \/ ExecWritten
  <2>1. UNCHANGED <<inbox, outbox, answers, cur>>
    BY <1>11 DEF ExecRecord, WriteSome, ExecWritten, trace
  <2>2. Unanswered
    BY <1>11, RecordStage, WriteStage
  <2> QED BY <1>1, <2>1, <2>2, QuietCommand DEF InWork
<1>12. CASE ExecAck
  <2>1. /\ Unanswered /\ ~Unanswered' /\ UNCHANGED inbox /\ cur \in Clients
    BY <1>12, AckStage, Execute DEF ExecAck, Executing
  <2>2. PICK v \in Verdicts :
          /\ answers' = [answers EXCEPT ![cur] = Append(@, v)]
          /\ \/ outbox' = outbox
             \/ outbox' = [outbox EXCEPT ![cur] = Append(@, v)]
    BY <1>12, <2>1 DEF ExecAck, Executing, Verdicts, FrameInv, RawTypeOK
  <2>3. ~InWork(c)'
    BY <2>1 DEF InWork
  <2>4. CASE cur # c
    <3>1. answers'[c] = answers[c] /\ outbox'[c] = outbox[c]
      BY <1>1, <1>2, <2>2, <2>4
    <3> QED BY <1>1, <2>1, <2>3, <3>1, QuietCommand
  <2>5. CASE cur = c
    <3>1. PICK s : s = answers[c] /\ s \in Seq(Verdicts) /\ answers'[c] = Append(s, v)
      BY <1>1, <1>2, <2>2, <2>5
    <3>2. /\ Len(s) \in Nat /\ DOMAIN s = 1..Len(s) /\ Len(answers'[c]) = Len(s) + 1 /\ answers'[c][Len(s) + 1] = v
          /\ DOMAIN answers'[c] = 1..(Len(s) + 1) /\ \A n \in 1..Len(s) : answers'[c][n] = s[n]
      BY <3>1
    <3>3. PICK o : /\ o = outbox[c] /\ Len(o) \in Nat /\ DOMAIN o = 1..Len(o)
                   /\ \/ outbox'[c] = o
                      \/ /\ DOMAIN outbox'[c] = 1..(Len(o) + 1) /\ outbox'[c][Len(o) + 1] = v
                         /\ \A n \in 1..Len(o) : outbox'[c][n] = o[n]
      <4>1. outbox'[c] = outbox[c] \/ outbox'[c] = Append(outbox[c], v)
        BY <1>1, <1>2, <2>2, <2>5
      <4>2. outbox[c] \in Seq(Answers \cup Verdicts)
        BY <1>2
      <4>3. /\ Len(outbox[c]) \in Nat /\ DOMAIN outbox[c] = 1..Len(outbox[c])
            /\ DOMAIN Append(outbox[c], v) = 1..(Len(outbox[c]) + 1) /\ Append(outbox[c], v)[Len(outbox[c]) + 1] = v
            /\ \A n \in 1..Len(outbox[c]) : Append(outbox[c], v)[n] = outbox[c][n]
        BY <4>2
      <4> QED BY <4>1, <4>3
    <3>4. Has(outbox'[c], "ok") => Has(o, "ok") \/ v = "ok"
      <4>1. \A n \in 1..(Len(o) + 1) : n \in 1..Len(o) \/ n = Len(o) + 1
        BY <3>3
      <4> QED BY <3>3, <4>1 DEF Has
    <3>5. ~Has(o, "ok") => AtMostOne(outbox'[c], "ok")
      <4>1. \A n \in 1..(Len(o) + 1) : n \in 1..Len(o) \/ n = Len(o) + 1
        BY <3>3
      <4> QED BY <3>3, <4>1 DEF Has, AtMostOne
    <3>6. \A n \in DOMAIN s : n \in DOMAIN answers'[c] /\ answers'[c][n] = s[n]
      BY <3>2
    <3>7. cmd[c] \notin Over => /\ cmd[c] = "waiting" /\ Len(s) + 1 = sent[c] /\ ~Has(o, "ok")
                                /\ ~Has(inbox[c], "raw") /\ AtMostOne(inbox[c], "raw")
      <4>1. cmd[c] \notin Over => cmd[c] = "waiting" /\ Len(s) + 1 = sent[c] /\ ~Has(inbox[c], "raw")
                                  /\ AtMostOne(inbox[c], "raw") /\ (Has(o, "ok") => Len(s) = sent[c])
        BY <2>1, <2>5, <3>1, <3>3 DEF CommandOK
      <4> QED BY <3>2, <4>1
    <3>8. cmd[c] # "failed" => \A n \in 1..sent[c] : n < sent[c] \/ cmd[c] # "waiting" =>
            n \in DOMAIN answers'[c] /\ answers'[c][n] = "ok"
      BY <3>1, <3>6 DEF CommandOK
    <3>9. cmd[c] = "done" => sent[c] = NumFrames
      BY DEF CommandOK
    <3>10. Len(s) + 1 = sent[c] => Len(answers'[c]) <= sent[c] /\ Len(answers'[c]) = sent[c] /\ sent[c] > 0 /\ answers'[c][sent[c]] = v
      BY <1>2, <3>2
    <3> QED BY <1>1, <2>1, <2>3, <3>4, <3>5, <3>7, <3>8, <3>9, <3>10 DEF CommandOK, InWork
  <2> QED BY <2>4, <2>5
<1>13. CASE ExecReply
  <2>1. Reply(cur, <<"error">>) /\ UNCHANGED <<inbox, answers>> /\ cur \in Clients
    BY <1>13, Execute DEF ExecReply, Executing, trace
  <2>2. ~InWork(c)'
    BY <1>13, RestStage DEF InWork
  <2>3. /\ AtMostOne(outbox[c], "ok") => AtMostOne(outbox'[c], "ok")
        /\ Has(outbox'[c], "ok") => Has(outbox[c], "ok")
    BY <1>1, <1>3, <1>4, <2>1, ReplyCommand
  <2> QED BY <1>1, <2>1, <2>2, <2>3, QuietCommand
<1>14. CASE ExecDisconnect
  <2>1. UNCHANGED <<inbox, outbox, answers>> /\ ~InWork(c)'
    BY <1>14, RestStage DEF ExecDisconnect, InWork, trace
  <2> QED BY <1>1, <2>1, QuietCommand
<1>15. CASE Feedback \/ NextRound \/ FrameDone
  <2>1. UNCHANGED <<inbox, outbox, answers>>
    BY <1>15 DEF Feedback, NextRound, FrameDone, trace
  <2>2. (Unanswered' <=> Unanswered) /\ (Unanswered => cur' = cur)
    BY <1>15, FeedbackStage, RoundStage
  <2> QED BY <1>1, <2>1, <2>2, QuietCommand DEF InWork
<1>16. CASE EndPass
  <2>1. /\ UNCHANGED <<outbox, run, answers>> /\ pc # "execute" /\ pc' # "execute"
        /\ inbox'[c] = inbox[c] \/ inbox'[c] = <<>>
    BY <1>1, <1>16 DEF EndPass, trace
  <2>2. ~InWork(c)'
    BY <2>1, QuietStage, OneStage DEF InWork
  <2>3. AtMostOne(<<>>, "raw") /\ ~Has(<<>>, "raw")
    BY DEF AtMostOne, Has
  <2> QED BY <1>1, <2>1, <2>2, <2>3, QuietCommand
<1>17. CASE Receive \/ UpgradeExec \/ UpgradeRequest \/ ChildReads \/ ChildGone \/ UNCHANGED vars
  <2>1. /\ UNCHANGED <<inbox, outbox, run, answers>>
        /\ pc' = pc \/ (pc # "execute" /\ pc' # "execute")
    BY <1>17 DEF Receive, UpgradeExec, UpgradeRequest, ChildReads, ChildGone, vars, trace, daemon
  <2> QED BY <1>5, <2>1
<1> QED BY <1>7, <1>8, <1>9, <1>10, <1>11, <1>12, <1>13, <1>14, <1>15, <1>16, <1>17 DEF Daemon, Frame, Reduce

\* The invariant holds initially ...
LEMMA AccInit == Init => AccInv
<1> SUFFICES ASSUME Init PROVE AccInv
  OBVIOUS
<1>1. pc = "pass" /\ ~Unanswered /\ StageOK
  BY DEF Init, StageOK, Unanswered, InWriteOK, InWrite, Following
<1>2. pty = <<>> /\ record = <<>> /\ \A c \in Clients : answers[c] = <<>> /\ sent[c] = 0 /\ inbox[c] = <<>> /\ outbox[c] = <<>>
  BY DEF Init
<1>3. sent \in [Clients -> Nat] /\ answers \in [Clients -> Seq(Verdicts)]
  BY DEF Init
<1>4. /\ \A b : ~InPty(b) /\ ~InRecord(b) /\ ~InRecordAs("in", b)
      /\ \A c \in Clients : \A n \in Nat : ~HasAnswer(c, n) /\ ~IsCur(c, n)
  BY <1>1, <1>2 DEF InPty, InRecord, InRecordAs, HasAnswer, IsCur
<1>5. PtyOK /\ AnswersOK /\ RecordOK /\ MatchOK
  BY <1>1, <1>2, <1>4 DEF PtyOK, AnswersOK, RecordOK, MatchOK
<1>6. ASSUME NEW c \in Inputs PROVE CommandOK(c)
  <2>1. c \in Clients /\ cmd[c] = "start"
    BY DEF Inputs, Init
  <2>2. \A m : ~Has(<<>>, m) /\ AtMostOne(<<>>, m)
    BY DEF Has, AtMostOne
  <2>3. Len(<<>>) = 0 /\ 1..0 = {} /\ 0 <= 0
    OBVIOUS
  <2> QED BY <1>1, <1>2, <2>1, <2>2, <2>3 DEF CommandOK
<1> QED BY <1>1, <1>3, <1>5, <1>6 DEF AccInv

\* ... and is kept by every step.
LEMMA AccSteps ==
  ASSUME FrameInv, FrameInv', PieceInv, AccInv, [Next]_vars
  PROVE  AccInv'
<1>1. AccTypeOK /\ StageOK /\ TraceOK
  BY DEF AccInv, AccTypeOK, TraceOK
<1>2. AccTypeOK' /\ StageOK' /\ TraceOK'
  BY <1>1, TraceSteps
<1>3. ASSUME NEW c \in Inputs PROVE CommandOK(c)'
  <2>1. ProgramOK(c) /\ CommandOK(c) /\ c \in Clients
    BY DEF PieceInv, AccInv, Inputs
  <2>2. CASE Program(c) \/ Vanish(c)
    BY <1>1, <2>1, <2>2, OwnCommand
  <2>3. ASSUME NEW d \in Clients, d # c, Program(d) \/ Vanish(d) PROVE CommandOK(c)'
    <3>1. /\ UNCHANGED <<run, pc, answers>> /\ cmd'[c] = cmd[c] /\ sent'[c] = sent[c]
          /\ inbox'[c] = inbox[c] /\ outbox'[c] = outbox[c]
      <4>1. UNCHANGED <<daemon, run, trace>>
        BY <2>3, ProgramIs DEF FrameInv
      <4>2. /\ cmd'[c] = cmd[c] /\ sent'[c] = sent[c] /\ inbox'[c] = inbox[c] /\ outbox'[c] = outbox[c]
        BY <2>1, <2>3 DEF FrameInv, RawTypeOK, AccInv, Program, Vanish, SendAcquire, LockAnswered, SendRaw, Acked,
                          Release, GiveUp, Send
      <4> QED BY <4>1, <4>2 DEF daemon, trace
    <3>2. InWork(c)' => InWork(c)
      BY <1>1, <3>1, QuietStage DEF InWork, run
    <3> QED BY <2>1, <3>1, <3>2, QuietCommand
  <2>4. CASE Receive \/ Daemon \/ UpgradeRequest \/ ChildReads \/ ChildGone \/ UNCHANGED vars
    BY <1>1, <2>1, <2>4, DaemonCommand
  <2> QED BY <2>2, <2>3, <2>4 DEF Next
<1>4. role' = role
  <2>1. CASE \E c \in Clients : Program(c) \/ Vanish(c)
    BY <2>1, ProgramIs DEF FrameInv
  <2>2. CASE Receive \/ Daemon \/ UpgradeRequest \/ ChildReads \/ ChildGone \/ UNCHANGED vars
    BY <2>2 DEF Receive, Daemon, Frame, EndOfFile, LockAcquire, LockRelease, RawRefused, RawData, Reduce,
         ExecRecord, ExecAck, ExecReply, ExecDisconnect, WriteSome, ExecWritten, Feedback, NextRound, FrameDone,
         EndPass, UpgradeExec, UpgradeRequest, ChildReads, ChildGone, client, vars
  <2> QED BY <2>1, <2>2 DEF Next
<1>5. Inputs' = Inputs
  BY <1>4 DEF Inputs
<1> QED BY <1>2, <1>3, <1>5 DEF AccInv, AccTypeOK, TraceOK

\* What the invariant says between frames.
LEMMA AccGives ==
  ASSUME FrameInv, AccInv
  PROVE  FrameAccounted
<1>1. FrameSize \in Nat /\ FrameSize > 0 /\ NumFrames \in Nat /\ pty \in Seq(Octets) /\ record \in Seq(Kinds \X Octets)
  BY InputAssumption DEF FrameInv, RawTypeOK
<1>2. \A c \in Clients : Len(answers[c]) \in Nat /\ DOMAIN answers[c] = 1..Len(answers[c])
  BY DEF AccInv
<1>3. Between => ~Unanswered
  BY OneStage DEF Between
<1>4. Between => \A c, n : ~IsCur(c, n)
  BY <1>3 DEF IsCur
<1>5. ASSUME Between, NEW c \in Clients, NEW n \in 1..NumFrames
      PROVE  LET ans == IF n <= Len(answers[c]) THEN answers[c][n] ELSE "none"
                 whole == \A i \in 1..FrameSize : InPty(<<c, n, i>>)
             IN /\ ans = "ok" => whole
                /\ ans \in {"err", "refused", "none"} => ~whole
  <2>1. n \in Nat /\ FrameSize \in 1..FrameSize
    BY <1>1
  <2>2. CASE n <= Len(answers[c])
    <3>1. n \in DOMAIN answers[c]
      BY <1>2, <2>1, <2>2
    <3>2. /\ answers[c][n] = "ok" => \A i \in 1..FrameSize : InPty(<<c, n, i>>)
          /\ answers[c][n] \in {"err", "refused"} => ~InPty(<<c, n, FrameSize>>)
      BY <3>1 DEF AccInv, AnswersOK
    <3>3. answers[c][n] \in Verdicts
      BY <3>1 DEF AccInv
    <3> QED BY <2>1, <2>2, <3>2, <3>3 DEF Verdicts
  <2>3. CASE ~(n <= Len(answers[c]))
    <3>1. ~HasAnswer(c, n)
      BY <1>2, <2>1, <2>3 DEF HasAnswer
    <3>2. ~InPty(<<c, n, FrameSize>>)
      BY <1>1, <1>4, <1>5, <2>1, <3>1 DEF AccInv, PtyOK
    <3> QED BY <2>1, <2>3, <3>2
  <2> QED BY <2>2, <2>3
<1>6. ASSUME NEW c \in Inputs, cmd[c] = "done", NEW n \in 1..NumFrames, NEW i \in 1..FrameSize
      PROVE  InPty(<<c, n, i>>)
  <2>1. CommandOK(c) /\ c \in Clients
    BY DEF AccInv, Inputs
  <2>2. n \in DOMAIN answers[c] /\ answers[c][n] = "ok"
    BY <1>6, <2>1 DEF CommandOK
  <2> QED BY <2>1, <2>2 DEF AccInv, AnswersOK
<1>7. AckTruthful
  BY <1>5, <1>6 DEF AckTruthful
<1>8. ASSUME Between PROVE RecordFaithful
  <2>1. ASSUME NEW k \in DOMAIN pty PROVE \E j \in DOMAIN record : record[j] = <<"in", pty[k]>>
    <3>1. PICK c \in Clients, n \in Nat, i \in Nat : pty[k] = <<c, n, i>>
      <4>1. pty[k] \in Octets
        BY <1>1
      <4> QED BY <4>1, Octet
    <3>2. InPty(<<c, n, i>>)
      BY <3>1 DEF InPty
    <3>3. InRecordAs("in", <<c, n, i>>)
      BY <1>4, <1>8, <3>2 DEF AccInv, MatchOK
    <3> QED BY <3>1, <3>3 DEF InRecordAs
  <2>2. ASSUME NEW j \in DOMAIN record
        PROVE  \E c \in Clients : \E n, i \in Nat : record[j][2] = <<c, n, i>> /\ record[j] = <<record[j][1], <<c, n, i>>>>
    <3>1. record[j] \in Kinds \X Octets
      BY <1>1
    <3>2. record[j][2] \in Octets /\ record[j] = <<record[j][1], record[j][2]>>
      BY <3>1
    <3> QED BY <3>2, Octet
  <2>3. ASSUME NEW j \in DOMAIN record, record[j][1] = "in" PROVE InPty(record[j][2])
    <3>1. PICK c \in Clients, n \in Nat, i \in Nat : record[j][2] = <<c, n, i>> /\ record[j] = <<record[j][1], <<c, n, i>>>>
      BY <2>2
    <3>2. InRecordAs("in", <<c, n, i>>)
      BY <2>3, <3>1 DEF InRecordAs
    <3>3. InPty(<<c, n, i>>)
      BY <3>2 DEF AccInv, MatchOK
    <3> QED BY <3>1, <3>3
  <2>4. ASSUME NEW c \in Clients, NEW n \in 1..Len(answers[c]), NEW i \in 1..FrameSize
        PROVE  InRecord(<<c, n, i>>) <=> answers[c][n] # "refused"
    <3>1. n \in Nat /\ i \in Nat /\ HasAnswer(c, n)
      BY <1>2 DEF HasAnswer
    <3> QED BY <1>4, <1>8, <3>1 DEF AccInv, RecordOK
  <2>5. ASSUME NEW j \in DOMAIN record
        PROVE  LET c == record[j][2][1]
               IN record[j][2][2] \in 1..Len(answers[c]) /\ record[j][2][3] \in 1..FrameSize
    <3>1. PICK c \in Clients, n \in Nat, i \in Nat : record[j][2] = <<c, n, i>>
      BY <2>2
    <3>2. InRecord(<<c, n, i>>)
      BY <3>1 DEF InRecord
    <3>3. i \in 1..FrameSize /\ HasAnswer(c, n)
      BY <1>4, <1>8, <3>2 DEF AccInv, RecordOK
    <3> QED BY <3>1, <3>3 DEF HasAnswer
  <2> QED BY <2>1, <2>3, <2>4, <2>5 DEF RecordFaithful, AccInv, PtyOK, RecordOK, MatchOK
<1> QED BY <1>7, <1>8 DEF FrameAccounted, RecordFaithful

\* The answer to a raw frame (RawAck) and the record say what became of its bytes: `ok' means
\* that all are in the PTY, an error that they are not, and the record has each byte of each
\* frame that was handled once, as written, unwritten or refused, in the order of the PTY
\* (reduce_raw_data, finish_write and the executor).
THEOREM FramesAccounted == Spec => []FrameAccounted
<1>1. Spec => []AccInv
  <2>1. AccInv /\ FrameInv /\ FrameInv' /\ PieceInv /\ [Next]_vars => AccInv'
    BY AccSteps
  <2> QED BY <2>1, AccInit, RawInvHolds, PTL DEF Spec
<1>2. FrameInv /\ AccInv => FrameAccounted
  BY AccGives
<1> QED BY <1>1, <1>2, RawInvHolds, PTL

=============================================================================
