--------------------------- MODULE SendQueueProofs ---------------------------
(***************************************************************************)
(* Proofs about the two kinds of queue that the serve loop gives its       *)
(* output to.  SendQueue, for any number of clients, any sizes of frames,  *)
(* limits and budgets: what is queued for a client and the number of       *)
(* closing clients are bounded, and what a client gets is its frames, each *)
(* from its first byte and without a hole.  Recorder, for any requests,    *)
(* kinds of events and capacity: a file is the events its record asked for.*)
(***************************************************************************)
EXTENDS SendQueue, Recording, FiniteSetTheorems, WellFoundedInduction, TLAPS

-----------------------------------------------------------------------------
(* The inductive invariant.                                                *)

Kinds == {"frame", "redraw", "notice"}
Entry == [start : Nat, len : Nat \ {0}, kind : Kinds]
Queue == [frames : Seq(Nat), head : Nat, queued : Int, failed : BOOLEAN,
          log : Seq(Entry), wire : Seq(Nat \X Nat)]

\* A queued frame has been accepted, the front one is not written to its end, and redraws
\* and notices have their sizes.
QueueOK(k) ==
  /\ k \in Queue
  /\ \A j \in DOMAIN k.frames : k.frames[j] \in DOMAIN k.log
  /\ \A i \in DOMAIN k.log :
       /\ k.log[i].kind = "redraw" => k.log[i].len = RedrawSize
       /\ k.log[i].kind = "notice" => k.log[i].len = NoticeSize
  /\ IF k.frames = <<>> THEN k.head = 0 ELSE k.head < k.log[k.frames[1]].len

Redraws(k) == Cardinality(Queued(k, "redraw"))
Notices(k) == Cardinality(Queued(k, "notice"))
Extra(k) == Redraws(k) * RedrawSize + Notices(k) * NoticeSize

\* The bytes of the front frame that are written, if it is one the limit counts.
Begun(k) == IF k.frames # <<>> /\ k.log[k.frames[1]].kind = "frame" THEN k.head ELSE 0

\* The bytes of the queued frames, the written ones of the front frame counted, stay within
\* the limit: what is left of them when the front frame is done is within it, too.
Within(k) == k.queued + k.head <= Largest + Extra(k) + Begun(k)

QueueInv ==
  /\ conn \in [Clients -> Queue]
  /\ \A c \in Clients :
       /\ QueueOK(conn[c]) /\ Within(conn[c])
       /\ Redraws(conn[c]) <= 1
       /\ c \in owed => Redraws(conn[c]) = 0

ClosingInv == leaving \subseteq Clients /\ Cardinality(Closing) <= MaxClosing

-----------------------------------------------------------------------------
(* Sizes and counts.                                                       *)

\* The largest frame, or the limit, is a number at least as large as any.
LEMMA LargestIs == Largest \in Nat /\ \A t \in Limits : t <= Largest
<1> DEFINE m == MaxFrameSize + NoticeSize + BufferLimit
           Rest == {m - t : t \in Limits}
           R == OpToRel(<, Nat)
<1>1. /\ Limits \subseteq Nat /\ Limits # {} /\ m \in Nat
      /\ \A t \in Limits : t <= m
  <2>1. NoticeSize \in Nat /\ BufferLimit \in Nat /\ MaxFrameSize \in Nat
    BY SizesAssumption
  <2>2. \A t \in Sizes : t \in Nat /\ t <= MaxFrameSize
    BY SizesAssumption
  <2> QED BY <2>1, <2>2 DEF Limits
<1> HIDE DEF m
<1>2. Rest \subseteq Nat /\ Rest # {}
  <2>1. \A t \in Limits : m - t \in Nat
    BY <1>1
  <2> QED BY <1>1, <2>1
<1>3. PICK x \in Rest : \A y \in Rest : ~ (<<y, x>> \in R)
  <2>1. IsWellFoundedOn(R, Nat)
    BY NatLessThanWellFounded
  <2> HIDE DEF R, Rest
  <2> QED BY <1>2, <2>1, WFMin
<1>4. \A y \in Rest : x <= y
  <2> TAKE y \in Rest
  <2>1. ~ (y < x)
    BY <1>2, <1>3 DEF OpToRel
  <2>2. x \in Nat /\ y \in Nat
    BY <1>2, <1>3
  <2> HIDE DEF Rest
  <2> QED BY <2>1, <2>2
<1>5. PICK s \in Limits : x = m - s
  BY <1>3
<1> HIDE DEF Rest
<1>6. \A t \in Limits : t <= s
  <2> TAKE t \in Limits
  <2>1. x <= m - t
    BY <1>4 DEF Rest
  <2> QED BY <1>1, <1>5, <2>1
<1>7. Largest \in Limits /\ \A t \in Limits : t <= Largest
  BY <1>6 DEF Largest
<1> QED BY <1>1, <1>7

\* What is queued is a finite number of frames.
LEMMA QueuedFinite ==
  ASSUME NEW k \in Queue, NEW kind
  PROVE  IsFiniteSet(Queued(k, kind)) /\ Cardinality(Queued(k, kind)) \in Nat
<1>1. DOMAIN k.frames = 1..Len(k.frames) /\ Len(k.frames) \in Nat
  BY DEF Queue
<1>2. IsFiniteSet(DOMAIN k.frames)
  BY <1>1, FS_Interval
<1>3. Queued(k, kind) \in SUBSET DOMAIN k.frames
  BY DEF Queued
<1>4. IsFiniteSet(Queued(k, kind))
  BY <1>2, <1>3, FS_Subset
<1> QED BY <1>4, FS_CardinalityType

\* A sum of two products grows by a size when a number grows by one.
LEMMA ExtraGrows ==
  ASSUME NEW r \in Nat, NEW n \in Nat, NEW a \in Nat, NEW b \in Nat
  PROVE  /\ r * a + n * b \in Nat
         /\ (r + 1) * a + n * b = r * a + n * b + a
         /\ r * a + (n + 1) * b = r * a + n * b + b
         /\ r > 0 => r * a + n * b >= a
         /\ n > 0 => r * a + n * b >= b
<1>1. r * a \in Nat /\ n * b \in Nat
  OBVIOUS
<1>2. (r + 1) * a = r * a + a /\ (n + 1) * b = n * b + b
  OBVIOUS
<1>3. r > 0 => r * a >= a
  OBVIOUS
<1>4. n > 0 => n * b >= b
  OBVIOUS
<1> QED BY <1>1, <1>2, <1>3, <1>4

\* What is in front of a queue is one of the frames that are counted.
LEMMA FrontCounted ==
  ASSUME NEW k, QueueOK(k), k.frames # <<>>
  PROVE  /\ 1 \in DOMAIN k.frames /\ k.frames[1] = Head(k.frames)
         /\ k.log[k.frames[1]] \in Entry
         /\ LET kind == k.log[k.frames[1]].kind
            IN 1 \in Queued(k, kind) /\ Cardinality(Queued(k, kind)) > 0
<1>1. k \in Queue /\ k.frames \in Seq(Nat) /\ k.log \in Seq(Entry)
  BY DEF QueueOK, Queue
<1>2. 1 \in DOMAIN k.frames /\ k.frames[1] = Head(k.frames)
  BY <1>1
<1>3. k.frames[1] \in DOMAIN k.log
  BY <1>2 DEF QueueOK
<1> DEFINE kind == k.log[k.frames[1]].kind
<1>4. k.log[k.frames[1]] \in Entry
  BY <1>1, <1>3
<1>5. 1 \in Queued(k, kind)
  BY <1>2 DEF Queued
<1>6. Cardinality(Queued(k, kind)) > 0
  <2> HIDE DEF kind
  <2> QED BY <1>1, <1>5, QueuedFinite, FS_EmptySet
<1> QED BY <1>2, <1>4, <1>5, <1>6

\* An empty queue has nothing to count.
LEMMA EmptyCounts ==
  ASSUME NEW k, k.frames = <<>>, NEW kind
  PROVE  Cardinality(Queued(k, kind)) = 0
<1>1. Queued(k, kind) = {}
  BY DEF Queued
<1> QED BY <1>1, FS_EmptySet

\* An entry behind a sequence.
LEMMA AppendAt ==
  ASSUME NEW T, NEW s \in Seq(T), NEW e \in T
  PROVE  /\ Append(s, e) \in Seq(T) /\ Append(s, e) # <<>>
         /\ DOMAIN Append(s, e) = 1..(Len(s) + 1) /\ Len(Append(s, e)) = Len(s) + 1
         /\ \A i \in 1..Len(s) : Append(s, e)[i] = s[i]
         /\ Append(s, e)[Len(s) + 1] = e
         /\ Len(s) \in Nat /\ DOMAIN s = 1..Len(s)
OBVIOUS

\* Two sequences one after the other.
LEMMA ConcatAt ==
  ASSUME NEW T, NEW s \in Seq(T), NEW t \in Seq(T)
  PROVE  /\ Len(s \o t) = Len(s) + Len(t)
         /\ \A i \in 1..Len(s) : (s \o t)[i] = s[i]
         /\ \A i \in 1..Len(t) : (s \o t)[Len(s) + i] = t[i]
OBVIOUS

\* The bytes of the accepted frames.
LEMMA AcceptedIs ==
  ASSUME NEW accepted \in Seq(Entry)
  PROVE  Accepted(accepted) \in Nat
<1>1. accepted # <<>> => accepted[Len(accepted)] \in Entry
  OBVIOUS
<1> QED BY <1>1 DEF Accepted, Entry

\* push puts one more frame behind the queue.
LEMMA PushCounts ==
  ASSUME NEW k, QueueOK(k), NEW len \in Nat \ {0}, NEW kind \in Kinds,
         kind = "redraw" => len = RedrawSize, kind = "notice" => len = NoticeSize
  PROVE  LET q == push(k, len, kind)
         IN /\ QueueOK(q) /\ q.queued = k.queued + len /\ q.head = k.head
            /\ \A kd : Cardinality(Queued(q, kd))
                         = Cardinality(Queued(k, kd)) + (IF kd = kind THEN 1 ELSE 0)
            /\ k.frames = <<>> => q.log[q.frames[1]].kind = kind
            /\ k.frames # <<>> => q.log[q.frames[1]] = k.log[k.frames[1]]
            /\ q.frames # <<>>
<1> DEFINE e == [start |-> Accepted(k.log), len |-> len, kind |-> kind]
           f == Append(k.frames, Len(k.log) + 1)
           g == Append(k.log, e)
           q == push(k, len, kind)
<1>1. k \in Queue /\ k.frames \in Seq(Nat) /\ k.log \in Seq(Entry) /\ k.queued \in Int
  BY DEF QueueOK, Queue
<1>2. e \in Entry /\ e.len = len /\ e.kind = kind
  BY <1>1, AcceptedIs DEF Entry
<1>3. q = [k EXCEPT !.log = g, !.frames = f, !.queued = k.queued + len]
  BY <1>1 DEF push, Queue
<1> HIDE DEF e
<1>4. /\ f \in Seq(Nat) /\ g \in Seq(Entry) /\ f # <<>>
      /\ DOMAIN k.frames = 1..Len(k.frames) /\ Len(k.frames) \in Nat /\ Len(k.log) \in Nat
      /\ DOMAIN f = 1..(Len(k.frames) + 1) /\ DOMAIN g = 1..(Len(k.log) + 1)
      /\ DOMAIN k.log = 1..Len(k.log)
      /\ \A j \in DOMAIN k.frames : f[j] = k.frames[j]
      /\ f[Len(k.frames) + 1] = Len(k.log) + 1
      /\ \A j \in DOMAIN k.log : g[j] = k.log[j]
      /\ g[Len(k.log) + 1] = e
  <2>1. Len(k.log) + 1 \in Nat
    BY <1>1
  <2>2. /\ f \in Seq(Nat) /\ f # <<>> /\ DOMAIN f = 1..(Len(k.frames) + 1)
        /\ \A j \in 1..Len(k.frames) : f[j] = k.frames[j]
        /\ f[Len(k.frames) + 1] = Len(k.log) + 1
        /\ Len(k.frames) \in Nat /\ DOMAIN k.frames = 1..Len(k.frames)
    BY <1>1, <2>1, AppendAt, SMTT(30)
  <2>3. /\ g \in Seq(Entry) /\ DOMAIN g = 1..(Len(k.log) + 1)
        /\ \A j \in 1..Len(k.log) : g[j] = k.log[j]
        /\ g[Len(k.log) + 1] = e
        /\ Len(k.log) \in Nat /\ DOMAIN k.log = 1..Len(k.log)
    BY <1>1, <1>2, AppendAt
  <2> HIDE DEF f, g
  <2> QED BY <2>2, <2>3
<1> HIDE DEF f, g, q
<1>5. /\ q \in Queue /\ q.frames = f /\ q.log = g /\ q.queued = k.queued + len /\ q.head = k.head
  <2> DEFINE n == k.queued + len
  <2>1. n \in Int
    BY <1>1
  <2>2. q = [k EXCEPT !.log = g, !.frames = f, !.queued = n]
    BY <1>3
  <2> HIDE DEF n
  <2>3. q \in Queue /\ q.frames = f /\ q.log = g /\ q.queued = n /\ q.head = k.head
    BY <1>1, <1>4, <2>1, <2>2 DEF Queue
  <2> QED BY <2>3 DEF n
<1>6. \A j \in DOMAIN k.frames : k.frames[j] \in DOMAIN k.log
  BY DEF QueueOK
<1>7. ASSUME NEW kd
      PROVE  Cardinality(Queued(q, kd)) = Cardinality(Queued(k, kd)) + (IF kd = kind THEN 1 ELSE 0)
  <2>1. \A j \in DOMAIN f : g[f[j]].kind = kd
          <=> (j \in DOMAIN k.frames /\ k.log[k.frames[j]].kind = kd) \/ (j = Len(k.frames) + 1 /\ kd = kind)
    <3> TAKE j \in DOMAIN f
    <3>1. CASE j \in DOMAIN k.frames
      <4>1. f[j] = k.frames[j] /\ k.frames[j] \in DOMAIN k.log /\ j # Len(k.frames) + 1
        BY <1>4, <1>6, <3>1, SMTT(30)
      <4>2. g[f[j]] = k.log[k.frames[j]]
        BY <1>4, <4>1, SMTT(30)
      <4> QED BY <3>1, <4>1, <4>2
    <3>2. CASE j = Len(k.frames) + 1
      <4>1. g[f[j]] = e /\ j \notin DOMAIN k.frames
        BY <1>4, <3>2, SMTT(30)
      <4> QED BY <1>2, <3>2, <4>1
    <3> QED BY <1>4, <3>1, <3>2
  <2>2. DOMAIN k.frames \subseteq DOMAIN f /\ Len(k.frames) + 1 \in DOMAIN f /\ Len(k.frames) + 1 \notin DOMAIN k.frames
    BY <1>4
  <2>3. Queued(q, kd) = Queued(k, kd) \cup (IF kd = kind THEN {Len(k.frames) + 1} ELSE {})
    BY <1>5, <2>1, <2>2 DEF Queued
  <2>4. Len(k.frames) + 1 \notin Queued(k, kd)
    BY <2>2 DEF Queued
  <2>5. CASE kd = kind
    <3>1. Queued(q, kd) = Queued(k, kd) \cup {Len(k.frames) + 1}
      BY <2>3, <2>5
    <3>2. IsFiniteSet(Queued(k, kd)) /\ Cardinality(Queued(k, kd)) \in Nat
      BY <1>1, QueuedFinite
    <3>3. Cardinality(Queued(q, kd)) = Cardinality(Queued(k, kd)) + 1
      BY <2>4, <3>1, <3>2, FS_AddElement
    <3> QED BY <2>5, <3>3
  <2>6. CASE kd # kind
    <3>1. Queued(q, kd) = Queued(k, kd)
      BY <2>3, <2>6
    <3> QED BY <1>1, <2>6, <3>1, QueuedFinite
  <2> QED BY <2>5, <2>6
<1>8. \A j \in DOMAIN f : f[j] \in DOMAIN g
  <2> TAKE j \in DOMAIN f
  <2>1. CASE j \in DOMAIN k.frames
    <3>1. f[j] \in DOMAIN k.log
      BY <1>4, <1>6, <2>1
    <3> QED BY <1>4, <3>1
  <2>2. CASE j = Len(k.frames) + 1
    BY <1>4, <2>2, SMTT(30)
  <2> QED BY <1>4, <2>1, <2>2
<1>9. \A i \in DOMAIN g : (g[i].kind = "redraw" => g[i].len = RedrawSize)
                         /\ (g[i].kind = "notice" => g[i].len = NoticeSize)
  <2> TAKE i \in DOMAIN g
  <2>1. CASE i \in DOMAIN k.log
    BY <1>4, <2>1 DEF QueueOK
  <2>2. CASE i = Len(k.log) + 1
    BY <1>2, <1>4, <2>2
  <2> QED BY <1>4, <2>1, <2>2
<1>10. k.frames = <<>> => f[1] = Len(k.log) + 1 /\ k.head = 0
  BY <1>4 DEF QueueOK
<1>11. k.frames # <<>> => f[1] = k.frames[1] /\ f[1] \in DOMAIN k.log /\ g[f[1]] = k.log[k.frames[1]]
  <2>1. k.frames # <<>> => 1 \in DOMAIN k.frames
    BY <1>1
  <2> QED BY <1>4, <1>6, <2>1
<1>12. q.head < g[f[1]].len
  <2>1. CASE k.frames = <<>>
    BY <1>2, <1>4, <1>5, <1>10, <2>1
  <2>2. CASE k.frames # <<>>
    BY <1>5, <1>11, <2>2 DEF QueueOK
  <2> QED BY <2>1, <2>2
<1>13. QueueOK(q)
  <2>1. \A j \in DOMAIN q.frames : q.frames[j] \in DOMAIN q.log
    BY <1>5, <1>8
  <2>2. \A i \in DOMAIN q.log : (q.log[i].kind = "redraw" => q.log[i].len = RedrawSize)
                                /\ (q.log[i].kind = "notice" => q.log[i].len = NoticeSize)
    <3> TAKE i \in DOMAIN q.log
    <3>1. i \in DOMAIN g /\ q.log[i] = g[i]
      BY <1>5
    <3> QED BY <1>9, <3>1
  <2>3. q.frames # <<>> /\ q.head < q.log[q.frames[1]].len
    BY <1>4, <1>5, <1>12
  <2> QED BY <1>5, <2>1, <2>2, <2>3 DEF QueueOK
<1> QED BY <1>2, <1>4, <1>5, <1>7, <1>10, <1>11, <1>13 DEF q

-----------------------------------------------------------------------------
(* What is done to a queue.                                                *)

SizesAreNat == RedrawSize \in Nat \ {0} /\ NoticeSize \in Nat \ {0} /\ BufferLimit \in Nat

\* Sizes, counts and bytes are numbers.
LEMMA Numbers ==
  ASSUME NEW k, QueueOK(k)
  PROVE  /\ SizesAreNat /\ Redraws(k) \in Nat /\ Notices(k) \in Nat /\ Extra(k) \in Nat
         /\ k.queued \in Int /\ k.head \in Nat /\ Largest \in Nat /\ Begun(k) \in Nat
         /\ k.frames = <<>> => k.head = 0
<1>1. SizesAreNat
  BY SizesAssumption DEF SizesAreNat
<1>2. Redraws(k) \in Nat /\ Notices(k) \in Nat
  BY QueuedFinite DEF Redraws, Notices, QueueOK
<1>3. Extra(k) \in Nat
  BY <1>1, <1>2, ExtraGrows DEF Extra, SizesAreNat
<1>4. k.queued \in Int /\ k.head \in Nat
  BY DEF QueueOK, Queue
<1> QED BY <1>1, <1>2, <1>3, <1>4, LargestIs DEF Begun, QueueOK

\* What is written of the front frame and is not counted against the limit is covered by
\* the size of that frame.
LEMMA HeadCovered ==
  ASSUME NEW k, QueueOK(k)
  PROVE  k.head <= Extra(k) + Begun(k)
<1>1. CASE k.frames = <<>>
  BY <1>1, Numbers
<1>2. CASE k.frames # <<>>
  <2> DEFINE e == k.log[k.frames[1]]
  <2>1. e \in Entry /\ Cardinality(Queued(k, e.kind)) > 0
    BY <1>2, FrontCounted
  <2>2. k.head < e.len
    BY <1>2 DEF QueueOK
  <2>3. /\ e.kind = "redraw" => e.len = RedrawSize
        /\ e.kind = "notice" => e.len = NoticeSize
    BY <1>2, FrontCounted DEF QueueOK
  <2>4. e.kind \in Kinds /\ e.len \in Nat
    BY <2>1 DEF Entry
  <2>5. CASE e.kind = "frame"
    BY <1>2, <2>5, Numbers DEF Begun
  <2>6. CASE e.kind = "redraw"
    <3>1. Redraws(k) > 0
      BY <2>1, <2>6 DEF Redraws
    <3>2. Extra(k) >= RedrawSize
      BY <3>1, Numbers, ExtraGrows DEF Extra, SizesAreNat
    <3> QED BY <2>2, <2>3, <2>6, <3>2, Numbers DEF SizesAreNat
  <2>7. CASE e.kind = "notice"
    <3>1. Notices(k) > 0
      BY <2>1, <2>7 DEF Notices
    <3>2. Extra(k) >= NoticeSize
      BY <3>1, Numbers, ExtraGrows DEF Extra, SizesAreNat
    <3> QED BY <2>2, <2>3, <2>7, <3>2, Numbers DEF SizesAreNat
  <2> QED BY <2>4, <2>5, <2>6, <2>7 DEF Kinds
<1> QED BY <1>1, <1>2

\* push of a frame that keeps the limit, of a redraw or of a notice.
LEMMA PushKeeps ==
  ASSUME NEW k, QueueOK(k), Within(k), NEW len \in Nat \ {0}, NEW kind \in Kinds,
         kind = "redraw" => len = RedrawSize, kind = "notice" => len = NoticeSize,
         kind = "frame" => len <= Largest /\ (k.queued <= 0 \/ k.queued + len <= BufferLimit)
  PROVE  LET q == push(k, len, kind)
         IN /\ QueueOK(q) /\ Within(q)
            /\ Redraws(q) = Redraws(k) + (IF kind = "redraw" THEN 1 ELSE 0)
<1> DEFINE q == push(k, len, kind)
<1>1. /\ QueueOK(q) /\ q.queued = k.queued + len /\ q.head = k.head
      /\ \A kd : Cardinality(Queued(q, kd)) = Cardinality(Queued(k, kd)) + (IF kd = kind THEN 1 ELSE 0)
      /\ k.frames = <<>> => q.log[q.frames[1]].kind = kind
      /\ k.frames # <<>> => q.log[q.frames[1]] = k.log[k.frames[1]]
      /\ q.frames # <<>>
  BY PushCounts
<1> HIDE DEF q
<1>2. /\ Redraws(q) = Redraws(k) + (IF kind = "redraw" THEN 1 ELSE 0)
      /\ Notices(q) = Notices(k) + (IF kind = "notice" THEN 1 ELSE 0)
  BY <1>1 DEF Redraws, Notices
<1>3. Begun(q) = Begun(k)
  <2>1. CASE k.frames = <<>>
    BY <1>1, <2>1, Numbers DEF Begun
  <2>2. CASE k.frames # <<>>
    BY <1>1, <2>2 DEF Begun
  <2> QED BY <2>1, <2>2
<1>4. Extra(q) = Extra(k) + (IF kind = "frame" THEN 0 ELSE len)
  <2>1. CASE kind = "frame"
    BY <1>2, <2>1, Numbers DEF Extra
  <2>2. CASE kind = "redraw"
    BY <1>2, <2>2, Numbers, ExtraGrows, SMTT(30) DEF Extra, SizesAreNat
  <2>3. CASE kind = "notice"
    BY <1>2, <2>3, Numbers, ExtraGrows, SMTT(30) DEF Extra, SizesAreNat
  <2> QED BY <2>1, <2>2, <2>3 DEF Kinds
<1>5. Within(q)
  <2> DEFINE xk == Extra(k)
             xq == Extra(q)
             bk == Begun(k)
             bq == Begun(q)
             top == Largest
  <2>0. /\ xk \in Nat /\ bk \in Nat /\ top \in Nat /\ k.queued \in Int /\ k.head \in Nat
        /\ k.queued + k.head <= top + xk + bk
        /\ q.queued = k.queued + len /\ q.head = k.head /\ bq = bk
        /\ xq = xk + (IF kind = "frame" THEN 0 ELSE len)
    BY <1>1, <1>3, <1>4, Numbers DEF Within
  <2> SUFFICES q.queued + q.head <= top + xq + bq
    BY DEF Within
  <2>1. CASE kind # "frame"
    <3> HIDE DEF xk, xq, bk, bq, top
    <3> QED BY <2>0, <2>1
  <2>2. CASE kind = "frame"
    <3>1. k.queued + len <= Largest
      <4>1. BufferLimit <= Largest
        BY LargestIs DEF Limits
      <4> QED BY <2>2, <4>1, Numbers DEF SizesAreNat
    <3>2. k.head <= Extra(k) + Begun(k)
      BY HeadCovered
    <3> HIDE DEF xk, xq, bk, bq, top
    <3> QED BY <2>2, <2>0, <3>1, <3>2 DEF xk, bk, top
  <2> QED BY <2>1, <2>2
<1> QED BY <1>1, <1>2, <1>5 DEF q

\* enqueue_for_client of a frame that is no larger than the largest.
LEMMA EnqueueKeeps ==
  ASSUME NEW k, QueueOK(k), Within(k), NEW len \in Sizes \cup {NoticeSize}
  PROVE  LET q == enqueue_for_client(k, len)
         IN QueueOK(q) /\ Within(q) /\ Redraws(q) = Redraws(k)
<1>1. len \in Nat \ {0} /\ len <= Largest /\ NoticeSize \in Nat \ {0}
  BY SizesAssumption, LargestIs DEF Limits
<1>2. CASE k.failed
  BY <1>2 DEF enqueue_for_client
<1>3. CASE ~k.failed /\ Overflows(k, len)
  BY <1>1, <1>3, PushKeeps, Numbers DEF enqueue_for_client, Kinds
<1>4. CASE ~k.failed /\ ~Overflows(k, len)
  <2>1. k.queued <= 0 \/ k.queued + len <= BufferLimit
    BY <1>1, <1>4, Numbers DEF Overflows, SizesAreNat
  <2> QED BY <1>1, <1>4, <2>1, PushKeeps, Numbers DEF enqueue_for_client, Kinds
<1> QED BY <1>2, <1>3, <1>4

\* A queue that is new or has failed.
LEMMA FreshKept ==
  /\ QueueOK(Fresh) /\ Within(Fresh) /\ Redraws(Fresh) = 0
  /\ QueueOK(fail) /\ Within(fail) /\ Redraws(fail) = 0
<1>1. ASSUME NEW k \in {Fresh, fail} PROVE QueueOK(k) /\ Within(k) /\ Redraws(k) = 0
  <2>1. k.frames = <<>> /\ k.head = 0 /\ k.queued = 0 /\ k.log = <<>> /\ k.wire = <<>> /\ k \in Queue
    <3>1. /\ Fresh.frames = <<>> /\ Fresh.head = 0 /\ Fresh.queued = 0 /\ Fresh.log = <<>>
          /\ Fresh.wire = <<>> /\ Fresh \in Queue
      BY DEF Fresh, Queue
    <3> HIDE DEF Fresh
    <3>3. /\ fail.frames = <<>> /\ fail.head = 0 /\ fail.queued = 0 /\ fail.log = <<>>
          /\ fail.wire = <<>> /\ fail \in Queue
      BY <3>1 DEF fail, Queue
    <3> QED BY <1>1, <3>1, <3>3
  <2>2. QueueOK(k)
    BY <2>1 DEF QueueOK
  <2>3. Redraws(k) = 0
    BY <2>1, EmptyCounts DEF Redraws
  <2>4. Within(k)
    BY <2>1, <2>2, Numbers DEF Within
  <2> QED BY <2>2, <2>3, <2>4
<1> QED BY <1>1

\* A frame is taken from the front: what is queued behind it moves up by one place.
LEMMA TailCounts ==
  ASSUME NEW k, QueueOK(k), k.frames # <<>>, NEW q \in Queue,
         q.frames = Tail(k.frames), q.log = k.log
  PROVE  \A kd : Cardinality(Queued(q, kd))
                   = Cardinality(Queued(k, kd)) - (IF kd = k.log[k.frames[1]].kind THEN 1 ELSE 0)
<1> TAKE kd
<1>1. /\ k \in Queue /\ k.frames \in Seq(Nat) /\ q.frames \in Seq(Nat)
      /\ Len(k.frames) \in Nat /\ Len(q.frames) = Len(k.frames) - 1 /\ Len(k.frames) >= 1
      /\ DOMAIN k.frames = 1..Len(k.frames) /\ DOMAIN q.frames = 1..(Len(k.frames) - 1)
      /\ \A j \in 1..(Len(k.frames) - 1) : q.frames[j] = k.frames[j + 1]
  BY DEF QueueOK, Queue
<1> DEFINE A == Queued(k, kd)
           B == Queued(q, kd)
           F == [j \in B |-> j + 1]
<1>2. IsFiniteSet(A) /\ IsFiniteSet(B) /\ Cardinality(A) \in Nat /\ Cardinality(B) \in Nat
  BY <1>1, QueuedFinite
<1>3. B \subseteq 1..(Len(k.frames) - 1) /\ A \subseteq 1..Len(k.frames)
  BY <1>1 DEF Queued
<1>4. \A j \in 1..(Len(k.frames) - 1) : j \in B <=> j + 1 \in A
  BY <1>1 DEF Queued
<1>5. 1 \in A <=> k.log[k.frames[1]].kind = kd
  BY <1>1 DEF Queued
<1> HIDE DEF A, B
<1>6. F \in Bijection(B, A \ {1})
  <2>1. F \in [B -> A \ {1}]
    BY <1>1, <1>3, <1>4
  <2>2. \A i, j \in B : F[i] = F[j] => i = j
    BY <1>1, <1>3
  <2>3. \A a \in A \ {1} : \E j \in B : F[j] = a
    <3> TAKE a \in A \ {1}
    <3>1. a - 1 \in 1..(Len(k.frames) - 1) /\ (a - 1) + 1 = a
      BY <1>1, <1>3
    <3>2. a - 1 \in B
      BY <1>4, <3>1
    <3> QED BY <3>1, <3>2
  <2> HIDE DEF F
  <2> QED BY <2>1, <2>2, <2>3 DEF Bijection, Injection, IsInjective, Surjection
<1>7. Cardinality(B) = Cardinality(A \ {1})
  <2> HIDE DEF F
  <2>1. ExistsBijection(B, A \ {1})
    BY <1>6 DEF ExistsBijection
  <2> QED BY <1>2, <2>1, FS_Bijection
<1> HIDE DEF F
<1>8. Cardinality(A \ {1}) = IF 1 \in A THEN Cardinality(A) - 1 ELSE Cardinality(A)
  BY <1>2, FS_RemoveElement
<1>9. Cardinality(B) = Cardinality(A) - (IF kd = k.log[k.frames[1]].kind THEN 1 ELSE 0)
  <2>1. CASE 1 \in A
    BY <1>2, <1>5, <1>7, <1>8, <2>1
  <2>2. CASE 1 \notin A
    BY <1>2, <1>5, <1>7, <1>8, <2>2
  <2> QED BY <2>1, <2>2
<1> QED BY <1>9 DEF A, B

\* Two sequences behind one another.
LEMMA JoinTyped ==
  ASSUME NEW T, NEW s \in Seq(T), NEW t \in Seq(T)
  PROVE  s \o t \in Seq(T)
OBVIOUS

\* Written of a part of the front frame, or of the rest of it.
LEMMA WrittenKeeps ==
  ASSUME NEW k, QueueOK(k), Within(k), k.frames # <<>>, NEW n \in Nat \ {0},
         k.head + n <= k.log[Head(k.frames)].len
  PROVE  LET q == Written(k, n)
         IN QueueOK(q) /\ Within(q) /\ Redraws(q) <= Redraws(k)
<1> DEFINE f == k.frames[1]
           e == k.log[f]
           done == k.head + n = e.len
           w == k.wire \o [i \in 1..n |-> <<f, k.head + i>>]
           h == IF done THEN 0 ELSE k.head + n
           fs == IF done THEN Tail(k.frames) ELSE k.frames
           b == k.queued - n
           q == Written(k, n)
<1> SUFFICES QueueOK(q) /\ Within(q) /\ Redraws(q) <= Redraws(k)
  OBVIOUS
<1>1. /\ k \in Queue /\ k.frames \in Seq(Nat) /\ k.log \in Seq(Entry) /\ k.queued \in Int
      /\ k.head \in Nat /\ k.wire \in Seq(Nat \X Nat)
  BY DEF QueueOK, Queue
<1>2. /\ f = Head(k.frames) /\ f \in Nat /\ f \in DOMAIN k.log /\ e \in Entry
      /\ 1 \in DOMAIN k.frames /\ e.len \in Nat /\ e.kind \in Kinds
      /\ Cardinality(Queued(k, e.kind)) > 0
  <2>1. f = Head(k.frames) /\ 1 \in DOMAIN k.frames /\ e \in Entry /\ Cardinality(Queued(k, e.kind)) > 0
    BY FrontCounted
  <2>2. f \in Nat /\ f \in DOMAIN k.log
    BY <1>1, <2>1 DEF QueueOK
  <2>3. e.len \in Nat /\ e.kind \in Kinds
    BY <2>1 DEF Entry
  <2> QED BY <2>1, <2>2, <2>3
<1>3. w \in Seq(Nat \X Nat)
  <2> DEFINE m == [i \in 1..n |-> <<f, k.head + i>>]
  <2>1. \A i \in 1..n : <<f, k.head + i>> \in Nat \X Nat
    BY <1>1, <1>2
  <2>2. m \in Seq(Nat \X Nat)
    BY <2>1
  <2> HIDE DEF m
  <2>3. w = k.wire \o m
    BY DEF m
  <2>4. k.wire \o m \in Seq(Nat \X Nat)
    BY <1>1, <2>2, JoinTyped
  <2> QED BY <2>3, <2>4
<1>4. h \in Nat /\ b \in Int /\ fs \in Seq(Nat)
  BY <1>1
<1>5. q = [k EXCEPT !.wire = w, !.queued = b, !.head = h, !.frames = fs]
  BY <1>1, <1>2 DEF Written, Queue
<1> HIDE DEF w
<1>6. /\ q \in Queue /\ q.frames = fs /\ q.log = k.log /\ q.queued = b /\ q.head = h
  <2> HIDE DEF q, h, b, fs
  <2> QED BY <1>1, <1>3, <1>4, <1>5 DEF Queue
<1> HIDE DEF q
<1>7. \A i \in DOMAIN q.log :
        /\ q.log[i].kind = "redraw" => q.log[i].len = RedrawSize
        /\ q.log[i].kind = "notice" => q.log[i].len = NoticeSize
  BY <1>6 DEF QueueOK
<1>8. Extra(k) \in Nat /\ Begun(k) \in Nat /\ Largest \in Nat /\ k.queued + k.head <= Largest + Extra(k) + Begun(k)
  BY Numbers DEF Within
<1>9. CASE ~done
  <2>1. q.frames = k.frames /\ q.head = k.head + n /\ q.head < e.len
    BY <1>1, <1>2, <1>6, <1>9, SMTT(30)
  <2>2. QueueOK(q)
    BY <1>6, <1>7, <2>1 DEF QueueOK
  <2>3. \A kd : Queued(q, kd) = Queued(k, kd)
    BY <1>6, <2>1 DEF Queued
  <2>4. Redraws(q) = Redraws(k) /\ Extra(q) = Extra(k)
    BY <2>3 DEF Redraws, Notices, Extra
  <2>5. CASE e.kind = "frame"
    <3>1. Begun(k) = k.head /\ Begun(q) = k.head + n
      BY <1>6, <2>1, <2>5 DEF Begun
    <3>2. q.queued + q.head <= Largest + Extra(q) + Begun(q)
      BY <1>1, <1>6, <1>8, <2>1, <2>4, <3>1
    <3> QED BY <2>2, <2>4, <3>2, Numbers DEF Within
  <2>6. CASE e.kind # "frame"
    <3>1. Begun(k) = 0 /\ Begun(q) = 0
      BY <1>6, <2>1, <2>6 DEF Begun
    <3>2. q.queued + q.head <= Largest + Extra(q) + Begun(q)
      BY <1>1, <1>6, <1>8, <2>1, <2>4, <3>1
    <3> QED BY <2>2, <2>4, <3>2, Numbers DEF Within
  <2> QED BY <2>5, <2>6
<1>10. CASE done
  <2>1. q.frames = Tail(k.frames) /\ q.head = 0 /\ q.queued = k.queued + k.head - e.len
    BY <1>1, <1>2, <1>6, <1>10
  <2>2. /\ Len(k.frames) \in Nat /\ DOMAIN k.frames = 1..Len(k.frames)
        /\ DOMAIN q.frames = 1..(Len(k.frames) - 1)
        /\ \A j \in 1..(Len(k.frames) - 1) : q.frames[j] = k.frames[j + 1]
    BY <1>1, <2>1
  <2>3. \A j \in DOMAIN q.frames : q.frames[j] \in DOMAIN q.log
    <3> TAKE j \in DOMAIN q.frames
    <3>1. j + 1 \in DOMAIN k.frames /\ q.frames[j] = k.frames[j + 1]
      BY <2>2, SMTT(30)
    <3>2. k.frames[j + 1] \in DOMAIN k.log
      BY <3>1 DEF QueueOK
    <3> QED BY <1>6, <3>1, <3>2
  <2>4. QueueOK(q)
    <3>1. q.frames # <<>> => q.log[q.frames[1]].len > 0
      <4>1. q.frames \in Seq(Nat)
        BY <1>1, <2>1
      <4>2. q.frames # <<>> => q.log[q.frames[1]] \in Entry
        <5>1. q.frames # <<>> => 1 \in DOMAIN q.frames
          BY <4>1
        <5>2. q.log = k.log /\ q.log \in Seq(Entry)
          BY <1>1, <1>6
        <5> QED BY <2>3, <5>1, <5>2
      <4> QED BY <4>2 DEF Entry
    <3> QED BY <1>6, <1>7, <2>1, <2>3, <3>1 DEF QueueOK
  <2>5. \A kd : Cardinality(Queued(q, kd)) = Cardinality(Queued(k, kd)) - (IF kd = e.kind THEN 1 ELSE 0)
    BY <1>6, <2>1, TailCounts
  <2>6. /\ Redraws(q) = Redraws(k) - (IF e.kind = "redraw" THEN 1 ELSE 0)
        /\ Notices(q) = Notices(k) - (IF e.kind = "notice" THEN 1 ELSE 0)
    BY <2>5 DEF Redraws, Notices
  <2>7. Begun(q) = 0
    BY <2>1 DEF Begun
  <2>8. /\ Redraws(k) \in Nat /\ Notices(k) \in Nat /\ Redraws(q) \in Nat /\ Notices(q) \in Nat
        /\ Extra(q) \in Nat /\ SizesAreNat
    BY <2>4, Numbers
  <2>9. Redraws(q) <= Redraws(k)
    BY <2>6, <2>8
  <2>10. CASE e.kind = "frame"
    <3>1. Redraws(q) = Redraws(k) /\ Notices(q) = Notices(k)
      BY <2>6, <2>8, <2>10
    <3>2. Extra(q) = Extra(k)
      BY <3>1 DEF Extra
    <3>3. Begun(k) = k.head
      BY <2>10 DEF Begun
    <3>4. q.queued + q.head <= Largest + Extra(q) + Begun(q)
      <4> HIDE DEF e, f
      <4> QED BY <1>1, <1>2, <1>8, <1>10, <2>1, <2>7, <3>2, <3>3, SMTT(30)
    <3> QED BY <2>4, <2>9, <3>4 DEF Within
  <2>11. CASE e.kind \in {"redraw", "notice"}
    <3>1. Extra(k) = Extra(q) + e.len
      <4>1. CASE e.kind = "redraw"
        <5>1. e.len = RedrawSize /\ Redraws(k) = Redraws(q) + 1 /\ Notices(q) = Notices(k)
          BY <1>2, <2>6, <2>8, <4>1 DEF QueueOK
        <5> QED BY <2>8, <5>1, ExtraGrows DEF Extra, SizesAreNat
      <4>2. CASE e.kind = "notice"
        <5>1. e.len = NoticeSize /\ Notices(k) = Notices(q) + 1 /\ Redraws(q) = Redraws(k)
          BY <1>2, <2>6, <2>8, <4>2 DEF QueueOK
        <5> QED BY <2>8, <5>1, ExtraGrows DEF Extra, SizesAreNat
      <4> QED BY <2>11, <4>1, <4>2
    <3>2. Begun(k) = 0
      BY <2>11 DEF Begun
    <3>3. q.queued + q.head <= Largest + Extra(q) + Begun(q)
      <4> DEFINE len == e.len
                 xk == Extra(k)
                 xq == Extra(q)
                 top == Largest
                 bytes == k.queued
                 head == k.head
      <4>1. /\ len \in Nat /\ xq \in Nat /\ top \in Nat /\ bytes \in Int /\ head \in Nat
            /\ bytes + head <= top + xk + 0 /\ xk = xq + len
            /\ q.queued = bytes + head - len /\ q.head = 0 /\ Begun(q) = 0
        BY <1>1, <1>2, <1>8, <2>1, <2>7, <2>8, <3>1, <3>2
      <4> HIDE DEF len, xk, xq, top, bytes, head
      <4>2. q.queued + q.head <= top + xq + Begun(q)
        BY <4>1
      <4> QED BY <4>2 DEF xq, top
    <3> QED BY <2>4, <2>9, <3>3 DEF Within
  <2> QED BY <1>2, <2>10, <2>11 DEF Kinds
<1> QED BY <1>9, <1>10

-----------------------------------------------------------------------------
(* The steps.                                                              *)

\* What a step leaves in the queues.
LEMMA QueuesKept ==
  ASSUME QueueInv, conn' = [c \in Clients |-> conn'[c]],
         \A c \in Clients :
           /\ QueueOK(conn'[c]) /\ Within(conn'[c]) /\ Redraws(conn'[c]) <= 1
           /\ c \in owed' => Redraws(conn'[c]) = 0
  PROVE  QueueInv'
<1>1. \A c \in Clients : conn'[c] \in Queue
  BY DEF QueueOK
<1>2. conn' \in [Clients -> Queue]
  BY <1>1
<1> QED BY <1>2 DEF QueueInv

\* A step that changes the queue of one client.
LEMMA OneKept ==
  ASSUME QueueInv, NEW c, NEW q, conn' = [conn EXCEPT ![c] = q], owed' \subseteq owed,
         c \in Clients => /\ QueueOK(q) /\ Within(q) /\ Redraws(q) <= 1
                          /\ c \in owed' => Redraws(q) = 0
  PROVE  QueueInv'
<1>1. conn \in [Clients -> Queue]
  BY DEF QueueInv
<1>2. conn' = [d \in Clients |-> IF d = c THEN q ELSE conn[d]]
  BY <1>1
<1>3. conn' = [d \in Clients |-> conn'[d]]
  BY <1>2
<1>4. \A d \in Clients :
        /\ QueueOK(conn'[d]) /\ Within(conn'[d]) /\ Redraws(conn'[d]) <= 1
        /\ d \in owed' => Redraws(conn'[d]) = 0
  <2> TAKE d \in Clients
  <2>1. CASE d = c
    BY <1>2, <2>1
  <2>2. CASE d # c
    <3>1. conn'[d] = conn[d]
      BY <1>2, <2>2
    <3> QED BY <3>1 DEF QueueInv
  <2> QED BY <2>1, <2>2
<1> QED BY <1>3, <1>4, QueuesKept

\* Settle empties the queues of the clients that are closed.
LEMMA SettleKeeps ==
  ASSUME QueueInv, NEW new, Settle(new)
  PROVE  QueueInv'
<1>1. conn' = [c \in Clients |-> IF new[c] # "closed" THEN conn[c] ELSE Fresh] /\ owed' \subseteq owed
  BY DEF Settle
<1>2. conn' = [c \in Clients |-> conn'[c]]
  BY <1>1
<1>3. \A c \in Clients :
        /\ QueueOK(conn'[c]) /\ Within(conn'[c]) /\ Redraws(conn'[c]) <= 1
        /\ c \in owed' => Redraws(conn'[c]) = 0
  <2> TAKE c \in Clients
  <2>1. conn'[c] = conn[c] \/ conn'[c] = Fresh
    BY <1>1
  <2>2. CASE conn'[c] = conn[c]
    BY <1>1, <2>2 DEF QueueInv
  <2>3. CASE conn'[c] = Fresh
    <3>1. Redraws(conn'[c]) = 0
      BY <2>3, FreshKept
    <3> QED BY <2>3, <3>1, FreshKept
  <2> QED BY <2>1, <2>2, <2>3
<1> QED BY <1>2, <1>3, QueuesKept

\* enqueue_for_client for every attached client.
LEMMA AllKept ==
  ASSUME QueueInv, NEW len \in Sizes \cup {NoticeSize}, owed' = owed,
         conn' = [c \in Clients |-> IF c \in Attached THEN enqueue_for_client(conn[c], len) ELSE conn[c]]
  PROVE  QueueInv'
<1>1. conn' = [c \in Clients |-> conn'[c]]
  OBVIOUS
<1>2. \A c \in Clients :
        /\ QueueOK(conn'[c]) /\ Within(conn'[c]) /\ Redraws(conn'[c]) <= 1
        /\ c \in owed' => Redraws(conn'[c]) = 0
  <2> TAKE c \in Clients
  <2>1. /\ QueueOK(conn[c]) /\ Within(conn[c]) /\ Redraws(conn[c]) <= 1
        /\ c \in owed => Redraws(conn[c]) = 0
    BY DEF QueueInv
  <2> DEFINE q == enqueue_for_client(conn[c], len)
  <2>2. QueueOK(q) /\ Within(q) /\ Redraws(q) = Redraws(conn[c])
    BY <2>1, EnqueueKeeps
  <2>3. conn'[c] = q \/ conn'[c] = conn[c]
    OBVIOUS
  <2> HIDE DEF q
  <2> QED BY <2>1, <2>2, <2>3
<1> QED BY <1>1, <1>2, QueuesKept

\* write_to keeps the queues.
LEMMA WriteSteps ==
  ASSUME QueueInv, Writing
  PROVE  QueueInv'
<1>1. CASE BeginWrite
  BY <1>1 DEF BeginWrite, QueueInv, fate
<1>2. CASE WriteSome
  <2>1. PICK n \in 1..left :
          /\ conn[at].head + n <= conn[at].log[Head(conn[at].frames)].len
          /\ conn' = [conn EXCEPT ![at] = Written(conn[at], n)]
    BY <1>2 DEF WriteSome
  <2> DEFINE q == Written(conn[at], n)
  <2>2. conn[at].frames # <<>> /\ owed' = owed
    BY <1>2 DEF WriteSome, fate
  <2>3. ASSUME at \in Clients
        PROVE  /\ QueueOK(q) /\ Within(q) /\ Redraws(q) <= 1
               /\ at \in owed' => Redraws(q) = 0
    <3>1. /\ QueueOK(conn[at]) /\ Within(conn[at]) /\ Redraws(conn[at]) <= 1
          /\ at \in owed => Redraws(conn[at]) = 0
      BY <2>3 DEF QueueInv
    <3>2. n \in Nat \ {0}
      OBVIOUS
    <3>3. QueueOK(q) /\ Within(q) /\ Redraws(q) <= Redraws(conn[at])
      BY <2>1, <2>2, <3>1, <3>2, WrittenKeeps
    <3>4. Redraws(q) \in Nat /\ Redraws(conn[at]) \in Nat
      BY <3>1, <3>3, Numbers
    <3> HIDE DEF q
    <3> QED BY <2>2, <3>1, <3>3, <3>4
  <2>4. conn' = [conn EXCEPT ![at] = q]
    BY <2>1
  <2> HIDE DEF q
  <2> QED BY <2>2, <2>3, <2>4, OneKept
<1>3. CASE WriteFailed
  <2>1. conn' = [conn EXCEPT ![at] = fail] /\ owed' = owed
    BY <1>3 DEF WriteFailed, fate
  <2>2. /\ QueueOK(fail) /\ Within(fail) /\ Redraws(fail) <= 1
        /\ at \in owed' => Redraws(fail) = 0
    BY FreshKept
  <2> HIDE DEF fail
  <2> QED BY <2>1, <2>2, OneKept
<1>4. CASE EndWrite
  BY <1>4, SettleKeeps DEF EndWrite
<1> QED BY <1>1, <1>2, <1>3, <1>4 DEF Writing

\* The turns of a pass keep the queues.
LEMMA TurnSteps ==
  ASSUME QueueInv, Turning
  PROVE  QueueInv'
<1>1. CASE \/ FlushDone \/ ClosingDone \/ FlushAgain \/ DrainClosing \/ UpgradeFlushAgain
  <2>1. UNCHANGED <<conn, owed>>
    BY <1>1 DEF FlushDone, ClosingDone, FlushAgain, DrainClosing, UpgradeFlushAgain, fate
  <2> QED BY <2>1 DEF QueueInv
<1>2. CASE EndPass
  BY <1>2, SettleKeeps DEF EndPass
<1>3. CASE NotifyExit
  BY <1>3, AllKept DEF NotifyExit
<1>4. CASE RetireAll
  BY <1>4, SettleKeeps DEF RetireAll
<1>5. CASE Finish
  BY <1>5, SettleKeeps DEF Finish
<1> QED BY <1>1, <1>2, <1>3, <1>4, <1>5 DEF Turning

\* What a pass produces is enqueued, or clients are retired.
LEMMA WorkSteps ==
  ASSUME QueueInv, Working
  PROVE  QueueInv'
<1>1. ASSUME NEW len \in Sizes, NEW forgotten \in BOOLEAN, Broadcast(len, forgotten)
      PROVE  QueueInv'
  BY <1>1, AllKept DEF Broadcast
<1>2. ASSUME NEW c \in Clients, NEW len \in Sizes, Reply(c, len)
      PROVE  QueueInv'
  <2> DEFINE k == conn[c]
             q == push(k, len, "frame")
  <2>1. /\ QueueOK(k) /\ Within(k) /\ Redraws(k) <= 1
        /\ c \in owed => Redraws(k) = 0
    BY DEF QueueInv
  <2>2. conn' = [conn EXCEPT ![c] = q] /\ owed' = owed /\ ~k.failed /\ ~Overflows(k, len)
    BY <1>2 DEF Reply, fate
  <2>3. len \in Nat \ {0} /\ len <= Largest
    BY SizesAssumption, LargestIs DEF Limits
  <2> HIDE DEF k
  <2>4. k.queued <= 0 \/ k.queued + len <= BufferLimit
    BY <2>1, <2>2, <2>3, Numbers DEF Overflows, SizesAreNat
  <2>5. QueueOK(q) /\ Within(q) /\ Redraws(q) = Redraws(k)
    BY <2>1, <2>3, <2>4, PushKeeps, Numbers DEF Kinds
  <2> HIDE DEF q
  <2> QED BY <2>1, <2>2, <2>5, OneKept
<1>3. ASSUME NEW c \in Clients, InitialRedraw(c)
      PROVE  QueueInv'
  <2> DEFINE k == conn[c]
             p == push(k, RedrawSize, "redraw")
             q == IF k.failed THEN k ELSE p
  <2>1. c \in owed /\ owed' = owed \ {c} /\ conn' = [conn EXCEPT ![c] = q]
    BY <1>3 DEF InitialRedraw
  <2>2. QueueOK(k) /\ Within(k) /\ Redraws(k) = 0
    BY <2>1 DEF QueueInv
  <2>3. RedrawSize \in Nat \ {0}
    BY SizesAssumption
  <2> HIDE DEF k
  <2>4. QueueOK(p) /\ Within(p) /\ Redraws(p) = 0 + 1
    BY <2>2, <2>3, PushKeeps DEF Kinds
  <2> HIDE DEF p
  <2>5. QueueOK(q) /\ Within(q) /\ Redraws(q) <= 1
    BY <2>2, <2>4
  <2> HIDE DEF q
  <2> QED BY <2>1, <2>5, OneKept
<1>4. ASSUME NEW c \in Clients, Detach(c)
      PROVE  QueueInv'
  BY <1>4 DEF Detach, QueueInv
<1>5. ASSUME NEW why, BeginEnding(why)
      PROVE  QueueInv'
  BY <1>5, SettleKeeps DEF BeginEnding
<1> QED BY <1>1, <1>2, <1>3, <1>4, <1>5 DEF Working

\* Every queue stays well-formed and within its bounds.
LEMMA QueueInvHolds == Spec => []QueueInv
<1>1. Init => QueueInv
  <2> SUFFICES ASSUME Init PROVE QueueInv
    OBVIOUS
  <2>1. conn = [c \in Clients |-> Fresh]
    BY DEF Init
  <2>2. Fresh \in Queue
    BY FreshKept DEF QueueOK
  <2>3. \A c \in Clients : conn[c] = Fresh
    BY <2>1
  <2> QED BY <2>1, <2>2, <2>3, FreshKept DEF QueueInv
<1>2. QueueInv /\ [Next]_vars => QueueInv'
  <2> SUFFICES ASSUME QueueInv, [Next]_vars PROVE QueueInv'
    OBVIOUS
  <2>1. CASE Writing
    BY <2>1, WriteSteps
  <2>2. CASE Turning
    BY <2>2, TurnSteps
  <2>3. CASE Working
    BY <2>3, WorkSteps
  <2>4. CASE Clock \/ Peers \/ UNCHANGED vars
    <3>1. UNCHANGED <<conn, owed>>
      BY <2>4 DEF Clock, Peers, FlushTimeout, CloseTimeout, PeerReads, fate, vars
    <3> QED BY <3>1 DEF QueueInv
  <2> QED BY <2>1, <2>2, <2>3, <2>4 DEF Next
<1> QED BY <1>1, <1>2, PTL DEF Spec

-----------------------------------------------------------------------------
(* The closing clients.                                                    *)

\* The sets of clients are finite, so that they can be counted.
LEMMA ClosingFinite ==
  /\ MaxClosing \in Nat
  /\ \A S \in SUBSET Clients : IsFiniteSet(S)
<1>1. IsFiniteSet(Clients)
  <2>1. NumClients \in Int /\ 1 \in Int
    BY SizesAssumption
  <2> QED BY <2>1, FS_Interval DEF Clients
<1>2. \A S \in SUBSET Clients : IsFiniteSet(S)
  BY <1>1, FS_Subset
<1> QED BY <1>2, SizesAssumption

\* No more clients are closing than before, or than there is room for.
LEMMA FewerClosing ==
  ASSUME NEW S \in SUBSET Clients, Cardinality(S) <= MaxClosing, Closing' \subseteq S
  PROVE  Cardinality(Closing') <= MaxClosing
<1>1. IsFiniteSet(S)
  BY ClosingFinite
<1>2. Cardinality(Closing') <= Cardinality(S) /\ IsFiniteSet(Closing')
  BY <1>1, FS_Subset
<1>3. Cardinality(Closing') \in Nat /\ Cardinality(S) \in Nat
  BY <1>1, <1>2, FS_CardinalityType
<1> QED BY <1>2, <1>3, ClosingFinite

\* retire_client keeps a client only while there is room.
LEMMA RetiredFew ==
  ASSUME NEW S \in SUBSET Clients, NEW new \in Retired(S), Settle(new)
  PROVE  Cardinality(Closing') <= MaxClosing
<1> DEFINE Ways == {K \in SUBSET Unsettled(S) :
                      \/ K = Unsettled(S) /\ Cardinality(Closing \cup K) <= MaxClosing
                      \/ Cardinality(Closing \cup K) = MaxClosing}
<1>0. PICK kept \in Ways :
        new = [c \in Clients |-> IF c \in S THEN (IF c \in kept THEN "closing" ELSE "closed") ELSE st[c]]
  BY Zenon DEF Retired
<1>1. kept \in SUBSET Unsettled(S) /\ Cardinality(Closing \cup kept) <= MaxClosing
  BY ClosingFinite
<1> HIDE DEF Ways
<1>2. st' = new
  BY DEF Settle
<1>3. Closing' \subseteq Closing \cup kept
  BY <1>0, <1>2 DEF Closing
<1>4. Closing \cup kept \in SUBSET Clients
  BY <1>1 DEF Closing, Unsettled
<1> QED BY <1>1, <1>3, <1>4, FewerClosing

\* Nobody begins to be closed in a step that retires nobody.
LEMMA ClosingKept ==
  ASSUME ClosingInv, Closing' \subseteq Closing
  PROVE  Cardinality(Closing') <= MaxClosing
<1>1. Closing \in SUBSET Clients
  BY DEF Closing
<1> QED BY <1>1, FewerClosing DEF ClosingInv

\* The clients being closed are never more than MaxClosing.
LEMMA ClosingInvHolds == Spec => []ClosingInv
<1>1. Init => ClosingInv
  <2> SUFFICES ASSUME Init PROVE ClosingInv
    OBVIOUS
  <2>1. Closing = {} /\ leaving = {}
    BY DEF Init, Closing
  <2> QED BY <2>1, FS_EmptySet, ClosingFinite DEF ClosingInv
<1>2. ClosingInv /\ [Next]_vars => ClosingInv'
  <2> SUFFICES ASSUME ClosingInv, [Next]_vars PROVE ClosingInv'
    OBVIOUS
  <2>1. ASSUME UNCHANGED st PROVE Cardinality(Closing') <= MaxClosing
    <3>1. Closing' = Closing
      BY <2>1 DEF Closing
    <3> QED BY <3>1, ClosingKept
  <2>2. CASE Writing
    <3>1. leaving' = leaving
      BY <2>2 DEF Writing, BeginWrite, WriteSome, WriteFailed, EndWrite, fate
    <3>2. CASE EndWrite
      <4>1. Closing' \subseteq Closing
        BY <3>2 DEF EndWrite, Settle, Closing
      <4> QED BY <3>1, <4>1, ClosingKept DEF ClosingInv
    <3>3. CASE BeginWrite \/ WriteSome \/ WriteFailed
      <4>1. UNCHANGED st
        BY <3>3 DEF BeginWrite, WriteSome, WriteFailed
      <4> QED BY <2>1, <3>1, <4>1 DEF ClosingInv
    <3> QED BY <2>2, <3>2, <3>3 DEF Writing
  <2>3. CASE Turning
    <3>1. CASE \/ FlushDone \/ ClosingDone \/ FlushAgain \/ NotifyExit \/ DrainClosing \/ UpgradeFlushAgain
      <4>1. UNCHANGED <<st, leaving>>
        BY <3>1 DEF FlushDone, ClosingDone, FlushAgain, NotifyExit, DrainClosing, UpgradeFlushAgain, fate
      <4> QED BY <2>1, <4>1 DEF ClosingInv
    <3>2. CASE EndPass
      <4>1. leaving \in SUBSET Clients /\ leaving' = {}
        BY <3>2 DEF EndPass, ClosingInv
      <4>2. PICK new \in Retired(leaving) : Settle(new)
        BY <3>2 DEF EndPass
      <4> QED BY <4>1, <4>2, RetiredFew DEF ClosingInv
    <3>3. CASE RetireAll
      <4>1. Attached \in SUBSET Clients /\ leaving' = leaving
        BY <3>3 DEF RetireAll, Attached
      <4>2. PICK new \in Retired(Attached) : Settle(new)
        BY <3>3 DEF RetireAll
      <4>3. Cardinality(Closing') <= MaxClosing
        BY <4>1, <4>2, RetiredFew
      <4> QED BY <4>1, <4>3 DEF ClosingInv
    <3>4. CASE Finish
      <4>1. Closing' \subseteq Closing /\ leaving' = leaving
        BY <3>4 DEF Finish, Settle, Closing
      <4> QED BY <4>1, ClosingKept DEF ClosingInv
    <3> QED BY <2>3, <3>1, <3>2, <3>3, <3>4 DEF Turning
  <2>4. CASE Working
    <3>1. ASSUME NEW why, BeginEnding(why) PROVE ClosingInv'
      <4>1. PICK gone \in {leaving, {}} : \E new \in Retired(gone) : Settle(new)
        BY <3>1 DEF BeginEnding
      <4>2. PICK new \in Retired(gone) : Settle(new)
        BY <4>1
      <4>3. gone \in SUBSET Clients /\ leaving' = {}
        BY <3>1 DEF BeginEnding, ClosingInv
      <4> QED BY <4>2, <4>3, RetiredFew DEF ClosingInv
    <3>2. ASSUME \/ \E len \in Sizes, forgotten \in BOOLEAN : Broadcast(len, forgotten)
                 \/ \E c \in Clients, len \in Sizes : Reply(c, len)
                 \/ \E c \in Clients : InitialRedraw(c) \/ Detach(c)
          PROVE  ClosingInv'
      <4>1. UNCHANGED st /\ leaving' \subseteq leaving \cup Clients
        BY <3>2 DEF Broadcast, Reply, InitialRedraw, Detach, Attached, fate
      <4> QED BY <2>1, <4>1 DEF ClosingInv
    <3> QED BY <2>4, <3>1, <3>2 DEF Working
  <2>5. CASE Clock \/ Peers \/ UNCHANGED vars
    <3>1. UNCHANGED <<st, leaving>>
      BY <2>5 DEF Clock, Peers, FlushTimeout, CloseTimeout, PeerReads, fate, vars
    <3> QED BY <2>1, <3>1 DEF ClosingInv
  <2> QED BY <2>2, <2>3, <2>4, <2>5 DEF Next
<1> QED BY <1>1, <1>2, PTL DEF Spec

-----------------------------------------------------------------------------
\* Whatever peers read, whenever their sockets fail and however the loop ends: beyond the
\* limit, or one frame that is larger, a client's queue holds one redraw and notices at most
\* (enqueue_for_client, send_initial_attach_redraw), and no more than MAX_CLOSING_CLIENTS
\* sockets are kept for clients that are being closed (retire_client).
THEOREM MemoryBounded == Spec => []QueuesBounded
<1>1. QueueInv /\ ClosingInv => QueuesBounded
  <2> SUFFICES ASSUME QueueInv, ClosingInv PROVE QueuesBounded
    OBVIOUS
  <2>1. ASSUME NEW c \in Clients
        PROVE  LET redraws == Cardinality(Queued(conn[c], "redraw"))
                   notices == Cardinality(Queued(conn[c], "notice"))
               IN /\ redraws <= 1
                  /\ conn[c].queued <= Largest + redraws * RedrawSize + notices * NoticeSize
    <3> DEFINE k == conn[c]
               r == Redraws(k) * RedrawSize
               m == Notices(k) * NoticeSize
    <3>1. QueueOK(k) /\ Within(k) /\ Redraws(k) <= 1
      BY DEF QueueInv
    <3> HIDE DEF k
    <3>2. /\ k.queued \in Int /\ k.head \in Nat /\ Largest \in Nat /\ Begun(k) <= k.head
          /\ Begun(k) \in Nat /\ Redraws(k) \in Nat /\ Notices(k) \in Nat /\ SizesAreNat
      BY <3>1, Numbers DEF Begun
    <3>3. r \in Nat /\ m \in Nat
      BY <3>2 DEF SizesAreNat
    <3> HIDE DEF r, m
    <3>4. k.queued + k.head <= Largest + (r + m) + Begun(k)
      BY <3>1 DEF Within, Extra, r, m
    <3>5. k.queued <= Largest + r + m
      BY <3>2, <3>3, <3>4
    <3> QED BY <3>1, <3>5 DEF k, r, m, Redraws, Notices
  <2>2. Cardinality(Closing) <= MaxClosing
    BY DEF ClosingInv
  <2> QED BY <2>1, <2>2 DEF QueuesBounded
<1> QED BY <1>1, QueueInvHolds, ClosingInvHolds, PTL

-----------------------------------------------------------------------------
(* What the sockets have seen.                                             *)

\* FramesIntact of one queue.
StreamOK(k) ==
  /\ \A n \in DOMAIN k.log :
       k.log[n].start = IF n = 1 THEN 0 ELSE k.log[n - 1].start + k.log[n - 1].len
  /\ \A p \in 1..Len(k.wire) : \E n \in DOMAIN k.log : \E i \in 1..k.log[n].len :
       k.wire[p] = <<n, i>> /\ p = k.log[n].start + i
  /\ \A j \in DOMAIN k.frames : k.frames[j] = Len(k.log) - Len(k.frames) + j
  /\ IF k.frames = <<>> THEN Len(k.wire) = Accepted(k.log)
     ELSE Len(k.wire) = k.log[k.frames[1]].start + k.head
  /\ k.queued + Len(k.wire) = Accepted(k.log)

\* What push changes.
LEMMA PushIs ==
  ASSUME NEW k, QueueOK(k), NEW len \in Nat \ {0}, NEW kind \in Kinds
  PROVE  LET q == push(k, len, kind)
         IN /\ q.wire = k.wire /\ q.head = k.head /\ q.queued = k.queued + len
            /\ q.frames = Append(k.frames, Len(k.log) + 1)
            /\ q.log = Append(k.log, [start |-> Accepted(k.log), len |-> len, kind |-> kind])
<1>1. k \in Queue
  BY DEF QueueOK
<1> DEFINE q == push(k, len, kind)
           f == Append(k.frames, Len(k.log) + 1)
           g == Append(k.log, [start |-> Accepted(k.log), len |-> len, kind |-> kind])
           b == k.queued + len
<1>2. q = [k EXCEPT !.log = g, !.frames = f, !.queued = b]
  BY <1>1 DEF push, Queue
<1> HIDE DEF f, g, b, q
<1>3. q.wire = k.wire /\ q.head = k.head /\ q.queued = b /\ q.frames = f /\ q.log = g
  BY <1>1, <1>2 DEF Queue
<1> QED BY <1>3 DEF f, g, b, q

\* A frame that is accepted begins where the last one ends.
LEMMA PushStream ==
  ASSUME NEW k, QueueOK(k), StreamOK(k), NEW len \in Nat \ {0}, NEW kind \in Kinds
  PROVE  StreamOK(push(k, len, kind))
<1>1. PICK q : q = push(k, len, kind)
  OBVIOUS
<1>2. k.frames \in Seq(Nat) /\ k.log \in Seq(Entry) /\ k.queued \in Int /\ k.wire \in Seq(Nat \X Nat) /\ k.head \in Nat
  BY DEF QueueOK, Queue
<1>3. PICK L \in Nat, F \in Nat, S \in Nat, A \in Nat :
        /\ L = Len(k.log) /\ F = Len(k.frames) /\ S = Len(k.wire) /\ A = Accepted(k.log)
        /\ DOMAIN k.log = 1..L /\ DOMAIN k.frames = 1..F
        /\ k.frames = <<>> <=> F = 0
        /\ k.log = <<>> <=> L = 0
  <2>1. Len(k.log) \in Nat /\ DOMAIN k.log = 1..Len(k.log) /\ (k.log = <<>> <=> Len(k.log) = 0)
    BY <1>2
  <2>2. Len(k.frames) \in Nat /\ DOMAIN k.frames = 1..Len(k.frames) /\ (k.frames = <<>> <=> Len(k.frames) = 0)
    BY <1>2
  <2>3. Len(k.wire) \in Nat /\ Accepted(k.log) \in Nat
    BY <1>2, AcceptedIs
  <2> QED BY <2>1, <2>2, <2>3
<1>4. PICK e \in Entry : e.start = A /\ e.len = len /\ e = [start |-> Accepted(k.log), len |-> len, kind |-> kind]
  BY <1>3 DEF Entry
<1>5. /\ q.wire = k.wire /\ q.head = k.head /\ q.queued = k.queued + len
      /\ q.frames = Append(k.frames, L + 1) /\ q.log = Append(k.log, e)
  BY <1>1, <1>3, <1>4, PushIs
<1>6. /\ DOMAIN q.log = 1..(L + 1) /\ q.log[L + 1] = e /\ \A n \in 1..L : q.log[n] = k.log[n]
      /\ Len(q.log) = L + 1 /\ q.log # <<>>
  <2>1. PICK s \in Seq(Entry) : s = k.log /\ L = Len(s)
    BY <1>2, <1>3
  <2>2. q.log = Append(s, e)
    BY <1>5, <2>1
  <2> QED BY <2>1, <2>2, AppendAt
<1>7. /\ DOMAIN q.frames = 1..(F + 1) /\ q.frames[F + 1] = L + 1 /\ \A j \in 1..F : q.frames[j] = k.frames[j]
      /\ Len(q.frames) = F + 1 /\ q.frames # <<>>
  <2>1. PICK s \in Seq(Nat), x \in Nat : s = k.frames /\ F = Len(s) /\ x = L + 1
    BY <1>2, <1>3
  <2>2. q.frames = Append(s, x)
    BY <1>5, <2>1
  <2>3. /\ Append(s, x) # <<>> /\ DOMAIN Append(s, x) = 1..(Len(s) + 1)
        /\ Len(Append(s, x)) = Len(s) + 1 /\ Append(s, x)[Len(s) + 1] = x
        /\ \A j \in 1..Len(s) : Append(s, x)[j] = s[j]
    BY <2>1, AppendAt
  <2> QED BY <2>1, <2>2, <2>3, Zenon
<1>8. \A j \in 1..F : k.frames[j] \in 1..L /\ k.frames[j] = L - F + j
  BY <1>3 DEF QueueOK, StreamOK
<1>9. A = IF L = 0 THEN 0 ELSE k.log[L].start + k.log[L].len
  BY <1>3 DEF Accepted
<1>10. \A n \in 1..L : k.log[n].start = IF n = 1 THEN 0 ELSE k.log[n - 1].start + k.log[n - 1].len
  BY <1>3 DEF StreamOK
<1>11. ASSUME NEW n \in DOMAIN q.log
       PROVE  q.log[n].start = IF n = 1 THEN 0 ELSE q.log[n - 1].start + q.log[n - 1].len
  <2>1. n \in 1..(L + 1)
    BY <1>6
  <2>2. n # 1 => n - 1 \in 1..L
    BY <2>1
  <2>3. n # 1 => q.log[n - 1] = k.log[n - 1]
    BY <1>6, <2>2
  <2>4. CASE n \in 1..L
    BY <1>6, <1>10, <2>3, <2>4
  <2>5. CASE n = L + 1
    <3>1. q.log[n].start = A /\ n - 1 = L /\ (n = 1 <=> L = 0)
      BY <1>4, <1>6, <2>5
    <3> QED BY <1>9, <2>3, <3>1
  <2> QED BY <2>1, <2>4, <2>5
<1>12. ASSUME NEW p \in 1..Len(q.wire)
       PROVE  \E n \in DOMAIN q.log : \E i \in 1..q.log[n].len : q.wire[p] = <<n, i>> /\ p = q.log[n].start + i
  <2>0. p \in 1..Len(k.wire)
    BY <1>5
  <2>1. PICK n \in DOMAIN k.log : \E i \in 1..k.log[n].len : k.wire[p] = <<n, i>> /\ p = k.log[n].start + i
    BY <2>0 DEF StreamOK
  <2>2. n \in DOMAIN q.log /\ q.log[n] = k.log[n]
    BY <1>3, <1>6
  <2> QED BY <1>5, <2>1, <2>2
<1>13. \A j \in DOMAIN q.frames : q.frames[j] = Len(q.log) - Len(q.frames) + j
  <2> TAKE j \in DOMAIN q.frames
  <2>1. CASE j \in 1..F
    BY <1>6, <1>7, <1>8, <2>1
  <2>2. CASE j = F + 1
    BY <1>6, <1>7, <2>2
  <2> QED BY <1>7, <2>1, <2>2
<1>14. Accepted(q.log) = A + len
  BY <1>4, <1>6 DEF Accepted
<1>15. Len(q.wire) = q.log[q.frames[1]].start + q.head
  <2>1. CASE F = 0
    <3>1. q.frames[1] = L + 1 /\ q.log[q.frames[1]].start = A
      BY <1>4, <1>6, <1>7, <2>1
    <3>2. S = A /\ q.head = 0
      BY <1>3, <1>5, <2>1 DEF StreamOK, QueueOK
    <3> QED BY <1>3, <1>5, <3>1, <3>2
  <2>2. CASE F # 0
    <3>1. 1 \in 1..F
      BY <2>2
    <3>2. q.log[q.frames[1]] = k.log[k.frames[1]]
      BY <1>6, <1>7, <1>8, <3>1
    <3>3. S = k.log[k.frames[1]].start + k.head
      BY <1>3, <2>2 DEF StreamOK
    <3> QED BY <1>3, <1>5, <3>2, <3>3
  <2> QED BY <2>1, <2>2
<1>16. q.queued + Len(q.wire) = Accepted(q.log)
  <2>1. k.queued + S = A
    BY <1>3 DEF StreamOK
  <2> QED BY <1>2, <1>3, <1>5, <1>14, <2>1
<1>17. StreamOK(q)
  BY <1>7, <1>11, <1>12, <1>13, <1>15, <1>16 DEF StreamOK
<1> QED BY <1>1, <1>17

\* A new queue and a failed one.
LEMMA FreshStream == StreamOK(Fresh) /\ StreamOK(fail)
<1>1. ASSUME NEW k, k.frames = <<>>, k.log = <<>>, k.wire = <<>>, k.queued = 0, k.head = 0 PROVE StreamOK(k)
  <2>1. Len(<<>>) = 0 /\ 1..0 = {} /\ DOMAIN <<>> = {} /\ 0 + 0 = 0
    OBVIOUS
  <2> QED BY <1>1, <2>1 DEF StreamOK, Accepted
<1>2. /\ Fresh.frames = <<>> /\ Fresh.log = <<>> /\ Fresh.wire = <<>> /\ Fresh.queued = 0 /\ Fresh.head = 0
  BY DEF Fresh
<1>3. /\ fail.frames = <<>> /\ fail.log = <<>> /\ fail.wire = <<>> /\ fail.queued = 0 /\ fail.head = 0
  BY DEF fail, Fresh
<1> QED BY <1>1, <1>2, <1>3

\* What Written changes, the front frame done or not.
LEMMA WrittenIs ==
  ASSUME NEW k, QueueOK(k), k.frames # <<>>, NEW n \in Nat \ {0}
  PROVE  LET q == Written(k, n)
             f == k.frames[1]
             done == k.head + n = k.log[f].len
         IN /\ q.log = k.log /\ q.queued = k.queued - n
            /\ q.wire = k.wire \o [i \in 1..n |-> <<f, k.head + i>>]
            /\ q.head = (IF done THEN 0 ELSE k.head + n)
            /\ q.frames = (IF done THEN Tail(k.frames) ELSE k.frames)
<1>1. k \in Queue /\ Head(k.frames) = k.frames[1]
  BY FrontCounted DEF QueueOK
<1> DEFINE f == k.frames[1]
           done == k.head + n = k.log[f].len
           w == k.wire \o [i \in 1..n |-> <<f, k.head + i>>]
           h == IF done THEN 0 ELSE k.head + n
           fs == IF done THEN Tail(k.frames) ELSE k.frames
           b == k.queued - n
           q == Written(k, n)
<1>2. q = [k EXCEPT !.wire = w, !.queued = b, !.head = h, !.frames = fs]
  BY <1>1 DEF Written, Queue
<1> HIDE DEF w, h, fs, b, q
<1>3. q.log = k.log /\ q.queued = b /\ q.wire = w /\ q.head = h /\ q.frames = fs
  BY <1>1, <1>2 DEF Queue
<1> QED BY <1>3 DEF w, h, fs, b, q

\* What is written is what comes next in the stream.
LEMMA WrittenStream ==
  ASSUME NEW k, QueueOK(k), StreamOK(k), k.frames # <<>>, NEW n \in Nat \ {0},
         k.head + n <= k.log[Head(k.frames)].len
  PROVE  StreamOK(Written(k, n))
<1>1. PICK q : q = Written(k, n)
  OBVIOUS
<1>2. /\ k.frames \in Seq(Nat) /\ k.log \in Seq(Entry) /\ k.queued \in Int /\ k.wire \in Seq(Nat \X Nat)
  BY DEF QueueOK, Queue
<1>3. PICK L \in Nat, F \in Nat, S \in Nat, A \in Nat, h \in Nat :
        /\ L = Len(k.log) /\ F = Len(k.frames) /\ S = Len(k.wire) /\ A = Accepted(k.log) /\ h = k.head
        /\ DOMAIN k.log = 1..L /\ DOMAIN k.frames = 1..F /\ F >= 1 /\ DOMAIN k.wire = 1..S
  <2>1. Len(k.log) \in Nat /\ DOMAIN k.log = 1..Len(k.log)
    BY <1>2
  <2>2. Len(k.frames) \in Nat /\ DOMAIN k.frames = 1..Len(k.frames) /\ Len(k.frames) >= 1
    BY <1>2
  <2>3. Len(k.wire) \in Nat /\ DOMAIN k.wire = 1..Len(k.wire) /\ Accepted(k.log) \in Nat /\ k.head \in Nat
    BY <1>2, AcceptedIs DEF QueueOK, Queue
  <2> QED BY <2>1, <2>2, <2>3
<1>4. \A j \in 1..F : k.frames[j] \in 1..L /\ k.frames[j] = L - F + j
  BY <1>3 DEF QueueOK, StreamOK
<1>5. PICK f \in 1..L, s \in Nat, len \in Nat :
        /\ f = k.frames[1] /\ f = L - F + 1 /\ s = k.log[f].start /\ len = k.log[f].len
        /\ S = s + h /\ h + n <= len
  <2>1. 1 \in 1..F
    BY <1>3
  <2>2. k.frames[1] \in 1..L /\ k.frames[1] = L - F + 1 /\ Head(k.frames) = k.frames[1]
    BY <1>4, <2>1, FrontCounted
  <2>3. k.log[k.frames[1]] \in Entry
    BY FrontCounted
  <2>4. k.log[k.frames[1]].start \in Nat /\ k.log[k.frames[1]].len \in Nat
    BY <2>3 DEF Entry
  <2>5. S = k.log[k.frames[1]].start + h
    BY <1>3 DEF StreamOK
  <2> QED BY <1>3, <2>2, <2>4, <2>5
<1>n. /\ n \in Nat /\ n > 0 /\ h \in Nat /\ s \in Nat /\ len \in Nat /\ S \in Nat /\ F \in Nat /\ L \in Nat
      /\ F >= 1 /\ f \in 1..L /\ S = s + h /\ h + n <= len /\ f = L - F + 1
  <2>1. F >= 1
    BY <1>3
  <2>2. S = s + h /\ h + n <= len /\ f = L - F + 1
    BY <1>5
  <2> QED BY <2>1, <2>2
<1>6. PICK m \in Seq(Nat \X Nat) : /\ m = [i \in 1..n |-> <<f, h + i>>] /\ Len(m) = n
                                   /\ \A i \in 1..n : m[i] = <<f, h + i>>
  <2> DEFINE d == [i \in 1..n |-> <<f, h + i>>]
  <2>1. \A i \in 1..n : <<f, h + i>> \in Nat \X Nat
    BY <1>5
  <2>2. d \in Seq(Nat \X Nat) /\ Len(d) = n /\ \A i \in 1..n : d[i] = <<f, h + i>>
    BY <2>1
  <2> HIDE DEF d
  <2> QED BY <2>2 DEF d
<1>7. /\ q.log = k.log /\ q.queued = k.queued - n /\ q.wire = k.wire \o m
      /\ h + n = len => q.head = 0 /\ q.frames = Tail(k.frames)
      /\ h + n # len => q.head = h + n /\ q.frames = k.frames
  <2>0. LET g == k.frames[1]
            done == k.head + n = k.log[g].len
        IN /\ q.log = k.log /\ q.queued = k.queued - n
           /\ q.wire = k.wire \o [i \in 1..n |-> <<g, k.head + i>>]
           /\ q.head = (IF done THEN 0 ELSE k.head + n)
           /\ q.frames = (IF done THEN Tail(k.frames) ELSE k.frames)
    BY <1>1, WrittenIs
  <2>a. k.head = h /\ k.frames[1] = f /\ k.log[f].len = len
    BY <1>3, <1>5
  <2>1. /\ q.log = k.log /\ q.queued = k.queued - n
        /\ q.wire = k.wire \o [i \in 1..n |-> <<f, h + i>>]
        /\ q.head = (IF h + n = len THEN 0 ELSE h + n)
        /\ q.frames = (IF h + n = len THEN Tail(k.frames) ELSE k.frames)
    BY <2>0, <2>a
  <2> QED BY <1>6, <2>1
<1>8. /\ Len(q.wire) = S + n /\ \A p \in 1..S : q.wire[p] = k.wire[p]
      /\ \A i \in 1..n : q.wire[S + i] = <<f, h + i>>
  <2>1. PICK w \in Seq(Nat \X Nat) : w = k.wire /\ S = Len(w)
    BY <1>2, <1>3
  <2>2. /\ Len(w \o m) = Len(w) + Len(m) /\ \A p \in 1..Len(w) : (w \o m)[p] = w[p]
        /\ \A i \in 1..Len(m) : (w \o m)[Len(w) + i] = m[i]
    <3>1. m \in Seq(Nat \X Nat)
      BY <1>6
    <3>2. \A T : w \in Seq(T) /\ m \in Seq(T) =>
             /\ Len(w \o m) = Len(w) + Len(m) /\ \A p \in 1..Len(w) : (w \o m)[p] = w[p]
             /\ \A i \in 1..Len(m) : (w \o m)[Len(w) + i] = m[i]
      BY ConcatAt
    <3> QED BY <2>1, <3>1, <3>2
  <2> QED BY <1>6, <1>7, <2>1, <2>2
<1>9. ASSUME NEW p \in 1..Len(q.wire)
      PROVE  \E j \in DOMAIN q.log : \E i \in 1..q.log[j].len : q.wire[p] = <<j, i>> /\ p = q.log[j].start + i
  <2>0. p \in 1..(S + n)
    BY <1>8
  <2>1. CASE p \in 1..S
    <3>1. p \in 1..Len(k.wire) /\ q.wire[p] = k.wire[p]
      BY <1>3, <1>8, <2>1
    <3> QED BY <1>7, <3>1 DEF StreamOK
  <2>2. CASE p > S
    <3>1. PICK i \in 1..n : p = S + i
      <4>1. p - S \in 1..n /\ p = S + (p - S)
        BY <2>0, <2>2
      <4> QED BY <4>1
    <3>2. q.wire[p] = <<f, h + i>>
      BY <1>8, <3>1
    <3>3. h + i \in 1..len /\ p = s + (h + i)
      BY <1>n, <3>1
    <3>4. f \in DOMAIN q.log /\ q.log[f].len = len /\ q.log[f].start = s
      BY <1>3, <1>5, <1>7
    <3> QED BY <3>2, <3>3, <3>4
  <2> QED BY <2>0, <2>1, <2>2
<1>10. /\ \A j \in DOMAIN q.frames : q.frames[j] = Len(q.log) - Len(q.frames) + j
       /\ IF q.frames = <<>> THEN Len(q.wire) = Accepted(q.log)
          ELSE Len(q.wire) = q.log[q.frames[1]].start + q.head
  <2>1. CASE h + n # len
    <3>1. q.frames = k.frames /\ q.head = h + n /\ q.frames # <<>>
      BY <1>7, <2>1
    <3>2. Len(q.wire) = s + (h + n)
      BY <1>5, <1>8
    <3> QED BY <1>5, <1>7, <3>1, <3>2 DEF StreamOK
  <2>2. CASE h + n = len
    <3>1. /\ q.head = 0 /\ Len(q.frames) = F - 1 /\ DOMAIN q.frames = 1..(F - 1)
          /\ \A j \in 1..(F - 1) : q.frames[j] = k.frames[j + 1]
          /\ q.frames = <<>> <=> F = 1
      <4>1. PICK z \in Seq(Nat) : z = k.frames /\ Len(z) = F /\ F >= 1 /\ z # <<>>
        BY <1>2, <1>3
      <4>2. /\ Len(Tail(z)) = F - 1 /\ DOMAIN Tail(z) = 1..(F - 1)
            /\ \A j \in 1..(F - 1) : Tail(z)[j] = z[j + 1]
            /\ Tail(z) \in Seq(Nat)
        <5>1. \A y \in Seq(Nat) : y # <<>> =>
                /\ Tail(y) \in Seq(Nat) /\ Len(Tail(y)) = Len(y) - 1 /\ DOMAIN Tail(y) = 1..(Len(y) - 1)
                /\ \A j \in 1..(Len(y) - 1) : Tail(y)[j] = y[j + 1]
          OBVIOUS
        <5> QED BY <4>1, <5>1
      <4>3. Tail(z) = <<>> <=> F = 1
        <5>1. \A y \in Seq(Nat) : y = <<>> <=> Len(y) = 0
          OBVIOUS
        <5>2. F - 1 = 0 <=> F = 1
          BY <1>n
        <5> QED BY <4>2, <5>1, <5>2
      <4> QED BY <1>7, <2>2, <4>1, <4>2, <4>3
    <3>2. \A j \in DOMAIN q.frames : q.frames[j] = Len(q.log) - Len(q.frames) + j
      <4> TAKE j \in DOMAIN q.frames
      <4>1. j + 1 \in 1..F /\ q.frames[j] = k.frames[j + 1]
        <5>1. j \in 1..(F - 1)
          BY <3>1
        <5> QED BY <1>n, <3>1, <5>1
      <4>2. k.frames[j + 1] = L - F + (j + 1)
        BY <1>4, <4>1
      <4>3. L - F + (j + 1) = L - (F - 1) + j
        BY <3>1
      <4> QED BY <1>3, <1>7, <3>1, <4>1, <4>2, <4>3
    <3>3. Len(q.wire) = s + len
      BY <1>n, <1>8, <2>2
    <3>4. CASE F = 1
      <4>1. f = L /\ k.log # <<>>
        <5>1. f = L
          BY <1>n, <3>4
        <5>2. f \in DOMAIN k.log
          BY <1>3, <1>5
        <5>3. DOMAIN <<>> = {}
          OBVIOUS
        <5> QED BY <5>1, <5>2, <5>3
      <4>2. Accepted(q.log) = s + len
        BY <1>3, <1>5, <1>7, <4>1 DEF Accepted
      <4> QED BY <3>1, <3>2, <3>3, <3>4, <4>2
    <3>5. CASE F # 1
      <4>1. 1 \in 1..(F - 1) /\ 2 \in 1..F
        BY <1>n, <3>5
      <4>2. q.frames[1] = k.frames[2] /\ k.frames[2] = f + 1 /\ f + 1 \in 1..L
        <5>1. q.frames[1] = k.frames[1 + 1]
          BY <3>1, <4>1
        <5>2. k.frames[2] \in 1..L /\ k.frames[2] = L - F + 2
          BY <1>4, <4>1
        <5> QED BY <1>5, <5>1, <5>2
      <4>3. k.log[f + 1].start = s + len
        <5>1. f + 1 # 1 /\ (f + 1) - 1 = f /\ f + 1 \in DOMAIN k.log
          BY <1>3, <4>2
        <5>2. k.log[f + 1].start = k.log[(f + 1) - 1].start + k.log[(f + 1) - 1].len
          BY <5>1 DEF StreamOK
        <5> QED BY <1>5, <5>1, <5>2
      <4>4. Len(q.wire) = q.log[q.frames[1]].start + q.head
        BY <1>5, <1>7, <3>1, <3>3, <4>2, <4>3
      <4> QED BY <3>1, <3>2, <3>5, <4>4
    <3> QED BY <3>4, <3>5
  <2> QED BY <2>1, <2>2
<1>11. q.queued + Len(q.wire) = Accepted(q.log)
  <2>1. k.queued + S = A
    BY <1>3 DEF StreamOK
  <2> QED BY <1>2, <1>3, <1>7, <1>8, <2>1
<1>12. StreamOK(q)
  BY <1>7, <1>9, <1>10, <1>11 DEF StreamOK
<1> QED BY <1>1, <1>12

\* The streams of all clients.
StreamInv == \A c \in Clients : StreamOK(conn[c])

\* Settle keeps a queue or empties it.
LEMMA SettleStream ==
  ASSUME StreamInv, NEW new, Settle(new)
  PROVE  StreamInv'
<1>1. conn' = [c \in Clients |-> IF new[c] # "closed" THEN conn[c] ELSE Fresh]
  BY DEF Settle
<1>2. \A c \in Clients : conn'[c] = conn[c] \/ conn'[c] = Fresh
  BY <1>1
<1> QED BY <1>2, FreshStream DEF StreamInv

\* A queue that is changed for one client.
LEMMA OneStream ==
  ASSUME QueueInv, StreamInv, NEW c, NEW q, conn' = [conn EXCEPT ![c] = q], c \in Clients => StreamOK(q)
  PROVE  StreamInv'
<1>1. \A d \in Clients : conn'[d] = conn[d] \/ (d = c /\ conn'[d] = q)
  BY DEF QueueInv
<1> QED BY <1>1 DEF StreamInv

\* enqueue_for_client for every attached client.
LEMMA AllStream ==
  ASSUME QueueInv, StreamInv, NEW len \in Sizes \cup {NoticeSize},
         conn' = [c \in Clients |-> IF c \in Attached THEN enqueue_for_client(conn[c], len) ELSE conn[c]]
  PROVE  StreamInv'
<1>1. ASSUME NEW c \in Clients PROVE StreamOK(conn'[c])
  <2>1. QueueOK(conn[c]) /\ StreamOK(conn[c])
    BY DEF QueueInv, StreamInv
  <2>2. len \in Nat \ {0} /\ NoticeSize \in Nat \ {0} /\ "notice" \in Kinds /\ "frame" \in Kinds
    BY SizesAssumption DEF Kinds
  <2>3. \/ conn'[c] = conn[c] \/ conn'[c] = push(conn[c], NoticeSize, "notice")
        \/ conn'[c] = push(conn[c], len, "frame")
    BY DEF enqueue_for_client
  <2>4. StreamOK(push(conn[c], NoticeSize, "notice")) /\ StreamOK(push(conn[c], len, "frame"))
    BY <2>1, <2>2, PushStream
  <2> QED BY <2>1, <2>3, <2>4
<1> QED BY <1>1 DEF StreamInv

\* Every step keeps the streams.
LEMMA StreamSteps ==
  ASSUME QueueInv, StreamInv, [Next]_vars
  PROVE  StreamInv'
<1>0. ASSUME UNCHANGED conn PROVE StreamInv'
  BY <1>0 DEF StreamInv
<1>1. CASE WriteSome
  <2>1. PICK n \in 1..left :
          /\ conn[at].head + n <= conn[at].log[Head(conn[at].frames)].len
          /\ conn' = [conn EXCEPT ![at] = Written(conn[at], n)]
    BY <1>1 DEF WriteSome
  <2>2. conn[at].frames # <<>> /\ n \in Nat \ {0}
    BY <1>1 DEF WriteSome
  <2>3. ASSUME at \in Clients PROVE StreamOK(Written(conn[at], n))
    <3>1. QueueOK(conn[at]) /\ StreamOK(conn[at])
      BY <2>3 DEF QueueInv, StreamInv
    <3> QED BY <2>1, <2>2, <3>1, WrittenStream
  <2> QED BY <2>1, <2>3, OneStream
<1>2. CASE WriteFailed
  <2>1. conn' = [conn EXCEPT ![at] = fail]
    BY <1>2 DEF WriteFailed
  <2> QED BY <2>1, FreshStream, OneStream
<1>3. CASE EndWrite
  BY <1>3, SettleStream DEF EndWrite
<1>4. CASE BeginWrite
  BY <1>0, <1>4 DEF BeginWrite
<1>5. CASE FlushDone \/ ClosingDone \/ FlushAgain \/ DrainClosing \/ UpgradeFlushAgain
  BY <1>0, <1>5 DEF FlushDone, ClosingDone, FlushAgain, DrainClosing, UpgradeFlushAgain
<1>6. CASE EndPass \/ RetireAll \/ Finish
  BY <1>6, SettleStream DEF EndPass, RetireAll, Finish
<1>7. CASE NotifyExit
  BY <1>7, AllStream DEF NotifyExit
<1>8. ASSUME NEW len \in Sizes, NEW forgotten \in BOOLEAN, Broadcast(len, forgotten) PROVE StreamInv'
  BY <1>8, AllStream DEF Broadcast
<1>9. ASSUME NEW c \in Clients, NEW len \in Sizes, Reply(c, len) PROVE StreamInv'
  <2>1. conn' = [conn EXCEPT ![c] = push(conn[c], len, "frame")]
    BY <1>9 DEF Reply
  <2>2. QueueOK(conn[c]) /\ StreamOK(conn[c]) /\ len \in Nat \ {0} /\ "frame" \in Kinds
    BY SizesAssumption DEF QueueInv, StreamInv, Kinds
  <2>3. StreamOK(push(conn[c], len, "frame"))
    BY <2>2, PushStream
  <2> QED BY <2>1, <2>3, OneStream
<1>10. ASSUME NEW c \in Clients, InitialRedraw(c) PROVE StreamInv'
  <2>1. conn' = [conn EXCEPT ![c] = IF conn[c].failed THEN conn[c] ELSE push(conn[c], RedrawSize, "redraw")]
    BY <1>10 DEF InitialRedraw
  <2>2. QueueOK(conn[c]) /\ StreamOK(conn[c]) /\ RedrawSize \in Nat \ {0} /\ "redraw" \in Kinds
    BY SizesAssumption DEF QueueInv, StreamInv, Kinds
  <2>3. StreamOK(push(conn[c], RedrawSize, "redraw"))
    BY <2>2, PushStream
  <2>4. StreamOK(IF conn[c].failed THEN conn[c] ELSE push(conn[c], RedrawSize, "redraw"))
    BY <2>2, <2>3
  <2> QED BY <2>1, <2>4, OneStream
<1>11. ASSUME NEW c \in Clients, Detach(c) PROVE StreamInv'
  BY <1>0, <1>11 DEF Detach
<1>12. ASSUME NEW why, BeginEnding(why) PROVE StreamInv'
  BY <1>12, SettleStream DEF BeginEnding
<1>13. CASE Clock \/ Peers \/ UNCHANGED vars
  BY <1>0, <1>13 DEF Clock, Peers, FlushTimeout, CloseTimeout, PeerReads, vars
<1> QED BY <1>1, <1>2, <1>3, <1>4, <1>5, <1>6, <1>7, <1>8, <1>9, <1>10, <1>11, <1>12, <1>13
        DEF Next, Writing, Turning, Working

\* In whatever portions the queues are written, and whenever peers read or fail: each socket
\* has seen the bytes of the accepted frames in order, none lost, repeated or torn, and what
\* is queued, and queued_bytes, is the rest (push, write_to, head_written).
THEOREM WireIntact == Spec => []FramesIntact
<1>1. Init => StreamInv
  BY FreshStream DEF Init, StreamInv
<1>2. QueueInv /\ StreamInv /\ [Next]_vars => StreamInv'
  BY StreamSteps
<1>3. StreamInv => FramesIntact
  BY DEF StreamInv, StreamOK, FramesIntact
<1> QED BY <1>1, <1>2, <1>3, QueueInvHolds, PTL DEF Spec


-----------------------------------------------------------------------------
(* Recorder: what one record has been given and has written.               *)

Pushed == [event : Nat, ok : BOOLEAN]
Dead == {"drained", "limit", "failed", "killed"}
Writers == {"header", "idle", "busy", "drained", "limit", "failed", "killed"}

\* A record started with q, from event f on, asks for the n-th event of h.
Asked(h, q, f, n) == n >= f /\ Record!Wants(q, h[n])

\* The events of a log are asked for and in their order, none is left out before the last
\* one, and none follows a refused one.
LogFine(h, q, f, L) ==
  /\ f \in 1..Len(h)+1
  /\ \A s \in DOMAIN L : L[s].event # 0 =>
       /\ L[s].event \in 1..Len(h) /\ Asked(h, q, f, L[s].event)
       /\ \A m \in 1..L[s].event : Asked(h, q, f, m) => \E t \in 1..s : L[t].event = m
       /\ \A t \in 1..s-1 : L[t].event < L[s].event /\ (L[t].event # 0 => L[t].ok)

\* No event was refused; those up to the n-th that are asked for are in the log.
Clean(L) == \A s \in DOMAIN L : L[s].event # 0 => L[s].ok
Given(h, q, f, L, n) == \A m \in 1..n : Asked(h, q, f, m) => \E s \in DOMAIN L : L[s].event = m

\* The last event is still to be pushed.
Owing(h, q, f, L) ==
  /\ Len(h) >= 1 /\ Asked(h, q, f, Len(h))
  /\ Given(h, q, f, L, Len(h) - 1)
  /\ \A s \in DOMAIN L : L[s].event < Len(h)

\* The queue took event number s, and the format of the file has it.
Has(h, q, L, s) ==
  /\ L[s].ok
  /\ q.format = "raw" => (IF L[s].event = 0 THEN "lifecycle" ELSE h[L[s].event]) \in Record!Bytes

\* The thread is w with k to write: the queue holds what it took, in order, behind k.
QueueFine(L, Q, w, k) ==
  /\ \A j \in DOMAIN Q : Q[j] \in DOMAIN L /\ L[Q[j]].ok
  /\ \A i, j \in DOMAIN Q : i < j => Q[i] < Q[j]
  /\ w = "busy" => k \in DOMAIN L /\ L[k].ok /\ \A j \in DOMAIN Q : k < Q[j]
  /\ w \in Dead => Q = <<>>

\* The first m lines of the file have event number s.
In(F, m, s) == \E i \in 1..m : F[i] = s

FileLines(h, q, L, F) ==
  \A j \in DOMAIN F :
    /\ \A i \in 1..j-1 : F[i] # Record!Torn /\ (F[j] # Record!Torn => F[i] < F[j])
    /\ F[j] # Record!Torn => /\ F[j] \in DOMAIN L /\ Has(h, q, L, F[j])
                      /\ \A t \in 1..F[j] : Has(h, q, L, t) => In(F, j, t)

\* While the thread lives the file is what comes before what it has in its hand and in its
\* queue; in the end of a drained one all is written.
FileFine(h, q, L, Q, w, k, F) ==
  /\ FileLines(h, q, L, F)
  /\ w \notin Dead =>
       /\ \A i \in DOMAIN F : /\ F[i] # Record!Torn
                              /\ \A j \in DOMAIN Q : F[i] < Q[j]
                              /\ w = "busy" => F[i] < k
       /\ \A s \in DOMAIN L : Has(h, q, L, s) =>
            \/ In(F, Len(F), s)
            \/ w = "busy" /\ s = k
            \/ \E j \in DOMAIN Q : Q[j] = s
  /\ w = "drained" => \A s \in DOMAIN L : Has(h, q, L, s) => In(F, Len(F), s)

RecordFine(h, q, f, L, Q, w, k, F) ==
  LogFine(h, q, f, L) /\ QueueFine(L, Q, w, k) /\ FileFine(h, q, L, Q, w, k, F)

-----------------------------------------------------------------------------
(* One record at a time.                                                   *)

\* The session goes on.
LEMMA SessionGoesOn ==
  ASSUME NEW S, NEW h \in Seq(S), NEW x \in S, NEW q, NEW f \in Nat, NEW L \in Seq(Pushed),
         NEW Q \in Seq(Nat), NEW w, NEW k \in Nat, NEW F \in Seq(Nat),
         RecordFine(h, q, f, L, Q, w, k, F)
  PROVE  RecordFine(Append(h, x), q, f, L, Q, w, k, F)
<1> DEFINE g == Append(h, x)
<1>1. /\ g \in Seq(S) /\ Len(g) = Len(h) + 1 /\ \A n \in 1..Len(h) : g[n] = h[n]
  OBVIOUS
<1> HIDE DEF g
<1>2. \A n \in 1..Len(h) : Asked(g, q, f, n) <=> Asked(h, q, f, n)
  BY <1>1 DEF Asked
<1>3. LogFine(h, q, f, L) /\ Len(h) \in Nat /\ \A s \in DOMAIN L : L[s].event \in Nat
  <2>1. \A s \in DOMAIN L : L[s] \in Pushed
    OBVIOUS
  <2> QED BY <2>1 DEF RecordFine, Pushed
<1>4. LogFine(g, q, f, L)
  <2>1. \A s \in DOMAIN L : L[s].event # 0 =>
          /\ L[s].event \in 1..Len(h)
          /\ \A m \in 1..L[s].event : m \in 1..Len(h)
    BY <1>3 DEF LogFine
  <2> QED BY <1>1, <1>2, <1>3, <2>1 DEF LogFine
<1>5. \A s \in DOMAIN L : Has(g, q, L, s) <=> Has(h, q, L, s)
  BY <1>1, <1>3 DEF LogFine, Has
<1>6. FileFine(h, q, L, Q, w, k, F) /\ QueueFine(L, Q, w, k)
  BY DEF RecordFine
<1>7. FileLines(g, q, L, F)
  <2>1. \A j \in DOMAIN F : F[j] # Record!Torn => \A t \in 1..F[j] : t \in DOMAIN L
    BY <1>6 DEF FileFine, FileLines
  <2> QED BY <1>5, <1>6, <2>1 DEF FileFine, FileLines
<1> QED BY <1>4, <1>5, <1>6, <1>7 DEF RecordFine, FileFine, g

\* A push: of the last event that is asked for, or of a notice.
LEMMA LogGrows ==
  ASSUME NEW S, NEW h \in Seq(S), NEW q, NEW f \in Nat, NEW L \in Seq(Pushed), NEW b \in BOOLEAN,
         NEW e \in Nat, e = 0 \/ (e = Len(h) /\ Clean(L) /\ Owing(h, q, f, L)),
         LogFine(h, q, f, L)
  PROVE  LogFine(h, q, f, Append(L, [event |-> e, ok |-> b]))
<1> DEFINE M == Append(L, [event |-> e, ok |-> b])
<1>1. /\ M \in Seq(Pushed) /\ Len(M) = Len(L) + 1 /\ \A s \in 1..Len(L) : M[s] = L[s]
      /\ M[Len(L) + 1].event = e /\ Len(L) \in Nat /\ Len(h) \in Nat
      /\ DOMAIN M = 1..Len(L)+1 /\ DOMAIN L = 1..Len(L)
      /\ \A s \in DOMAIN L : L[s].event \in Nat
  <2>1. [event |-> e, ok |-> b] \in Pushed
    BY DEF Pushed
  <2>2. /\ M \in Seq(Pushed) /\ Len(M) = Len(L) + 1 /\ \A s \in 1..Len(L) : M[s] = L[s]
        /\ M[Len(L) + 1] = [event |-> e, ok |-> b] /\ Len(L) \in Nat /\ Len(h) \in Nat
        /\ DOMAIN M = 1..Len(L)+1 /\ DOMAIN L = 1..Len(L)
    BY <2>1
  <2>3. \A s \in DOMAIN L : L[s] \in Pushed
    OBVIOUS
  <2> QED BY <2>2, <2>3 DEF Pushed
<1> HIDE DEF M
<1>2. SUFFICES ASSUME NEW s \in DOMAIN M, M[s].event # 0
               PROVE  /\ M[s].event \in 1..Len(h) /\ Asked(h, q, f, M[s].event)
                      /\ \A m \in 1..M[s].event : Asked(h, q, f, m) => \E t \in 1..s : M[t].event = m
                      /\ \A t \in 1..s-1 : M[t].event < M[s].event /\ (M[t].event # 0 => M[t].ok)
  BY DEF LogFine, M
<1>3. CASE s \in DOMAIN L
  <2>1. M[s] = L[s] /\ s \in 1..Len(L) /\ L[s].event # 0
    BY <1>1, <1>2, <1>3
  <2>2. \A t \in 1..s : M[t] = L[t]
    BY <1>1, <2>1
  <2>3. /\ L[s].event \in 1..Len(h) /\ Asked(h, q, f, L[s].event)
        /\ \A m \in 1..L[s].event : Asked(h, q, f, m) => \E t \in 1..s : L[t].event = m
        /\ \A t \in 1..s-1 : L[t].event < L[s].event /\ (L[t].event # 0 => L[t].ok)
    BY <1>3, <2>1 DEF LogFine
  <2>4. \A t \in 1..s-1 : t \in 1..s
    BY <2>1, <1>1
  <2> QED BY <2>1, <2>2, <2>3, <2>4
<1>4. CASE s = Len(L) + 1
  <2>1. M[s].event = e /\ e = Len(h) /\ e # 0 /\ Clean(L) /\ Owing(h, q, f, L)
    BY <1>1, <1>2, <1>4
  <2>2. Asked(h, q, f, e) /\ e \in 1..Len(h)
    BY <1>1, <2>1 DEF Owing
  <2>3. ASSUME NEW m \in 1..e, Asked(h, q, f, m)
        PROVE  \E t \in 1..s : M[t].event = m
    <3>1. CASE m = e
      BY <1>1, <1>4, <2>1, <3>1
    <3>2. CASE m # e
      <4>1. m \in 1..Len(h)-1
        BY <1>1, <2>1, <3>2
      <4>2. PICK t \in DOMAIN L : L[t].event = m
        BY <2>1, <2>3, <4>1 DEF Owing, Given
      <4> QED BY <1>1, <1>4, <4>2
    <3> QED BY <3>1, <3>2
  <2>4. \A t \in 1..s-1 : t \in DOMAIN L /\ M[t] = L[t]
    BY <1>1, <1>4
  <2> QED BY <2>1, <2>2, <2>3, <2>4 DEF Owing, Clean
<1> QED BY <1>1, <1>3, <1>4

\* What the queue takes is behind all that it and its thread hold.
LEMMA RecordTakes ==
  ASSUME NEW h, NEW q, NEW f, NEW L \in Seq(Pushed), NEW Q \in Seq(Nat), NEW w,
         NEW k \in Nat, NEW F \in Seq(Nat), NEW e \in Nat, w \notin Dead,
         QueueFine(L, Q, w, k), FileFine(h, q, L, Q, w, k, F)
  PROVE  /\ QueueFine(Append(L, [event |-> e, ok |-> TRUE]), Append(Q, Len(L) + 1), w, k)
         /\ FileFine(h, q, Append(L, [event |-> e, ok |-> TRUE]), Append(Q, Len(L) + 1), w, k, F)
<1> DEFINE M == Append(L, [event |-> e, ok |-> TRUE])
           P == Append(Q, Len(L) + 1)
<1>1. [event |-> e, ok |-> TRUE] \in Pushed
  BY DEF Pushed
<1>2. /\ M \in Seq(Pushed) /\ Len(L) \in Nat /\ DOMAIN L = 1..Len(L) /\ DOMAIN M = 1..Len(L)+1
      /\ \A s \in 1..Len(L) : M[s] = L[s]
      /\ M[Len(L) + 1] = [event |-> e, ok |-> TRUE]
  BY <1>1
<1>3. /\ P \in Seq(Nat) /\ Len(Q) \in Nat /\ DOMAIN Q = 1..Len(Q) /\ DOMAIN P = 1..Len(Q)+1
      /\ \A j \in 1..Len(Q) : P[j] = Q[j]
      /\ P[Len(Q) + 1] = Len(L) + 1
  BY <1>2
<1>4. M[Len(L) + 1].ok
  BY <1>2
<1> HIDE DEF M, P
<1>5. \A j \in DOMAIN Q : Q[j] \in 1..Len(L) /\ L[Q[j]].ok
  BY <1>2 DEF QueueFine
<1>6. w = "busy" => k \in 1..Len(L) /\ L[k].ok /\ \A j \in DOMAIN Q : k < Q[j]
  BY <1>2 DEF QueueFine
<1>7. QueueFine(M, P, w, k)
  <2>1. ASSUME NEW j \in DOMAIN P
        PROVE  P[j] \in DOMAIN M /\ M[P[j]].ok
    <3>1. CASE j \in 1..Len(Q)
      <4>1. P[j] = Q[j] /\ Q[j] \in 1..Len(L) /\ L[Q[j]].ok
        BY <1>3, <1>5, <3>1
      <4> QED BY <1>2, <4>1
    <3>2. CASE j = Len(Q) + 1
      <4>1. P[j] = Len(L) + 1
        BY <1>3, <3>2
      <4> QED BY <1>2, <1>4, <4>1
    <3> QED BY <1>3, <3>1, <3>2
  <2>2. ASSUME NEW i \in DOMAIN P, NEW j \in DOMAIN P, i < j
        PROVE  P[i] < P[j]
    <3>1. i \in 1..Len(Q) /\ P[i] = Q[i]
      BY <1>3, <2>2
    <3>2. CASE j \in 1..Len(Q)
      BY <1>3, <2>2, <3>1, <3>2 DEF QueueFine
    <3>3. CASE j = Len(Q) + 1
      BY <1>2, <1>3, <1>5, <3>1, <3>3
    <3> QED BY <1>3, <3>2, <3>3
  <2>3. ASSUME w = "busy"
        PROVE  k \in DOMAIN M /\ M[k].ok /\ \A j \in DOMAIN P : k < P[j]
    <3>1. k \in 1..Len(L) /\ M[k] = L[k] /\ L[k].ok
      BY <1>2, <1>6, <2>3
    <3>2. ASSUME NEW j \in DOMAIN P
          PROVE  k < P[j]
      <4>1. CASE j \in 1..Len(Q)
        BY <1>3, <1>6, <2>3, <4>1
      <4>2. CASE j = Len(Q) + 1
        <5>1. P[j] = Len(L) + 1
          BY <1>3, <4>2
        <5> QED BY <1>2, <3>1, <5>1
      <4> QED BY <1>3, <4>1, <4>2
    <3> QED BY <1>2, <3>1, <3>2
  <2> QED BY <2>1, <2>2, <2>3 DEF QueueFine
<1>8. \A s \in DOMAIN L : s \in DOMAIN M /\ (Has(h, q, M, s) <=> Has(h, q, L, s))
  BY <1>2 DEF Has
<1>9. FileLines(h, q, L, F)
  BY DEF FileFine
<1>10. \A j \in DOMAIN F : F[j] # Record!Torn => F[j] \in 1..Len(L) /\ \A t \in 1..F[j] : t \in 1..Len(L)
  BY <1>2, <1>9 DEF FileLines
<1>11. FileLines(h, q, M, F)
  BY <1>2, <1>8, <1>9, <1>10 DEF FileLines
<1>12. \A i \in DOMAIN F : /\ F[i] # Record!Torn
                           /\ \A j \in DOMAIN P : F[i] < P[j]
                           /\ w = "busy" => F[i] < k
  <2>1. \A i \in DOMAIN F : /\ F[i] # Record!Torn
                            /\ \A j \in DOMAIN Q : F[i] < Q[j]
                            /\ w = "busy" => F[i] < k
    BY DEF FileFine
  <2>2. ASSUME NEW i \in DOMAIN F, NEW j \in DOMAIN P
        PROVE  F[i] < P[j]
    <3>1. F[i] \in 1..Len(L)
      BY <1>10, <2>1
    <3>2. CASE j \in 1..Len(Q)
      BY <1>3, <2>1, <3>2
    <3>3. CASE j = Len(Q) + 1
      <4>1. P[j] = Len(L) + 1
        BY <1>3, <3>3
      <4> QED BY <1>2, <3>1, <4>1
    <3> QED BY <1>3, <3>2, <3>3
  <2> QED BY <2>1, <2>2
<1>13. ASSUME NEW s \in DOMAIN M, Has(h, q, M, s)
       PROVE  \/ In(F, Len(F), s)
              \/ w = "busy" /\ s = k
              \/ \E j \in DOMAIN P : P[j] = s
  <2>1. CASE s \in DOMAIN L
    <3>1. \/ In(F, Len(F), s)
          \/ w = "busy" /\ s = k
          \/ \E j \in DOMAIN Q : Q[j] = s
      BY <1>8, <1>13, <2>1 DEF FileFine
    <3>2. \A j \in DOMAIN Q : j \in DOMAIN P /\ P[j] = Q[j]
      BY <1>3
    <3> QED BY <3>1, <3>2
  <2>2. CASE s = Len(L) + 1
    BY <1>3, <2>2
  <2> QED BY <1>2, <2>1, <2>2
<1>14. w # "drained"
  BY DEF Dead
<1> QED BY <1>7, <1>11, <1>12, <1>13, <1>14 DEF FileFine, M, P

\* A refused push leaves the queue and the file as they are.
LEMMA RecordRefuses ==
  ASSUME NEW h, NEW q, NEW f, NEW L \in Seq(Pushed), NEW Q \in Seq(Nat), NEW w,
         NEW k \in Nat, NEW F \in Seq(Nat), NEW e \in Nat,
         QueueFine(L, Q, w, k), FileFine(h, q, L, Q, w, k, F)
  PROVE  /\ QueueFine(Append(L, [event |-> e, ok |-> FALSE]), Q, w, k)
         /\ FileFine(h, q, Append(L, [event |-> e, ok |-> FALSE]), Q, w, k, F)
<1> DEFINE M == Append(L, [event |-> e, ok |-> FALSE])
<1>1. [event |-> e, ok |-> FALSE] \in Pushed
  BY DEF Pushed
<1>2. /\ M \in Seq(Pushed) /\ Len(L) \in Nat /\ DOMAIN L = 1..Len(L) /\ DOMAIN M = 1..Len(L)+1
      /\ \A s \in 1..Len(L) : M[s] = L[s]
      /\ M[Len(L) + 1] = [event |-> e, ok |-> FALSE]
  BY <1>1
<1>3. ~M[Len(L) + 1].ok
  BY <1>2
<1> HIDE DEF M
<1>4. QueueFine(M, Q, w, k)
  BY <1>2 DEF QueueFine
<1>5. \A s \in DOMAIN L : s \in DOMAIN M /\ (Has(h, q, M, s) <=> Has(h, q, L, s))
  BY <1>2 DEF Has
<1>6. FileLines(h, q, L, F)
  BY DEF FileFine
<1>7. \A j \in DOMAIN F : F[j] # Record!Torn => F[j] \in DOMAIN L /\ \A t \in 1..F[j] : t \in DOMAIN L
  BY <1>2, <1>6 DEF FileLines
<1>8. FileLines(h, q, M, F)
  BY <1>5, <1>6, <1>7 DEF FileLines
<1>9. \A s \in DOMAIN M : Has(h, q, M, s) => s \in DOMAIN L /\ Has(h, q, L, s)
  BY <1>2, <1>3, <1>5 DEF Has
<1> QED BY <1>4, <1>8, <1>9 DEF FileFine, M

\* The last line may be torn.
LEMMA LineTorn ==
  ASSUME NEW h, NEW q, NEW L, NEW F \in Seq(Nat), FileLines(h, q, L, F),
         \A i \in DOMAIN F : F[i] # Record!Torn
  PROVE  Append(F, Record!Torn) \in Seq(Nat) /\ FileLines(h, q, L, Append(F, Record!Torn))
<1> DEFINE G == Append(F, Record!Torn)
<1>1. /\ G \in Seq(Nat) /\ Len(F) \in Nat /\ DOMAIN F = 1..Len(F) /\ DOMAIN G = 1..Len(F)+1
      /\ \A j \in 1..Len(F) : G[j] = F[j]
      /\ G[Len(F) + 1] = Record!Torn
  BY DEF Record!Torn
<1> HIDE DEF G
<1>2. ASSUME NEW j \in DOMAIN G
      PROVE  /\ \A i \in 1..j-1 : G[i] # Record!Torn /\ (G[j] # Record!Torn => G[i] < G[j])
             /\ G[j] # Record!Torn => /\ G[j] \in DOMAIN L /\ Has(h, q, L, G[j])
                               /\ \A t \in 1..G[j] : Has(h, q, L, t) => In(G, j, t)
  <2>1. CASE j \in 1..Len(F)
    <3>1. G[j] = F[j] /\ \A i \in 1..j : G[i] = F[i]
      BY <1>1, <2>1
    <3>2. \A t : In(G, j, t) <=> In(F, j, t)
      BY <3>1 DEF In
    <3>3. \A i \in 1..j-1 : i \in 1..j
      BY <1>1, <2>1
    <3> QED BY <1>1, <2>1, <3>1, <3>2, <3>3 DEF FileLines
  <2>2. CASE j = Len(F) + 1
    <3>1. \A i \in 1..j-1 : i \in DOMAIN F /\ G[i] = F[i]
      BY <1>1, <2>2
    <3> QED BY <1>1, <2>2, <3>1
  <2> QED BY <1>1, <2>1, <2>2
<1> QED BY <1>1, <1>2 DEF FileLines, G

\* The line of the event in hand: it is behind those of the file, and every earlier one that
\* the queue took is in the file.
LEMMA LineWritten ==
  ASSUME NEW h, NEW q, NEW f, NEW L \in Seq(Pushed), NEW Q \in Seq(Nat), NEW k \in Nat,
         NEW F \in Seq(Nat), QueueFine(L, Q, "busy", k), FileFine(h, q, L, Q, "busy", k, F),
         Has(h, q, L, k)
  PROVE  Append(F, k) \in Seq(Nat) /\ FileLines(h, q, L, Append(F, k))
<1> DEFINE G == Append(F, k)
<1>1. /\ G \in Seq(Nat) /\ Len(F) \in Nat /\ DOMAIN F = 1..Len(F) /\ DOMAIN G = 1..Len(F)+1
      /\ \A j \in 1..Len(F) : G[j] = F[j]
      /\ G[Len(F) + 1] = k
  OBVIOUS
<1> HIDE DEF G
<1>2. k \in DOMAIN L /\ \A j \in DOMAIN Q : k < Q[j]
  BY DEF QueueFine
<1>3. FileLines(h, q, L, F) /\ \A i \in DOMAIN F : F[i] # Record!Torn /\ F[i] < k
  BY DEF FileFine, Dead
<1>4. \A t \in DOMAIN L : Has(h, q, L, t) =>
        In(F, Len(F), t) \/ t = k \/ \E j \in DOMAIN Q : Q[j] = t
  BY DEF FileFine, Dead
<1>5. ASSUME NEW j \in DOMAIN G
      PROVE  /\ \A i \in 1..j-1 : G[i] # Record!Torn /\ (G[j] # Record!Torn => G[i] < G[j])
             /\ G[j] # Record!Torn => /\ G[j] \in DOMAIN L /\ Has(h, q, L, G[j])
                               /\ \A t \in 1..G[j] : Has(h, q, L, t) => In(G, j, t)
  <2>1. CASE j \in 1..Len(F)
    <3>1. G[j] = F[j] /\ \A i \in 1..j : G[i] = F[i]
      BY <1>1, <2>1
    <3>2. \A t : In(G, j, t) <=> In(F, j, t)
      BY <3>1 DEF In
    <3>3. \A i \in 1..j-1 : i \in 1..j
      BY <1>1, <2>1
    <3> QED BY <1>1, <1>3, <2>1, <3>1, <3>2, <3>3 DEF FileLines
  <2>2. CASE j = Len(F) + 1
    <3>1. \A i \in 1..j-1 : i \in DOMAIN F /\ G[i] = F[i]
      BY <1>1, <2>2
    <3>2. G[j] = k
      BY <1>1, <2>2
    <3>3. ASSUME NEW t \in 1..k, Has(h, q, L, t)
          PROVE  In(G, j, t)
      <4>1. t \in DOMAIN L /\ \A i \in DOMAIN Q : Q[i] # t
        BY <1>2, <3>3
      <4>2. CASE In(F, Len(F), t)
        BY <1>1, <2>2, <4>2 DEF In
      <4>3. CASE t = k
        BY <1>1, <2>2, <4>3 DEF In
      <4> QED BY <1>4, <3>3, <4>1, <4>2, <4>3
    <3> QED BY <1>2, <1>3, <3>1, <3>2, <3>3
  <2> QED BY <1>1, <2>1, <2>2
<1> QED BY <1>1, <1>5 DEF FileLines, G

\* recv
LEMMA RecordReceives ==
  ASSUME NEW h, NEW q, NEW L \in Seq(Pushed), NEW Q \in Seq(Nat), NEW k \in Nat, NEW F \in Seq(Nat),
         QueueFine(L, Q, "idle", k), FileFine(h, q, L, Q, "idle", k, F), Q # <<>>
  PROVE  /\ QueueFine(L, Tail(Q), "busy", Head(Q))
         /\ FileFine(h, q, L, Tail(Q), "busy", Head(Q), F)
         /\ Tail(Q) \in Seq(Nat) /\ Head(Q) \in Nat
<1> DEFINE P == Tail(Q)
           n == Head(Q)
<1>1. /\ P \in Seq(Nat) /\ Len(Q) \in Nat \ {0} /\ DOMAIN Q = 1..Len(Q) /\ DOMAIN P = 1..Len(Q)-1
      /\ \A j \in 1..Len(Q)-1 : P[j] = Q[j + 1]
      /\ n = Q[1] /\ n \in Nat
  OBVIOUS
<1> HIDE DEF P, n
<1>2. /\ \A j \in DOMAIN Q : Q[j] \in DOMAIN L /\ L[Q[j]].ok
      /\ \A i, j \in DOMAIN Q : i < j => Q[i] < Q[j]
  BY DEF QueueFine
<1>3. ASSUME NEW j \in DOMAIN P
      PROVE  j + 1 \in DOMAIN Q /\ P[j] = Q[j + 1] /\ 1 < j + 1
  <2>1. j \in 1..Len(Q)-1 /\ Len(Q) \in Nat
    BY <1>1
  <2>2. j + 1 \in 1..Len(Q) /\ 1 < j + 1
    BY <2>1
  <2>3. P[j] = Q[j + 1]
    BY <1>1, <2>1
  <2> QED BY <1>1, <2>2, <2>3
<1>4. 1 \in DOMAIN Q
  BY <1>1
<1>5. QueueFine(L, P, "busy", n)
  <2>1. \A j \in DOMAIN P : n < P[j] /\ P[j] \in DOMAIN L /\ L[P[j]].ok
    BY <1>1, <1>2, <1>3, <1>4
  <2>2. ASSUME NEW i \in DOMAIN P, NEW j \in DOMAIN P, i < j
        PROVE  P[i] < P[j]
    <3>1. i + 1 < j + 1
      BY <1>1, <2>2
    <3> QED BY <1>2, <1>3, <3>1
  <2> QED BY <1>1, <1>2, <1>4, <2>1, <2>2 DEF QueueFine, Dead
<1>6. ASSUME NEW s \in DOMAIN L, Has(h, q, L, s)
      PROVE  In(F, Len(F), s) \/ s = n \/ \E j \in DOMAIN P : P[j] = s
  <2>1. In(F, Len(F), s) \/ \E j \in DOMAIN Q : Q[j] = s
    BY <1>6 DEF FileFine, Dead
  <2>2. ASSUME NEW j \in DOMAIN Q, Q[j] = s
        PROVE  s = n \/ \E i \in DOMAIN P : P[i] = s
    <3>1. CASE j = 1
      BY <1>1, <2>2, <3>1
    <3>2. CASE j # 1
      <4>1. j - 1 \in DOMAIN P /\ P[j - 1] = Q[(j - 1) + 1] /\ (j - 1) + 1 = j
        BY <1>1, <3>2
      <4> QED BY <2>2, <4>1
    <3> QED BY <3>1, <3>2
  <2> QED BY <2>1, <2>2
<1>7. \A i \in DOMAIN F : F[i] # Record!Torn /\ F[i] < n /\ \A j \in DOMAIN P : F[i] < P[j]
  BY <1>1, <1>3, <1>4 DEF FileFine, Dead
<1> QED BY <1>1, <1>5, <1>6, <1>7 DEF FileFine, Dead, P, n

\* handle_one_event
LEMMA RecordWrites ==
  ASSUME NEW h, NEW q, NEW f, NEW L \in Seq(Pushed), NEW Q \in Seq(Nat), NEW k \in Nat,
         NEW F \in Seq(Nat), QueueFine(L, Q, "busy", k), FileFine(h, q, L, Q, "busy", k, F),
         NEW G, G = IF Has(h, q, L, k) THEN Append(F, k) ELSE F
  PROVE  /\ G \in Seq(Nat) /\ FileLines(h, q, L, G)
         /\ QueueFine(L, Q, "idle", Record!Torn) /\ FileFine(h, q, L, Q, "idle", Record!Torn, G)
<1>1. QueueFine(L, Q, "idle", Record!Torn)
  BY DEF QueueFine, Dead
<1>2. G \in Seq(Nat) /\ FileLines(h, q, L, G)
  BY LineWritten DEF FileFine
<1>3. /\ Len(F) \in Nat /\ DOMAIN F = 1..Len(F) /\ Len(F) <= Len(G) /\ Len(G) \in Nat
      /\ \A i \in 1..Len(F) : G[i] = F[i]
      /\ Has(h, q, L, k) => Len(G) = Len(F) + 1 /\ G[Len(F) + 1] = k
      /\ DOMAIN G = 1..Len(G)
      /\ \A i \in DOMAIN G : i \in 1..Len(F) \/ (Has(h, q, L, k) /\ i = Len(F) + 1)
  <2>1. CASE Has(h, q, L, k)
    BY <2>1
  <2>2. CASE ~Has(h, q, L, k)
    BY <2>2
  <2> QED BY <2>1, <2>2
<1>4. k \in DOMAIN L /\ DOMAIN L = 1..Len(L) /\ \A j \in DOMAIN Q : k < Q[j]
  BY DEF QueueFine
<1>5. ASSUME NEW i \in DOMAIN G
      PROVE  G[i] # Record!Torn /\ \A j \in DOMAIN Q : G[i] < Q[j]
  <2>1. CASE i \in 1..Len(F)
    BY <1>3, <2>1 DEF FileFine, Dead
  <2>2. CASE Has(h, q, L, k) /\ i = Len(F) + 1
    BY <1>3, <1>4, <2>2 DEF Record!Torn
  <2> QED BY <1>3, <2>1, <2>2
<1>6. ASSUME NEW s \in DOMAIN L, Has(h, q, L, s)
      PROVE  In(G, Len(G), s) \/ \E j \in DOMAIN Q : Q[j] = s
  <2>1. In(F, Len(F), s) \/ s = k \/ \E j \in DOMAIN Q : Q[j] = s
    BY <1>6 DEF FileFine, Dead
  <2>2. CASE In(F, Len(F), s)
    BY <1>3, <2>2 DEF In
  <2>3. CASE s = k
    BY <1>3, <1>6, <2>3 DEF In
  <2> QED BY <2>1, <2>2, <2>3
<1> QED BY <1>1, <1>2, <1>5, <1>6 DEF FileFine, Dead

\* The thread has ended, by a limit, an error or with the daemon: the file stays as it is.
LEMMA RecordEnds ==
  ASSUME NEW h, NEW q, NEW L, NEW F, NEW w \in Dead \ {"drained"}, NEW k,
         FileLines(h, q, L, F)
  PROVE  QueueFine(L, <<>>, w, k) /\ FileFine(h, q, L, <<>>, w, k, F)
BY DEF QueueFine, FileFine, Dead

\* The thread has ended because the sender is gone and the queue is empty.
LEMMA RecordDrains ==
  ASSUME NEW h, NEW q, NEW L, NEW F, NEW k, NEW n,
         FileFine(h, q, L, <<>>, "idle", k, F)
  PROVE  QueueFine(L, <<>>, "drained", n) /\ FileFine(h, q, L, <<>>, "drained", n, F)
BY DEF QueueFine, FileFine, Dead

\* The header is written.
LEMMA RecordBegins ==
  ASSUME NEW h, NEW q, NEW L, NEW Q, NEW F, NEW k, NEW n,
         QueueFine(L, Q, "header", k), FileFine(h, q, L, Q, "header", k, F)
  PROVE  QueueFine(L, Q, "idle", n) /\ FileFine(h, q, L, Q, "idle", n, F)
BY DEF QueueFine, FileFine, Dead

\* A new record has nothing.
LEMMA RecordStarts ==
  ASSUME NEW S, NEW h \in Seq(S), NEW q, NEW k
  PROVE  RecordFine(h, q, Len(h) + 1, <<>>, <<>>, "header", k, <<>>)
BY DEF RecordFine, LogFine, QueueFine, FileFine, FileLines, Dead

\* LogFine and the order of the file give the events of the file.
LEMMA EventsInOrder ==
  ASSUME NEW S, NEW h \in Seq(S), NEW q, NEW f \in Nat, NEW L \in Seq(Pushed), NEW F \in Seq(Nat),
         LogFine(h, q, f, L), FileLines(h, q, L, F),
         NEW j \in DOMAIN F, F[j] # Record!Torn, L[F[j]].event # 0
  PROVE  LET n == L[F[j]].event
             wanted(m) == Asked(h, q, f, m) /\ (q.format = "raw" => h[m] \in Record!Bytes)
         IN /\ n \in 1..Len(h) /\ wanted(n)
            /\ \A m \in 1..n : wanted(m) => \E i \in 1..j : L[F[i]].event = m
            /\ \A i \in 1..j-1 : L[F[i]].event < n
<1> DEFINE n == L[F[j]].event
           wanted(m) == Asked(h, q, f, m) /\ (q.format = "raw" => h[m] \in Record!Bytes)
<1>1. /\ F[j] \in DOMAIN L /\ Has(h, q, L, F[j])
      /\ \A t \in 1..F[j] : Has(h, q, L, t) => In(F, j, t)
      /\ \A i \in 1..j-1 : F[i] # Record!Torn /\ F[i] < F[j]
      /\ j \in 1..Len(F) /\ DOMAIN L = 1..Len(L) /\ Len(L) \in Nat
  <2>1. j \in 1..Len(F) /\ DOMAIN L = 1..Len(L) /\ Len(L) \in Nat
    OBVIOUS
  <2>2. /\ \A i \in 1..j-1 : F[i] # Record!Torn /\ (F[j] # Record!Torn => F[i] < F[j])
        /\ F[j] # Record!Torn => /\ F[j] \in DOMAIN L /\ Has(h, q, L, F[j])
                          /\ \A t \in 1..F[j] : Has(h, q, L, t) => In(F, j, t)
    BY DEF FileLines
  <2> QED BY <2>1, <2>2
<1>2. /\ n \in 1..Len(h) /\ Asked(h, q, f, n)
      /\ \A m \in 1..n : Asked(h, q, f, m) => \E t \in 1..F[j] : L[t].event = m
      /\ \A t \in 1..F[j]-1 : L[t].event < n /\ (L[t].event # 0 => L[t].ok)
  BY <1>1 DEF LogFine
<1>3. wanted(n)
  BY <1>1, <1>2 DEF Has
<1>4. ASSUME NEW m \in 1..n, wanted(m)
      PROVE  \E i \in 1..j : L[F[i]].event = m
  <2>1. PICK t \in 1..F[j] : L[t].event = m
    BY <1>2, <1>4
  <2>2. L[t].ok
    <3>1. CASE t = F[j]
      BY <1>1, <3>1 DEF Has
    <3>2. CASE t # F[j]
      <4>1. t \in 1..F[j]-1 /\ L[t].event # 0
        BY <1>1, <1>2, <2>1, <3>2
      <4> QED BY <1>2, <4>1
    <3> QED BY <3>1, <3>2
  <2>3. m # 0
    BY <1>2
  <2>4. Has(h, q, L, t)
    BY <1>4, <2>1, <2>2, <2>3 DEF Has
  <2>5. PICK i \in 1..j : F[i] = t
    BY <1>1, <2>4 DEF In
  <2> QED BY <2>1, <2>5
<1>5. ASSUME NEW i \in 1..j-1
      PROVE  L[F[i]].event < n
  <2>1. i \in DOMAIN F /\ F[i] \in Nat /\ F[i] # 0 /\ F[i] < F[j]
    BY <1>1 DEF Record!Torn
  <2>2. F[i] \in 1..F[j]-1
    BY <1>1, <2>1
  <2> QED BY <1>2, <2>2
<1> QED BY <1>2, <1>3, <1>4, <1>5

-----------------------------------------------------------------------------
(* The inductive invariant of Recorder.                                    *)

Made == 1..next_id-1

RecordTypeOK ==
  /\ next_id \in Nat \ {0}
  /\ history \in Seq(EventKinds) /\ request \in Seq(Requests) /\ from \in Seq(Nat)
  /\ log \in Seq(Seq(Pushed)) /\ queue \in Seq(Seq(Nat)) /\ open \in Seq(BOOLEAN)
  /\ writer \in Seq(Writers) /\ work \in Seq(Nat) /\ file \in Seq(Seq(Nat))
  /\ Len(request) = next_id-1 /\ Len(from) = next_id-1 /\ Len(log) = next_id-1
  /\ Len(queue) = next_id-1 /\ Len(open) = next_id-1 /\ Len(writer) = next_id-1
  /\ Len(work) = next_id-1 /\ Len(file) = next_id-1
  /\ sinks \subseteq Made /\ record_todo \subseteq Made
  /\ aborted \subseteq Made /\ record_leaving \subseteq Made

RecordLoopOK ==
  /\ record_pc = "serve" => aborted = {}
  /\ record_pc = "push" => record_todo \subseteq sinks \ aborted
  /\ record_pc = "abort" => aborted # {}
  /\ record_pc \in {"notify", "join"} => record_leaving # {}

\* A record of the registry that has not refused an event has all up to now, apart from the
\* one that is still to be pushed to it.
SinkFine(r) ==
  /\ Clean(log[r])
  /\ IF record_pc = "push" /\ r \in record_todo
     THEN Owing(history, request[r], from[r], log[r])
     ELSE Given(history, request[r], from[r], log[r], Len(history))

RFine(r) ==
  RecordFine(history, request[r], from[r], log[r], queue[r], writer[r], work[r], file[r])

RecordInv ==
  /\ RecordTypeOK /\ RecordLoopOK
  /\ \A r \in Made : RFine(r)
  /\ \A r \in sinks \ aborted : SinkFine(r)

\* First picks a member.
LEMMA FirstOne ==
  ASSUME NEW S, S \subseteq Nat, S # {}
  PROVE  Record!First(S) \in S
<1>1. \E r \in S : \A q \in S : r <= q
  <2>1. PICK r \in S : \A q \in S : ~(<<q, r>> \in OpToRel(<, Nat))
    BY NatLessThanWellFounded, WFMin
  <2>2. \A q \in S : ~(q < r)
    BY <2>1 DEF OpToRel
  <2> QED BY <2>2
<1> QED BY <1>1 DEF Record!First

\* One place of a sequence is replaced.
LEMMA Replaced ==
  ASSUME NEW S, NEW s \in Seq(S), NEW i \in 1..Len(s), NEW x \in S
  PROVE  /\ [s EXCEPT ![i] = x] \in Seq(S) /\ Len([s EXCEPT ![i] = x]) = Len(s)
         /\ [s EXCEPT ![i] = x][i] = x
         /\ \A j \in 1..Len(s) \ {i} : [s EXCEPT ![i] = x][j] = s[j]
OBVIOUS

\* A member of a sequence.
LEMMA Member ==
  ASSUME NEW S, NEW s \in Seq(S), NEW i \in 1..Len(s)
  PROVE  s[i] \in S
OBVIOUS

\* The thread of r goes on.
LEMMA ThreadIs ==
  ASSUME RecordTypeOK, NEW r \in Made, NEW how \in Writers, NEW s \in Nat, Record!WriterIs(r, how, s),
         how = "busy" => queue[r] # <<>>
  PROVE  /\ writer' \in Seq(Writers) /\ work' \in Seq(Nat) /\ queue' \in Seq(Seq(Nat))
         /\ Len(writer') = next_id-1 /\ Len(work') = next_id-1 /\ Len(queue') = next_id-1
         /\ writer'[r] = how /\ work'[r] = s
         /\ queue'[r] = (IF how = "busy" THEN Tail(queue[r]) ELSE IF how = "idle" THEN queue[r] ELSE <<>>)
         /\ \A q \in Made \ {r} : writer'[q] = writer[q] /\ work'[q] = work[q] /\ queue'[q] = queue[q]
<1> DEFINE rest == CASE how = "busy" -> Tail(queue[r]) [] how = "idle" -> queue[r] [] OTHER -> <<>>
<1>1. r \in 1..Len(writer) /\ r \in 1..Len(work) /\ r \in 1..Len(queue)
  BY DEF RecordTypeOK, Made
<1>2. queue[r] \in Seq(Nat)
  BY <1>1 DEF RecordTypeOK
<1>3. rest = (IF how = "busy" THEN Tail(queue[r]) ELSE IF how = "idle" THEN queue[r] ELSE <<>>)
  OBVIOUS
<1>4. rest \in Seq(Nat)
  BY <1>2, <1>3
<1>5. /\ writer' = [writer EXCEPT ![r] = how] /\ work' = [work EXCEPT ![r] = s]
      /\ queue' = [queue EXCEPT ![r] = rest]
  BY DEF Record!WriterIs
<1> HIDE DEF rest
<1>a. writer \in Seq(Writers) /\ work \in Seq(Nat) /\ queue \in Seq(Seq(Nat))
  BY DEF RecordTypeOK
<1>6. writer' \in Seq(Writers) /\ Len(writer') = Len(writer) /\ writer'[r] = how
      /\ \A q \in 1..Len(writer) \ {r} : writer'[q] = writer[q]
  BY <1>1, <1>5, <1>a, Replaced
<1>7. work' \in Seq(Nat) /\ Len(work') = Len(work) /\ work'[r] = s
      /\ \A q \in 1..Len(work) \ {r} : work'[q] = work[q]
  BY <1>1, <1>5, <1>a, Replaced
<1>8. queue' \in Seq(Seq(Nat)) /\ Len(queue') = Len(queue) /\ queue'[r] = rest
      /\ \A q \in 1..Len(queue) \ {r} : queue'[q] = queue[q]
  BY <1>1, <1>4, <1>5, <1>a, Replaced
<1> QED BY <1>3, <1>6, <1>7, <1>8 DEF RecordTypeOK, Made

\* What a thread does concerns its record alone.
LEMMA ThreadKeeps ==
  ASSUME RecordInv, NEW r \in Made, UNCHANGED <<history, Record!started, sinks, log, open, Record!loop>>,
         writer' \in Seq(Writers), work' \in Seq(Nat), queue' \in Seq(Seq(Nat)), file' \in Seq(Seq(Nat)),
         Len(writer') = next_id-1, Len(work') = next_id-1, Len(queue') = next_id-1,
         Len(file') = next_id-1,
         \A q \in Made \ {r} : /\ writer'[q] = writer[q] /\ work'[q] = work[q]
                               /\ queue'[q] = queue[q] /\ file'[q] = file[q],
         QueueFine(log[r], queue'[r], writer'[r], work'[r]),
         FileFine(history, request[r], log[r], queue'[r], writer'[r], work'[r], file'[r])
  PROVE  RecordInv'
<1>1. RecordTypeOK' /\ RecordLoopOK'
  BY DEF RecordInv, RecordTypeOK, RecordLoopOK, Made, Record!started, Record!loop
<1>2. Made' = Made
  BY DEF Made, Record!started
<1>3. ASSUME NEW q \in Made
      PROVE  RFine(q)'
  <2>1. RFine(q)
    BY DEF RecordInv
  <2> QED BY <2>1, <1>3 DEF RFine, RecordFine, Record!started
<1>4. \A q \in sinks \ aborted : SinkFine(q)'
  BY DEF RecordInv, SinkFine, Record!started, Record!loop
<1> QED BY <1>1, <1>2, <1>3, <1>4 DEF RecordInv, Record!loop

\* One operation of a thread.
LEMMA ThreadStep ==
  ASSUME RecordInv, NEW r \in Record!Ids, Record!Thread(r)
  PROVE  RecordInv'
<1> USE DEF RecordInv
<1>1. r \in Made /\ RecordTypeOK /\ RFine(r)
  <2>1. DOMAIN writer = Made
    BY DEF RecordTypeOK, Made
  <2> QED BY <2>1 DEF Record!Thread, Record!Awake, Record!AtDisk
<1>2. /\ log[r] \in Seq(Pushed) /\ queue[r] \in Seq(Nat) /\ work[r] \in Nat /\ file[r] \in Seq(Nat)
      /\ r \in 1..Len(file) /\ Len(file) = next_id-1 /\ file \in Seq(Seq(Nat))
  <2>1. r \in 1..Len(log) /\ r \in 1..Len(queue) /\ r \in 1..Len(work) /\ r \in 1..Len(file)
    BY <1>1 DEF RecordTypeOK, Made
  <2>2. /\ log \in Seq(Seq(Pushed)) /\ queue \in Seq(Seq(Nat)) /\ work \in Seq(Nat)
        /\ file \in Seq(Seq(Nat)) /\ Len(file) = next_id-1
    BY <1>1 DEF RecordTypeOK
  <2>3. log[r] \in Seq(Pushed)
    BY <2>1, <2>2
  <2>4. queue[r] \in Seq(Nat)
    BY <2>1, <2>2
  <2>5. work[r] \in Nat
    BY <2>1, <2>2, Member
  <2>6. file[r] \in Seq(Nat)
    BY <2>1, <2>2
  <2> QED BY <2>1, <2>2, <2>3, <2>4, <2>5, <2>6
<1>3. /\ QueueFine(log[r], queue[r], writer[r], work[r])
      /\ FileFine(history, request[r], log[r], queue[r], writer[r], work[r], file[r])
      /\ FileLines(history, request[r], log[r], file[r])
  BY <1>1 DEF RFine, RecordFine, FileFine
<1>4. /\ Record!Torn \in Nat /\ "idle" \in Writers /\ "busy" \in Writers /\ "failed" \in Writers
      /\ "limit" \in Writers /\ "drained" \in Writers
  <2>1. Record!Torn \in Nat
    BY DEF Record!Torn
  <2> QED BY <2>1 DEF Writers
<1>5. {"failed", "limit"} \subseteq Dead \ {"drained"}
  BY DEF Dead
<1>6. file' = file => file'[r] = file[r] /\ file' \in Seq(Seq(Nat)) /\ Len(file') = next_id-1
  BY <1>1 DEF RecordTypeOK
<1>7. CASE Record!Header(r)
  <2>1. UNCHANGED <<history, Record!started, sinks, log, open, file, Record!loop>> /\ writer[r] = "header"
    BY <1>7 DEF Record!Header
  <2>2. CASE Record!WriterIs(r, "idle", Record!Torn)
    <3>1. writer'[r] = "idle" /\ work'[r] = Record!Torn /\ queue'[r] = queue[r]
      BY <1>1, <1>4, <2>2, ThreadIs
    <3>2. /\ QueueFine(log[r], queue'[r], writer'[r], work'[r])
          /\ FileFine(history, request[r], log[r], queue'[r], writer'[r], work'[r], file'[r])
      BY <1>3, <2>1, <3>1, RecordBegins
    <3> QED BY <1>1, <1>4, <1>6, <2>1, <2>2, <3>2, ThreadIs, ThreadKeeps
  <2>3. CASE Record!WriterIs(r, "failed", Record!Torn)
    <3>1. writer'[r] = "failed" /\ work'[r] = Record!Torn /\ queue'[r] = <<>>
      BY <1>1, <1>4, <2>3, ThreadIs
    <3>2. /\ QueueFine(log[r], queue'[r], writer'[r], work'[r])
          /\ FileFine(history, request[r], log[r], queue'[r], writer'[r], work'[r], file'[r])
      BY <1>3, <1>5, <2>1, <3>1, RecordEnds
    <3> QED BY <1>1, <1>4, <1>6, <2>1, <2>3, <3>2, ThreadIs, ThreadKeeps
  <2> QED BY <1>7, <2>2, <2>3 DEF Record!Header
<1>8. CASE Record!Receive(r)
  <2>1. /\ UNCHANGED <<history, Record!started, sinks, log, open, file, Record!loop>> /\ writer[r] = "idle"
        /\ queue[r] # <<>> /\ Record!WriterIs(r, "busy", Head(queue[r])) /\ Head(queue[r]) \in Nat
    BY <1>2, <1>8 DEF Record!Receive
  <2>2. writer'[r] = "busy" /\ work'[r] = Head(queue[r]) /\ queue'[r] = Tail(queue[r])
    BY <1>1, <1>4, <2>1, ThreadIs
  <2>3. /\ QueueFine(log[r], queue'[r], writer'[r], work'[r])
        /\ FileFine(history, request[r], log[r], queue'[r], writer'[r], work'[r], file'[r])
    BY <1>2, <1>3, <2>1, <2>2, RecordReceives
  <2> QED BY <1>1, <1>4, <1>6, <2>1, <2>3, ThreadIs, ThreadKeeps
<1>9. CASE Record!Drained(r)
  <2>1. /\ UNCHANGED <<history, Record!started, sinks, log, open, file, Record!loop>> /\ writer[r] = "idle"
        /\ queue[r] = <<>> /\ Record!WriterIs(r, "drained", Record!Torn)
    BY <1>9 DEF Record!Drained
  <2>2. writer'[r] = "drained" /\ work'[r] = Record!Torn /\ queue'[r] = <<>>
    BY <1>1, <1>4, <2>1, ThreadIs
  <2>3. /\ QueueFine(log[r], queue'[r], writer'[r], work'[r])
        /\ FileFine(history, request[r], log[r], queue'[r], writer'[r], work'[r], file'[r])
    BY <1>3, <2>1, <2>2, RecordDrains
  <2> QED BY <1>1, <1>4, <1>6, <2>1, <2>3, ThreadIs, ThreadKeeps
<1>10. Record!InFormat(r, work[r]) /\ log[r][work[r]].ok => Has(history, request[r], log[r], work[r])
  BY DEF Record!InFormat, Record!KindOf, Has
<1>11. Has(history, request[r], log[r], work[r]) => Record!InFormat(r, work[r])
  BY DEF Record!InFormat, Record!KindOf, Has
<1>12. CASE Record!Write(r)
  <2> DEFINE G == IF Record!InFormat(r, work[r]) THEN Append(file[r], work[r]) ELSE file[r]
  <2>1. /\ UNCHANGED <<history, Record!started, sinks, log, open, Record!loop>> /\ writer[r] = "busy"
        /\ file' = [file EXCEPT ![r] = G]
    BY <1>12 DEF Record!Write
  <2>2. log[r][work[r]].ok
    BY <1>3, <2>1 DEF QueueFine
  <2>3. /\ G \in Seq(Nat) /\ FileLines(history, request[r], log[r], G)
        /\ QueueFine(log[r], queue[r], "idle", Record!Torn)
        /\ FileFine(history, request[r], log[r], queue[r], "idle", Record!Torn, G)
    <3>1. G = IF Has(history, request[r], log[r], work[r]) THEN Append(file[r], work[r]) ELSE file[r]
      BY <1>10, <1>11, <2>2
    <3>2. /\ QueueFine(log[r], queue[r], "busy", work[r])
          /\ FileFine(history, request[r], log[r], queue[r], "busy", work[r], file[r])
      BY <1>3, <2>1
    <3> HIDE DEF G
    <3> QED BY <1>2, <3>1, <3>2, RecordWrites
  <2> HIDE DEF G
  <2>4. /\ file' \in Seq(Seq(Nat)) /\ Len(file') = next_id-1 /\ file'[r] = G
        /\ \A q \in 1..Len(file) \ {r} : file'[q] = file[q]
    BY <1>2, <2>1, <2>3, Replaced
  <2>5. \A q \in Made \ {r} : file'[q] = file[q]
    BY <1>2, <2>4 DEF Made
  <2>6. PICK b \in BOOLEAN : Record!WriterIs(r, IF b THEN "limit" ELSE "idle", Record!Torn)
    BY <1>12 DEF Record!Write, Record!exceeds_limits
  <2>7. CASE b
    <3>1. Record!WriterIs(r, "limit", Record!Torn)
      BY <2>6, <2>7
    <3>2. writer'[r] = "limit" /\ work'[r] = Record!Torn /\ queue'[r] = <<>>
      BY <1>1, <1>4, <3>1, ThreadIs
    <3>3. /\ QueueFine(log[r], queue'[r], writer'[r], work'[r])
          /\ FileFine(history, request[r], log[r], queue'[r], writer'[r], work'[r], file'[r])
      BY <1>5, <2>3, <2>4, <3>2, RecordEnds
    <3>4. /\ writer' \in Seq(Writers) /\ work' \in Seq(Nat) /\ queue' \in Seq(Seq(Nat))
          /\ Len(writer') = next_id-1 /\ Len(work') = next_id-1 /\ Len(queue') = next_id-1
          /\ \A q \in Made \ {r} : writer'[q] = writer[q] /\ work'[q] = work[q] /\ queue'[q] = queue[q]
      BY <1>1, <1>4, <3>1, ThreadIs
    <3> QED BY <1>1, <2>1, <2>4, <2>5, <3>3, <3>4, ThreadKeeps
  <2>8. CASE ~b
    <3>1. Record!WriterIs(r, "idle", Record!Torn)
      BY <2>6, <2>8
    <3>2. writer'[r] = "idle" /\ work'[r] = Record!Torn /\ queue'[r] = queue[r]
      BY <1>1, <1>4, <3>1, ThreadIs
    <3>3. /\ QueueFine(log[r], queue'[r], writer'[r], work'[r])
          /\ FileFine(history, request[r], log[r], queue'[r], writer'[r], work'[r], file'[r])
      BY <2>3, <2>4, <3>2
    <3>4. /\ writer' \in Seq(Writers) /\ work' \in Seq(Nat) /\ queue' \in Seq(Seq(Nat))
          /\ Len(writer') = next_id-1 /\ Len(work') = next_id-1 /\ Len(queue') = next_id-1
          /\ \A q \in Made \ {r} : writer'[q] = writer[q] /\ work'[q] = work[q] /\ queue'[q] = queue[q]
      BY <1>1, <1>4, <3>1, ThreadIs
    <3> QED BY <1>1, <2>1, <2>4, <2>5, <3>3, <3>4, ThreadKeeps
  <2> QED BY <2>7, <2>8
<1>13. CASE Record!WriteFails(r)
  <2>1. /\ UNCHANGED <<history, Record!started, sinks, log, open, Record!loop>> /\ writer[r] = "busy"
        /\ Record!InFormat(r, work[r]) /\ Record!WriterIs(r, "failed", Record!Torn)
    BY <1>13 DEF Record!WriteFails
  <2>2. PICK rest \in {<<>>, <<Record!Torn>>, <<work[r]>>} : file' = [file EXCEPT ![r] = file[r] \o rest]
    BY <1>13 DEF Record!WriteFails
  <2>3. Has(history, request[r], log[r], work[r])
    BY <1>3, <1>10, <2>1 DEF QueueFine
  <2>4. \A i \in DOMAIN file[r] : file[r][i] # Record!Torn
    BY <1>3, <2>1 DEF FileFine, Dead
  <2>5. file[r] \o rest \in Seq(Nat) /\ FileLines(history, request[r], log[r], file[r] \o rest)
    <3>1. CASE rest = <<>>
      BY <1>2, <1>3, <3>1
    <3>2. CASE rest = <<Record!Torn>>
      <4>1. file[r] \o rest = Append(file[r], Record!Torn)
        BY <1>2, <1>4, <3>2
      <4> QED BY <1>2, <1>3, <2>4, <4>1, LineTorn
    <3>3. CASE rest = <<work[r]>>
      <4>1. file[r] \o rest = Append(file[r], work[r])
        BY <1>2, <3>3
      <4> QED BY <1>2, <1>3, <2>1, <2>3, <4>1, LineWritten
    <3> QED BY <2>2, <3>1, <3>2, <3>3
  <2>6. /\ file' \in Seq(Seq(Nat)) /\ Len(file') = next_id-1 /\ file'[r] = file[r] \o rest
        /\ \A q \in 1..Len(file) \ {r} : file'[q] = file[q]
    BY <1>2, <2>2, <2>5, Replaced
  <2>7. \A q \in Made \ {r} : file'[q] = file[q]
    BY <1>2, <2>6 DEF Made
  <2>8. writer'[r] = "failed" /\ work'[r] = Record!Torn /\ queue'[r] = <<>>
    BY <1>1, <1>4, <2>1, ThreadIs
  <2>9. /\ QueueFine(log[r], queue'[r], writer'[r], work'[r])
        /\ FileFine(history, request[r], log[r], queue'[r], writer'[r], work'[r], file'[r])
    BY <1>5, <2>5, <2>6, <2>8, RecordEnds
  <2>10. /\ writer' \in Seq(Writers) /\ work' \in Seq(Nat) /\ queue' \in Seq(Seq(Nat))
         /\ Len(writer') = next_id-1 /\ Len(work') = next_id-1 /\ Len(queue') = next_id-1
         /\ \A q \in Made \ {r} : writer'[q] = writer[q] /\ work'[q] = work[q] /\ queue'[q] = queue[q]
    BY <1>1, <1>4, <2>1, ThreadIs
  <2> QED BY <1>1, <2>1, <2>6, <2>7, <2>9, <2>10, ThreadKeeps
<1> QED BY <1>7, <1>8, <1>9, <1>12, <1>13 DEF Record!Thread, Record!Awake, Record!AtDisk

\* The loop goes on without an event or a push.
LEMMA LoopKeeps ==
  ASSUME RecordInv, UNCHANGED <<history, Record!started, log, queue, Record!threads>>,
         open' \in Seq(BOOLEAN), Len(open') = next_id-1,
         sinks' \subseteq Made, record_todo' \subseteq Made,
         aborted' \subseteq Made, record_leaving' \subseteq Made,
         RecordLoopOK', record_pc' # "push", sinks' \ aborted' \subseteq sinks \ aborted,
         record_pc = "push" => record_todo = {}
  PROVE  RecordInv'
<1>1. RecordTypeOK'
  BY DEF RecordInv, RecordTypeOK, Made, Record!started, Record!threads
<1>2. Made' = Made
  BY DEF Made, Record!started
<1>3. \A r \in Made : RFine(r)'
  BY DEF RecordInv, RFine, Record!started, Record!threads
<1>4. \A r \in (sinks \ aborted)' : SinkFine(r)'
  BY DEF RecordInv, SinkFine, Record!started
<1> QED BY <1>1, <1>2, <1>3, <1>4 DEF RecordInv

\* The operations of the loop that give no record an event.
LEMMA QuietLoop ==
  ASSUME RecordInv,
         \/ \E r \in Record!Ids : Record!Stop(r)
         \/ Record!StopAll \/ Record!CloseSender \/ Record!Joined
         \/ Record!PushOver \/ Record!Abort \/ Record!NotifyOver
  PROVE  RecordInv'
<1>1. /\ open \in Seq(BOOLEAN) /\ Len(open) = next_id-1 /\ RecordLoopOK
      /\ sinks \subseteq Made /\ record_todo \subseteq Made
      /\ aborted \subseteq Made /\ record_leaving \subseteq Made
      /\ Made \subseteq Nat
  <2>1. Made \subseteq Nat
    BY DEF RecordInv, RecordTypeOK, Made
  <2> QED BY <2>1 DEF RecordInv, RecordTypeOK
<1>2. ASSUME NEW r \in Record!Ids, Record!Stop(r)
      PROVE  RecordInv'
  BY <1>1, <1>2, LoopKeeps DEF Record!Stop, RecordLoopOK
<1>3. CASE Record!StopAll
  BY <1>1, <1>3, LoopKeeps DEF Record!StopAll, RecordLoopOK
<1>4. CASE Record!CloseSender
  <2>1. Record!First(record_leaving) \in Made
    <3>1. record_leaving # {}
      BY <1>1, <1>4 DEF Record!CloseSender, RecordLoopOK
    <3> QED BY <1>1, <3>1, FirstOne
  <2>2. Record!First(record_leaving) \in 1..Len(open) /\ FALSE \in BOOLEAN
    BY <1>1, <2>1 DEF Made
  <2>3. open' = [open EXCEPT ![Record!First(record_leaving)] = FALSE]
    BY <1>4 DEF Record!CloseSender
  <2>4. open' \in Seq(BOOLEAN) /\ Len(open') = next_id-1
    BY <1>1, <2>2, <2>3, Replaced
  <2> QED BY <1>1, <1>4, <2>4, LoopKeeps DEF Record!CloseSender, RecordLoopOK, Record!loop
<1>5. CASE Record!Joined
  BY <1>1, <1>5, LoopKeeps DEF Record!Joined, RecordLoopOK
<1>6. CASE Record!PushOver
  BY <1>1, <1>6, LoopKeeps DEF Record!PushOver, RecordLoopOK
<1>7. CASE Record!Abort
  <2> DEFINE r == Record!First(aborted)
  <2>1. r \in aborted
    <3>1. aborted # {} /\ aborted \subseteq Nat
      BY <1>1, <1>7 DEF Record!Abort, RecordLoopOK
    <3> QED BY <3>1, FirstOne
  <2>2. /\ sinks' = sinks \ {r} /\ aborted' = aborted \ {r} /\ record_leaving' = {r}
        /\ record_todo' = sinks \ {r} /\ record_pc = "abort" /\ record_pc' = "notify"
        /\ UNCHANGED <<history, Record!started, log, queue, open, Record!threads>>
    BY <1>7 DEF Record!Abort
  <2> HIDE DEF r
  <2> QED BY <1>1, <2>1, <2>2, LoopKeeps DEF RecordLoopOK
<1>8. CASE Record!NotifyOver
  BY <1>1, <1>8, LoopKeeps DEF Record!NotifyOver, RecordLoopOK
<1> QED BY <1>2, <1>3, <1>4, <1>5, <1>6, <1>7, <1>8

\* A push to c, of the last event or a notice: c's log grows, and every record stays fine.
LEMMA PushOne ==
  ASSUME RecordInv, NEW c \in Made, NEW e \in Nat,
         \/ e = 0
         \/ /\ e = Len(history) /\ Clean(log[c])
            /\ Owing(history, request[c], from[c], log[c]),
         Record!Takes(c, e) \/ Record!Refuses(c, e), UNCHANGED <<history, Record!started, Record!threads>>
  PROVE  /\ log' \in Seq(Seq(Pushed)) /\ Len(log') = next_id-1
         /\ queue' \in Seq(Seq(Nat)) /\ Len(queue') = next_id-1
         /\ \E b \in BOOLEAN : /\ log'[c] = Append(log[c], [event |-> e, ok |-> b])
                               /\ b <=> Record!Takes(c, e)
         /\ \A r \in Made \ {c} : log'[r] = log[r]
         /\ \A r \in Made : RFine(r)'
<1>1. /\ c \in 1..Len(log) /\ c \in 1..Len(queue) /\ c \in 1..Len(work) /\ c \in 1..Len(file)
      /\ c \in 1..Len(from)
      /\ Len(log) = next_id-1 /\ Len(queue) = next_id-1
  BY DEF RecordInv, RecordTypeOK, Made
<1>2. /\ log \in Seq(Seq(Pushed)) /\ queue \in Seq(Seq(Nat)) /\ work \in Seq(Nat)
      /\ file \in Seq(Seq(Nat)) /\ from \in Seq(Nat) /\ history \in Seq(EventKinds)
  BY DEF RecordInv, RecordTypeOK
<1>3. log[c] \in Seq(Pushed)
  BY <1>1, <1>2, Member
<1>4. queue[c] \in Seq(Nat) /\ Len(queue[c]) \in Nat /\ Len(log[c]) \in Nat
  <2>1. queue[c] \in Seq(Nat)
    BY <1>1, <1>2, Member
  <2> QED BY <1>3, <2>1
<1>5. work[c] \in Nat /\ from[c] \in Nat
  BY <1>1, <1>2, Member
<1>6. file[c] \in Seq(Nat)
  BY <1>1, <1>2, Member
<1>7. PICK b \in BOOLEAN : /\ log' = [log EXCEPT ![c] = Append(log[c], [event |-> e, ok |-> b])]
                           /\ IF b THEN /\ writer[c] \notin Dead
                                        /\ queue' = [queue EXCEPT ![c] = Append(queue[c], Len(log[c]) + 1)]
                                   ELSE queue' = queue
                           /\ b <=> Record!Takes(c, e)
  <2>1. CASE Record!Takes(c, e)
    BY <2>1 DEF Record!Takes, Record!Entry, Record!Over, Dead
  <2>2. CASE ~Record!Takes(c, e)
    BY <2>2 DEF Record!Refuses, Record!Entry
  <2> QED BY <2>1, <2>2
<1> DEFINE L == Append(log[c], [event |-> e, ok |-> b])
           Q == IF b THEN Append(queue[c], Len(log[c]) + 1) ELSE queue[c]
<1>8. [event |-> e, ok |-> b] \in Pushed
  BY DEF Pushed
<1>9. L \in Seq(Pushed)
  BY <1>3, <1>8
<1>10. Q \in Seq(Nat)
  BY <1>4
<1>11. RFine(c) /\ RecordFine(history, request[c], from[c], log[c], queue[c], writer[c], work[c], file[c])
  BY DEF RecordInv, RFine
<1>12. LogFine(history, request[c], from[c], L)
  BY <1>2, <1>3, <1>5, <1>11, LogGrows DEF RecordFine
<1>13. QueueFine(L, Q, writer[c], work[c]) /\ FileFine(history, request[c], L, Q, writer[c], work[c], file[c])
  <2>1. QueueFine(log[c], queue[c], writer[c], work[c])
    BY <1>11 DEF RecordFine
  <2>2. FileFine(history, request[c], log[c], queue[c], writer[c], work[c], file[c])
    BY <1>11 DEF RecordFine
  <2>3. CASE b
    <3>1. writer[c] \notin Dead /\ Q = Append(queue[c], Len(log[c]) + 1)
          /\ L = Append(log[c], [event |-> e, ok |-> TRUE])
      BY <1>7, <2>3
    <3> HIDE DEF L, Q
    <3> QED BY <1>3, <1>4, <1>5, <1>6, <2>1, <2>2, <3>1, RecordTakes
  <2>4. CASE ~b
    <3>1. Q = queue[c] /\ L = Append(log[c], [event |-> e, ok |-> FALSE])
      BY <2>4
    <3> HIDE DEF L, Q
    <3> QED BY <1>3, <1>4, <1>5, <1>6, <2>1, <2>2, <3>1, RecordRefuses
  <2> QED BY <2>3, <2>4
<1>14. /\ log' \in Seq(Seq(Pushed)) /\ Len(log') = Len(log) /\ log'[c] = L
       /\ \A r \in 1..Len(log) \ {c} : log'[r] = log[r]
  <2> HIDE DEF L
  <2>1. log' = [log EXCEPT ![c] = L]
    BY <1>7 DEF L
  <2> QED BY <1>1, <1>2, <1>9, <2>1, Replaced
<1>15. /\ queue' \in Seq(Seq(Nat)) /\ Len(queue') = Len(queue) /\ queue'[c] = Q
       /\ \A r \in 1..Len(queue) \ {c} : queue'[r] = queue[r]
  <2>1. CASE b
    <3>1. queue' = [queue EXCEPT ![c] = Q]
      BY <1>7, <2>1
    <3> HIDE DEF Q
    <3> QED BY <1>1, <1>2, <1>10, <3>1, Replaced
  <2>2. CASE ~b
    BY <1>2, <1>7, <2>2
  <2> QED BY <2>1, <2>2
<1> HIDE DEF L, Q
<1>16. RFine(c)'
  BY <1>12, <1>13, <1>14, <1>15 DEF RFine, RecordFine, Record!started, Record!threads
<1>17. ASSUME NEW r \in Made \ {c}
       PROVE  RFine(r)' /\ log'[r] = log[r]
  <2>1. log'[r] = log[r] /\ queue'[r] = queue[r]
    BY <1>1, <1>14, <1>15, <1>17 DEF Made
  <2>2. RFine(r)
    BY <1>17 DEF RecordInv
  <2> QED BY <2>1, <2>2 DEF RFine, Record!started, Record!threads
<1>18. \A r \in Made : RFine(r)'
  BY <1>16, <1>17
<1>19. \E a \in BOOLEAN : log'[c] = Append(log[c], [event |-> e, ok |-> a]) /\ (a <=> Record!Takes(c, e))
  BY <1>7, <1>14 DEF L
<1> QED BY <1>1, <1>14, <1>15, <1>17, <1>18, <1>19

\* The last event is pushed and taken: the log has all of them.
LEMMA Settled ==
  ASSUME NEW S, NEW h \in Seq(S), NEW q, NEW f, NEW L \in Seq(Pushed), Clean(L), Owing(h, q, f, L)
  PROVE  LET M == Append(L, [event |-> Len(h), ok |-> TRUE])
         IN Clean(M) /\ Given(h, q, f, M, Len(h))
<1> DEFINE M == Append(L, [event |-> Len(h), ok |-> TRUE])
<1>1. [event |-> Len(h), ok |-> TRUE] \in Pushed /\ Len(h) \in Nat
  BY DEF Pushed
<1>2. /\ Len(L) \in Nat /\ DOMAIN L = 1..Len(L) /\ DOMAIN M = 1..Len(L)+1
      /\ \A s \in 1..Len(L) : M[s] = L[s]
      /\ M[Len(L) + 1] = [event |-> Len(h), ok |-> TRUE]
  BY <1>1
<1>3. M[Len(L) + 1].event = Len(h) /\ M[Len(L) + 1].ok
  BY <1>2
<1> HIDE DEF M
<1>4. Clean(M)
  BY <1>2, <1>3 DEF Clean
<1>5. ASSUME NEW m \in 1..Len(h), Asked(h, q, f, m)
      PROVE  \E s \in DOMAIN M : M[s].event = m
  <2>1. CASE m = Len(h)
    <3>1. Len(L) + 1 \in DOMAIN M
      BY <1>2
    <3> QED BY <1>3, <2>1, <3>1
  <2>2. CASE m # Len(h)
    <3>1. m \in 1..Len(h)-1
      BY <1>1, <2>2
    <3>2. PICK s \in DOMAIN L : L[s].event = m
      BY <1>5, <3>1 DEF Owing, Given
    <3> QED BY <1>2, <3>2
  <2> QED BY <2>1, <2>2
<1> QED BY <1>4, <1>5 DEF Given, M

\* A notice changes nothing about the events.
LEMMA Noticed ==
  ASSUME NEW h, NEW q, NEW f, NEW L \in Seq(Pushed), NEW b \in BOOLEAN, NEW n, Clean(L),
         Given(h, q, f, L, n)
  PROVE  LET M == Append(L, [event |-> 0, ok |-> b])
         IN Clean(M) /\ Given(h, q, f, M, n)
<1> DEFINE M == Append(L, [event |-> 0, ok |-> b])
<1>1. [event |-> 0, ok |-> b] \in Pushed
  BY DEF Pushed
<1>2. /\ Len(L) \in Nat /\ DOMAIN L = 1..Len(L) /\ DOMAIN M = 1..Len(L)+1
      /\ \A s \in 1..Len(L) : M[s] = L[s]
      /\ M[Len(L) + 1] = [event |-> 0, ok |-> b]
  BY <1>1
<1>3. M[Len(L) + 1].event = 0
  BY <1>2
<1> HIDE DEF M
<1>4. Clean(M)
  BY <1>2, <1>3 DEF Clean
<1>5. \A s \in DOMAIN L : s \in DOMAIN M /\ M[s] = L[s]
  BY <1>2
<1> QED BY <1>4, <1>5 DEF Given, M

\* The pushes of the loop.
LEMMA PushSteps ==
  ASSUME RecordInv, Record!PushTaken \/ Record!PushRefused \/ Record!Notify
  PROVE  RecordInv'
<1>0. PICK c : c = Record!First(record_todo)
  OBVIOUS
<1>1. /\ record_todo \subseteq Made /\ record_todo # {} /\ next_id \in Nat \ {0}
      /\ RecordLoopOK /\ RecordTypeOK
      /\ record_pc' = record_pc /\ record_pc \in {"push", "notify"} /\ record_todo' = record_todo \ {c}
  BY <1>0 DEF RecordInv, RecordTypeOK, Record!PushTaken, Record!PushRefused, Record!Notify
<1>2. c \in record_todo /\ c \in Made
  <2>1. record_todo \subseteq Nat
    BY <1>1 DEF Made
  <2> QED BY <1>0, <1>1, <2>1, FirstOne
<1>3. /\ log[c] \in Seq(Pushed) /\ history \in Seq(EventKinds) /\ Len(history) \in Nat /\ 0 \in Nat
  <2>1. c \in 1..Len(log) /\ log \in Seq(Seq(Pushed)) /\ history \in Seq(EventKinds)
    BY <1>1, <1>2 DEF RecordTypeOK, Made
  <2>2. log[c] \in Seq(Pushed)
    BY <2>1, Member
  <2> QED BY <2>1, <2>2
<1>4. UNCHANGED <<history, Record!started, sinks, open, Record!threads, record_leaving>>
  BY DEF Record!PushTaken, Record!PushRefused, Record!Notify
<1>5. ASSUME /\ log' \in Seq(Seq(Pushed)) /\ Len(log') = next_id-1
             /\ queue' \in Seq(Seq(Nat)) /\ Len(queue') = next_id-1
             /\ \A r \in Made \ {c} : log'[r] = log[r]
             /\ \A r \in Made : RFine(r)',
             aborted \subseteq aborted', aborted' \subseteq aborted \cup {c},
             c \in sinks \ aborted' => SinkFine(c)'
      PROVE  RecordInv'
  <2>1. Made' = Made
    BY <1>4 DEF Made, Record!started
  <2>2. RecordTypeOK'
    BY <1>1, <1>2, <1>4, <1>5, <2>1 DEF RecordTypeOK, Record!started, Record!threads
  <2>3. RecordLoopOK'
    BY <1>1, <1>4, <1>5 DEF RecordLoopOK
  <2>4. ASSUME NEW r \in (sinks \ aborted)'
        PROVE  SinkFine(r)'
    <3>1. CASE r = c
      BY <1>4, <1>5, <2>4, <3>1
    <3>2. CASE r # c
      <4>1. r \in Made \ {c} /\ r \in sinks \ aborted
        BY <1>1, <1>4, <1>5, <2>4, <3>2 DEF RecordTypeOK
      <4>2. SinkFine(r) /\ log'[r] = log[r]
        BY <1>5, <4>1 DEF RecordInv
      <4> QED BY <1>1, <1>4, <4>1, <4>2 DEF SinkFine, Record!started
    <3> QED BY <3>1, <3>2
  <2> QED BY <1>5, <2>1, <2>2, <2>3, <2>4 DEF RecordInv
<1>6. record_pc = "push" => /\ c \in sinks \ aborted /\ Clean(log[c])
                     /\ Owing(history, request[c], from[c], log[c])
  <2>1. record_pc = "push" => c \in sinks \ aborted
    BY <1>1, <1>2 DEF RecordLoopOK
  <2> QED BY <1>2, <2>1 DEF RecordInv, SinkFine
<1>7. CASE Record!PushTaken
  <2>1. record_pc = "push" /\ Record!Takes(c, Len(history)) /\ aborted' = aborted
    BY <1>0, <1>7 DEF Record!PushTaken
  <2>2. PICK b \in BOOLEAN : /\ log'[c] = Append(log[c], [event |-> Len(history), ok |-> b])
                             /\ b <=> Record!Takes(c, Len(history))
    BY <1>2, <1>3, <1>4, <1>6, <2>1, PushOne
  <2>3. log'[c] = Append(log[c], [event |-> Len(history), ok |-> TRUE])
    BY <2>1, <2>2
  <2>4. Clean(log'[c]) /\ Given(history, request[c], from[c], log'[c], Len(history))
    BY <1>3, <1>6, <2>1, <2>3, Settled
  <2>5. SinkFine(c)'
    BY <1>1, <1>4, <2>4 DEF SinkFine, Record!started
  <2> QED BY <1>2, <1>3, <1>4, <1>5, <1>6, <2>1, <2>5, PushOne
<1>8. CASE Record!PushRefused
  <2>1. record_pc = "push" /\ Record!Refuses(c, Len(history)) /\ aborted' = aborted \cup {c}
    BY <1>0, <1>8 DEF Record!PushRefused
  <2> QED BY <1>2, <1>3, <1>4, <1>5, <1>6, <2>1, PushOne
<1>9. CASE Record!Notify
  <2>1. record_pc = "notify" /\ (Record!Takes(c, 0) \/ Record!Refuses(c, 0)) /\ aborted' = aborted
    BY <1>0, <1>9 DEF Record!Notify
  <2>2. PICK b \in BOOLEAN : log'[c] = Append(log[c], [event |-> 0, ok |-> b])
    BY <1>2, <1>3, <1>4, <2>1, PushOne
  <2>3. ASSUME c \in sinks \ aborted
        PROVE  SinkFine(c)'
    <3>1. Clean(log[c]) /\ Given(history, request[c], from[c], log[c], Len(history))
      BY <2>1, <2>3 DEF RecordInv, SinkFine
    <3>2. Clean(log'[c]) /\ Given(history, request[c], from[c], log'[c], Len(history))
      BY <1>3, <2>2, <3>1, Noticed
    <3> QED BY <1>1, <1>4, <2>1, <3>2 DEF SinkFine, Record!started
  <2> QED BY <1>2, <1>3, <1>4, <1>5, <2>1, <2>3, PushOne
<1> QED BY <1>7, <1>8, <1>9

\* A record that has all the events so far owes the next one that it asks for.
LEMMA NextOwed ==
  ASSUME NEW S, NEW h \in Seq(S), NEW x \in S, NEW q, NEW f \in Nat, NEW L \in Seq(Pushed),
         LogFine(h, q, f, L), Given(h, q, f, L, Len(h))
  PROVE  /\ Record!Wants(q, x) => Owing(Append(h, x), q, f, L)
         /\ ~Record!Wants(q, x) => Given(Append(h, x), q, f, L, Len(Append(h, x)))
<1> DEFINE g == Append(h, x)
<1>1. /\ g \in Seq(S) /\ Len(g) = Len(h) + 1 /\ Len(h) \in Nat
      /\ \A n \in 1..Len(h) : g[n] = h[n]
      /\ g[Len(h) + 1] = x
  OBVIOUS
<1> HIDE DEF g
<1>2. \A n \in 1..Len(h) : Asked(g, q, f, n) <=> Asked(h, q, f, n)
  BY <1>1 DEF Asked
<1>3. Given(g, q, f, L, Len(h))
  BY <1>2 DEF Given
<1>4. \A s \in DOMAIN L : L[s].event \in Nat /\ L[s].event < Len(g)
  <2>1. \A s \in DOMAIN L : L[s] \in Pushed
    OBVIOUS
  <2>2. \A s \in DOMAIN L : L[s].event \in Nat
    BY <2>1 DEF Pushed
  <2>3. \A s \in DOMAIN L : L[s].event # 0 => L[s].event \in 1..Len(h)
    BY DEF LogFine
  <2> QED BY <1>1, <2>2, <2>3
<1>5. ASSUME Record!Wants(q, x)
      PROVE  Owing(g, q, f, L)
  <2>1. f <= Len(g)
    BY <1>1 DEF LogFine
  <2>2. Len(g) >= f /\ Len(g) >= 1 /\ Len(g) - 1 = Len(h)
    BY <1>1, <2>1
  <2>3. Asked(g, q, f, Len(g))
    BY <1>1, <1>5, <2>2 DEF Asked
  <2> QED BY <1>3, <1>4, <2>2, <2>3 DEF Owing
<1>6. ASSUME ~Record!Wants(q, x)
      PROVE  Given(g, q, f, L, Len(g))
  <2>1. ASSUME NEW m \in 1..Len(g), Asked(g, q, f, m)
        PROVE  \E s \in DOMAIN L : L[s].event = m
    <3>1. m # Len(h) + 1
      BY <1>1, <1>6, <2>1 DEF Asked
    <3>2. m \in 1..Len(h)
      BY <1>1, <3>1
    <3> QED BY <1>3, <2>1, <3>2 DEF Given
  <2> QED BY <2>1 DEF Given
<1> QED BY <1>5, <1>6 DEF g

\* An event of the session.
LEMMA BroadcastKeeps ==
  ASSUME RecordInv, NEW kind \in EventKinds, Record!Broadcast(kind)
  PROVE  RecordInv'
<1>1. /\ record_pc = "serve" /\ record_pc' = "push" /\ history' = Append(history, kind)
      /\ record_todo' = {r \in sinks : Record!Wants(request[r], kind)}
      /\ UNCHANGED <<Record!started, sinks, log, queue, open, Record!threads, aborted, record_leaving>>
  BY DEF Record!Broadcast
<1>2. RecordTypeOK /\ RecordLoopOK /\ Made' = Made
  BY <1>1 DEF RecordInv, Made, Record!started
<1>3. RecordTypeOK'
  <2>1. history' \in Seq(EventKinds) /\ record_todo' \subseteq Made
    BY <1>1, <1>2 DEF RecordTypeOK
  <2> QED BY <1>1, <1>2, <2>1 DEF RecordTypeOK, Record!started, Record!threads
<1>4. RecordLoopOK'
  BY <1>1, <1>2 DEF RecordLoopOK
<1>5. ASSUME NEW r \in Made
      PROVE  /\ history \in Seq(EventKinds) /\ from[r] \in Nat /\ log[r] \in Seq(Pushed)
             /\ queue[r] \in Seq(Nat) /\ work[r] \in Nat /\ file[r] \in Seq(Nat)
  <2>1. /\ r \in 1..Len(log) /\ r \in 1..Len(queue) /\ r \in 1..Len(work) /\ r \in 1..Len(file)
        /\ r \in 1..Len(from)
    BY <1>2 DEF RecordTypeOK, Made
  <2>2. /\ log \in Seq(Seq(Pushed)) /\ queue \in Seq(Seq(Nat)) /\ work \in Seq(Nat)
        /\ file \in Seq(Seq(Nat)) /\ from \in Seq(Nat) /\ history \in Seq(EventKinds)
    BY <1>2 DEF RecordTypeOK
  <2>3. log[r] \in Seq(Pushed)
    BY <2>1, <2>2, Member
  <2>4. queue[r] \in Seq(Nat)
    BY <2>1, <2>2, Member
  <2>5. file[r] \in Seq(Nat)
    BY <2>1, <2>2, Member
  <2>6. work[r] \in Nat /\ from[r] \in Nat
    BY <2>1, <2>2, Member
  <2> QED BY <2>2, <2>3, <2>4, <2>5, <2>6
<1>6. ASSUME NEW r \in Made
      PROVE  RFine(r)'
  <2>1. RFine(r)
    BY DEF RecordInv
  <2>2. RecordFine(history', request[r], from[r], log[r], queue[r], writer[r], work[r], file[r])
    BY <1>1, <1>5, <2>1, SessionGoesOn DEF RFine
  <2> QED BY <1>1, <2>2 DEF RFine, Record!started, Record!threads
<1>7. ASSUME NEW r \in (sinks \ aborted)'
      PROVE  SinkFine(r)'
  <2>1. r \in sinks \ aborted /\ r \in sinks /\ r \in Made
    BY <1>1, <1>2 DEF RecordTypeOK
  <2>2. /\ Clean(log[r]) /\ Given(history, request[r], from[r], log[r], Len(history))
        /\ LogFine(history, request[r], from[r], log[r])
    BY <1>1, <2>1 DEF RecordInv, SinkFine, RFine, RecordFine
  <2>3. CASE Record!Wants(request[r], kind)
    <3>1. Owing(history', request[r], from[r], log[r])
      BY <1>1, <1>5, <2>1, <2>2, <2>3, NextOwed
    <3> QED BY <1>1, <2>1, <2>2, <2>3, <3>1 DEF SinkFine, Record!started
  <2>4. CASE ~Record!Wants(request[r], kind)
    <3>1. Given(history', request[r], from[r], log[r], Len(history'))
      BY <1>1, <1>5, <2>1, <2>2, <2>4, NextOwed
    <3> QED BY <1>1, <2>1, <2>2, <2>4, <3>1 DEF SinkFine, Record!started
  <2> QED BY <2>3, <2>4
<1> QED BY <1>2, <1>3, <1>4, <1>6, <1>7 DEF RecordInv

\* A new record: it is in no file's way and asks for what comes.
LEMMA StartKeeps ==
  ASSUME RecordInv, NEW req \in Requests, Record!Start(req)
  PROVE  RecordInv'
<1> DEFINE n == next_id
<1>1. /\ record_pc = "serve" /\ n \in Nat \ {0} /\ next_id' = n + 1 /\ sinks' = sinks \cup {n}
      /\ request' = Append(request, req) /\ from' = Append(from, Len(history) + 1)
      /\ log' = Append(log, <<>>) /\ queue' = Append(queue, <<>>) /\ open' = Append(open, TRUE)
      /\ writer' = Append(writer, "header") /\ work' = Append(work, Record!Torn)
      /\ file' = Append(file, <<>>)
      /\ UNCHANGED <<history, Record!loop>>
  BY DEF Record!Start, RecordInv, RecordTypeOK
<1>2. RecordTypeOK /\ RecordLoopOK
  BY DEF RecordInv
<1> HIDE DEF n
<1>3. Made = 1..n-1 /\ Made' = 1..n /\ Made \subseteq Made' /\ n \in Made'
  BY <1>1 DEF Made, n
<1>4. /\ from' \in Seq(Nat) /\ Len(from') = n /\ from'[n] = Len(history) + 1
      /\ \A r \in 1..n-1 : from'[r] = from[r]
  <2>1. from \in Seq(Nat) /\ Len(from) = n-1 /\ Len(history) + 1 \in Nat
    BY <1>2 DEF RecordTypeOK, n
  <2> QED BY <1>1, <2>1
<1>5. /\ request' \in Seq(Requests) /\ Len(request') = n /\ request'[n] = req
      /\ \A r \in 1..n-1 : request'[r] = request[r]
  <2>1. request \in Seq(Requests) /\ Len(request) = n-1
    BY <1>2 DEF RecordTypeOK, n
  <2> QED BY <1>1, <2>1
<1>6. /\ log' \in Seq(Seq(Pushed)) /\ Len(log') = n /\ log'[n] = <<>>
      /\ \A r \in 1..n-1 : log'[r] = log[r]
  <2>1. log \in Seq(Seq(Pushed)) /\ Len(log) = n-1 /\ <<>> \in Seq(Pushed)
    BY <1>2 DEF RecordTypeOK, n
  <2> QED BY <1>1, <2>1
<1>7. /\ queue' \in Seq(Seq(Nat)) /\ Len(queue') = n /\ queue'[n] = <<>>
      /\ \A r \in 1..n-1 : queue'[r] = queue[r]
  <2>1. queue \in Seq(Seq(Nat)) /\ Len(queue) = n-1 /\ <<>> \in Seq(Nat)
    BY <1>2 DEF RecordTypeOK, n
  <2> QED BY <1>1, <2>1
<1>8. /\ file' \in Seq(Seq(Nat)) /\ Len(file') = n /\ file'[n] = <<>>
      /\ \A r \in 1..n-1 : file'[r] = file[r]
  <2>1. file \in Seq(Seq(Nat)) /\ Len(file) = n-1 /\ <<>> \in Seq(Nat)
    BY <1>2 DEF RecordTypeOK, n
  <2> QED BY <1>1, <2>1
<1>9. /\ writer' \in Seq(Writers) /\ Len(writer') = n /\ writer'[n] = "header"
      /\ \A r \in 1..n-1 : writer'[r] = writer[r]
  <2>1. writer \in Seq(Writers) /\ Len(writer) = n-1 /\ "header" \in Writers
    BY <1>2 DEF RecordTypeOK, n, Writers
  <2> QED BY <1>1, <2>1
<1>10. /\ work' \in Seq(Nat) /\ Len(work') = n /\ work'[n] = Record!Torn
       /\ \A r \in 1..n-1 : work'[r] = work[r]
  <2>1. work \in Seq(Nat) /\ Len(work) = n-1 /\ Record!Torn \in Nat
    BY <1>2 DEF RecordTypeOK, n, Record!Torn
  <2> QED BY <1>1, <2>1
<1>11. open' \in Seq(BOOLEAN) /\ Len(open') = n
  <2>1. open \in Seq(BOOLEAN) /\ Len(open) = n-1
    BY <1>2 DEF RecordTypeOK, n
  <2> QED BY <1>1, <2>1
<1>12. RecordTypeOK'
  <2>1. next_id' - 1 = n /\ next_id' \in Nat \ {0}
    BY <1>1
  <2>2. /\ sinks' \subseteq Made' /\ record_todo' \subseteq Made' /\ aborted' \subseteq Made'
        /\ record_leaving' \subseteq Made' /\ history' \in Seq(EventKinds)
    BY <1>1, <1>2, <1>3 DEF RecordTypeOK, Record!loop
  <2> QED BY <1>4, <1>5, <1>6, <1>7, <1>8, <1>9, <1>10, <1>11, <2>1, <2>2 DEF RecordTypeOK
<1>13. RecordLoopOK'
  BY <1>1, <1>2 DEF RecordLoopOK, Record!loop
<1>14. ASSUME NEW r \in Made'
       PROVE  RFine(r)'
  <2>1. CASE r \in 1..n-1
    <3>1. RFine(r)
      BY <1>3, <2>1 DEF RecordInv
    <3> QED BY <1>1, <1>4, <1>5, <1>6, <1>7, <1>8, <1>9, <1>10, <2>1, <3>1 DEF RFine
  <2>2. CASE r = n
    <3>1. history \in Seq(EventKinds)
      BY <1>2 DEF RecordTypeOK
    <3>2. RecordFine(history, req, Len(history) + 1, <<>>, <<>>, "header", Record!Torn, <<>>)
      BY <3>1, RecordStarts
    <3>3. /\ history' = history /\ request'[r] = req /\ from'[r] = Len(history) + 1
          /\ log'[r] = <<>> /\ queue'[r] = <<>> /\ writer'[r] = "header" /\ work'[r] = Record!Torn
          /\ file'[r] = <<>>
      BY <1>1, <1>4, <1>5, <1>6, <1>7, <1>8, <1>9, <1>10, <2>2
    <3> QED BY <3>2, <3>3 DEF RFine
  <2> QED BY <1>1, <1>3, <1>14, <2>1, <2>2 DEF n
<1>15. ASSUME NEW r \in (sinks \ aborted)'
       PROVE  SinkFine(r)'
  <2>1. CASE r \in 1..n-1
    <3>1. r \in sinks \ aborted
      BY <1>1, <1>15, <2>1 DEF Record!loop, n
    <3>2. SinkFine(r)
      BY <3>1 DEF RecordInv
    <3> QED BY <1>1, <1>4, <1>5, <1>6, <2>1, <3>2 DEF SinkFine, Record!loop
  <2>2. CASE r = n
    <3>1. history \in Seq(EventKinds) /\ Len(history) \in Nat
      BY <1>2 DEF RecordTypeOK
    <3>2. /\ history' = history /\ request'[r] = req /\ from'[r] = Len(history) + 1
          /\ log'[r] = <<>> /\ record_pc' = "serve"
      BY <1>1, <1>4, <1>5, <1>6, <2>2 DEF Record!loop
    <3>3. Clean(<<>>) /\ Given(history, req, Len(history) + 1, <<>>, Len(history))
      BY <3>1 DEF Clean, Given, Asked
    <3> QED BY <3>2, <3>3 DEF SinkFine
  <2>3. r \in 1..n
    BY <1>3, <1>12, <1>15 DEF RecordTypeOK
  <2> QED BY <1>1, <2>1, <2>2, <2>3
<1> QED BY <1>12, <1>13, <1>14, <1>15 DEF RecordInv

\* A function on the first n numbers is a sequence.
LEMMA FunctionIsSequence ==
  ASSUME NEW S, NEW n \in Nat, NEW g \in [1..n -> S]
  PROVE  g \in Seq(S) /\ Len(g) = n
OBVIOUS

\* The daemon ends: what is in the files stays, and a line may be torn.
LEMMA EndKeeps ==
  ASSUME RecordInv, Record!DaemonEnds
  PROVE  RecordInv'
<1> DEFINE n == next_id - 1
<1>1. RecordTypeOK /\ RecordLoopOK /\ n \in Nat /\ Made = 1..n
  <2>1. next_id \in Nat \ {0}
    BY DEF RecordInv, RecordTypeOK
  <2> QED BY <2>1 DEF RecordInv, Made
<1>2. PICK torn \in SUBSET {r \in DOMAIN writer : writer[r] = "busy"} :
        file' = [r \in DOMAIN file |-> IF r \in torn THEN Append(file[r], Record!Torn) ELSE file[r]]
  BY DEF Record!DaemonEnds
<1>3. /\ record_pc' = "ended"
      /\ writer' = [r \in DOMAIN writer |-> IF Record!Over(r) THEN writer[r] ELSE "killed"]
      /\ queue' = [r \in DOMAIN queue |-> <<>>] /\ work' = [r \in DOMAIN work |-> Record!Torn]
      /\ open' = [r \in DOMAIN open |-> FALSE]
      /\ sinks' = {} /\ record_todo' = {} /\ aborted' = {} /\ record_leaving' = {}
      /\ UNCHANGED <<history, Record!started, log>>
  BY DEF Record!DaemonEnds
<1>4. /\ DOMAIN writer = 1..n /\ DOMAIN queue = 1..n /\ DOMAIN work = 1..n
      /\ DOMAIN open = 1..n /\ DOMAIN file = 1..n
  BY <1>1 DEF RecordTypeOK
<1>5. /\ writer \in Seq(Writers) /\ file \in Seq(Seq(Nat)) /\ Len(writer) = n /\ Len(file) = n
      /\ <<>> \in Seq(Nat) /\ Record!Torn \in Nat /\ "killed" \in Writers
  BY <1>1 DEF RecordTypeOK, Record!Torn, Writers
<1> HIDE DEF n
<1>6. ASSUME NEW r \in 1..n
      PROVE  file[r] \in Seq(Nat) /\ writer[r] \in Writers
  <2>1. file[r] \in Seq(Nat)
    BY <1>5, Member
  <2> QED BY <1>5, <2>1, Member
<1>7. writer' \in Seq(Writers) /\ Len(writer') = n
  <2>1. writer' \in [1..n -> Writers]
    BY <1>3, <1>4, <1>5, <1>6
  <2> QED BY <1>1, <2>1, FunctionIsSequence
<1>8. queue' \in Seq(Seq(Nat)) /\ Len(queue') = n
  <2>1. queue' \in [1..n -> Seq(Nat)]
    BY <1>3, <1>4, <1>5
  <2> QED BY <1>1, <2>1, FunctionIsSequence
<1>9. work' \in Seq(Nat) /\ Len(work') = n
  <2>1. work' \in [1..n -> Nat]
    BY <1>3, <1>4, <1>5
  <2> QED BY <1>1, <2>1, FunctionIsSequence
<1>10. open' \in Seq(BOOLEAN) /\ Len(open') = n
  <2>1. open' \in [1..n -> BOOLEAN]
    BY <1>3, <1>4
  <2> QED BY <1>1, <2>1, FunctionIsSequence
<1>11. file' \in Seq(Seq(Nat)) /\ Len(file') = n
  <2>1. \A r \in 1..n : Append(file[r], Record!Torn) \in Seq(Nat)
    BY <1>5, <1>6
  <2>2. file' \in [1..n -> Seq(Nat)]
    BY <1>2, <1>4, <1>6, <2>1
  <2> QED BY <1>1, <2>2, FunctionIsSequence
<1>12. RecordTypeOK'
  <2>1. next_id' = next_id /\ next_id' - 1 = n
    BY <1>3 DEF Record!started, n
  <2> QED BY <1>1, <1>3, <1>7, <1>8, <1>9, <1>10, <1>11, <2>1 DEF RecordTypeOK, Record!started, n
<1>13. RecordLoopOK'
  BY <1>3 DEF RecordLoopOK
<1>14. ASSUME NEW r \in 1..n
       PROVE  RFine(r)'
  <2>1. /\ LogFine(history, request[r], from[r], log[r])
        /\ QueueFine(log[r], queue[r], writer[r], work[r])
        /\ FileFine(history, request[r], log[r], queue[r], writer[r], work[r], file[r])
        /\ FileLines(history, request[r], log[r], file[r])
    BY <1>1 DEF RecordInv, RFine, RecordFine, FileFine
  <2>2. queue'[r] = <<>> /\ work'[r] = Record!Torn
    BY <1>3, <1>4
  <2>3. CASE Record!Over(r)
    <3>1. writer'[r] = writer[r] /\ writer[r] \in Dead /\ r \notin torn
      BY <1>3, <1>4, <2>3 DEF Record!Over, Dead
    <3>2. file'[r] = file[r]
      BY <1>2, <1>4, <3>1
    <3>3. QueueFine(log[r], <<>>, writer[r], Record!Torn)
      BY <2>1, <3>1 DEF QueueFine, Dead
    <3>4. FileFine(history, request[r], log[r], <<>>, writer[r], Record!Torn, file[r])
      BY <2>1, <3>1 DEF FileFine, Dead
    <3> QED BY <1>3, <2>1, <2>2, <3>1, <3>2, <3>3, <3>4 DEF RFine, RecordFine, Record!started
  <2>4. CASE ~Record!Over(r)
    <3>1. writer'[r] = "killed" /\ "killed" \in Dead \ {"drained"} /\ writer[r] \notin Dead
      BY <1>3, <1>4, <2>4 DEF Record!Over, Dead
    <3>2. FileLines(history, request[r], log[r], file'[r])
      <4>1. CASE r \in torn
        <5>1. file'[r] = Append(file[r], Record!Torn)
          BY <1>2, <1>4, <4>1
        <5>2. \A i \in DOMAIN file[r] : file[r][i] # Record!Torn
          BY <2>1, <3>1 DEF FileFine
        <5> QED BY <1>6, <2>1, <5>1, <5>2, LineTorn
      <4>2. CASE r \notin torn
        <5>1. file'[r] = file[r]
          BY <1>2, <1>4, <4>2
        <5> QED BY <2>1, <5>1
      <4> QED BY <4>1, <4>2
    <3>3. /\ QueueFine(log[r], <<>>, "killed", Record!Torn)
          /\ FileFine(history, request[r], log[r], <<>>, "killed", Record!Torn, file'[r])
      BY <3>1, <3>2, RecordEnds
    <3> QED BY <1>3, <2>1, <2>2, <3>1, <3>3 DEF RFine, RecordFine, Record!started
  <2> QED BY <2>3, <2>4
<1>15. Made' = 1..n
  BY <1>1, <1>3 DEF Made, Record!started
<1> QED BY <1>3, <1>12, <1>13, <1>14, <1>15 DEF RecordInv

\* The invariant holds in every state of Recorder.
LEMMA RecordInvHolds == Record!Spec => []RecordInv
<1>1. Record!Init => RecordInv
  <2> SUFFICES ASSUME Record!Init PROVE RecordInv
    OBVIOUS
  <2>1. Made = {}
    BY DEF Record!Init, Made
  <2>2. RecordTypeOK /\ RecordLoopOK
    BY <2>1 DEF Record!Init, RecordTypeOK, RecordLoopOK
  <2> QED BY <2>1, <2>2 DEF Record!Init, RecordInv
<1>2. RecordInv /\ [Record!Next]_(Record!vars) => RecordInv'
  <2> SUFFICES ASSUME RecordInv, [Record!Next]_(Record!vars) PROVE RecordInv'
    OBVIOUS
  <2>1. CASE Record!Next
    <3>1. ASSUME NEW req \in Requests, Record!Start(req) PROVE RecordInv'
      BY <3>1, StartKeeps
    <3>2. ASSUME NEW r \in Record!Ids, Record!Stop(r) PROVE RecordInv'
      BY <3>2, QuietLoop
    <3>3. ASSUME NEW r \in Record!Ids, Record!Thread(r) PROVE RecordInv'
      BY <3>3, ThreadStep
    <3>4. ASSUME NEW kind \in EventKinds, Record!Broadcast(kind) PROVE RecordInv'
      BY <3>4, BroadcastKeeps
    <3>5. CASE Record!StopAll
      BY <3>5, QuietLoop
    <3>6. CASE Record!Loop
      BY <3>6, QuietLoop, PushSteps DEF Record!Loop
    <3>7. CASE Record!DaemonEnds
      BY <3>7, EndKeeps
    <3> QED BY <2>1, <3>1, <3>2, <3>3, <3>4, <3>5, <3>6, <3>7 DEF Record!Next
  <2>2. CASE UNCHANGED Record!vars
    BY <2>2 DEF Record!vars, Record!started, Record!threads, Record!loop, RecordInv, RecordTypeOK, RecordLoopOK, Made, RFine,
                SinkFine
  <2> QED BY <2>1, <2>2
<1> QED BY <1>1, <1>2, PTL DEF Record!Spec

\* Whatever refuses an event, fails, is stopped, reaches a limit or is killed, and however the
\* threads are slower than the session: a record's file is the events that it asked for, in
\* their order and without a gap, up to some point, and that of a drained one is all that its
\* queue took (broadcast_for, handle_one_event, join_writer).
THEOREM RecordsFaithful == Record!Spec => []FileFaithful
<1>1. RecordInv => FileFaithful
  <2> SUFFICES ASSUME RecordInv, NEW r \in DOMAIN file
               PROVE  /\ Record!LinesFaithful(r) /\ Record!EventsFaithful(r)
                      /\ writer[r] = "drained" =>
                           \A s \in DOMAIN log[r] : Record!Accepted(r, s) => Record!Written(r, Len(file[r]), s)
    BY DEF FileFaithful, Record!FileFaithful
  <2>1. /\ r \in 1..Len(file) /\ r \in 1..Len(log) /\ r \in 1..Len(from) /\ r \in Made
        /\ file \in Seq(Seq(Nat)) /\ log \in Seq(Seq(Pushed)) /\ from \in Seq(Nat)
        /\ history \in Seq(EventKinds)
    <3>1. RecordTypeOK
      BY DEF RecordInv
    <3>2. /\ file \in Seq(Seq(Nat)) /\ log \in Seq(Seq(Pushed)) /\ from \in Seq(Nat)
          /\ history \in Seq(EventKinds) /\ Len(file) = next_id-1 /\ Len(log) = next_id-1
          /\ Len(from) = next_id-1
      BY <3>1 DEF RecordTypeOK
    <3>3. r \in 1..Len(file)
      BY <3>2
    <3> QED BY <3>2, <3>3 DEF Made
  <2>2. file[r] \in Seq(Nat)
    BY <2>1, Member
  <2>3. log[r] \in Seq(Pushed)
    BY <2>1, Member
  <2>4. from[r] \in Nat
    BY <2>1, Member
  <2>5. /\ LogFine(history, request[r], from[r], log[r])
        /\ FileFine(history, request[r], log[r], queue[r], writer[r], work[r], file[r])
        /\ FileLines(history, request[r], log[r], file[r])
    BY <2>1 DEF RecordInv, RFine, RecordFine, FileFine
  <2>6. \A s : Record!Accepted(r, s) <=> Has(history, request[r], log[r], s)
    BY DEF Record!Accepted, Record!InFormat, Record!KindOf, Has
  <2>7. \A m, s : Record!Written(r, m, s) <=> In(file[r], m, s)
    BY DEF Record!Written, In
  <2>8. Record!LinesFaithful(r)
    BY <2>5, <2>6, <2>7 DEF Record!LinesFaithful, FileLines
  <2>9. Record!EventsFaithful(r)
    <3>1. SUFFICES ASSUME NEW j \in DOMAIN file[r], file[r][j] # Record!Torn, log[r][file[r][j]].event # 0
                   PROVE  LET n == log[r][file[r][j]].event
                          IN /\ n \in DOMAIN history /\ Record!Wanted(r, n)
                             /\ \A m \in 1..n : Record!Wanted(r, m) =>
                                  \E i \in 1..j : log[r][file[r][i]].event = m
                             /\ \A i \in 1..j-1 : log[r][file[r][i]].event < n
      BY DEF Record!EventsFaithful
    <3>2. \A m : Record!Wanted(r, m) <=>
                 /\ Asked(history, request[r], from[r], m)
                 /\ request[r].format = "raw" => history[m] \in Record!Bytes
      BY DEF Record!Wanted, Asked
    <3>3. DOMAIN history = 1..Len(history)
      BY <2>1
    <3> DEFINE n == log[r][file[r][j]].event
               asked(m) == /\ Asked(history, request[r], from[r], m)
                           /\ request[r].format = "raw" => history[m] \in Record!Bytes
    <3>4. /\ n \in 1..Len(history) /\ asked(n)
          /\ \A m \in 1..n : asked(m) => \E i \in 1..j : log[r][file[r][i]].event = m
          /\ \A i \in 1..j-1 : log[r][file[r][i]].event < n
      BY <2>1, <2>2, <2>3, <2>4, <2>5, <3>1, EventsInOrder
    <3> QED BY <3>2, <3>3, <3>4
  <2>10. writer[r] = "drained" =>
           \A s \in DOMAIN log[r] : Record!Accepted(r, s) => Record!Written(r, Len(file[r]), s)
    BY <2>5, <2>6, <2>7 DEF FileFine
  <2> QED BY <2>8, <2>9, <2>10
<1> QED BY <1>1, RecordInvHolds, PTL

=============================================================================
