----------------------------- MODULE AnswerSyncProofs -----------------------------
(***************************************************************************)
(* Proofs about AnswerSync, for any number of students, publications,      *)
(* answers, streams and edits, and any size of a frame: the types, that   *)
(* the device has its answers without a gap, that the mark of the open     *)
(* publication is true, and that the stream implements AnswerDelivery      *)
(* (its safety; that all answers arrive stays with TLC).                   *)
(*                                                                         *)
(* The argument: every frame on the wire starts at or below the device's   *)
(* watermark or at or below the end of a frame before it (Linked), and so  *)
(* does the next frame the service will send, from the watermark of its    *)
(* batcher or from a flush that is reading (Reach). No stored answer names *)
(* a removed option (Kept): a frame with one is refused as a whole, and an *)
(* edit cannot remove what a stored answer names.                          *)
(***************************************************************************)
EXTENDS AnswerSync, SequenceTheorems, TLAPS

(* The answers up to n are stored, or on the wire.                         *)
Reach(w, stored, n) == n <= stored \/ \E j \in DOMAIN w : n <= w[j].to

Linked(w, stored) ==
  \A i \in DOMAIN w : w[i].from <= stored \/ \E j \in 1..(i - 1) : w[i].from <= w[j].to

Shape ==
  /\ accepting => published >= 1
  /\ link # "down" => stream >= 1
  /\ link # "up" => wire = <<>>
  /\ hub <= stream
  /\ \A h \in hellos : h.stream <= stream /\ h.after <= lastAnswerSeq
  /\ \A f \in flushes : f.stream <= stream
  /\ link = "connecting" =>
       /\ hub # stream
       /\ \A h \in hellos : h.stream # stream
       /\ \A f \in flushes : f.stream # stream

Bounded ==
  /\ lastAnswerSeq <= Len(answers) /\ watermark <= Len(answers)
  /\ \A f \in flushes : f.from <= f.to /\ f.to <= Len(answers)
  /\ \A i \in DOMAIN wire : wire[i].to <= Len(answers)

Flow ==
  /\ Linked(wire, lastAnswerSeq)
  /\ link = "up" /\ hub = stream => Reach(wire, lastAnswerSeq, watermark)
  /\ link = "up" => \A f \in flushes : f.stream = stream => Reach(wire, lastAnswerSeq, f.from)

MarksOK ==
  /\ MarkOfOpenIsTrue
  /\ \A p \in Publications : p > published => pubSync[p] = "synced"

Kept == \A n \in 1..lastAnswerSeq : answers[n] \notin gone

IInv == TypeOK /\ Shape /\ Bounded /\ NoGap /\ Flow /\ MarksOK /\ Kept

-----------------------------------------------------------------------------
(* Division, and the frames made of the rows above a watermark.            *)

LEMMA DivBounds ==
  ASSUME NEW a \in Nat, NEW b \in Nat \ {0}
  PROVE  /\ a \div b \in Nat
         /\ (a \div b) * b <= a
         /\ a < (a \div b) * b + b
  OBVIOUS

LEMMA TimesGrows ==
  ASSUME NEW i \in Nat, NEW k \in Nat, i <= k, NEW b \in Nat
  PROVE  i * b <= k * b /\ i * b \in Nat
  OBVIOUS

LEMMA NextTimes ==
  ASSUME NEW i \in Nat, i >= 1, NEW b \in Nat
  PROVE  (i - 1) * b + b = i * b /\ (i - 1) * b \in Nat /\ i * b \in Nat
  OBVIOUS

(* The number of frames: as many as are needed, and no empty one.          *)
LEMMA FrameCount ==
  ASSUME NEW d \in Nat, NEW k, k = (d + ChunkSize - 1) \div ChunkSize
  PROVE  /\ k \in Nat
         /\ d <= k * ChunkSize
         /\ \A i \in 1..k : (i - 1) * ChunkSize < d
         /\ d > 0 => k >= 1
  <1>1. ChunkSize \in Nat \ {0} /\ d + ChunkSize - 1 \in Nat
    BY BoundsAssumption
  <1>2. k \in Nat /\ k * ChunkSize <= d + ChunkSize - 1 /\ d + ChunkSize - 1 < k * ChunkSize + ChunkSize
    BY <1>1, DivBounds
  <1>3. k * ChunkSize \in Nat
    BY <1>1, <1>2, TimesGrows
  <1>4. d <= k * ChunkSize
    BY <1>1, <1>2, <1>3
  <1>5. ASSUME NEW i \in 1..k PROVE (i - 1) * ChunkSize < d
    <2>1. i * ChunkSize <= k * ChunkSize
      BY <1>1, <1>2, TimesGrows
    <2>2. (i - 1) * ChunkSize + ChunkSize = i * ChunkSize /\ (i - 1) * ChunkSize \in Nat
      BY <1>1, NextTimes
    <2> QED  BY <1>1, <1>2, <1>3, <2>1, <2>2
  <1>6. ASSUME d > 0 PROVE k >= 1
    <2>1. CASE k = 0
      BY <1>4, <1>6, <2>1, <1>1
    <2> QED  BY <2>1, <1>2
  <1> QED  BY <1>2, <1>4, <1>5, <1>6

(* The frames follow each other from the watermark to the last row.        *)
LEMMA ChunksFollow ==
  ASSUME NEW from \in Nat, NEW to \in Nat, from <= to
  PROVE  LET C == Chunks(from, to) IN
         /\ C \in Seq(Frame)
         /\ \A i \in 1..Len(C) : C[i].to <= to
         /\ \A i \in 1..Len(C) : C[i].from = from \/ (i - 1 \in 1..Len(C) /\ C[i].from = C[i - 1].to)
         /\ from < to => Len(C) \in 1..Len(C) /\ C[Len(C)].to = to
  <1> DEFINE k == (to - from + ChunkSize - 1) \div ChunkSize
             C == Chunks(from, to)
             f(i) == [from |-> from + (i - 1) * ChunkSize,
                      to |-> IF from + i * ChunkSize < to THEN from + i * ChunkSize ELSE to]
  <1>1. /\ k \in Nat
        /\ to - from <= k * ChunkSize
        /\ \A i \in 1..k : (i - 1) * ChunkSize < to - from
        /\ to - from > 0 => k >= 1
    <2>1. to - from \in Nat
      OBVIOUS
    <2> QED  BY <2>1, FrameCount
  <1>2. ChunkSize \in Nat \ {0}
    BY BoundsAssumption
  <1>3. C = [i \in 1..k |-> f(i)]
    BY DEF Chunks
  <1> HIDE DEF k
  <1>4. \A i \in 1..k : (i - 1) * ChunkSize \in Nat /\ i * ChunkSize \in Nat /\ (i - 1) * ChunkSize + ChunkSize = i * ChunkSize
    BY <1>1, <1>2, NextTimes
  <1>5. \A i \in 1..k : f(i) \in Frame
    BY <1>1, <1>4 DEF Frame
  <1>6. C \in Seq(Frame) /\ Len(C) = k
    BY <1>1, <1>3, <1>5
  <1>7. \A i \in 1..k : /\ C[i].from = from + (i - 1) * ChunkSize
                       /\ C[i].to = IF from + i * ChunkSize < to THEN from + i * ChunkSize ELSE to
    BY <1>3
  <1> HIDE DEF C, f
  <1>8. \A i \in 1..k : C[i].to <= to
    BY <1>4, <1>7
  <1>9. ASSUME NEW i \in 1..k PROVE C[i].from = from \/ (i - 1 \in 1..k /\ C[i].from = C[i - 1].to)
    <2>1. CASE i = 1
      <3>1. C[1].from = from + (1 - 1) * ChunkSize
        BY <1>7, <2>1
      <3>2. (1 - 1) * ChunkSize = 0
        BY <1>2
      <3> QED  BY <3>1, <3>2, <2>1
    <2>2. CASE i # 1
      <3> DEFINE j == i - 1
      <3>1. j \in 1..k
        BY <2>2, <1>1
      <3>2. C[i].from = from + j * ChunkSize
        BY <1>7
      <3>3. j * ChunkSize < to - from
        BY <1>1
      <3>4. j * ChunkSize \in Nat
        BY <3>1, <1>4
      <3> HIDE DEF j
      <3>5. C[j].to = IF from + j * ChunkSize < to THEN from + j * ChunkSize ELSE to
        BY <3>1, <1>7
      <3>6. C[j].to = from + j * ChunkSize
        BY <3>3, <3>4, <3>5
      <3> QED  BY <3>1, <3>2, <3>6 DEF j
    <2> QED  BY <2>1, <2>2
  <1>10. ASSUME from < to PROVE k \in 1..k /\ C[k].to = to
    <2>1. k \in 1..k
      BY <1>1, <1>10
    <2>2. C[k].to = IF from + k * ChunkSize < to THEN from + k * ChunkSize ELSE to
      BY <2>1, <1>7
    <2>3. k * ChunkSize \in Nat /\ to - from <= k * ChunkSize
      BY <2>1, <1>1, <1>4
    <2> QED  BY <2>1, <2>2, <2>3
  <1> QED  BY <1>6, <1>8, <1>9, <1>10 DEF C

-----------------------------------------------------------------------------
(* The wire                                                                *)

LEMMA EmptyLinked ==
  ASSUME NEW l \in Nat
  PROVE  Linked(<<>>, l)
  BY DEF Linked

(* What was on the way still is, with frames behind it.                    *)
LEMMA ReachKeeps ==
  ASSUME NEW w \in Seq(Frame), NEW C \in Seq(Frame), NEW l \in Nat, NEW n \in Nat, Reach(w, l, n)
  PROVE  Reach(w \o C, l, n)
  <1>1. CASE n <= l
    BY <1>1 DEF Reach
  <1>2. CASE \E j \in DOMAIN w : n <= w[j].to
    <2>1. PICK j \in DOMAIN w : n <= w[j].to
      BY <1>2
    <2>2. j \in 1..Len(w) /\ Len(w) \in Nat /\ Len(C) \in Nat
      BY LenProperties
    <2>3. j \in DOMAIN (w \o C) /\ (w \o C)[j] = w[j]
      <3>1. w \o C \in Seq(Frame) /\ Len(w \o C) = Len(w) + Len(C)
        BY ConcatProperties
      <3>2. DOMAIN (w \o C) = 1..(Len(w) + Len(C))
        BY <3>1, LenProperties
      <3>3. \A i \in 1..(Len(w) + Len(C)) : (w \o C)[i] = IF i <= Len(w) THEN w[i] ELSE C[i - Len(w)]
        BY ConcatProperties
      <3> QED  BY <2>2, <3>2, <3>3
    <2> QED  BY <2>1, <2>3 DEF Reach
  <1> QED  BY <1>1, <1>2 DEF Reach

(* Rows that start within reach, sent behind the frames on the wire.       *)
LEMMA SendKeeps ==
  ASSUME NEW w \in Seq(Frame), NEW l \in Nat, Linked(w, l),
         NEW from \in Nat, NEW to \in Nat, from <= to, Reach(w, l, from)
  PROVE  /\ w \o Chunks(from, to) \in Seq(Frame)
         /\ Linked(w \o Chunks(from, to), l)
         /\ Reach(w \o Chunks(from, to), l, to)
         /\ \A i \in DOMAIN (w \o Chunks(from, to)) :
              (w \o Chunks(from, to))[i].to <= to \/ (i \in DOMAIN w /\ (w \o Chunks(from, to))[i] = w[i])
  <1> DEFINE C == Chunks(from, to)
             v == w \o C
             m == Len(w)
  <1>1. /\ C \in Seq(Frame)
        /\ \A i \in 1..Len(C) : C[i].to <= to
        /\ \A i \in 1..Len(C) : C[i].from = from \/ (i - 1 \in 1..Len(C) /\ C[i].from = C[i - 1].to)
        /\ from < to => Len(C) \in 1..Len(C) /\ C[Len(C)].to = to
    BY ChunksFollow
  <1> HIDE DEF C
  <1>2. m \in Nat /\ Len(C) \in Nat /\ DOMAIN w = 1..m
    BY <1>1, LenProperties
  <1>3. /\ v \in Seq(Frame) /\ Len(v) = m + Len(C)
        /\ \A i \in 1..(m + Len(C)) : v[i] = IF i <= m THEN w[i] ELSE C[i - m]
    BY <1>1, ConcatProperties
  <1>4. DOMAIN v = 1..(m + Len(C))
    BY <1>3, LenProperties
  <1>5. \A i \in 1..m : i \in DOMAIN v /\ v[i] = w[i]
    BY <1>2, <1>3, <1>4
  <1>6. \A i \in 1..Len(C) : m + i \in DOMAIN v /\ v[m + i] = C[i]
    BY <1>2, <1>3, <1>4
  <1>7. \A i \in DOMAIN v : i \in 1..m \/ (i - m \in 1..Len(C) /\ v[i] = C[i - m])
    BY <1>2, <1>3, <1>4
  <1> HIDE DEF v, m
  <1>8. Linked(v, l)
    <2> SUFFICES ASSUME NEW i \in DOMAIN v
                 PROVE  v[i].from <= l \/ \E j \in 1..(i - 1) : v[i].from <= v[j].to
      BY DEF Linked
    <2>1. CASE i \in 1..m
      <3>1. w[i].from <= l \/ \E j \in 1..(i - 1) : w[i].from <= w[j].to
        BY <1>2, <2>1 DEF Linked
      <3>2. v[i] = w[i] /\ \A j \in 1..(i - 1) : v[j] = w[j]
        BY <1>2, <1>5, <2>1
      <3> QED  BY <3>1, <3>2
    <2>2. CASE i - m \in 1..Len(C) /\ v[i] = C[i - m]
      <3> DEFINE n == i - m
      <3>1. n \in 1..Len(C) /\ i = m + n /\ v[i] = C[n]
        BY <2>2, <1>2, <1>4
      <3> HIDE DEF n
      <3>2. CASE C[n].from = from
        <4>1. CASE from <= l
          BY <3>1, <3>2, <4>1
        <4>2. CASE \E j \in DOMAIN w : from <= w[j].to
          <5>1. PICK j \in 1..m : from <= w[j].to
            BY <4>2, <1>2
          <5>2. v[j] = w[j] /\ j \in 1..(i - 1)
            BY <5>1, <1>2, <1>5, <3>1
          <5>3. v[i].from <= v[j].to
            BY <5>1, <5>2, <3>1, <3>2
          <5> QED  BY <5>2, <5>3
        <4> QED  BY <4>1, <4>2 DEF Reach
      <3>3. CASE n - 1 \in 1..Len(C) /\ C[n].from = C[n - 1].to
        <4> DEFINE p == n - 1
        <4>1. p \in 1..Len(C) /\ m + p \in 1..(i - 1)
          BY <3>1, <3>3, <1>2
        <4>2. v[m + p] = C[p]
          BY <4>1, <1>6
        <4>3. v[i].from = v[m + p].to /\ C[p] \in Frame
          BY <3>1, <3>3, <4>1, <4>2, <1>1
        <4>4. v[i].from <= v[m + p].to
          BY <4>2, <4>3 DEF Frame
        <4> QED  BY <4>1, <4>4
      <3> QED  BY <3>1, <3>2, <3>3, <1>1
    <2> QED  BY <2>1, <2>2, <1>7
  <1>9. Reach(v, l, to)
    <2>1. CASE from < to
      <3>1. Len(C) \in 1..Len(C) /\ C[Len(C)].to = to
        BY <1>1, <2>1
      <3>2. m + Len(C) \in DOMAIN v /\ v[m + Len(C)].to = to
        BY <3>1, <1>6
      <3> QED  BY <3>2 DEF Reach
    <2>2. CASE from = to
      <3>1. Reach(w, l, to)
        BY <2>2
      <3> QED  BY <3>1, <1>1, ReachKeeps DEF v
    <2> QED  BY <2>1, <2>2
  <1>10. ASSUME NEW i \in DOMAIN v PROVE v[i].to <= to \/ (i \in DOMAIN w /\ v[i] = w[i])
    BY <1>1, <1>2, <1>5, <1>7
  <1> QED  BY <1>3, <1>8, <1>9, <1>10 DEF C, v

(* The first frame is stored: what was linked to it now is to what is.     *)
LEMMA StoreKeeps ==
  ASSUME NEW w \in Seq(Frame), w # <<>>, NEW l \in Nat, Linked(w, l),
         NEW s, s = IF Head(w).to > l THEN Head(w).to ELSE l
  PROVE  /\ Head(w).from <= l
         /\ Linked(Tail(w), s)
         /\ \A n \in Nat : Reach(w, l, n) => Reach(Tail(w), s, n)
         /\ s \in Nat /\ l <= s
  <1> DEFINE m == Len(w)
             t == Tail(w)
  <1>1. m \in Nat \ {0} /\ DOMAIN w = 1..m
    BY EmptySeq, LenProperties
  <1>2. Head(w) = w[1] /\ w[1] \in Frame
    BY <1>1, ElementOfSeq
  <1>3. t \in Seq(Frame) /\ Len(t) = m - 1 /\ \A i \in 1..Len(t) : t[i] = w[i + 1]
    BY HeadTailProperties
  <1>4. DOMAIN t = 1..(m - 1)
    BY <1>3, LenProperties
  <1>5. s \in Nat /\ l <= s /\ w[1].to <= s
    BY <1>2 DEF Frame
  <1> HIDE DEF m, t
  <1>6. w[1].from <= l
    BY <1>1 DEF Linked
  <1>7. \A i \in 1..(m - 1) : t[i] = w[i + 1] /\ w[i + 1] \in Frame
    BY <1>1, <1>3, ElementOfSeq DEF m
  <1>8. ASSUME NEW n \in Nat, NEW k \in Nat, k <= m,
               n <= l \/ \E j \in 1..k : n <= w[j].to
        PROVE  n <= s \/ \E j \in 1..(k - 1) : n <= t[j].to
    <2>1. CASE n <= l
      BY <2>1, <1>5
    <2>2. CASE \E j \in 1..k : n <= w[j].to
      <3>1. PICK j \in 1..k : n <= w[j].to
        BY <2>2
      <3>2. CASE j = 1
        BY <3>1, <3>2, <1>2, <1>5 DEF Frame
      <3>3. CASE j > 1
        <4> DEFINE i == j - 1
        <4>1. i \in 1..(k - 1) /\ i \in 1..(m - 1) /\ i + 1 = j
          BY <3>1, <3>3, <1>1, <1>8
        <4>2. n <= t[i].to
          BY <4>1, <3>1, <1>7
        <4> QED  BY <4>1, <4>2
      <3> QED  BY <3>1, <3>2, <3>3
    <2> QED  BY <1>8, <2>1, <2>2
  <1>9. Linked(t, s)
    <2> SUFFICES ASSUME NEW i \in 1..(m - 1)
                 PROVE  t[i].from <= s \/ \E j \in 1..(i - 1) : t[i].from <= t[j].to
      BY <1>4 DEF Linked
    <2>1. w[i + 1].from <= l \/ \E j \in 1..i : w[i + 1].from <= w[j].to
      <3>1. i + 1 \in DOMAIN w /\ (i + 1) - 1 = i
        BY <1>1
      <3>2. w[i + 1].from <= l \/ \E j \in 1..((i + 1) - 1) : w[i + 1].from <= w[j].to
        BY <3>1 DEF Linked
      <3> QED  BY <3>1, <3>2
    <2>2. w[i + 1].from \in Nat /\ i \in Nat /\ i <= m
      <3>1. w[i + 1] \in Frame
        BY <1>7
      <3>2. w[i + 1].from \in Nat
        BY <3>1 DEF Frame
      <3>3. i \in Nat /\ i <= m
        BY <1>1
      <3> QED  BY <3>2, <3>3
    <2>3. w[i + 1].from <= s \/ \E j \in 1..(i - 1) : w[i + 1].from <= t[j].to
      BY <2>1, <2>2, <1>8
    <2> QED  BY <2>3, <1>7
  <1>10. ASSUME NEW n \in Nat, Reach(w, l, n) PROVE Reach(t, s, n)
    <2>1. n <= l \/ \E j \in 1..m : n <= w[j].to
      BY <1>1, <1>10 DEF Reach
    <2>2. n <= s \/ \E j \in 1..(m - 1) : n <= t[j].to
      BY <2>1, <1>1, <1>8
    <2> QED  BY <2>2, <1>4 DEF Reach
  <1> QED  BY <1>2, <1>5, <1>6, <1>9, <1>10 DEF t

-----------------------------------------------------------------------------
(* The invariant, one action at a time.                                    *)

LEMMA InitInv ==
  Init => IInv
  <1> SUFFICES ASSUME Init PROVE IInv
    OBVIOUS
  <1> USE BoundsAssumption DEF Init
  <1>1. TypeOK
    <2>1. answers \in Seq(Publications \X Students) /\ wire \in Seq(Frame)
      BY EmptySeq
    <2>2. pubSync \in [Publications -> {"synced", "stale"}]
      OBVIOUS
    <2>3. /\ published \in 0..MaxPublications /\ stream \in 0..MaxStreams
          /\ hub \in 0..MaxStreams /\ adopted \in 0..MaxPublications
      OBVIOUS
    <2>4. /\ hellos \subseteq [stream : 1..MaxStreams, after : Nat]
          /\ flushes \subseteq [stream : 1..MaxStreams, from : Nat, to : Nat]
          /\ rows \subseteq Nat
      OBVIOUS
    <2>5. /\ accepting \in BOOLEAN /\ link \in {"down", "connecting", "up"}
          /\ watermark \in Nat /\ dirty \in BOOLEAN /\ lastAnswerSeq \in Nat
          /\ syncState \in {"synced", "stale", "failed"}
          /\ draft \subseteq Publications /\ gone \subseteq Publications \X Students
      OBVIOUS
    <2> HIDE DEF Init
    <2> QED  BY <2>1, <2>2, <2>3, <2>4, <2>5 DEF TypeOK
  <1>2. Shape /\ Bounded /\ NoGap
    BY DEF Shape, Bounded, NoGap
  <1>3. Linked(<<>>, 0)
    BY EmptyLinked
  <1>4. Flow
    BY <1>3 DEF Flow
  <1>5. MarksOK
    BY DEF MarksOK, MarkOfOpenIsTrue, Open
  <1> QED  BY <1>1, <1>2, <1>4, <1>5 DEF IInv, Kept

LEMMA OpenNextInv ==
  ASSUME IInv, OpenNext
  PROVE  IInv'
  <1> USE DEF OpenNext, batcher, transport, device, question, marks, IInv, Kept
  <1>1. TypeOK'
    BY BoundsAssumption DEF TypeOK
  <1>2. Shape' /\ Bounded' /\ NoGap'
    BY DEF Shape, Bounded, NoGap, TypeOK
  <1>3. Flow'
    BY DEF Flow
  <1>4. MarksOK'
    <2>1. published + 1 \in Publications /\ published \in Nat
      BY BoundsAssumption DEF TypeOK, Publications
    <2>2. \A p \in Publications : p > published => pubSync[p] = "synced"
      BY DEF MarksOK
    <2>3. Publications \subseteq Nat
      BY DEF Publications
    <2>4. Open' = published + 1
      BY DEF Open
    <2> QED  BY <2>1, <2>2, <2>3, <2>4 DEF MarksOK, MarkOfOpenIsTrue
  <1> QED  BY <1>1, <1>2, <1>3, <1>4

LEMMA CloseOpenInv ==
  ASSUME IInv, CloseOpen
  PROVE  IInv'
  <1> USE DEF CloseOpen, batcher, transport, device, question, marks, IInv, Kept
  <1>1. TypeOK' /\ Shape' /\ Bounded' /\ NoGap'
    BY DEF TypeOK, Shape, Bounded, NoGap
  <1>2. Flow'
    BY DEF Flow
  <1>3. MarksOK'
    BY DEF MarksOK, MarkOfOpenIsTrue, Open
  <1> QED  BY <1>1, <1>2, <1>3

LEMMA SubmitInv ==
  ASSUME IInv, NEW s \in Students, Submit(s)
  PROVE  IInv'
  <1> USE DEF Submit, transport, device, question, marks, IInv, Kept
  <1>1. published \in Publications
    BY DEF TypeOK, Shape, Publications
  <1>2. answers' \in Seq(Publications \X Students) /\ Len(answers') = Len(answers) + 1 /\ Len(answers) \in Nat
    BY <1>1, LenProperties DEF TypeOK
  <1>3. TypeOK'
    BY <1>2 DEF TypeOK
  <1>4. Shape' /\ NoGap'
    BY DEF Shape, NoGap
  <1>5. Bounded'
    <2>1. \A i \in DOMAIN wire : wire[i] \in Frame
      BY ElementOfSeq, LenProperties DEF TypeOK
    <2>2. \A i \in DOMAIN wire : wire[i].to \in Nat
      BY <2>1 DEF Frame
    <2>3. \A f \in flushes : f.to \in Nat
      BY DEF TypeOK
    <2> QED  BY <1>2, <2>2, <2>3 DEF Bounded, TypeOK
  <1>6. Flow'
    BY DEF Flow
  <1>7. MarksOK'
    BY DEF MarksOK, MarkOfOpenIsTrue, Open
  <1>8. Kept'
    BY <1>2 DEF Bounded, TypeOK
  <1> QED  BY <1>3, <1>4, <1>5, <1>6, <1>7, <1>8

LEMMA StartFlushInv ==
  ASSUME IInv, StartFlush
  PROVE  IInv'
  <1> USE DEF StartFlush, service, transport, device, question, marks, IInv, Kept
  <1> DEFINE f == [stream |-> hub, from |-> watermark, to |-> Len(answers)]
  <1>1. Len(answers) \in Nat /\ hub \in 1..MaxStreams /\ watermark \in Nat
    BY LenProperties, BoundsAssumption DEF TypeOK
  <1>2. f \in [stream : 1..MaxStreams, from : Nat, to : Nat]
    BY <1>1
  <1>3. TypeOK'
    BY <1>2 DEF TypeOK
  <1>4. f.stream = hub /\ f.from = watermark /\ f.to = Len(answers)
    OBVIOUS
  <1>5. flushes' = flushes \cup {f}
    OBVIOUS
  <1> HIDE DEF f
  <1>6. Shape'
    BY <1>4, <1>5 DEF Shape
  <1>7. Bounded' /\ NoGap'
    BY <1>1, <1>4, <1>5 DEF Bounded, NoGap
  <1>8. Flow'
    BY <1>4, <1>5 DEF Flow
  <1>9. MarksOK'
    BY DEF MarksOK, MarkOfOpenIsTrue, Open
  <1> QED  BY <1>3, <1>6, <1>7, <1>8, <1>9

LEMMA DetachInv ==
  ASSUME IInv, Detach \/ RestartService
  PROVE  IInv'
  <1> USE DEF Detach, RestartService, service, transport, device, question, marks, IInv, Kept
  <1>1. /\ hub' = 0 /\ dirty' = FALSE /\ watermark' = watermark
        /\ flushes' \subseteq flushes /\ hellos' \subseteq hellos
        /\ UNCHANGED <<answers, published, accepting, stream, link, wire, rows, lastAnswerSeq, syncState, pubSync, adopted, draft, gone>>
    OBVIOUS
  <1>2. TypeOK'
    <2>1. 0 \in 0..MaxStreams
      BY BoundsAssumption
    <2>2. /\ hellos' \subseteq [stream : 1..MaxStreams, after : Nat]
          /\ flushes' \subseteq [stream : 1..MaxStreams, from : Nat, to : Nat]
      BY <1>1 DEF TypeOK
    <2> QED  BY <1>1, <2>1, <2>2 DEF TypeOK
  <1>3. Shape'
    BY <1>1 DEF Shape, TypeOK
  <1>4. Bounded' /\ NoGap'
    BY <1>1 DEF Bounded, NoGap
  <1>5. Flow'
    <2>1. link' = "up" => hub' # stream'
      BY <1>1 DEF Shape, TypeOK
    <2> QED  BY <1>1, <2>1 DEF Flow
  <1>6. MarksOK'
    BY <1>1 DEF MarksOK, MarkOfOpenIsTrue, Open
  <1> QED  BY <1>2, <1>3, <1>4, <1>5, <1>6

LEMMA ConnectInv ==
  ASSUME IInv, Connect
  PROVE  IInv'
  <1> USE DEF Connect, Spare, service, batcher, device, question, marks, IInv, Kept
  <1>1. TypeOK'
    BY BoundsAssumption DEF TypeOK
  <1>2. Shape'
    <2>1. stream \in Nat /\ hub \in Nat /\ \A h \in hellos : h.stream \in Nat
      BY BoundsAssumption DEF TypeOK
    <2>2. \A f \in flushes : f.stream \in Nat
      BY DEF TypeOK
    <2> QED  BY <2>1, <2>2 DEF Shape
  <1>3. Bounded' /\ NoGap'
    BY DEF Bounded, NoGap
  <1>4. Flow'
    <2>1. Linked(<<>>, lastAnswerSeq)
      BY EmptyLinked DEF TypeOK
    <2> QED  BY <2>1 DEF Flow
  <1>5. MarksOK'
    BY DEF MarksOK, MarkOfOpenIsTrue, Open
  <1> QED  BY <1>1, <1>2, <1>3, <1>4, <1>5

LEMMA HelloInv ==
  ASSUME IInv, Hello
  PROVE  IInv'
  <1> USE DEF Hello, service, batcher, device, question, marks, IInv, Kept
  <1> DEFINE h == [stream |-> stream, after |-> lastAnswerSeq]
  <1>1. stream \in 1..MaxStreams /\ lastAnswerSeq \in Nat
    BY BoundsAssumption DEF TypeOK, Shape
  <1>2. h \in [stream : 1..MaxStreams, after : Nat] /\ h.stream = stream /\ h.after = lastAnswerSeq
    BY <1>1
  <1>3. hellos' = hellos \cup {h}
    OBVIOUS
  <1> HIDE DEF h
  <1>4. TypeOK'
    BY <1>2, <1>3 DEF TypeOK
  <1>5. Shape'
    BY <1>1, <1>2, <1>3 DEF Shape
  <1>6. Bounded' /\ NoGap'
    BY DEF Bounded, NoGap
  <1>7. Flow'
    BY DEF Flow, Shape
  <1>8. MarksOK'
    BY DEF MarksOK, MarkOfOpenIsTrue, Open
  <1> QED  BY <1>4, <1>5, <1>6, <1>7, <1>8

LEMMA DropInv ==
  ASSUME IInv, Drop \/ Restarted
  PROVE  IInv'
  <1> USE DEF Drop, Restarted, service, batcher, device, question, marks, IInv, Kept
  <1>1. /\ link' = "down" /\ wire' = <<>>
        /\ UNCHANGED <<answers, published, accepting, hub, watermark, dirty, flushes,
                       stream, hellos, rows, lastAnswerSeq, pubSync, draft, gone>>
        /\ \/ syncState' = syncState /\ adopted' = adopted
           \/ /\ syncState' = "synced"
              /\ adopted' = IF Open # 0 /\ pubSync[Open] = "stale" THEN Open ELSE adopted
    OBVIOUS
  <1>2. TypeOK'
    <2>1. adopted' \in 0..MaxPublications /\ syncState' \in {"synced", "stale", "failed"}
      BY <1>1, BoundsAssumption DEF TypeOK, Open
    <2>2. wire' \in Seq(Frame)
      BY <1>1, EmptySeq
    <2> HIDE DEF Drop, Restarted
    <2> QED  BY <1>1, <2>1, <2>2 DEF TypeOK
  <1>3. Shape'
    BY <1>1 DEF Shape
  <1>4. Bounded' /\ NoGap'
    BY <1>1 DEF Bounded, NoGap
  <1>5. Flow'
    <2>1. Linked(<<>>, lastAnswerSeq)
      BY EmptyLinked DEF TypeOK
    <2> QED  BY <1>1, <2>1 DEF Flow
  <1>6. MarksOK'
    <2>1. Open' = Open
      BY <1>1 DEF Open
    <2> HIDE DEF Drop, Restarted
    <2> QED  BY <1>1, <2>1 DEF MarksOK, MarkOfOpenIsTrue
  <1> QED  BY <1>1, <1>2, <1>3, <1>4, <1>5, <1>6

LEMMA QuestionInv ==
  ASSUME IInv, NEW p \in Publications,
         MarkSent(p) \/ \E s \in Students : EditQuestion(p, s)
  PROVE  IInv'
  <1> USE DEF service, batcher, transport, device, marks, IInv
  <1>1. /\ UNCHANGED <<answers, published, accepting, batcher, transport, device, marks>>
        /\ draft' \subseteq draft
    BY DEF MarkSent, EditQuestion
  <1>2. gone' \subseteq Publications \X Students
    BY DEF MarkSent, EditQuestion, TypeOK
  <1>3. TypeOK'
    BY <1>1, <1>2 DEF TypeOK
  <1>4. Shape' /\ Bounded' /\ NoGap'
    BY <1>1 DEF Shape, Bounded, NoGap
  <1>5. Flow'
    BY <1>1 DEF Flow
  <1>6. MarksOK'
    BY <1>1 DEF MarksOK, MarkOfOpenIsTrue, Open
  <1>7. \A n \in 1..lastAnswerSeq : answers[n] \notin gone'
    <2>1. CASE MarkSent(p)
      BY <2>1 DEF MarkSent, Kept
    <2>2. ASSUME NEW s \in Students, EditQuestion(p, s)
          PROVE  \A n \in 1..lastAnswerSeq : answers[n] \notin gone'
      BY <2>2 DEF EditQuestion, Kept, NoGap
    <2> QED  BY <2>1, <2>2
  <1>8. Kept'
    BY <1>1, <1>7 DEF Kept
  <1> QED  BY <1>3, <1>4, <1>5, <1>6, <1>8

LEMMA GoStaleInv ==
  ASSUME IInv, GoStale \/ GoFailed
  PROVE  IInv'
  <1> USE DEF GoStale, GoFailed, service, batcher, transport, device, question, IInv, Kept
  <1>1. TypeOK'
    BY DEF TypeOK
  <1>2. Shape' /\ Bounded' /\ NoGap'
    BY DEF Shape, Bounded, NoGap
  <1>3. Flow'
    BY DEF Flow
  <1>4. MarksOK'
    <2>1. syncState' # "synced" /\ adopted' = adopted /\ published' = published
      OBVIOUS
    <2>2. \A p \in Publications : p > published => pubSync'[p] = pubSync[p]
      <3>1. \A p \in Publications : p > published => p # Open
        BY DEF Open, TypeOK, Publications
      <3> QED  BY <3>1
    <2> QED  BY <2>1, <2>2 DEF MarksOK, MarkOfOpenIsTrue
  <1> QED  BY <1>1, <1>2, <1>3, <1>4

(* A frame from the service takes the mark of the open publication back.   *)
LEMMA TakenKeepsMarks ==
  ASSUME IInv, NEW ps, pubSync' = Taken(ps), syncState' = "synced",
         UNCHANGED <<published, accepting, adopted>>
  PROVE  /\ pubSync' \in [Publications -> {"synced", "stale"}]
         /\ MarksOK'
  <1> USE DEF IInv
  <1>1. pubSync' \in [Publications -> {"synced", "stale"}]
    BY DEF Taken, TypeOK
  <1>2. \A p \in Publications : pubSync'[p] = IF p \in ps \/ (p = Open /\ syncState # "synced")
                                              THEN "synced" ELSE pubSync[p]
    BY DEF Taken
  <1>3. Open' = Open /\ (Open # 0 => Open \in Publications)
    BY DEF Open, Shape, TypeOK, Publications
  <1>4. MarkOfOpenIsTrue'
    BY <1>2, <1>3 DEF MarksOK, MarkOfOpenIsTrue
  <1>5. \A p \in Publications : p > published' => pubSync'[p] = "synced"
    BY <1>2 DEF MarksOK
  <1> QED  BY <1>1, <1>4, <1>5 DEF MarksOK

LEMMA HeartbeatInv ==
  ASSUME IInv, Heartbeat
  PROVE  IInv'
  <1> USE DEF Heartbeat, service, batcher, transport, device, question, IInv, Kept
  <1>1. pubSync' \in [Publications -> {"synced", "stale"}] /\ MarksOK'
    BY TakenKeepsMarks
  <1>2. TypeOK'
    BY <1>1 DEF TypeOK
  <1>3. Shape' /\ Bounded' /\ NoGap'
    BY DEF Shape, Bounded, NoGap
  <1>4. Flow'
    BY DEF Flow
  <1> QED  BY <1>1, <1>2, <1>3, <1>4

LEMMA IngestInv ==
  ASSUME IInv, Ingest
  PROVE  IInv'
  <1> USE DEF service, batcher, question, IInv
  <1> DEFINE f == Head(wire)
  <1>1. /\ wire \in Seq(Frame) /\ wire # <<>> /\ lastAnswerSeq \in Nat
        /\ wire' = Tail(wire)
        /\ rows' = rows \cup (f.from + 1)..f.to
        /\ lastAnswerSeq' = IF f.to > lastAnswerSeq THEN f.to ELSE lastAnswerSeq
        /\ UNCHANGED <<answers, published, accepting, hub, watermark, dirty, flushes, stream, link, hellos, draft, gone, adopted>>
        /\ \A a \in (f.from + 1)..f.to : answers[a] \notin gone
    BY DEF Ingest, Refused, TypeOK
  <1>2. syncState' = "synced" /\ \E ps : pubSync' = Taken(ps)
    BY DEF Ingest
  <1>3. pubSync' \in [Publications -> {"synced", "stale"}] /\ MarksOK'
    BY <1>1, <1>2, TakenKeepsMarks
  <1>4. /\ f.from <= lastAnswerSeq
        /\ Linked(wire', lastAnswerSeq')
        /\ \A n \in Nat : Reach(wire, lastAnswerSeq, n) => Reach(wire', lastAnswerSeq', n)
        /\ lastAnswerSeq' \in Nat /\ lastAnswerSeq <= lastAnswerSeq'
    BY <1>1, StoreKeeps DEF Flow
  <1>5. /\ wire' \in Seq(Frame) /\ Len(wire') = Len(wire) - 1 /\ Len(wire) \in Nat
        /\ \A i \in 1..Len(wire') : wire'[i] = wire[i + 1]
        /\ DOMAIN wire' = 1..Len(wire') /\ DOMAIN wire = 1..Len(wire)
    BY <1>1, HeadTailProperties, LenProperties
  <1>6. f \in Frame /\ f = wire[1] /\ 1 \in DOMAIN wire
    BY <1>1, HeadTailProperties, EmptySeq, LenProperties
  <1>7. f.from \in Nat /\ f.to \in Nat /\ f.to <= Len(answers)
    <2>1. f.to <= Len(answers)
      BY <1>6 DEF Bounded
    <2> QED  BY <2>1, <1>6 DEF Frame
  <1> HIDE DEF f
  <1>8. TypeOK'
    <2>1. rows' \subseteq Nat
      <3>1. \A a, b \in Nat : (a + 1)..b \subseteq Nat
        OBVIOUS
      <3>2. rows \subseteq Nat
        BY DEF TypeOK
      <3> QED  BY <3>1, <3>2, <1>1, <1>7
    <2>2. pubSync' \in [Publications -> {"synced", "stale"}] /\ syncState' = "synced" /\ lastAnswerSeq' \in Nat
      BY <1>2, <1>3, <1>4
    <2>3. wire' \in Seq(Frame)
      BY <1>5
    <2> QED  BY <2>1, <2>2, <2>3, <1>1 DEF TypeOK
  <1>9. Shape'
    <2>1. \A h \in hellos : h.after \in Nat
      BY DEF TypeOK
    <2>2. \A h \in hellos : h.after <= lastAnswerSeq'
      BY <1>1, <1>4, <2>1 DEF Shape
    <2>3. link = "up"
      BY <1>1 DEF Shape
    <2> QED  BY <1>1, <2>2, <2>3 DEF Shape
  <1>10. Bounded'
    <2>1. \A i \in DOMAIN wire : wire[i].to <= Len(answers)
      BY DEF Bounded
    <2>2. \A i \in DOMAIN wire' : i + 1 \in DOMAIN wire /\ wire'[i] = wire[i + 1]
      BY <1>5
    <2>3. \A i \in DOMAIN wire' : wire'[i].to <= Len(answers)
      BY <2>1, <2>2
    <2> QED  BY <1>1, <1>7, <2>3 DEF Bounded
  <1>11. NoGap'
    BY <1>1, <1>4, <1>7 DEF NoGap
  <1>12. Flow'
    <2>1. watermark \in Nat /\ \A g \in flushes : g.from \in Nat
      BY DEF TypeOK
    <2> QED  BY <1>1, <1>4, <2>1 DEF Flow
  <1>13. Kept'
    <2>1. \A n \in 1..lastAnswerSeq' : n \in 1..lastAnswerSeq \/ n \in (f.from + 1)..f.to
      BY <1>1, <1>4, <1>7
    <2> QED  BY <1>1, <2>1 DEF Kept
  <1> QED  BY <1>3, <1>8, <1>9, <1>10, <1>11, <1>12, <1>13

(* What is sent arrives on the device's stream, or not at all.             *)
LEMMA SentKeeps ==
  ASSUME IInv, NEW to \in 1..MaxStreams, NEW from \in Nat, NEW n \in Nat,
         from <= n, n <= Len(answers),
         to = stream /\ link = "up" => Reach(wire, lastAnswerSeq, from),
         Sent(to, Chunks(from, n))
  PROVE  /\ wire' \in Seq(Frame)
         /\ link # "up" => wire' = <<>>
         /\ \A i \in DOMAIN wire' : wire'[i].to <= Len(answers)
         /\ Linked(wire', lastAnswerSeq)
         /\ to = stream /\ link = "up" => Reach(wire', lastAnswerSeq, n)
         /\ \A m \in Nat : Reach(wire, lastAnswerSeq, m) => Reach(wire', lastAnswerSeq, m)
  <1> USE DEF IInv
  <1> DEFINE C == Chunks(from, n)
  <1>1. /\ wire \in Seq(Frame) /\ lastAnswerSeq \in Nat /\ Linked(wire, lastAnswerSeq)
        /\ \A i \in DOMAIN wire : wire[i].to <= Len(answers)
        /\ link # "up" => wire = <<>>
        /\ Len(answers) \in Nat
    BY LenProperties DEF TypeOK, Flow, Bounded, Shape
  <1>2. C \in Seq(Frame)
    BY ChunksFollow
  <1>3. CASE to = stream /\ link = "up"
    <2>1. wire' = wire \o C
      BY <1>3 DEF Sent
    <2>2. /\ wire \o C \in Seq(Frame)
          /\ Linked(wire \o C, lastAnswerSeq)
          /\ Reach(wire \o C, lastAnswerSeq, n)
          /\ \A i \in DOMAIN (wire \o C) : (wire \o C)[i].to <= n \/ (i \in DOMAIN wire /\ (wire \o C)[i] = wire[i])
      BY <1>1, <1>3, SendKeeps
    <2>3. \A m \in Nat : Reach(wire, lastAnswerSeq, m) => Reach(wire \o C, lastAnswerSeq, m)
      BY <1>1, <1>2, ReachKeeps
    <2> HIDE DEF C
    <2>4. \A i \in DOMAIN wire' : wire'[i] \in Frame
      BY <2>1, <2>2, ElementOfSeq, LenProperties
    <2>5. \A i \in DOMAIN wire' : wire'[i].to \in Nat
      BY <2>4 DEF Frame
    <2>6. \A i \in DOMAIN wire' : wire'[i].to <= Len(answers)
      BY <1>1, <2>1, <2>2, <2>5
    <2> QED  BY <1>3, <2>1, <2>2, <2>3, <2>6
  <1>4. CASE ~(to = stream /\ link = "up")
    <2>1. wire' = wire
      BY <1>4 DEF Sent
    <2> QED  BY <1>1, <1>4, <2>1
  <1> QED  BY <1>3, <1>4

LEMMA AttachInv ==
  ASSUME IInv, NEW h \in hellos, Attach(h)
  PROVE  IInv'
  <1> USE DEF service, device, question, marks, IInv, Kept
  <1>1. /\ hellos' = hellos \ {h} /\ hub' = h.stream /\ watermark' = Len(answers) /\ dirty' = FALSE
        /\ Sent(h.stream, Chunks(h.after, Len(answers)))
        /\ UNCHANGED <<answers, published, accepting, stream, link, flushes, rows, lastAnswerSeq, syncState, pubSync, adopted, draft, gone>>
    BY DEF Attach
  <1>2. h.stream \in 1..MaxStreams /\ h.after \in Nat
    BY DEF TypeOK
  <1>3. h.stream <= stream /\ h.after <= lastAnswerSeq /\ (link = "connecting" => h.stream # stream)
    BY DEF Shape
  <1>4. lastAnswerSeq \in Nat /\ lastAnswerSeq <= Len(answers) /\ Len(answers) \in Nat
    BY LenProperties DEF TypeOK, Bounded
  <1>5. Reach(wire, lastAnswerSeq, h.after)
    BY <1>3 DEF Reach
  <1>6. /\ wire' \in Seq(Frame)
        /\ link # "up" => wire' = <<>>
        /\ \A i \in DOMAIN wire' : wire'[i].to <= Len(answers)
        /\ Linked(wire', lastAnswerSeq)
        /\ h.stream = stream /\ link = "up" => Reach(wire', lastAnswerSeq, Len(answers))
        /\ \A m \in Nat : Reach(wire, lastAnswerSeq, m) => Reach(wire', lastAnswerSeq, m)
    BY <1>1, <1>2, <1>3, <1>4, <1>5, SentKeeps
  <1>7. TypeOK'
    <2>1. hub' \in 0..MaxStreams /\ watermark' \in Nat /\ dirty' \in BOOLEAN
      <3>1. \A n \in 1..MaxStreams : n \in 0..MaxStreams
        BY BoundsAssumption
      <3>2. hub' \in 0..MaxStreams
        BY <3>1, <1>1, <1>2
      <3>3. watermark' \in Nat /\ dirty' \in BOOLEAN
        BY <1>1, <1>4
      <3> QED  BY <3>2, <3>3
    <2>2. hellos' \subseteq [stream : 1..MaxStreams, after : Nat]
      BY <1>1 DEF TypeOK
    <2>3. wire' \in Seq(Frame)
      BY <1>6
    <2> QED  BY <1>1, <2>1, <2>2, <2>3 DEF TypeOK
  <1>8. Shape'
    BY <1>1, <1>3, <1>6 DEF Shape
  <1>9. Bounded' /\ NoGap'
    BY <1>1, <1>4, <1>6 DEF Bounded, NoGap
  <1>10. Flow'
    <2>1. \A g \in flushes : g.from \in Nat
      BY DEF TypeOK
    <2> QED  BY <1>1, <1>6, <2>1 DEF Flow
  <1>11. MarksOK'
    BY <1>1 DEF MarksOK, MarkOfOpenIsTrue, Open
  <1> QED  BY <1>1, <1>7, <1>8, <1>9, <1>10, <1>11

LEMMA FlushInv ==
  ASSUME IInv, NEW f \in flushes, Flush(f)
  PROVE  IInv'
  <1> USE DEF service, device, question, marks, IInv, Kept
  <1>1. /\ flushes' = flushes \ {f}
        /\ UNCHANGED <<answers, published, accepting, hub, dirty, stream, link, hellos, rows, lastAnswerSeq,
                       syncState, pubSync, adopted, draft, gone>>
    BY DEF Flush
  <1>2. f.stream \in 1..MaxStreams /\ f.from \in Nat /\ f.to \in Nat /\ watermark \in Nat
    BY DEF TypeOK
  <1>3. f.from <= f.to /\ f.to <= Len(answers) /\ watermark <= Len(answers)
    BY DEF Bounded
  <1>4. \A g \in flushes : g.from \in Nat
    BY DEF TypeOK
  <1>5. /\ watermark' \in {watermark, f.to}
        /\ wire' \in Seq(Frame)
        /\ link # "up" => wire' = <<>>
        /\ \A i \in DOMAIN wire' : wire'[i].to <= Len(answers)
        /\ Flow'
    <2>1. CASE f.stream = hub
      <3>1. watermark' = (IF f.from < f.to THEN f.to ELSE watermark) /\ Sent(hub, Chunks(f.from, f.to))
        BY <2>1 DEF Flush
      <3>2. hub = stream /\ link = "up" => Reach(wire, lastAnswerSeq, f.from)
        BY <2>1 DEF Flow
      <3>3. /\ wire' \in Seq(Frame)
            /\ link # "up" => wire' = <<>>
            /\ \A i \in DOMAIN wire' : wire'[i].to <= Len(answers)
            /\ Linked(wire', lastAnswerSeq)
            /\ hub = stream /\ link = "up" => Reach(wire', lastAnswerSeq, f.to)
            /\ \A m \in Nat : Reach(wire, lastAnswerSeq, m) => Reach(wire', lastAnswerSeq, m)
        BY <1>2, <1>3, <2>1, <3>1, <3>2, SentKeeps
      <3>4. watermark' \in {watermark, f.to}
        BY <3>1
      <3>5. Flow'
        <4>1. link = "up" /\ hub = stream => Reach(wire', lastAnswerSeq, watermark')
          BY <1>2, <3>3, <3>4 DEF Flow
        <4> QED  BY <1>1, <1>4, <3>3, <4>1 DEF Flow
      <3> QED  BY <3>3, <3>4, <3>5
    <2>2. CASE f.stream # hub
      <3>1. watermark' = watermark /\ wire' = wire
        BY <2>2 DEF Flush
      <3>2. Flow'
        BY <1>1, <3>1 DEF Flow
      <3>3. wire \in Seq(Frame) /\ (link # "up" => wire = <<>>) /\ \A i \in DOMAIN wire : wire[i].to <= Len(answers)
        BY DEF TypeOK, Shape, Bounded
      <3> QED  BY <3>1, <3>2, <3>3
    <2> QED  BY <2>1, <2>2
  <1>6. TypeOK'
    BY <1>1, <1>2, <1>5 DEF TypeOK
  <1>7. Shape'
    BY <1>1, <1>5 DEF Shape
  <1>8. Bounded' /\ NoGap'
    BY <1>1, <1>3, <1>5 DEF Bounded, NoGap
  <1>9. MarksOK'
    BY <1>1 DEF MarksOK, MarkOfOpenIsTrue, Open
  <1> QED  BY <1>1, <1>5, <1>6, <1>7, <1>8, <1>9

LEMMA StutterInv ==
  ASSUME IInv, UNCHANGED vars
  PROVE  IInv'
  <1> USE DEF vars, service, batcher, transport, device, question, marks, IInv, Kept
  <1>1. TypeOK' /\ Shape' /\ Bounded' /\ NoGap'
    BY DEF TypeOK, Shape, Bounded, NoGap
  <1>2. Flow'
    BY DEF Flow
  <1>3. MarksOK'
    BY DEF MarksOK, MarkOfOpenIsTrue, Open
  <1> QED  BY <1>1, <1>2, <1>3

LEMMA Inductive ==
  ASSUME IInv, [Next]_vars
  PROVE  IInv'
  <1>1. ASSUME Service PROVE IInv'
    BY <1>1, OpenNextInv, CloseOpenInv, SubmitInv, AttachInv, StartFlushInv, FlushInv, DetachInv DEF Service
  <1>2. ASSUME Device PROVE IInv'
    BY <1>2, ConnectInv, HelloInv, DropInv, HeartbeatInv, IngestInv, GoStaleInv, QuestionInv
       DEF Device, RestartDevice, IngestFails
  <1>3. CASE UNCHANGED vars
    BY <1>3, StutterInv
  <1> QED  BY <1>1, <1>2, <1>3 DEF Next

-----------------------------------------------------------------------------
(* The theorems                                                            *)

THEOREM InvariantHolds == Spec => []IInv
  <1>1. IInv /\ [Next]_vars => IInv'
    BY Inductive
  <1> QED  BY InitInv, <1>1, PTL DEF Spec

(* Every variable keeps its type.                                          *)
THEOREM TypeCorrect == Spec => []TypeOK
  <1>1. IInv => TypeOK
    BY DEF IInv
  <1> QED  BY InvariantHolds, <1>1, PTL

(* The device's answer_projections have no gap below its watermark,        *)
(* however streams break and flushes overlap (ingestAnswers, hello).       *)
THEOREM GapFree == Spec => []NoGap
  <1>1. IInv => NoGap
    BY DEF IInv
  <1> QED  BY InvariantHolds, <1>1, PTL

(* Answers of the open publication are stale only with the session.        *)
THEOREM MarksTrue == Spec => []MarkOfOpenIsTrue
  <1>1. IInv => MarkOfOpenIsTrue
    BY DEF IInv, MarksOK
  <1> QED  BY InvariantHolds, <1>1, PTL

(* Only submitAnswer adds answers, one at a time, and only ingestAnswers   *)
(* moves the watermark: forward, never past what was accepted, and never   *)
(* past an answer whose option is gone.                                    *)
LEMMA StepRefines ==
  ASSUME IInv, IInv', [Next]_vars
  PROVE  [Delivery!Next]_Delivery!vars
  <1> USE DEF service, batcher, transport, device, marks
  <1> DEFINE B == {n \in DOMAIN answers : answers[n] \in gone}
  <1>0. /\ Len(answers) \in Nat /\ DOMAIN answers = 1..Len(answers)
        /\ lastAnswerSeq \in Nat /\ lastAnswerSeq <= Len(answers)
        /\ \A n \in 1..lastAnswerSeq : answers[n] \notin gone
    BY LenProperties DEF IInv, TypeOK, Bounded, Kept
  <1>1. CASE \E s \in Students : Submit(s)
    <2>1. PICK s \in Students : Submit(s)
      BY <1>1
    <2>2. published \in Publications /\ answers \in Seq(Publications \X Students)
      BY <2>1 DEF IInv, TypeOK, Shape, Publications, Submit
    <2>3. /\ Len(answers') = Len(answers) + 1 /\ Len(answers) < MaxAnswers
          /\ lastAnswerSeq' = lastAnswerSeq /\ gone' = gone
          /\ DOMAIN answers' = 1..(Len(answers) + 1)
          /\ \A n \in 1..Len(answers) : answers'[n] = answers[n]
      BY <2>1, <2>2 DEF Submit, question
    <2>4. B' = {n \in 1..(Len(answers) + 1) : answers'[n] \in gone}
      BY <2>3
    <2>5. B' \in {B, B \cup {Len(answers) + 1}}
      <3>1. \A n : n \in B' <=> n \in B \/ (n = Len(answers) + 1 /\ answers'[n] \in gone)
        BY <1>0, <2>3, <2>4
      <3> HIDE DEF B
      <3>2. CASE answers'[Len(answers) + 1] \in gone
        BY <3>1, <3>2
      <3>3. CASE answers'[Len(answers) + 1] \notin gone
        BY <3>1, <3>3
      <3> QED  BY <3>2, <3>3
    <2> QED  BY <2>3, <2>5 DEF Delivery!Next, Delivery!Accept
  <1>2. CASE Ingest
    <2>1. answers' = answers /\ gone' = gone
      BY <1>2 DEF Ingest, question
    <2>2. lastAnswerSeq' \in Nat /\ lastAnswerSeq' <= Len(answers)
      BY <2>1 DEF IInv, TypeOK, Bounded
    <2>3. (lastAnswerSeq' = Head(wire).to /\ Head(wire).to > lastAnswerSeq) \/ lastAnswerSeq' = lastAnswerSeq
      BY <1>2 DEF Ingest
    <2>4. CASE lastAnswerSeq' = lastAnswerSeq
      BY <2>1, <2>4 DEF Delivery!vars
    <2>5. CASE lastAnswerSeq' > lastAnswerSeq
      <3>1. lastAnswerSeq' \in (lastAnswerSeq + 1)..Len(answers)
        BY <1>0, <2>2, <2>5
      <3>2. \A n \in 1..lastAnswerSeq' : answers[n] \notin gone
        BY <2>1 DEF IInv, Kept
      <3>3. B \cap 1..lastAnswerSeq' = {}
        BY <3>2
      <3> QED  BY <2>1, <3>1, <3>3 DEF Delivery!Next, Delivery!Deliver
    <2> QED  BY <1>0, <2>2, <2>3, <2>4, <2>5
  <1>3. CASE \E p \in Publications, s \in Students : EditQuestion(p, s)
    <2>1. /\ answers' = answers /\ lastAnswerSeq' = lastAnswerSeq /\ gone \subseteq gone'
      BY <1>3 DEF EditQuestion
    <2>2. B \subseteq B'
      BY <2>1
    <2>3. \A n \in 1..lastAnswerSeq : answers[n] \notin gone'
      BY <2>1 DEF IInv, Kept
    <2>4. B' \subseteq (lastAnswerSeq + 1)..Len(answers)
      BY <1>0, <2>1, <2>3
    <2> QED  BY <2>1, <2>2, <2>4 DEF Delivery!Next, Delivery!Bar
  <1>4. CASE answers' = answers /\ lastAnswerSeq' = lastAnswerSeq /\ gone' = gone
    BY <1>4 DEF Delivery!vars
  <1>5. ASSUME Service
        PROVE  (\E s \in Students : Submit(s)) \/ (answers' = answers /\ lastAnswerSeq' = lastAnswerSeq /\ gone' = gone)
    BY <1>5 DEF Service, OpenNext, CloseOpen, Attach, StartFlush, Flush, Detach, RestartService, question
  <1>6. ASSUME Device
        PROVE  \/ Ingest
               \/ \E p \in Publications, s \in Students : EditQuestion(p, s)
               \/ answers' = answers /\ lastAnswerSeq' = lastAnswerSeq /\ gone' = gone
    BY <1>6 DEF Device, Connect, Hello, Drop, Heartbeat, IngestFails, Restarted, GoStale, GoFailed,
                RestartDevice, MarkSent, question
  <1>7. CASE UNCHANGED vars
    BY <1>7, <1>4 DEF vars, question
  <1> QED  BY <1>1, <1>2, <1>3, <1>4, <1>5, <1>6, <1>7 DEF Next

(* The stream implements AnswerDelivery: the device gets answers in order, *)
(* only accepted ones, keeps them, and never gets past one it cannot       *)
(* store.                                                                  *)
THEOREM DeliveryImplemented == Spec => DeliverySafe
  <1>1. Init => Delivery!Init
    BY DEF Init, Delivery!Init
  <1>2. IInv /\ IInv' /\ [Next]_vars => [Delivery!Next]_Delivery!vars
    BY StepRefines
  <1> QED  BY <1>1, <1>2, InvariantHolds, PTL DEF Spec, DeliverySafe, Delivery!Safety
=============================================================================
