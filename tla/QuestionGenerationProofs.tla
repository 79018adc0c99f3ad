------------------------ MODULE QuestionGenerationProofs ------------------------
(***************************************************************************)
(* Proofs about QuestionGeneration, for any number of lectures, sets,      *)
(* probes and restarts: the countdown waits for a generation exactly while *)
(* one of its session is queued or running, and probes while degraded; and *)
(* no lecture has two sets waiting for review.                             *)
(*                                                                         *)
(* The argument: requests outlive the lecture they were made in, so they   *)
(* are told apart by its number, which no later lecture has; and a lecture *)
(* that still runs while the countdown is unavailable has none, because    *)
(* only a restart brings that about, and it empties the queue. The set     *)
(* being worked on is the newest and of the lecture at the head of the     *)
(* queue; what makes it ready supersedes the others of that lecture.       *)
(***************************************************************************)
EXTENDS QuestionGeneration, SequenceTheorems, TLAPS

Has(q, s) == \E i \in DOMAIN q : q[i] = s
Distinct(q) == \A i, j \in DOMAIN q : q[i] = q[j] => i = j

Waits ==
  /\ Distinct(requests)
  /\ session # 0 => (countdown = "generating" <=> Has(requests, session))
  /\ session = 0 <=> countdown = "unavailable"

Lecture ==
  /\ session \in {0, lecture}
  /\ phase = "idle" => lecture = 0
  /\ phase # "idle" => lecture # 0
  /\ phase \in {"idle", "ended"} => countdown = "unavailable"
  /\ \A i \in DOMAIN requests : requests[i] <= lecture
  /\ heard = "idle" => countdown = "unavailable" /\ requests = <<>>
  /\ countdown = "unavailable" /\ phase # "ended" => ~Has(requests, lecture)

Working == at # "idle" => requests # <<>>

IInv == CountdownTypeOK /\ Waits /\ Lecture /\ Working /\ DegradedIsProbed

-----------------------------------------------------------------------------
(* Queues of sessions                                                      *)

LEMMA WaitsIsGeneratingHasCycle == Waits <=> GeneratingHasCycle
  BY DEF Waits, GeneratingHasCycle, Distinct, Has, Cycles

LEMMA EmptyQueue ==
  Distinct(<<>>) /\ \A s : ~Has(<<>>, s)
  BY DEF Distinct, Has

LEMMA Asked ==
  ASSUME NEW q \in Seq(Nat), NEW s \in Nat, Distinct(q), ~Has(q, s)
  PROVE  /\ Append(q, s) \in Seq(Nat)
         /\ Distinct(Append(q, s))
         /\ Has(Append(q, s), s)
         /\ \A i \in DOMAIN Append(q, s) : Append(q, s)[i] = s \/ (i \in DOMAIN q /\ Append(q, s)[i] = q[i])
  <1> DEFINE a == Append(q, s)
             n == Len(q)
  <1>1. n \in Nat /\ DOMAIN q = 1..n
    BY LenProperties
  <1>2. a \in Seq(Nat) /\ Len(a) = n + 1 /\ a[n + 1] = s /\ \A i \in 1..n : a[i] = q[i]
    BY AppendProperties
  <1>3. DOMAIN a = 1..(n + 1)
    BY <1>2, LenProperties
  <1> HIDE DEF a, n
  <1>4. \A i \in DOMAIN a : i = n + 1 \/ (i \in DOMAIN q /\ a[i] = q[i])
    BY <1>1, <1>2, <1>3
  <1>5. Distinct(a)
    <2> SUFFICES ASSUME NEW i \in DOMAIN a, NEW j \in DOMAIN a, a[i] = a[j]
                 PROVE  i = j
      BY DEF Distinct
    <2>1. CASE i = n + 1 /\ j # n + 1
      <3>1. j \in DOMAIN q /\ q[j] = s
        BY <2>1, <1>2, <1>4
      <3> QED  BY <3>1 DEF Has
    <2>2. CASE j = n + 1 /\ i # n + 1
      <3>1. i \in DOMAIN q /\ q[i] = s
        BY <2>2, <1>2, <1>4
      <3> QED  BY <3>1 DEF Has
    <2>3. CASE i # n + 1 /\ j # n + 1
      <3>1. i \in DOMAIN q /\ j \in DOMAIN q /\ q[i] = q[j]
        BY <2>3, <1>4
      <3> QED  BY <3>1 DEF Distinct
    <2> QED  BY <2>1, <2>2, <2>3
  <1>6. Has(a, s)
    <2>1. n + 1 \in DOMAIN a
      BY <1>1, <1>3
    <2> QED  BY <2>1, <1>2 DEF Has
  <1> QED  BY <1>2, <1>4, <1>5, <1>6 DEF a

LEMMA Done ==
  ASSUME NEW q \in Seq(Nat), q # <<>>, Distinct(q)
  PROVE  /\ Tail(q) \in Seq(Nat)
         /\ Head(q) \in Nat /\ Has(q, Head(q))
         /\ Distinct(Tail(q))
         /\ ~Has(Tail(q), Head(q))
         /\ \A s \in Nat : s # Head(q) => (Has(Tail(q), s) <=> Has(q, s))
         /\ \A i \in DOMAIN Tail(q) : i + 1 \in DOMAIN q /\ Tail(q)[i] = q[i + 1]
  <1> DEFINE t == Tail(q)
             n == Len(q)
             h == Head(q)
  <1>1. n \in Nat \ {0} /\ DOMAIN q = 1..n
    BY EmptySeq, LenProperties
  <1>2. h = q[1] /\ h \in Nat /\ t \in Seq(Nat) /\ Len(t) = n - 1 /\ \A i \in 1..Len(t) : t[i] = q[i + 1]
    BY HeadTailProperties
  <1>3. DOMAIN t = 1..(n - 1)
    BY <1>2, LenProperties
  <1> HIDE DEF t, n, h
  <1>4. \A i \in DOMAIN t : i \in Nat /\ i >= 1 /\ i + 1 \in DOMAIN q /\ t[i] = q[i + 1]
    BY <1>1, <1>2, <1>3
  <1>5. \A i \in DOMAIN q : i = 1 \/ (i - 1 \in DOMAIN t /\ t[i - 1] = q[i])
    BY <1>1, <1>2, <1>3
  <1>6. 1 \in DOMAIN q
    BY <1>1
  <1>7. Distinct(t)
    <2> SUFFICES ASSUME NEW i \in DOMAIN t, NEW j \in DOMAIN t, t[i] = t[j]
                 PROVE  i = j
      BY DEF Distinct
    <2>1. i + 1 = j + 1
      BY <1>4 DEF Distinct
    <2> QED  BY <2>1, <1>4
  <1>8. ~Has(t, h)
    <2> SUFFICES ASSUME NEW i \in DOMAIN t, t[i] = h
                 PROVE  FALSE
      BY DEF Has
    <2>1. i + 1 = 1
      BY <1>2, <1>4, <1>6 DEF Distinct
    <2> QED  BY <2>1, <1>4
  <1>9. ASSUME NEW s \in Nat, s # h PROVE Has(t, s) <=> Has(q, s)
    <2>1. ASSUME Has(t, s) PROVE Has(q, s)
      BY <2>1, <1>4 DEF Has
    <2>2. ASSUME Has(q, s) PROVE Has(t, s)
      <3>1. PICK i \in DOMAIN q : q[i] = s
        BY <2>2 DEF Has
      <3>2. i # 1
        BY <3>1, <1>2, <1>9
      <3> QED  BY <3>1, <3>2, <1>5 DEF Has
    <2> QED  BY <2>1, <2>2
  <1>10. Has(q, h)
    BY <1>2, <1>6 DEF Has
  <1> QED  BY <1>2, <1>4, <1>7, <1>8, <1>9, <1>10 DEF t, h

LEMMA RequestsType ==
  ASSUME CountdownTypeOK
  PROVE  /\ requests \in Seq(Lectures) /\ requests \in Seq(Nat)
         /\ Lectures \subseteq Nat /\ lecture \in Nat /\ session \in Nat
  <1>1. requests \in Seq(Lectures) /\ lecture \in Nat /\ session \in Nat /\ MaxLectures \in Nat
    BY CountdownAssumption DEF CountdownTypeOK
  <1>2. Lectures \subseteq Nat
    BY <1>1 DEF Lectures
  <1>3. requests \in Seq(Nat)
    BY <1>1, <1>2, SeqMonotonic
  <1> QED  BY <1>1, <1>2, <1>3

-----------------------------------------------------------------------------
(* The invariant                                                           *)

LEMMA InitInv ==
  Init => IInv
  <1> SUFFICES ASSUME Init PROVE IInv
    OBVIOUS
  <1> USE CountdownAssumption DEF Init, CountdownInit
  <1>1. requests \in Seq(Lectures)
    BY EmptySeq
  <1>2. CountdownTypeOK
    <2>1. 0 \in 0..MaxLectures /\ 0 \in 0..MaxProbes
      OBVIOUS
    <2> QED  BY <1>1, <2>1 DEF CountdownTypeOK, Phases
  <1>3. Waits /\ Lecture
    BY EmptyQueue DEF Waits, Lecture
  <1>4. Working /\ DegradedIsProbed
    BY DEF Working, DegradedIsProbed
  <1> QED  BY <1>2, <1>3, <1>4 DEF IInv

(* What the countdown makes of a published state p of the newest lecture.  *)
LEMMA HeardInv ==
  ASSUME IInv, NEW p \in {"recording", "paused", "stopping", "ended"},
         phase' = p, lecture' \in Lectures, at' = at,
         lecture' = lecture \/ (lecture' = lecture + 1 /\ p = "recording" /\ phase \in {"idle", "ended"}),
         p # "ended" /\ lecture' = lecture => phase \in {"recording", "paused", "stopping"},
         OnRecordingState(lecture', p)
  PROVE  IInv'
  <1> USE DEF IInv
  <1>1. requests \in Seq(Nat) /\ Lectures \subseteq Nat /\ lecture \in Nat /\ lecture' \in Nat /\ lecture' # 0
    BY RequestsType, CountdownAssumption DEF Lectures
  <1>2. \A i \in DOMAIN requests : requests[i] \in Nat
    BY <1>1, ElementOfSeq, LenProperties
  <1>3. requests' = requests /\ probes' = probes /\ heard' = p
    BY DEF OnRecordingState
  <1>4. \A i \in DOMAIN requests : requests[i] <= lecture'
    BY <1>1, <1>2 DEF Lecture
  <1>5. countdown = "unavailable" /\ p # "ended" => ~Has(requests, lecture')
    <2>1. CASE lecture' = lecture
      BY <2>1 DEF Lecture
    <2>2. CASE lecture' = lecture + 1
      BY <1>1, <1>2, <2>2 DEF Lecture, Has
    <2> QED  BY <2>1, <2>2
  <1>6. countdown # "unavailable" => lecture' = lecture
    BY DEF Lecture
  <1>7. CASE p = "recording" /\ countdown' = "armed" /\ session' = lecture' /\ UNCHANGED <<probing, alert>>
             /\ (countdown = "unavailable" \/ (countdown = "held" /\ session = lecture'))
    <2>1. ~Has(requests, lecture')
      BY <1>1, <1>5, <1>7 DEF Waits
    <2>2. CountdownTypeOK'
      BY <1>3, <1>7 DEF CountdownTypeOK, Phases, Lectures
    <2>3. Waits'
      BY <1>1, <1>3, <1>7, <2>1 DEF Waits
    <2>4. Lecture'
      BY <1>1, <1>3, <1>4, <1>7 DEF Lecture
    <2>5. Working' /\ DegradedIsProbed'
      BY <1>3, <1>7 DEF Working, DegradedIsProbed
    <2> QED  BY <2>2, <2>3, <2>4, <2>5
  <1>8. CASE p = "paused" /\ countdown = "armed" /\ countdown' = "held" /\ UNCHANGED <<session, probing, alert>>
    <2>1. CountdownTypeOK'
      BY <1>3, <1>8 DEF CountdownTypeOK, Phases, Lectures
    <2>2. Waits'
      BY <1>3, <1>8 DEF Waits
    <2>3. Lecture'
      BY <1>1, <1>3, <1>4, <1>6, <1>8 DEF Lecture
    <2>4. Working' /\ DegradedIsProbed'
      BY <1>3, <1>8 DEF Working, DegradedIsProbed
    <2> QED  BY <2>1, <2>2, <2>3, <2>4
  <1>9. CASE p = "ended" /\ countdown' = "unavailable" /\ session' = 0 /\ probing' = FALSE /\ alert' = FALSE
    <2>1. CountdownTypeOK'
      <3>1. 0 \in 0..MaxLectures
        BY CountdownAssumption
      <3> QED  BY <1>3, <1>9, <3>1 DEF CountdownTypeOK, Phases, Lectures
    <2>2. Waits' /\ Lecture'
      BY <1>1, <1>3, <1>4, <1>9 DEF Waits, Lecture
    <2>3. Working' /\ DegradedIsProbed'
      BY <1>3, <1>9 DEF Working, DegradedIsProbed
    <2> QED  BY <2>1, <2>2, <2>3
  <1>10. CASE /\ UNCHANGED <<countdown, session, probing, alert>>
              /\ p = "recording" => countdown # "unavailable"
              /\ p = "ended" => countdown = "unavailable"
    <2>1. CountdownTypeOK'
      BY <1>3, <1>10 DEF CountdownTypeOK, Phases, Lectures
    <2>2. Waits'
      BY <1>3, <1>10 DEF Waits
    <2>3. session' \in {0, lecture'}
      <3>1. CASE countdown = "unavailable"
        BY <1>10, <3>1 DEF Waits
      <3>2. CASE countdown # "unavailable"
        BY <1>6, <1>10, <3>2 DEF Lecture
      <3> QED  BY <3>1, <3>2
    <2>4. Lecture'
      BY <1>1, <1>3, <1>4, <1>5, <1>10, <2>3 DEF Lecture
    <2>5. Working' /\ DegradedIsProbed'
      BY <1>3, <1>10 DEF Working, DegradedIsProbed
    <2> QED  BY <2>1, <2>2, <2>4, <2>5
  <1> QED  BY <1>7, <1>8, <1>9, <1>10 DEF OnRecordingState

LEMMA BeginInv ==
  ASSUME IInv, countdown \in {"armed", "degraded"}, BeginGenerating, at' = at
  PROVE  IInv'
  <1> USE DEF IInv, BeginGenerating, recording, probe
  <1>1. requests \in Seq(Nat) /\ requests \in Seq(Lectures) /\ lecture \in Nat
    BY RequestsType
  <1>2. session = lecture /\ session # 0 /\ ~Has(requests, session) /\ session \in Nat /\ session \in Lectures
    BY <1>1 DEF Waits, Lecture, CountdownTypeOK, Lectures
  <1>3. /\ Distinct(requests') /\ Has(requests', session)
        /\ \A i \in DOMAIN requests' : requests'[i] = session \/ (i \in DOMAIN requests /\ requests'[i] = requests[i])
    BY <1>1, <1>2, Asked DEF Waits
  <1>4. requests' \in Seq(Lectures) /\ requests' # <<>>
    BY <1>1, <1>2, AppendProperties
  <1>5. CountdownTypeOK'
    BY <1>4 DEF CountdownTypeOK
  <1>6. Waits'
    BY <1>2, <1>3 DEF Waits
  <1>7. \A i \in DOMAIN requests' : requests'[i] <= lecture'
    BY <1>1, <1>2, <1>3 DEF Lecture
  <1>8. Lecture'
    BY <1>2, <1>7 DEF Lecture
  <1>9. Working' /\ DegradedIsProbed'
    BY <1>4 DEF Working, DegradedIsProbed
  <1> QED  BY <1>5, <1>6, <1>8, <1>9

LEMMA ProbeInv ==
  ASSUME IInv, Probe \/ \E reachable \in BOOLEAN : ProbeAnswered(reachable), at' = at
  PROVE  IInv'
  <1> USE DEF IInv, recording
  <1>1. /\ UNCHANGED <<lecture, phase, session, heard, requests>>
        /\ probes' \in 0..MaxProbes
        /\ \/ UNCHANGED <<countdown, probing, alert>>
           \/ countdown = "degraded" /\ countdown' = "armed" /\ probing' = FALSE /\ alert' = FALSE
    BY CountdownAssumption DEF Probe, ProbeAnswered, CountdownTypeOK
  <1>2. CountdownTypeOK'
    BY <1>1 DEF CountdownTypeOK
  <1>3. Waits'
    BY <1>1 DEF Waits
  <1>4. Lecture'
    BY <1>1 DEF Lecture
  <1>5. Working' /\ DegradedIsProbed'
    BY <1>1 DEF Working, DegradedIsProbed
  <1> QED  BY <1>2, <1>3, <1>4, <1>5

LEMMA CountdownInv ==
  ASSUME IInv, CountdownStep
  PROVE  IInv'
  <1>0. at' = at /\ lecture \in Nat /\ MaxLectures \in Nat
    BY CountdownAssumption DEF CountdownStep, generator, IInv, CountdownTypeOK
  <1>1. ASSUME StartLecture PROVE IInv'
    <2>1. lecture' \in Lectures
      BY <1>0, <1>1 DEF StartLecture, Lectures
    <2> QED  BY <1>0, <1>1, <2>1, HeardInv DEF StartLecture
  <1>2. ASSUME NEW p \in {"recording", "paused", "stopping", "ended"}, Becomes(p), phase # "idle",
               p # "ended" => phase \in {"recording", "paused", "stopping"}
        PROVE  IInv'
    <2>1. phase' = p /\ lecture' = lecture /\ OnRecordingState(lecture', p)
      BY <1>2 DEF Becomes
    <2>2. lecture' \in Lectures
      BY <1>0, <1>2, <2>1 DEF IInv, Lecture, CountdownTypeOK, Lectures
    <2> QED  BY <1>0, <1>2, <2>1, <2>2, HeardInv
  <1>3. ASSUME Pause \/ Resume \/ Stop \/ End \/ Announce PROVE IInv'
    BY <1>3, <1>2 DEF Pause, Resume, Stop, End, Announce, IInv, CountdownTypeOK, Phases
  <1>4. ASSUME Fire \/ GenerateNow PROVE IInv'
    BY <1>0, <1>4, BeginInv DEF Fire, GenerateNow
  <1>5. ASSUME Probe \/ \E reachable \in BOOLEAN : ProbeAnswered(reachable) PROVE IInv'
    BY <1>0, <1>5, ProbeInv
  <1> QED  BY <1>1, <1>3, <1>4, <1>5 DEF CountdownStep, CountdownNext

(* The cycle of the head of the queue settles.                             *)
LEMMA FinishedInv ==
  ASSUME IInv, at # "idle", NEW outcome, Finished(outcome)
  PROVE  IInv'
  <1> USE DEF IInv, Finished, recording
  <1> DEFINE h == Head(requests)
  <1>1. requests \in Seq(Nat) /\ requests \in Seq(Lectures) /\ lecture \in Nat /\ session \in Nat /\ requests # <<>>
    BY RequestsType DEF Working
  <1>2. /\ requests' = Tail(requests) /\ requests' \in Seq(Nat)
        /\ h \in Nat /\ Has(requests, h)
        /\ Distinct(requests') /\ ~Has(requests', h)
        /\ \A s \in Nat : s # h => (Has(requests', s) <=> Has(requests, s))
        /\ \A i \in DOMAIN requests' : i + 1 \in DOMAIN requests /\ requests'[i] = requests[i + 1]
    BY <1>1, Done DEF Waits
  <1>3. requests' \in Seq(Lectures)
    BY <1>1, HeadTailProperties
  <1>4. \A s \in Nat : Has(requests', s) => Has(requests, s)
    BY <1>2
  <1>5. UNCHANGED <<lecture, phase, session, heard, probes>> /\ at' = "idle"
    OBVIOUS
  <1>6. h # 0
    <2>1. h \in Lectures
      BY <1>1, HeadTailProperties
    <2> QED  BY <2>1 DEF Lectures
  <1> HIDE DEF h
  <1>7. \/ /\ session = h /\ countdown = "generating" /\ countdown' \in {"armed", "degraded"}
           /\ countdown' = "degraded" => probing' /\ alert'
           /\ probing' \in BOOLEAN /\ alert' \in BOOLEAN
        \/ /\ UNCHANGED <<countdown, probing, alert>>
           /\ ~(session = h /\ countdown = "generating")
    BY DEF Settled, h, CountdownTypeOK
  <1>8. CountdownTypeOK'
    BY <1>3, <1>5, <1>7 DEF CountdownTypeOK
  <1>9. Waits'
    <2>1. CASE session = h
      <3>1. countdown = "generating"
        BY <1>2, <1>6, <2>1 DEF Waits
      <3>2. countdown' \in {"armed", "degraded"}
        BY <1>7, <2>1, <3>1
      <3> QED  BY <1>2, <1>5, <1>6, <2>1, <3>2 DEF Waits
    <2>2. CASE session # h
      <3>1. countdown' = countdown
        BY <1>7, <2>2
      <3> QED  BY <1>1, <1>2, <1>5, <2>2, <3>1 DEF Waits
    <2> QED  BY <2>1, <2>2
  <1>10. Lecture'
    <2>1. \A i \in DOMAIN requests' : requests'[i] <= lecture
      BY <1>2 DEF Lecture
    <2>2. countdown' = "unavailable" <=> countdown = "unavailable"
      BY <1>7
    <2>3. heard # "idle"
      BY <1>1 DEF Lecture
    <2> QED  BY <1>1, <1>4, <1>5, <2>1, <2>2, <2>3 DEF Lecture
  <1>11. DegradedIsProbed'
    BY <1>7 DEF DegradedIsProbed
  <1>12. Working'
    BY <1>5 DEF Working
  <1> QED  BY <1>8, <1>9, <1>10, <1>11, <1>12

(* Other steps of the generator, and of the sets, do not reach the         *)
(* countdown or the queue.                                                 *)
LEMMA OtherInv ==
  ASSUME IInv, UNCHANGED countdownVars, at' # "idle" => requests # <<>>
  PROVE  IInv'
  <1> USE DEF IInv, countdownVars, recording, probe
  <1>1. CountdownTypeOK' /\ DegradedIsProbed'
    BY DEF CountdownTypeOK, DegradedIsProbed
  <1>2. Waits' /\ Lecture'
    BY DEF Waits, Lecture
  <1>3. Working'
    BY DEF Working
  <1> QED  BY <1>1, <1>2, <1>3

LEMMA RestartInv ==
  ASSUME IInv, Restarted
  PROVE  IInv'
  <1> USE DEF IInv, Restarted, CountdownRestart, recording
  <1>1. requests' \in Seq(Lectures)
    BY EmptySeq
  <1>2. CountdownTypeOK'
    <2>1. 0 \in 0..MaxLectures /\ 0 \in 0..MaxProbes
      BY CountdownAssumption
    <2> QED  BY <1>1, <2>1 DEF CountdownTypeOK, Phases
  <1>3. Waits' /\ Lecture'
    BY EmptyQueue DEF Waits, Lecture
  <1>4. Working' /\ DegradedIsProbed'
    BY DEF Working, DegradedIsProbed
  <1> QED  BY <1>2, <1>3, <1>4

LEMMA Inductive ==
  ASSUME IInv, [Next]_vars
  PROVE  IInv'
  <1>1. ASSUME NEW n, Ready(n) PROVE IInv'
    BY <1>1, FinishedInv DEF Ready
  <1>2. ASSUME NEW failure, CallFailed(failure) PROVE IInv'
    <2>1. CASE UNCHANGED countdownVars
      <3>1. requests # <<>>
        BY <1>2 DEF CallFailed, IInv, Working
      <3> QED  BY <2>1, <3>1, OtherInv
    <2>2. CASE \E outcome : Finished(outcome)
      BY <1>2, <2>2, FinishedInv DEF CallFailed
    <2> QED  BY <1>2, <2>1, <2>2 DEF CallFailed
  <1>3. ASSUME StartCycle \/ Retry PROVE IInv'
    BY <1>3, OtherInv DEF StartCycle, Retry, IInv, Working
  <1>4. ASSUME (\E i \in Indexes : Disposed(i)) \/ (\E s \in endings : WorkOnEnd(s)) \/ Speak \/ UNCHANGED vars
        PROVE  IInv'
    BY <1>4, OtherInv DEF Disposed, WorkOnEnd, Speak, vars, generator, IInv, Working
  <1> QED  BY <1>1, <1>2, <1>3, <1>4, CountdownInv, RestartInv DEF Next, Restart, DisposedAtEnd

-----------------------------------------------------------------------------
(* The sets                                                                *)
(*                                                                         *)
(* A set's window starts at the end of the one that is ready, so even the  *)
(* types of the sets need that there is no other: the types and OneReady   *)
(* are proved together. The set being worked on is the newest and of the   *)
(* lecture at the head of the queue, so the one made ready is in the same  *)
(* step the only one.                                                      *)

Row == [session : Lectures, state : {"generating", "ready", "failed", "reviewed", "discarded"},
        count : 0..MaxCount, drafts : 0..MaxCount, cut : BOOLEAN, from : 0..MaxOffset, to : 0..MaxOffset]

DraftsOK(row) ==
  /\ row.state = "ready" => row.drafts > 0 \/ row.cut
  /\ row.state = "reviewed" => row.drafts = 0

ReadyOnce ==
  /\ \A i \in 1..Len(sets) : DraftsOK(sets[i])
  /\ \A i, j \in 1..Len(sets) :
       sets[i].state = "ready" /\ sets[j].state = "ready" /\ sets[i].session = sets[j].session => i = j

GeneratorTypes ==
  /\ sets \in Seq(Row)
  /\ at \in {"idle", "asking", "backoff"} /\ attempt \in 0..Retries
  /\ endings \subseteq Lectures
  /\ transcript \in [Lectures -> 0..MaxOffset]
  /\ restarts \in 0..MaxRestarts

CycleOK ==
  /\ at = "backoff" => attempt < Retries
  /\ at # "idle" => sets # <<>> /\ sets[Len(sets)].session = Head(requests)

SInv == GeneratorTypes /\ ReadyOnce /\ CycleOK

LEMMA FunctionIsSeq ==
  ASSUME NEW S, NEW n \in Nat, NEW f \in [1..n -> S]
  PROVE  f \in Seq(S) /\ Len(f) = n /\ DOMAIN f = 1..n
  OBVIOUS

LEMMA RowsOfSets ==
  ASSUME GeneratorTypes
  PROVE  /\ Len(sets) \in Nat /\ sets \in [1..Len(sets) -> Row] /\ Indexes = 1..Len(sets)
         /\ \A i \in 1..Len(sets) : sets[i] \in Row
         /\ sets # <<>> => Len(sets) \in 1..Len(sets)
  <1>1. sets \in Seq(Row)
    BY DEF GeneratorTypes
  <1>2. Len(sets) \in Nat /\ sets \in [1..Len(sets) -> Row] /\ DOMAIN sets = 1..Len(sets)
    BY <1>1, LenProperties
  <1>3. sets # <<>> => Len(sets) \in Nat \ {0}
    BY <1>1, EmptySeq
  <1> QED  BY <1>2, <1>3 DEF Indexes

LEMMA ReadyOnceIsOneReady ==
  ASSUME GeneratorTypes, ReadyOnce
  PROVE  OneReady
  <1> SUFFICES ASSUME NEW i \in Indexes, sets[i].state = "ready"
               PROVE  InState(sets[i].session, {"ready"}) = {i}
    BY RowsOfSets DEF OneReady, ReadyOnce, DraftsOK
  <1> QED  BY RowsOfSets DEF InState, OfSession, ReadyOnce

(* The window of a new set.                                                *)
LEMMA WindowType ==
  ASSUME SInv, NEW s \in Lectures
  PROVE  WindowStart(s) \in 0..MaxOffset
  <1> DEFINE ready == InState(s, {"ready"})
  <1>1. CASE ready = {}
    BY <1>1, GenerationAssumption DEF WindowStart
  <1>2. CASE ready # {}
    <2>1. PICK i : i \in ready
      BY <1>2
    <2>2. i \in Indexes /\ sets[i].session = s /\ sets[i].state = "ready"
      BY <2>1 DEF InState, OfSession
    <2>3. ready = {i}
      BY <2>2, ReadyOnceIsOneReady DEF OneReady, SInv
    <2>4. i \in Nat
      BY <2>2, RowsOfSets DEF SInv
    <2>5. Latest({i}) = i
      BY <2>4 DEF Latest
    <2>6. sets[i].to \in 0..MaxOffset
      BY <2>2, RowsOfSets DEF SInv, Row
    <2> QED  BY <1>2, <2>3, <2>5, <2>6 DEF WindowStart
  <1> QED  BY <1>1, <1>2

(* What a step makes of a set.                                             *)
LEMMA RowMade ==
  ASSUME NEW row \in Row, NEW c \in 0..MaxCount
  PROVE  LET made == [row EXCEPT !.state = "ready", !.count = c, !.drafts = c] IN
         made \in Row /\ made.session = row.session /\ made.state = "ready" /\ made.drafts = c
  BY DEF Row

LEMMA RowSuperseded ==
  ASSUME NEW row \in Row
  PROVE  LET superseded == [row EXCEPT !.state = "discarded", !.drafts = 0] IN
         superseded \in Row /\ superseded.session = row.session /\ superseded.state = "discarded"
  <1>1. 0 \in 0..MaxCount
    BY GenerationAssumption
  <1> QED  BY <1>1 DEF Row

LEMMA RowDisposed ==
  ASSUME NEW row \in Row, row.drafts > 0, DraftsOK(row)
  PROVE  LET left == [row EXCEPT !.drafts = @ - 1,
                                 !.state = IF @ = "ready" /\ row.drafts = 1 THEN "reviewed" ELSE @] IN
         /\ left \in Row /\ left.session = row.session /\ DraftsOK(left)
         /\ left.state = "ready" => row.state = "ready"
  <1> DEFINE less == [row EXCEPT !.drafts = row.drafts - 1]
  <1>1. row.drafts \in 1..MaxCount /\ row.drafts - 1 \in 0..MaxCount
    BY GenerationAssumption DEF Row
  <1>2. less \in Row /\ less.session = row.session /\ less.state = row.state /\ less.drafts = row.drafts - 1
    BY <1>1 DEF Row
  <1>3. row.state # "reviewed"
    BY DEF DraftsOK
  <1>4. CASE row.state = "ready" /\ row.drafts = 1
    <2> DEFINE reviewed == [row EXCEPT !.drafts = row.drafts - 1, !.state = "reviewed"]
    <2>1. reviewed \in Row /\ reviewed.session = row.session /\ reviewed.state = "reviewed" /\ reviewed.drafts = row.drafts - 1
      BY <1>1 DEF Row
    <2> QED  BY <1>4, <2>1 DEF DraftsOK
  <1>5. CASE ~(row.state = "ready" /\ row.drafts = 1)
    <2> DEFINE kept == [row EXCEPT !.drafts = row.drafts - 1, !.state = row.state]
    <2>1. kept \in Row /\ kept.session = row.session /\ kept.state = row.state /\ kept.drafts = row.drafts - 1
      BY <1>1 DEF Row
    <2>2. DraftsOK(kept) /\ (kept.state = "ready" => row.state = "ready")
      BY <1>1, <1>3, <1>5, <2>1 DEF DraftsOK
    <2>3. (IF row.state = "ready" /\ row.drafts = 1 THEN "reviewed" ELSE row.state) = row.state
      BY <1>5
    <2> QED  BY <2>1, <2>2, <2>3
  <1> QED  BY <1>4, <1>5

LEMMA RowCut ==
  ASSUME NEW row \in Row, row.drafts > 0, DraftsOK(row)
  PROVE  LET left == [row EXCEPT !.drafts = @ - 1, !.cut = (row.drafts = 1)] IN
         /\ left \in Row /\ left.session = row.session /\ DraftsOK(left)
         /\ left.state = "ready" => row.state = "ready"
  <1> DEFINE left == [row EXCEPT !.drafts = row.drafts - 1, !.cut = (row.drafts = 1)]
  <1>1. row.drafts \in 1..MaxCount /\ row.drafts - 1 \in 0..MaxCount /\ (row.drafts = 1) \in BOOLEAN
    BY GenerationAssumption DEF Row
  <1>2. /\ left \in Row /\ left.session = row.session /\ left.state = row.state
        /\ left.drafts = row.drafts - 1 /\ left.cut = (row.drafts = 1)
    BY <1>1 DEF Row
  <1>3. row.state # "reviewed"
    BY DEF DraftsOK
  <1> HIDE DEF left
  <1>4. left.drafts > 0 \/ left.cut
    <2>1. CASE row.drafts = 1
      BY <2>1, <1>2, Zenon
    <2>2. CASE row.drafts # 1
      BY <2>2, <1>1, <1>2
    <2> QED  BY <2>1, <2>2
  <1>5. DraftsOK(left)
    BY <1>2, <1>3, <1>4 DEF DraftsOK
  <1> QED  BY <1>2, <1>5 DEF left

(* A step that only takes sets out of review.                              *)
LEMMA NoneBecomesReady ==
  ASSUME SInv, sets' \in [1..Len(sets) -> Row],
         \A i \in 1..Len(sets) :
           /\ sets'[i].session = sets[i].session
           /\ sets'[i].state = "ready" => sets[i].state = "ready"
           /\ DraftsOK(sets'[i])
  PROVE  /\ sets' \in Seq(Row) /\ Len(sets') = Len(sets) /\ ReadyOnce'
         /\ sets # <<>> => sets' # <<>> /\ sets'[Len(sets')].session = sets[Len(sets)].session
  <1>1. Len(sets) \in Nat /\ (sets # <<>> => Len(sets) \in 1..Len(sets))
    BY RowsOfSets DEF SInv
  <1>2. sets' \in Seq(Row) /\ Len(sets') = Len(sets)
    BY <1>1, FunctionIsSeq
  <1>3. ReadyOnce'
    BY <1>2 DEF SInv, ReadyOnce, DraftsOK
  <1>4. sets # <<>> => sets' # <<>>
    BY <1>1, <1>2, EmptySeq
  <1> QED  BY <1>1, <1>2, <1>3, <1>4

LEMMA StartCycleSets ==
  ASSUME IInv, SInv, StartCycle
  PROVE  SInv'
  <1> DEFINE s == Head(requests)
             n == Len(sets)
             row == [session |-> s, state |-> "generating", count |-> 0, drafts |-> 0, cut |-> FALSE,
                     from |-> WindowStart(s), to |-> Larger(WindowStart(s), transcript[s])]
  <1>1. requests # <<>> /\ sets' = Append(sets, row) /\ at' = "asking" /\ attempt' = 0
        /\ UNCHANGED <<requests, endings, transcript, restarts>>
    BY DEF StartCycle, countdownVars
  <1>2. s \in Lectures
    BY <1>1, RequestsType, HeadTailProperties DEF IInv
  <1>3. transcript[s] \in 0..MaxOffset /\ WindowStart(s) \in 0..MaxOffset
    BY <1>2, WindowType DEF SInv, GeneratorTypes
  <1>4. row \in Row
    BY <1>2, <1>3, GenerationAssumption DEF Row, Larger
  <1> HIDE DEF row
  <1>5. /\ sets' \in Seq(Row) /\ Len(sets') = n + 1 /\ n \in Nat
        /\ sets'[n + 1] = row /\ \A i \in 1..n : sets'[i] = sets[i]
    BY <1>1, <1>4, AppendProperties, RowsOfSets DEF SInv, GeneratorTypes
  <1>6. row.session = s /\ row.state = "generating"
    BY DEF row
  <1> HIDE DEF s, n
  <1>7. \A i \in 1..(n + 1) : i = n + 1 \/ i \in 1..n
    BY <1>5
  <1>8. ReadyOnce'
    <2>1. \A i \in 1..n : DraftsOK(sets'[i])
      BY <1>5 DEF SInv, ReadyOnce, n
    <2>2. DraftsOK(sets'[n + 1])
      BY <1>5, <1>6 DEF DraftsOK
    <2>3. \A i \in 1..(n + 1) : sets'[i].state = "ready" => i \in 1..n
      BY <1>5, <1>6, <1>7
    <2>4. \A i, j \in 1..(n + 1) :
            sets'[i].state = "ready" /\ sets'[j].state = "ready" /\ sets'[i].session = sets'[j].session => i = j
      BY <1>5, <2>3 DEF SInv, ReadyOnce, n
    <2> QED  BY <1>5, <1>7, <2>1, <2>2, <2>4 DEF ReadyOnce
  <1>9. GeneratorTypes'
    BY <1>1, <1>5, GenerationAssumption DEF SInv, GeneratorTypes
  <1>10. CycleOK'
    <2>1. sets' # <<>>
      BY <1>5, EmptySeq
    <2> QED  BY <1>1, <1>5, <1>6, <2>1 DEF CycleOK, s
  <1> QED  BY <1>8, <1>9, <1>10 DEF SInv

(* The newest set becomes ready, and supersedes those of its lecture.      *)
LEMMA ReadySets ==
  ASSUME SInv, NEW c \in 1..MaxCount, Ready(c)
  PROVE  SInv'
  <1> DEFINE n == Len(sets)
             s == Head(requests)
  <1>1. at = "asking" /\ at' = "idle" /\ attempt' = 0 /\ UNCHANGED <<endings, transcript, restarts>>
    BY DEF Ready, Finished
  <1>2. n \in Nat /\ n \in 1..n /\ Indexes = 1..n /\ (\A i \in 1..n : sets[i] \in Row) /\ sets[n].session = s
    BY <1>1, RowsOfSets DEF SInv, CycleOK
  <1>3. c \in 0..MaxCount /\ c > 0
    BY GenerationAssumption
  <1>4. \A i \in 1..n : i \in InState(s, {"ready"}) <=> sets[i].session = s /\ sets[i].state = "ready"
    BY <1>2 DEF InState, OfSession
  <1>5. sets' = [i \in 1..n |->
          IF i = n THEN [sets[i] EXCEPT !.state = "ready", !.count = c, !.drafts = c]
          ELSE IF i \in InState(s, {"ready"}) THEN [sets[i] EXCEPT !.state = "discarded", !.drafts = 0]
          ELSE sets[i]]
    BY <1>2 DEF Ready
  <1> HIDE DEF n, s
  <1> DEFINE made == [sets[n] EXCEPT !.state = "ready", !.count = c, !.drafts = c]
             superseded(i) == [sets[i] EXCEPT !.state = "discarded", !.drafts = 0]
  <1>6. sets'[n] = made /\ \A i \in 1..n : i # n =>
          /\ i \in InState(s, {"ready"}) => sets'[i] = superseded(i)
          /\ i \notin InState(s, {"ready"}) => sets'[i] = sets[i]
    BY <1>2, <1>5
  <1>8. sets'[n] \in Row /\ sets'[n].session = s /\ DraftsOK(sets'[n])
    <2>1. made \in Row /\ made.session = sets[n].session /\ made.state = "ready" /\ made.drafts = c
      BY <1>2, <1>3, RowMade
    <2> HIDE DEF made
    <2> QED  BY <1>2, <1>3, <1>6, <2>1 DEF DraftsOK
  <1>9. \A i \in 1..n : i # n =>
          /\ sets'[i] \in Row /\ sets'[i].session = sets[i].session /\ DraftsOK(sets'[i])
          /\ sets'[i].state = "ready" => sets[i].state = "ready" /\ sets[i].session # s
    <2> SUFFICES ASSUME NEW i \in 1..n, i # n
                 PROVE  /\ sets'[i] \in Row /\ sets'[i].session = sets[i].session /\ DraftsOK(sets'[i])
                        /\ sets'[i].state = "ready" => sets[i].state = "ready" /\ sets[i].session # s
      OBVIOUS
    <2>1. sets[i] \in Row /\ DraftsOK(sets[i])
      BY <1>2 DEF SInv, ReadyOnce, n
    <2>2. CASE i \in InState(s, {"ready"})
      <3>1. sets'[i] = [sets[i] EXCEPT !.state = "discarded", !.drafts = 0]
        BY <1>6, <2>2
      <3> QED  BY <2>1, <3>1, RowSuperseded DEF DraftsOK
    <2>3. CASE i \notin InState(s, {"ready"})
      <3>1. sets'[i] = sets[i]
        BY <1>6, <2>3
      <3> QED  BY <1>4, <2>1, <2>3, <3>1
    <2> QED  BY <2>2, <2>3
  <1>10. sets' \in Seq(Row) /\ Len(sets') = n
    <2>1. sets' \in [1..n -> Row]
      BY <1>5, <1>8, <1>9
    <2> QED  BY <1>2, <2>1, FunctionIsSeq
  <1>11. ReadyOnce'
    <2>1. \A i \in 1..n : DraftsOK(sets'[i])
      BY <1>8, <1>9
    <2>2. \A i, j \in 1..n :
            sets'[i].state = "ready" /\ sets'[j].state = "ready" /\ sets'[i].session = sets'[j].session => i = j
      BY <1>8, <1>9 DEF SInv, ReadyOnce, n
    <2> QED  BY <1>10, <2>1, <2>2 DEF ReadyOnce
  <1> QED  BY <1>1, <1>10, <1>11, GenerationAssumption DEF SInv, GeneratorTypes, CycleOK

LEMMA CallFailedSets ==
  ASSUME SInv, NEW failure \in Failures, CallFailed(failure)
  PROVE  SInv'
  <1> DEFINE n == Len(sets)
  <1>1. at = "asking" /\ UNCHANGED <<endings, transcript, restarts>>
    BY DEF CallFailed, Finished
  <1>2. CASE at' = "backoff" /\ UNCHANGED <<countdownVars, sets, attempt>> /\ ~IsLastAttempt(failure)
    <2>1. attempt < Retries
      BY <1>2, GenerationAssumption DEF IsLastAttempt, SInv, GeneratorTypes
    <2> QED  BY <1>1, <1>2, <2>1 DEF SInv, GeneratorTypes, ReadyOnce, CycleOK, countdownVars
  <1>3. CASE sets' = [sets EXCEPT ![Len(sets)].state = "failed"] /\ at' = "idle" /\ attempt' = 0
    <2>1. n \in 1..n /\ sets \in [1..n -> Row] /\ \A i \in 1..n : sets[i] \in Row /\ DraftsOK(sets[i])
      BY <1>1, RowsOfSets DEF SInv, CycleOK, ReadyOnce
    <2>2. sets' = [sets EXCEPT ![n] = [sets[n] EXCEPT !.state = "failed"]]
      BY <1>3
    <2>3. [sets[n] EXCEPT !.state = "failed"] \in Row
      BY <2>1 DEF Row
    <2>4. sets' \in [1..n -> Row]
      BY <2>1, <2>2, <2>3
    <2>5. \A i \in 1..n : sets'[i].session = sets[i].session /\ (sets'[i].state = "ready" => sets[i].state = "ready")
                          /\ DraftsOK(sets'[i])
      <3>1. \A i \in 1..n : sets'[i] = IF i = n THEN [sets[i] EXCEPT !.state = "failed"] ELSE sets[i]
        BY <2>1, <2>2
      <3> HIDE DEF n
      <3> QED  BY <2>1, <3>1 DEF DraftsOK, Row
    <2>6. sets' \in Seq(Row) /\ ReadyOnce'
      BY <2>4, <2>5, NoneBecomesReady
    <2> QED  BY <1>1, <1>3, <2>6, GenerationAssumption DEF SInv, GeneratorTypes, CycleOK
  <1> QED  BY <1>2, <1>3 DEF CallFailed, Finished

LEMMA DisposedSets ==
  ASSUME SInv, NEW k \in Indexes, Disposed(k)
  PROVE  SInv'
  <1> DEFINE n == Len(sets)
             row == [sets[k] EXCEPT !.drafts = @ - 1,
                                    !.state = IF @ = "ready" /\ sets[k].drafts = 1 THEN "reviewed" ELSE @]
  <1>1. k \in 1..n /\ sets \in [1..n -> Row] /\ \A i \in 1..n : sets[i] \in Row /\ DraftsOK(sets[i])
    BY RowsOfSets DEF SInv, ReadyOnce
  <1>2. sets[k].drafts > 0 /\ sets[k].drafts \in 0..MaxCount /\ MaxCount \in Nat
    BY <1>1, GenerationAssumption DEF Disposed, Row
  <1>3. sets' = [sets EXCEPT ![k] = row]
    BY DEF Disposed
  <1>4. row \in Row /\ row.session = sets[k].session /\ (row.state = "ready" => sets[k].state = "ready") /\ DraftsOK(row)
    BY <1>1, <1>2, RowDisposed
  <1> HIDE DEF row, n
  <1>5. sets' \in [1..n -> Row] /\ \A i \in 1..n : sets'[i] = IF i = k THEN row ELSE sets[i]
    BY <1>1, <1>3, <1>4
  <1>6. \A i \in 1..n : sets'[i].session = sets[i].session /\ (sets'[i].state = "ready" => sets[i].state = "ready")
                        /\ DraftsOK(sets'[i])
    BY <1>1, <1>4, <1>5
  <1>7. /\ sets' \in Seq(Row) /\ Len(sets') = Len(sets) /\ ReadyOnce'
        /\ sets # <<>> => sets' # <<>> /\ sets'[Len(sets')].session = sets[Len(sets)].session
    BY <1>5, <1>6, NoneBecomesReady DEF n
  <1> QED  BY <1>7 DEF Disposed, SInv, GeneratorTypes, CycleOK, countdownVars

(* The end of a lecture discards what its lecturer has not reviewed.       *)
LEMMA WorkOnEndSets ==
  ASSUME SInv, NEW s \in endings, WorkOnEnd(s)
  PROVE  SInv'
  <1> DEFINE n == Len(sets)
  <1>1. n \in Nat /\ Indexes = 1..n /\ sets \in [1..n -> Row] /\ \A i \in 1..n : sets[i] \in Row /\ DraftsOK(sets[i])
    BY RowsOfSets DEF SInv, ReadyOnce
  <1>2. sets' = [i \in 1..n |-> IF i \in InState(s, {"ready", "failed"})
                                THEN [sets[i] EXCEPT !.state = "discarded"] ELSE sets[i]]
    BY <1>1 DEF WorkOnEnd
  <1> HIDE DEF n
  <1>3. ASSUME NEW i \in 1..n
        PROVE  /\ sets'[i] \in Row /\ sets'[i].session = sets[i].session /\ DraftsOK(sets'[i])
               /\ sets'[i].state = "ready" => sets[i].state = "ready"
    <2> DEFINE row == [sets[i] EXCEPT !.state = "discarded"]
    <2>1. row \in Row /\ row.session = sets[i].session /\ row.state = "discarded"
      BY <1>1, <1>3 DEF Row
    <2>2. sets'[i] = row \/ sets'[i] = sets[i]
      BY <1>2, <1>3
    <2> QED  BY <1>1, <1>3, <2>1, <2>2 DEF DraftsOK
  <1>4. sets' \in [1..n -> Row]
    BY <1>2, <1>3
  <1>5. /\ sets' \in Seq(Row) /\ Len(sets') = Len(sets) /\ ReadyOnce'
        /\ sets # <<>> => sets' # <<>> /\ sets'[Len(sets')].session = sets[Len(sets)].session
    BY <1>3, <1>4, NoneBecomesReady DEF n
  <1> QED  BY <1>5 DEF WorkOnEnd, SInv, GeneratorTypes, CycleOK, countdownVars

LEMMA HeadIsFirst ==
  ASSUME NEW S, NEW q \in Seq(S)
  PROVE  Head(q) = q[1]
  OBVIOUS

(* The countdown only adds requests behind the one being worked on.        *)
LEMMA CountdownSets ==
  ASSUME IInv, SInv, CountdownStep
  PROVE  SInv'
  <1>1. UNCHANGED <<sets, at, attempt, transcript, restarts>>
    BY DEF CountdownStep, generator
  <1>2. requests \in Seq(Nat) /\ session \in Nat
    BY RequestsType DEF IInv
  <1>3. requests' = requests \/ requests' = Append(requests, session)
    BY DEF CountdownStep, CountdownNext, StartLecture, Pause, Resume, Stop, End, Announce, Becomes, OnRecordingState,
           Fire, GenerateNow, BeginGenerating, Probe, ProbeAnswered
  <1>4. requests # <<>> => Head(requests') = Head(requests)
    <2>1. ASSUME requests # <<>>, requests' = Append(requests, session) PROVE Head(requests') = Head(requests)
      <3>1. Len(requests) \in Nat \ {0}
        BY <1>2, <2>1, EmptySeq
      <3>2. Append(requests, session)[1] = requests[1]
        BY <1>2, <3>1, AppendProperties
      <3>3. Append(requests, session) \in Seq(Nat)
        BY <1>2, AppendProperties
      <3> QED  BY <1>2, <2>1, <3>2, <3>3, HeadIsFirst
    <2> QED  BY <1>3, <2>1
  <1>5. CycleOK'
    BY <1>1, <1>4 DEF CycleOK, SInv, IInv, Working
  <1>6. endings' \subseteq Lectures
    <2>1. CASE heard' = "ended" /\ heard # "ended"
      <3>1. lecture \in Lectures
        BY <2>1, CountdownAssumption DEF CountdownStep, CountdownNext, StartLecture, Pause, Resume, Stop, End, Announce,
          Becomes, OnRecordingState, Fire, GenerateNow, BeginGenerating, Probe, ProbeAnswered, IInv, Lecture,
          CountdownTypeOK, Lectures
      <3> QED  BY <2>1, <3>1 DEF CountdownStep, SInv, GeneratorTypes
    <2>2. CASE ~(heard' = "ended" /\ heard # "ended")
      BY <2>2 DEF CountdownStep, SInv, GeneratorTypes
    <2> QED  BY <2>1, <2>2
  <1> QED  BY <1>1, <1>5, <1>6 DEF SInv, GeneratorTypes, ReadyOnce

LEMMA RestartSets ==
  ASSUME SInv, Restart
  PROVE  SInv'
  <1>1. restarts' \in 0..MaxRestarts
    BY GenerationAssumption DEF SInv, GeneratorTypes, Restart, Restarted
  <1> QED  BY <1>1, GenerationAssumption DEF Restart, Restarted, SInv, GeneratorTypes, ReadyOnce, CycleOK

LEMMA DisposedAtEndSets ==
  ASSUME SInv, NEW k \in Indexes, DisposedAtEnd(k)
  PROVE  SInv'
  <1> DEFINE n == Len(sets)
             row == [sets[k] EXCEPT !.drafts = @ - 1, !.cut = (sets[k].drafts = 1)]
  <1>1. k \in 1..n /\ sets \in [1..n -> Row] /\ \A i \in 1..n : sets[i] \in Row /\ DraftsOK(sets[i])
    BY RowsOfSets DEF SInv, ReadyOnce
  <1>2. sets[k].drafts > 0
    BY DEF DisposedAtEnd
  <1>3. sets' = [sets EXCEPT ![k] = row]
    BY DEF DisposedAtEnd
  <1>4. row \in Row /\ row.session = sets[k].session /\ (row.state = "ready" => sets[k].state = "ready") /\ DraftsOK(row)
    BY <1>1, <1>2, RowCut
  <1> HIDE DEF row, n
  <1>5. sets' \in [1..n -> Row] /\ \A i \in 1..n : sets'[i] = IF i = k THEN row ELSE sets[i]
    BY <1>1, <1>3, <1>4
  <1>6. \A i \in 1..n : sets'[i].session = sets[i].session /\ (sets'[i].state = "ready" => sets[i].state = "ready")
                        /\ DraftsOK(sets'[i])
    BY <1>1, <1>4, <1>5
  <1>7. sets' \in Seq(Row) /\ ReadyOnce'
    BY <1>5, <1>6, NoneBecomesReady DEF n
  <1>8. restarts' \in 0..MaxRestarts
    BY GenerationAssumption DEF SInv, GeneratorTypes, DisposedAtEnd, Restarted
  <1> QED  BY <1>7, <1>8, GenerationAssumption DEF DisposedAtEnd, Restarted, SInv, GeneratorTypes, CycleOK

LEMMA OtherSets ==
  ASSUME SInv, Retry \/ Speak \/ UNCHANGED vars
  PROVE  SInv'
  <1>1. CASE Retry
    <2>1. attempt + 1 \in 0..Retries
      BY <1>1, GenerationAssumption DEF Retry, SInv, GeneratorTypes, CycleOK
    <2> QED  BY <1>1, <2>1 DEF Retry, SInv, GeneratorTypes, ReadyOnce, CycleOK, countdownVars
  <1>2. CASE Speak
    <2>1. transcript' \in [Lectures -> 0..MaxOffset]
      <3>1. transcript \in [Lectures -> 0..MaxOffset] /\ MaxOffset \in Nat
        BY GenerationAssumption DEF SInv, GeneratorTypes
      <3>2. transcript[lecture] < MaxOffset /\ transcript' = [transcript EXCEPT ![lecture] = transcript[lecture] + 1]
        BY <1>2 DEF Speak
      <3>3. lecture \in Lectures => transcript[lecture] + 1 \in 0..MaxOffset
        BY <3>1, <3>2
      <3> QED  BY <3>1, <3>2, <3>3
    <2> QED  BY <1>2, <2>1 DEF Speak, generator, SInv, GeneratorTypes, ReadyOnce, CycleOK, countdownVars
  <1>3. CASE UNCHANGED vars
    BY <1>3 DEF vars, generator, SInv, GeneratorTypes, ReadyOnce, CycleOK, countdownVars
  <1> QED  BY <1>1, <1>2, <1>3

LEMMA SetsInit ==
  Init => SInv
  <1> SUFFICES ASSUME Init PROVE SInv
    OBVIOUS
  <1>1. sets = <<>> /\ sets \in Seq(Row) /\ Len(sets) = 0
    BY EmptySeq DEF Init
  <1> QED  BY <1>1, GenerationAssumption DEF Init, SInv, GeneratorTypes, ReadyOnce, CycleOK

LEMMA SetsInductive ==
  ASSUME IInv, SInv, [Next]_vars
  PROVE  SInv'
  BY StartCycleSets, ReadySets, CallFailedSets, DisposedSets, DisposedAtEndSets, WorkOnEndSets, CountdownSets, RestartSets, OtherSets
     DEF Next

-----------------------------------------------------------------------------
(* The theorems                                                            *)

THEOREM InvariantHolds == Spec => []IInv
  <1>1. IInv /\ [Next]_vars => IInv'
    BY Inductive
  <1> QED  BY InitInv, <1>1, PTL DEF Spec

(* The countdown waits exactly for a cycle of its own session, queued or   *)
(* running, and no session has two (reportGenerationSettled).              *)
THEOREM CountdownHasItsCycle == Spec => []GeneratingHasCycle
  <1>1. IInv => GeneratingHasCycle
    BY WaitsIsGeneratingHasCycle DEF IInv
  <1> QED  BY InvariantHolds, <1>1, PTL

(* While degraded it is probed and the alert is active, whenever the       *)
(* answers of earlier probes come (#runProbe).                             *)
THEOREM AlwaysProbed == Spec => []DegradedIsProbed
  <1>1. IInv => DegradedIsProbed
    BY DEF IInv
  <1> QED  BY InvariantHolds, <1>1, PTL

THEOREM SetsInvariantHolds == Spec => []SInv
  <1>1. IInv /\ SInv /\ [Next]_vars => SInv'
    BY SetsInductive
  <1> QED  BY SetsInit, InvariantHolds, <1>1, PTL DEF Spec

(* The records of the sets, of the generator and of the countdown keep     *)
(* their types; in particular a window ends within the transcript.         *)
THEOREM TypeCorrect == Spec => []TypeOK
  <1>1. IInv /\ SInv => TypeOK
    BY DEF IInv, SInv, GeneratorTypes, Row, TypeOK
  <1> QED  BY InvariantHolds, SetsInvariantHolds, <1>1, PTL

(* One set of a lecture is ready at most, with drafts left to review but   *)
(* for one core-api ended at; a reviewed set has none (#persistReady,      *)
(* checkQuestionSetReviewed).                                              *)
THEOREM OneSetIsReady == Spec => []OneReady
  <1>1. SInv => OneReady
    BY ReadyOnceIsOneReady DEF SInv
  <1> QED  BY SetsInvariantHolds, <1>1, PTL
=============================================================================
