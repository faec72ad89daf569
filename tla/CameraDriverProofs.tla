------------------------- MODULE CameraDriverProofs -------------------------
(***************************************************************************)
(* Proofs about CameraDriver, for any number of frames and takers, any     *)
(* ring, any length of the queues and any shots.                           *)
(***************************************************************************)
EXTENDS CameraDriver, SequenceTheorems, FiniteSetTheorems, TLAPS

LEMMA NoneNoFrame == None \notin Frames
  BY DEF None, Frames

LEMMA SlotOfCount ==
  ASSUME NEW n \in Nat PROVE n % HalfCnt \in Slots
  BY DriverAssumption DEF DriverAssumption, Slots

LEMMA SlotNat ==
  ASSUME TypeOK PROVE slot \in Nat
  BY DriverAssumption DEF DriverAssumption, TypeOK, Slots

LEMMA NextFrameFree ==
  ASSUME TypeOK, HasFrame PROVE NextFrame \in Frames /\ en[NextFrame]
  BY DEF TypeOK, HasFrame, NextFrame, FirstFree

-----------------------------------------------------------------------------
(* Types and limits                                                        *)

LEMMA SendEventType ==
  ASSUME TypeOK, NEW e \in {"eof", "vsync"}, SendEvent(e)
  PROVE  /\ dma' \in {"off", "fresh", "on"}
         /\ state' \in {"idle", "read"}
         /\ events' \in Seq({"eof", "vsync"}) /\ Len(events') <= EventLen
  <1>1. CASE Len(events) < EventLen
    <2>1. events' = Append(events, e) /\ dma' = dma /\ state' = state
      BY <1>1 DEF SendEvent
    <2>2. Len(events') = Len(events) + 1 /\ events' \in Seq({"eof", "vsync"})
      BY <2>1, AppendProperties DEF TypeOK
    <2> QED BY <1>1, <2>1, <2>2, DriverAssumption, LenProperties
            DEF TypeOK, EventLen, DriverAssumption
  <1>2. CASE ~(Len(events) < EventLen)
    BY <1>2 DEF SendEvent, TypeOK
  <1> QED BY <1>1, <1>2

LEMMA StartDmaType ==
  ASSUME TypeOK, StartDma
  PROVE  /\ dma' \in {"off", "fresh", "on"}
         /\ slot' \in Slots
         /\ ring' \in [Slots -> Half]
         /\ clean' \in BOOLEAN
  <1>1. dma' \in {"off", "fresh", "on"} /\ slot' \in Slots
    BY DriverAssumption DEF StartDma, Slots, DriverAssumption
  <1>2. Old \in [Slots -> Half]
    BY DEF Old, TypeOK, Half
  <1>3. ring' \in [Slots -> Half]
    BY <1>2 DEF StartDma, Half
  <1>4. clean' \in BOOLEAN
    BY Zenon DEF StartDma
  <1> QED BY <1>1, <1>3, <1>4

\* What is copied next is the half buffer in the ring, if it can be trusted.
LEMMA NextHalfType ==
  ASSUME TypeOK PROVE NextHalf \in Half /\ (clean => NextHalf = ring[cnt % HalfCnt])
  <1> DEFINE half == ring[cnt % HalfCnt]
  <1>1. half \in Half
    BY SlotOfCount DEF TypeOK
  <1>2. /\ NextHalf = [half EXCEPT !.place = IF clean THEN @ ELSE Adrift,
                                    !.last = clean /\ @]
        /\ clean \in BOOLEAN
    BY DEF NextHalf, TypeOK
  <1> HIDE DEF half
  <1>3. CASE clean
    <2>1. NextHalf = [half EXCEPT !.place = half.place, !.last = half.last]
      BY <1>1, <1>2, <1>3 DEF Half
    <2> QED BY <1>1, <2>1 DEF Half, half
  <1>4. CASE ~clean
    BY <1>1, <1>2, <1>4 DEF Half
  <1> QED BY <1>3, <1>4

\* A half buffer that is appended fits into the frame.
LEMMA AppendHalf ==
  ASSUME TypeOK, ~(Len(filling) + 1 > FbHalves)
  PROVE  /\ Append(filling, NextHalf) \in Seq(Half)
         /\ Len(Append(filling, NextHalf)) <= FbHalves
  <1>1. NextHalf \in Half
    BY NextHalfType
  <1>2. filling \in Seq(Half) /\ Len(filling) \in Nat /\ FbHalves \in Nat
    BY LenProperties, DriverAssumption DEF TypeOK, DriverAssumption
  <1> DEFINE half == NextHalf
  <1> HIDE DEF half
  <1>3. Append(filling, half) \in Seq(Half) /\ Len(Append(filling, half)) = Len(filling) + 1
    BY <1>1, <1>2, AppendProperties DEF half
  <1> QED BY <1>2, <1>3 DEF half

LEMMA EnqueueType ==
  ASSUME TypeOK, NEW halves \in Seq(Half), Len(fbq) < QueueLen, Enqueue(halves)
  PROVE  /\ fbq' \in Seq(Frames) /\ Len(fbq') <= QueueLen
         /\ content' \in [Frames -> Seq(Half)]
         /\ filling' = <<>> /\ filling' \in Seq(Half) /\ Len(filling') <= FbHalves
  <1>1. fbq' \in Seq(Frames) /\ Len(fbq') = Len(fbq) + 1
    BY AppendProperties DEF TypeOK, Enqueue
  <1>2. Len(fbq') <= QueueLen
    BY <1>1, DriverAssumption, LenProperties DEF TypeOK, DriverAssumption
  <1>3. content' \in [Frames -> Seq(Half)]
    BY DEF TypeOK, Enqueue
  <1>4. filling' = <<>> /\ filling' \in Seq(Half) /\ Len(filling') <= FbHalves
    BY DriverAssumption DEF Enqueue, DriverAssumption
  <1> QED BY <1>1, <1>2, <1>3, <1>4

LEMMA DequeueType ==
  ASSUME TypeOK, fbq # <<>>
  PROVE  Head(fbq) \in Frames /\ Tail(fbq) \in Seq(Frames) /\ Len(Tail(fbq)) <= QueueLen
  BY HeadTailProperties, LenProperties, DriverAssumption DEF TypeOK, DriverAssumption

LEMMA DriverTypeStep == TypeOK /\ [Next]_vars => TypeOK'
  <1> SUFFICES ASSUME TypeOK, [Next]_vars PROVE TypeOK'
    OBVIOUS
  <1> USE DEF dmaVars, taskVars, frameVars
  <1>1. CASE ShotBegins
    <2>1. left' \in Nat
      BY <1>1, DriverAssumption DEF ShotBegins, DriverAssumption
    <2>2. dma' \in {"off", "fresh", "on"} /\ ring' \in [Slots -> Half]
      <3>1. CASE dma = "fresh"
        <4> DEFINE half == [place |-> 0, last |-> left' = 1]
        <4>1. half \in Half
          BY DEF Half
        <4>2. dma' = "on" /\ ring' = [ring EXCEPT ![slot] = half]
          BY <1>1, <3>1 DEF ShotBegins
        <4> HIDE DEF half
        <4> QED BY <4>1, <4>2 DEF TypeOK
      <3>2. CASE dma # "fresh"
        BY <1>1, <3>2 DEF ShotBegins, TypeOK
      <3> QED BY <3>1, <3>2
    <2> QED BY <1>1, <2>1, <2>2 DEF ShotBegins, TypeOK
  <1>2. CASE HalfBufferFull
    <2>1. left' \in Nat /\ clean' \in BOOLEAN
      <3>1. left' \in Nat
        BY <1>2 DEF HalfBufferFull, TypeOK
      <3>2. clean' \in BOOLEAN
        <4>1. CASE dma = "off"
          BY <1>2, <4>1 DEF HalfBufferFull, TypeOK
        <4>2. CASE dma # "off"
          BY <1>2, <4>2, Zenon DEF HalfBufferFull
        <4> QED BY <4>1, <4>2
      <3> QED BY <3>1, <3>2
    <2>2. slot' \in Slots /\ ring' \in [Slots -> Half]
      <3>1. CASE dma = "off"
        BY <1>2, <3>1 DEF HalfBufferFull, TypeOK
      <3>2. CASE dma # "off"
        <4> DEFINE next == (slot + 1) % HalfCnt
                   aligned == ring[slot].place # Adrift /\ ~ring[slot].last
                   half == [place |-> IF aligned THEN ring[slot].place + 1 ELSE Adrift,
                            last |-> left' = 1]
        <4>1. slot' = next /\ ring' = [ring EXCEPT ![next] = half]
          BY <1>2, <3>2 DEF HalfBufferFull
        <4>2. next \in Slots
          <5>1. slot + 1 \in Nat
            BY DriverAssumption DEF TypeOK, Slots, DriverAssumption
          <5> QED BY <5>1, SlotOfCount
        <4>3. half \in Half
          <5>1. ring[slot].place \in Nat \cup {Adrift}
            BY DEF TypeOK, Half
          <5> QED BY <5>1 DEF Half, Adrift
        <4> HIDE DEF next, half
        <4> QED BY <4>1, <4>2, <4>3 DEF TypeOK
      <3> QED BY <3>1, <3>2
    <2>3. /\ dma' \in {"off", "fresh", "on"} /\ state' \in {"idle", "read"}
          /\ events' \in Seq({"eof", "vsync"}) /\ Len(events') <= EventLen
      <3>1. CASE dma = "off"
        BY <1>2, <3>1 DEF HalfBufferFull, TypeOK
      <3>2. CASE dma # "off"
        BY <1>2, <3>2, SendEventType DEF HalfBufferFull
      <3> QED BY <3>1, <3>2
    <2> QED BY <1>2, <2>1, <2>2, <2>3 DEF HalfBufferFull, TypeOK
  <1>3. CASE ShotEnds
    BY <1>3, SendEventType DEF ShotEnds, TypeOK
  <1>4. CASE Receive
    <2>1. /\ Head(events) \in {"eof", "vsync"} /\ Tail(events) \in Seq({"eof", "vsync"})
          /\ Len(Tail(events)) = Len(events) - 1
      BY <1>4, HeadTailProperties DEF Receive, TypeOK
    <2>2. Len(events') <= EventLen
      BY <1>4, <2>1, LenProperties, DriverAssumption
      DEF Receive, TypeOK, EventLen, DriverAssumption
    <2> QED BY <1>4, <2>1, <2>2 DEF Receive, TypeOK
  <1>5. CASE HandleEof
    BY <1>5 DEF HandleEof, TypeOK
  <1>6. CASE CopyHalf
    <2>1. filling' \in Seq(Half) /\ Len(filling') <= FbHalves /\ cnt' \in Nat
      <3>1. CASE Len(filling) + 1 > FbHalves
        BY <1>6, <3>1 DEF CopyHalf, TypeOK
      <3>2. CASE ~(Len(filling) + 1 > FbHalves)
        <4>1. filling' = Append(filling, NextHalf) /\ cnt' = cnt + 1
          BY <1>6, <3>2 DEF CopyHalf
        <4> QED BY <3>2, <4>1, AppendHalf DEF TypeOK
      <3> QED BY <3>1, <3>2
    <2>2. dma' \in {"off", "fresh", "on"} /\ state' \in {"idle", "read"}
      BY <1>6 DEF CopyHalf, StopDma, TypeOK
    <2> QED BY <1>6, <2>1, <2>2 DEF CopyHalf, TypeOK
  <1>7. CASE HandleVsync
    BY <1>7 DEF HandleVsync, StopDma, TypeOK
  <1>8. CASE StartFrame
    BY <1>8, StartDmaType, NextFrameFree DEF StartFrame, TypeOK
  <1>9. CASE BeginFrame
    <2>1. filling' \in Seq(Half) /\ Len(filling') <= FbHalves
      BY <1>9, DriverAssumption DEF BeginFrame, DriverAssumption
    <2> QED BY <1>9, <2>1 DEF BeginFrame, TypeOK
  <1>10. CASE SendFrame
    <2> DEFINE halves == IF Len(filling) + 1 > FbHalves
                         THEN filling ELSE Append(filling, NextHalf)
    <2>1. halves \in Seq(Half) /\ Len(halves) <= FbHalves
      BY AppendHalf DEF TypeOK
    <2>2. en' \in [Frames -> BOOLEAN]
      BY <1>10 DEF SendFrame, TypeOK
    <2>3. IF Len(fbq) < QueueLen
          THEN Enqueue(halves) /\ pc' = "restart"
          ELSE filling' = halves /\ pc' = "pop" /\ UNCHANGED <<fbq, content>>
      BY <1>10 DEF SendFrame
    <2> HIDE DEF halves
    <2>4. /\ fbq' \in Seq(Frames) /\ Len(fbq') <= QueueLen
          /\ content' \in [Frames -> Seq(Half)]
          /\ filling' \in Seq(Half) /\ Len(filling') <= FbHalves
          /\ pc' \in {"restart", "pop"}
      BY <2>1, <2>3, EnqueueType DEF TypeOK
    <2> QED BY <1>10, <2>2, <2>4 DEF SendFrame, TypeOK
  <1>11. CASE PopFrame
    BY <1>11, DequeueType DEF PopFrame, TypeOK
  <1>12. CASE ResendFrame
    <2>1. en' \in [Frames -> BOOLEAN]
      BY <1>12 DEF ResendFrame, TypeOK
    <2>2. /\ fbq' \in Seq(Frames) /\ Len(fbq') <= QueueLen
          /\ content' \in [Frames -> Seq(Half)]
          /\ filling' \in Seq(Half) /\ Len(filling') <= FbHalves
      BY <1>12, EnqueueType DEF ResendFrame, TypeOK
    <2> QED BY <1>12, <2>1, <2>2 DEF ResendFrame, TypeOK
  <1>13. CASE Restart
    <2>1. CASE HasFrame
      <3>1. filling' \in Seq(Half) /\ Len(filling') <= FbHalves
        BY <1>13, <2>1, DriverAssumption DEF Restart, DriverAssumption
      <3> QED BY <1>13, <2>1, <3>1, StartDmaType, NextFrameFree DEF Restart, TypeOK
    <2>2. CASE ~HasFrame
      BY <1>13, <2>2 DEF Restart, TypeOK
    <2> QED BY <2>1, <2>2
  <1>14. ASSUME NEW t \in Takers, TakeFrame(t) PROVE TypeOK'
    BY <1>14, DequeueType DEF TakeFrame, TypeOK
  <1>15. ASSUME NEW t \in Takers, RejectFrame(t) \/ ReturnFrame(t) PROVE TypeOK'
    <2>1. took[t] \in Frames /\ GiveBack(t)
      BY <1>15 DEF RejectFrame, ReturnFrame, TypeOK
    <2>2. content' \in [Frames -> Seq(Half)]
      BY <2>1 DEF GiveBack, TypeOK
    <2> QED BY <2>1, <2>2 DEF GiveBack, TypeOK
  <1>16. CASE UNCHANGED vars
    BY <1>16 DEF vars, TypeOK
  <1> QED
    BY <1>1, <1>2, <1>3, <1>4, <1>5, <1>6, <1>7, <1>8, <1>9, <1>10, <1>11, <1>12,
       <1>13, <1>14, <1>15, <1>16
    DEF Next, CamTask, Taker

LEMMA DriverTypeInit == Init => TypeOK
  BY DriverAssumption
  DEF Init, TypeOK, DriverAssumption, Slots, Half, Frames, None, EventLen

-----------------------------------------------------------------------------
(* Every frame has one owner                                               *)

In(f, q) == \E i \in DOMAIN q : q[i] = f
NoRepeat(q) == \A i, j \in DOMAIN q : q[i] = q[j] => i = j

LEMMA AppendOne ==
  ASSUME NEW q \in Seq(Frames), NEW g \in Frames
  PROVE  /\ \A f : In(f, Append(q, g)) <=> In(f, q) \/ f = g
         /\ NoRepeat(q) /\ ~In(g, q) => NoRepeat(Append(q, g))
  <1> DEFINE r == Append(q, g)
  <1>1. /\ DOMAIN q = 1..Len(q) /\ Len(q) \in Nat
        /\ DOMAIN r = 1..(Len(q) + 1)
        /\ \A i \in 1..Len(q) : r[i] = q[i]
        /\ r[Len(q) + 1] = g
    BY AppendProperties, LenProperties
  <1> HIDE DEF r
  <1>2. ASSUME NEW f PROVE In(f, r) <=> In(f, q) \/ f = g
    BY <1>1 DEF In
  <1>3. ASSUME NoRepeat(q), ~In(g, q) PROVE NoRepeat(r)
    BY <1>1, <1>3 DEF NoRepeat, In
  <1> QED BY <1>2, <1>3 DEF r

LEMMA TailOne ==
  ASSUME NEW q \in Seq(Frames), q # <<>>
  PROVE  /\ \A f : In(f, q) <=> In(f, Tail(q)) \/ f = Head(q)
         /\ NoRepeat(q) => NoRepeat(Tail(q)) /\ ~In(Head(q), Tail(q))
  <1> DEFINE r == Tail(q)
  <1>1. /\ DOMAIN q = 1..Len(q) /\ Len(q) \in Nat /\ Len(q) > 0
        /\ DOMAIN r = 1..(Len(q) - 1)
        /\ \A i \in 1..(Len(q) - 1) : r[i] = q[i + 1]
        /\ Head(q) = q[1]
    BY HeadTailProperties, LenProperties, EmptySeq
  <1> HIDE DEF r
  <1>2. ASSUME NEW f PROVE In(f, q) <=> In(f, r) \/ f = Head(q)
    <2>1. ASSUME In(f, q) PROVE In(f, r) \/ f = Head(q)
      <3>1. PICK i \in 1..Len(q) : q[i] = f
        BY <1>1, <2>1 DEF In
      <3>2. CASE i = 1
        BY <1>1, <3>1, <3>2
      <3>3. CASE i # 1
        <4>1. i - 1 \in 1..(Len(q) - 1) /\ r[i - 1] = q[(i - 1) + 1]
          BY <1>1, <3>3
        <4> QED BY <1>1, <3>1, <4>1 DEF In
      <3> QED BY <3>2, <3>3
    <2>2. ASSUME In(f, r) PROVE In(f, q)
      <3>1. PICK i \in 1..(Len(q) - 1) : r[i] = f
        BY <1>1, <2>2 DEF In
      <3>2. i + 1 \in DOMAIN q /\ q[i + 1] = f
        BY <1>1, <3>1
      <3> QED BY <3>2 DEF In
    <2>3. In(Head(q), q)
      BY <1>1 DEF In
    <2> QED BY <2>1, <2>2, <2>3
  <1>3. ASSUME NoRepeat(q) PROVE NoRepeat(r) /\ ~In(Head(q), r)
    <2>1. ASSUME NEW i \in DOMAIN r, NEW j \in DOMAIN r, r[i] = r[j] PROVE i = j
      <3>1. i + 1 \in DOMAIN q /\ j + 1 \in DOMAIN q /\ q[i + 1] = q[j + 1]
        BY <1>1, <2>1
      <3>2. i + 1 = j + 1
        BY <1>3, <3>1 DEF NoRepeat
      <3> QED BY <1>1, <3>2
    <2>2. ASSUME NEW i \in DOMAIN r, r[i] = Head(q) PROVE FALSE
      <3>1. i + 1 \in DOMAIN q /\ 1 \in DOMAIN q /\ q[i + 1] = q[1]
        BY <1>1, <2>2
      <3>2. i + 1 = 1
        BY <1>3, <3>1 DEF NoRepeat
      <3> QED BY <1>1, <3>2
    <2> QED BY <2>1, <2>2 DEF NoRepeat, In
  <1> QED BY <1>2, <1>3 DEF r

\* FrameHasOneOwner in terms of the queue.
Owners ==
  /\ \A f \in Frames :
       /\ en[f] \/ Filled(f) \/ popped = f \/ In(f, fbq) \/ Held(f)
       /\ en[f] => ~(Filled(f) \/ popped = f \/ In(f, fbq) \/ Held(f))
       /\ In(f, fbq) => ~(Filled(f) \/ popped = f \/ Held(f))
       /\ Held(f) => ~(Filled(f) \/ popped = f)
       /\ ~(Filled(f) /\ popped = f)
  /\ NoRepeat(fbq)
  /\ \A t, u \in Takers : took[t] = took[u] /\ took[t] # None => t = u

LEMMA OwnersIsOneOwner ==
  ASSUME TypeOK PROVE FrameHasOneOwner <=> Owners
  <1>1. \A i \in DOMAIN fbq : fbq[i] \in Frames
    BY ElementOfSeq, LenProperties DEF TypeOK
  <1>2. \A t \in Takers : took[t] \in Frames \cup {None}
    BY DEF TypeOK
  <1> QED
    BY <1>1, <1>2, NoneNoFrame DEF FrameHasOneOwner, Owners, Queued, In, NoRepeat

\* A step that leaves the frames alone and is not on its way to or from the
\* queue changes no owner.
LEMMA SameOwners ==
  ASSUME Owners, UNCHANGED <<en, fbq, popped, took>>,
         \/ UNCHANGED <<pc, pos>>
         \/ pc \notin {"pop", "resend"} /\ pc' \notin {"pop", "resend"}
  PROVE  Owners'
  <1>1. \A f : (Filled(f)' <=> Filled(f)) /\ (Held(f)' <=> Held(f))
    BY DEF Filled, Held
  <1>2. \A f : In(f, fbq)' <=> In(f, fbq)
    BY DEF In
  <1>3. NoRepeat(fbq)'
    BY DEF Owners, NoRepeat
  <1> QED BY <1>1, <1>2, <1>3 DEF Owners

LEMMA SendOwners ==
  ASSUME TypeOK, Owners, en[pos], popped = None, SendFrame
  PROVE  Owners'
  <1>1. /\ pc = "send" /\ pos' = pos /\ popped' = popped /\ took' = took
        /\ en' = [en EXCEPT ![pos] = FALSE] /\ pos \in Frames
    BY DEF SendFrame, TypeOK
  <1>2. \A f : ~Filled(f) /\ (Held(f)' <=> Held(f))
    BY <1>1 DEF Filled, Held
  <1>3. \A f \in Frames : en'[f] <=> en[f] /\ f # pos
    BY <1>1 DEF TypeOK
  <1>4. CASE Len(fbq) < QueueLen
    <2>1. fbq' = Append(fbq, pos) /\ pc' = "restart"
      BY <1>4, Zenon DEF SendFrame, Enqueue
    <2>2. /\ \A f : In(f, fbq') <=> In(f, fbq) \/ f = pos
          /\ NoRepeat(fbq')
      BY <1>1, <2>1, AppendOne DEF TypeOK, Owners
    <2>3. \A f : ~Filled(f)'
      BY <2>1 DEF Filled
    <2> QED BY <1>1, <1>2, <1>3, <2>2, <2>3, NoneNoFrame DEF Owners
  <1>5. CASE ~(Len(fbq) < QueueLen)
    <2>1. fbq' = fbq /\ pc' = "pop"
      BY <1>5, Zenon DEF SendFrame
    <2>2. \A f : Filled(f)' <=> f = pos
      BY <1>1, <2>1 DEF Filled
    <2> QED BY <1>1, <1>2, <1>3, <2>1, <2>2, NoneNoFrame DEF Owners
  <1> QED BY <1>4, <1>5

LEMMA PopOwners ==
  ASSUME TypeOK, Owners, popped = None, PopFrame
  PROVE  Owners'
  <1>1. pc = "pop" /\ pos' = pos /\ took' = took /\ pos \in Frames
    BY DEF PopFrame, TypeOK
  <1>2. \A f : (Filled(f) <=> f = pos) /\ (Held(f)' <=> Held(f))
    BY <1>1 DEF Filled, Held
  <1>3. CASE fbq = <<>>
    <2>1. fbq' = fbq /\ popped' = popped /\ pc' = "restart" /\ en' = [en EXCEPT ![pos] = TRUE]
      BY <1>3 DEF PopFrame
    <2>2. \A f \in Frames : en'[f] <=> en[f] \/ f = pos
      BY <2>1 DEF TypeOK
    <2>3. \A f : ~Filled(f)'
      BY <2>1 DEF Filled
    <2> QED BY <1>1, <1>2, <2>1, <2>2, <2>3, NoneNoFrame DEF Owners
  <1>4. CASE fbq # <<>>
    <2>1. fbq' = Tail(fbq) /\ popped' = Head(fbq) /\ pc' = "resend" /\ en' = en
      BY <1>4 DEF PopFrame
    <2>2. /\ \A f : In(f, fbq) <=> In(f, fbq') \/ f = Head(fbq)
          /\ NoRepeat(fbq') /\ ~In(Head(fbq), fbq')
      BY <1>4, <2>1, TailOne DEF TypeOK, Owners
    <2>3. \A f : Filled(f)' <=> f = pos
      BY <1>1, <2>1 DEF Filled
    <2> QED BY <1>1, <1>2, <2>1, <2>2, <2>3, NoneNoFrame DEF Owners
  <1> QED BY <1>3, <1>4

LEMMA ResendOwners ==
  ASSUME TypeOK, Owners, popped # None, ResendFrame
  PROVE  Owners'
  <1>1. /\ pc = "resend" /\ pc' = "restart" /\ popped' = None /\ took' = took
        /\ pos \in Frames /\ popped \in Frames
    BY DEF ResendFrame, TypeOK
  <1>2. \A f : (Filled(f) <=> f = pos) /\ ~Filled(f)' /\ (Held(f)' <=> Held(f))
    BY <1>1 DEF Filled, Held
  <1>3. CASE Len(fbq) < QueueLen
    <2>1. fbq' = Append(fbq, pos) /\ en' = [en EXCEPT ![popped] = TRUE]
      BY <1>3, Zenon DEF ResendFrame, Enqueue
    <2>2. \A f : In(f, fbq') <=> In(f, fbq) \/ f = pos
      BY <1>1, <2>1, AppendOne DEF TypeOK
    <2>3. NoRepeat(fbq')
      <3>1. ~In(pos, fbq) /\ NoRepeat(fbq)
        BY <1>1, <1>2 DEF Owners
      <3> QED BY <1>1, <2>1, <3>1, AppendOne DEF TypeOK
    <2>4. \A f \in Frames : en'[f] <=> en[f] \/ f = popped
      BY <2>1 DEF TypeOK
    <2> QED BY <1>1, <1>2, <2>2, <2>3, <2>4, NoneNoFrame DEF Owners
  <1>4. CASE ~(Len(fbq) < QueueLen)
    <2>1. fbq' = fbq /\ en' = [en EXCEPT ![pos] = TRUE, ![popped] = TRUE]
      BY <1>4, Zenon DEF ResendFrame
    <2>2. \A f \in Frames : en'[f] <=> en[f] \/ f = popped \/ f = pos
      BY <2>1 DEF TypeOK
    <2> QED BY <1>1, <1>2, <2>1, <2>2, NoneNoFrame DEF Owners
  <1> QED BY <1>3, <1>4

LEMMA TakeOwners ==
  ASSUME TypeOK, Owners, NEW t \in Takers, TakeFrame(t)
  PROVE  Owners'
  <1>1. /\ took[t] = None /\ fbq # <<>> /\ fbq' = Tail(fbq)
        /\ took' = [took EXCEPT ![t] = Head(fbq)]
        /\ UNCHANGED <<pc, pos, popped, en>>
    BY DEF TakeFrame, taskVars
  <1>2. /\ \A f : In(f, fbq) <=> In(f, fbq') \/ f = Head(fbq)
        /\ NoRepeat(fbq') /\ ~In(Head(fbq), fbq')
    BY <1>1, TailOne DEF TypeOK, Owners
  <1>3. Head(fbq) \in Frames
    BY <1>1, DequeueType
  <1>4. \A u \in Takers : took'[u] = IF u = t THEN Head(fbq) ELSE took[u]
    BY <1>1 DEF TypeOK
  <1>5. \A f \in Frames : Held(f)' <=> Held(f) \/ f = Head(fbq)
    BY <1>1, <1>4, NoneNoFrame DEF Held
  <1>6. \A f : Filled(f)' <=> Filled(f)
    BY <1>1 DEF Filled
  <1>7. \A u \in Takers : took[u] # Head(fbq)
    BY <1>2, <1>3 DEF Owners, Held
  <1>8. \A u, v \in Takers : took'[u] = took'[v] /\ took'[u] # None => u = v
    BY <1>4, <1>7 DEF Owners
  <1> QED BY <1>1, <1>2, <1>3, <1>5, <1>6, <1>8 DEF Owners

LEMMA GiveOwners ==
  ASSUME TypeOK, Owners, NEW t \in Takers, took[t] # None, GiveBack(t)
  PROVE  Owners'
  <1>1. /\ en' = [en EXCEPT ![took[t]] = TRUE]
        /\ took' = [took EXCEPT ![t] = None]
        /\ UNCHANGED <<pc, pos, popped, fbq>>
    BY DEF GiveBack, taskVars
  <1>2. took[t] \in Frames
    BY DEF TypeOK
  <1>3. \A f \in Frames : en'[f] <=> en[f] \/ f = took[t]
    BY <1>1 DEF TypeOK
  <1>4. \A u \in Takers : took'[u] = IF u = t THEN None ELSE took[u]
    BY <1>1 DEF TypeOK
  <1>5. \A f \in Frames : Held(f)' <=> Held(f) /\ f # took[t]
    BY <1>4, NoneNoFrame DEF Held, Owners
  <1>6. \A f : (Filled(f)' <=> Filled(f)) /\ (In(f, fbq)' <=> In(f, fbq))
    BY <1>1 DEF Filled, In
  <1>7. NoRepeat(fbq)' /\ \A u, v \in Takers : took'[u] = took'[v] /\ took'[u] # None => u = v
    BY <1>1, <1>4 DEF Owners, NoRepeat
  <1>8. Held(took[t])
    BY DEF Held
  <1> QED BY <1>1, <1>2, <1>3, <1>5, <1>6, <1>7, <1>8 DEF Owners

LEMMA OwnersStep ==
  ASSUME TypeOK, Owners, CapturesIntoOwnFrame, Phases, [Next]_vars
  PROVE  Owners'
  <1> USE DEF dmaVars, taskVars, frameVars
  <1>1. CASE ShotBegins \/ HalfBufferFull \/ ShotEnds
    BY <1>1, SameOwners DEF ShotBegins, HalfBufferFull, ShotEnds
  <1>2. CASE Receive
    <2>1. pc' \in {"eof", "vsync"}
      BY <1>2, HeadTailProperties DEF Receive, TypeOK
    <2> QED BY <1>2, <2>1, SameOwners DEF Receive
  <1>3. CASE HandleEof \/ CopyHalf \/ HandleVsync \/ BeginFrame
    BY <1>3, SameOwners DEF HandleEof, CopyHalf, HandleVsync, BeginFrame
  <1>4. CASE StartFrame \/ Restart
    BY <1>4, SameOwners DEF StartFrame, Restart
  <1>5. CASE SendFrame
    BY <1>5, SendOwners DEF CapturesIntoOwnFrame, Capturing, Phases, SendFrame
  <1>6. CASE PopFrame
    BY <1>6, PopOwners DEF Phases, PopFrame
  <1>7. CASE ResendFrame
    BY <1>7, ResendOwners DEF Phases, ResendFrame
  <1>8. ASSUME NEW t \in Takers, TakeFrame(t) PROVE Owners'
    BY <1>8, TakeOwners
  <1>9. ASSUME NEW t \in Takers, RejectFrame(t) \/ ReturnFrame(t) PROVE Owners'
    BY <1>9, GiveOwners DEF RejectFrame, ReturnFrame
  <1>10. CASE UNCHANGED vars
    BY <1>10, SameOwners DEF vars
  <1> QED
    BY <1>1, <1>2, <1>3, <1>4, <1>5, <1>6, <1>7, <1>8, <1>9, <1>10
    DEF Next, CamTask, Taker

\* The interrupts only ever set the state to idle.
LEMMA CaptureStep ==
  ASSUME TypeOK, Owners, CapturesIntoOwnFrame, Phases, [Next]_vars
  PROVE  CapturesIntoOwnFrame' /\ Phases'
  <1> USE DEF dmaVars, taskVars, frameVars, CapturesIntoOwnFrame, Capturing, Phases
  <1>1. CASE ShotBegins \/ HalfBufferFull \/ ShotEnds
    <2>1. UNCHANGED <<pc, pos, en, popped>> /\ state' \in {state, "idle"}
      BY <1>1 DEF ShotBegins, HalfBufferFull, ShotEnds, SendEvent
    <2> QED BY <2>1
  <1>2. CASE Receive
    <2>1. pc = "receive" /\ pc' \in {"eof", "vsync"} /\ UNCHANGED <<state, pos, en, popped>>
      BY <1>2, HeadTailProperties DEF Receive, TypeOK
    <2> QED BY <2>1
  <1>3. CASE HandleEof \/ CopyHalf \/ HandleVsync \/ BeginFrame
    <2>1. UNCHANGED <<pos, en, popped>>
      BY <1>3 DEF HandleEof, CopyHalf, HandleVsync, BeginFrame
    <2>2. \/ pc = "eof" /\ pc' = (IF state = "read" THEN "copy" ELSE "receive") /\ state' = state
          \/ pc = "copy" /\ pc' = "receive"
          \/ pc = "vsync" /\ state' = state
              /\ (IF state = "idle" THEN pc' = "start" ELSE pc' \in {"send", "restart"})
          \/ pc = "begin" /\ pc' = "receive"
      BY <1>3 DEF HandleEof, CopyHalf, HandleVsync, BeginFrame
    <2> QED BY <2>1, <2>2 DEF TypeOK
  <1>4. CASE StartFrame \/ Restart
    <2>1. HasFrame => NextFrame \in Frames /\ en[NextFrame]
      BY NextFrameFree
    <2>2. /\ UNCHANGED <<en, popped>>
          /\ pc \in {"start", "restart"} /\ pc' \in {"begin", "receive"}
          /\ IF HasFrame THEN pos' = NextFrame /\ state' = state
                         ELSE state' = "idle" /\ pc' = "receive"
          /\ pc' = "begin" => state' = "idle"
      BY <1>4 DEF StartFrame, Restart
    <2> QED BY <2>1, <2>2
  <1>5. CASE SendFrame
    BY <1>5 DEF SendFrame
  <1>6. CASE PopFrame
    <2>1. fbq # <<>> => Head(fbq) \in Frames
      BY DequeueType
    <2> QED BY <1>6, <2>1, NoneNoFrame DEF PopFrame
  <1>7. CASE ResendFrame
    BY <1>7 DEF ResendFrame
  <1>8. ASSUME NEW t \in Takers, TakeFrame(t)
        PROVE  CapturesIntoOwnFrame' /\ Phases'
    BY <1>8 DEF TakeFrame
  <1>9. ASSUME NEW t \in Takers, RejectFrame(t) \/ ReturnFrame(t)
        PROVE  CapturesIntoOwnFrame' /\ Phases'
    <2>1. /\ UNCHANGED <<pc, state, pos, popped>>
          /\ en' = [en EXCEPT ![took[t]] = TRUE]
      BY <1>9 DEF RejectFrame, ReturnFrame, GiveBack
    <2>2. en[pos] => en'[pos]
      BY <2>1 DEF TypeOK
    <2> QED BY <2>1, <2>2
  <1>10. CASE UNCHANGED vars
    BY <1>10 DEF vars
  <1> QED
    BY <1>1, <1>2, <1>3, <1>4, <1>5, <1>6, <1>7, <1>8, <1>9, <1>10
    DEF Next, CamTask, Taker

LEMMA DriverInit == Init => DriverInv
  <1> SUFFICES ASSUME Init PROVE DriverInv
    OBVIOUS
  <1>1. TypeOK
    BY DriverTypeInit
  <1>2. Owners
    BY NoneNoFrame DEF Init, Owners, Filled, Held, In, NoRepeat
  <1>3. CapturesIntoOwnFrame /\ Phases
    BY <1>1 DEF Init, CapturesIntoOwnFrame, Capturing, Phases
  <1> QED BY <1>1, <1>2, <1>3, OwnersIsOneOwner DEF DriverInv

LEMMA DriverStep == DriverInv /\ [Next]_vars => DriverInv'
  <1> SUFFICES ASSUME DriverInv, [Next]_vars PROVE DriverInv'
    OBVIOUS
  <1>1. TypeOK /\ Owners /\ CapturesIntoOwnFrame /\ Phases
    BY OwnersIsOneOwner DEF DriverInv
  <1>2. TypeOK' /\ Owners' /\ CapturesIntoOwnFrame' /\ Phases'
    BY <1>1, DriverTypeStep, OwnersStep, CaptureStep
  <1>3. FrameHasOneOwner'
    <2>1. \A i \in DOMAIN fbq' : fbq'[i] \in Frames
      BY <1>2, ElementOfSeq, LenProperties DEF TypeOK
    <2>2. \A t \in Takers : took'[t] \in Frames \cup {None}
      BY <1>2 DEF TypeOK
    <2> QED
      BY <1>2, <2>1, <2>2, NoneNoFrame DEF FrameHasOneOwner, Owners, Queued, In, NoRepeat
  <1> QED BY <1>2, <1>3 DEF DriverInv

LEMMA DriverInvariance == Spec => []DriverInv
  BY DriverInit, DriverStep, PTL DEF Spec

\* The queues and the frame buffer stay within their limits: the half buffer
\* copied last fits (cam_hal.c:142-150, 171-178).
THEOREM DriverTypeCorrect == Spec => []TypeOK
  BY DriverInvariance, PTL DEF DriverInv

\* Each frame is the driver's, on its way, queued, or held by one taker
\* (cam_hal.c:186-216, 471-512).
THEOREM OneOwner == Spec => []FrameHasOneOwner
  BY DriverInvariance, PTL DEF DriverInv

\* cam_task fills only frames the driver owns, although the interrupts change
\* the state under it (cam_hal.c:104-111, 125-168).
THEOREM OwnFrameCaptured == Spec => []CapturesIntoOwnFrame
  BY DriverInvariance, PTL DEF DriverInv

-----------------------------------------------------------------------------
(* The driver implements FramePool                                         *)

Spare == {f \in Frames : en[f] \/ Filled(f) \/ popped = f}

LEMMA PoolInit == Init => Pool!Init
  BY DEF Init, Pool!Init, Filled

\* Most steps leave the pool alone.
LEMMA SamePool ==
  ASSUME UNCHANGED <<en, fbq, popped, took>>,
         \/ UNCHANGED <<pc, pos>>
         \/ pc \notin {"pop", "resend"} /\ pc' \notin {"pop", "resend"}
  PROVE  UNCHANGED Pool!vars
  <1>1. Spare' = Spare
    BY DEF Spare, Filled
  <1> QED BY <1>1 DEF Spare, Pool!vars

LEMMA PublishStep ==
  ASSUME NEW f \in Spare, Spare' = Spare \ {f}, fbq' = Append(fbq, f), took' = took
  PROVE  Pool!Next
  BY DEF Spare, Pool!Next, Pool!Publish

LEMMA SendPool ==
  ASSUME TypeOK, Owners, en[pos], popped = None, SendFrame
  PROVE  [Pool!Next]_(Pool!vars)
  <1>1. /\ pc = "send" /\ pos' = pos /\ popped' = popped /\ took' = took
        /\ en' = [en EXCEPT ![pos] = FALSE] /\ pos \in Frames
    BY DEF SendFrame, TypeOK
  <1>2. \A f \in Frames : en'[f] <=> en[f] /\ f # pos
    BY <1>1 DEF TypeOK
  <1>3. CASE Len(fbq) < QueueLen
    <2>1. fbq' = Append(fbq, pos) /\ pc' = "restart"
      BY <1>3, Zenon DEF SendFrame, Enqueue
    <2>2. pos \in Spare /\ Spare' = Spare \ {pos}
      BY <1>1, <1>2, <2>1, NoneNoFrame DEF Spare, Filled
    <2> QED BY <1>1, <2>1, <2>2, PublishStep
  <1>4. CASE ~(Len(fbq) < QueueLen)
    <2>1. fbq' = fbq /\ pc' = "pop"
      BY <1>4, Zenon DEF SendFrame
    <2>2. Spare' = Spare
      BY <1>1, <1>2, <2>1 DEF Spare, Filled
    <2> QED BY <1>1, <2>1, <2>2 DEF Spare, Pool!vars
  <1> QED BY <1>3, <1>4

LEMMA PopPool ==
  ASSUME TypeOK, Owners, popped = None, PopFrame
  PROVE  [Pool!Next]_(Pool!vars)
  <1>1. pc = "pop" /\ pos' = pos /\ took' = took /\ pos \in Frames
    BY DEF PopFrame, TypeOK
  <1>2. CASE fbq = <<>>
    <2>1. fbq' = fbq /\ popped' = popped /\ pc' = "restart" /\ en' = [en EXCEPT ![pos] = TRUE]
      BY <1>2 DEF PopFrame
    <2>2. \A f \in Frames : en'[f] <=> en[f] \/ f = pos
      BY <2>1 DEF TypeOK
    <2>3. Spare' = Spare
      BY <1>1, <2>1, <2>2 DEF Spare, Filled
    <2> QED BY <1>1, <2>1, <2>3 DEF Spare, Pool!vars
  <1>3. CASE fbq # <<>>
    <2>1. fbq' = Tail(fbq) /\ popped' = Head(fbq) /\ pc' = "resend" /\ en' = en
      BY <1>3 DEF PopFrame
    <2>2. Head(fbq) \in Frames
      BY <1>3, DequeueType
    <2>3. Spare' = Spare \cup {Head(fbq)}
      BY <1>1, <2>1, <2>2, NoneNoFrame DEF Spare, Filled
    <2> QED BY <1>1, <1>3, <2>1, <2>3 DEF Spare, Pool!Next, Pool!Drop
  <1> QED BY <1>2, <1>3

LEMMA ResendPool ==
  ASSUME TypeOK, Owners, popped # None, ResendFrame
  PROVE  [Pool!Next]_(Pool!vars)
  <1>1. /\ pc = "resend" /\ pc' = "restart" /\ popped' = None /\ took' = took
        /\ pos \in Frames /\ popped \in Frames
    BY DEF ResendFrame, TypeOK
  <1>2. Filled(pos) /\ ~en[pos] /\ popped # pos
    BY <1>1 DEF Filled, Owners
  <1>3. CASE Len(fbq) < QueueLen
    <2>1. fbq' = Append(fbq, pos) /\ en' = [en EXCEPT ![popped] = TRUE]
      BY <1>3, Zenon DEF ResendFrame, Enqueue
    <2>2. \A f \in Frames : en'[f] <=> en[f] \/ f = popped
      BY <2>1 DEF TypeOK
    <2>3. pos \in Spare /\ Spare' = Spare \ {pos}
      BY <1>1, <1>2, <2>2, NoneNoFrame DEF Spare, Filled
    <2> QED BY <1>1, <2>1, <2>3, PublishStep
  <1>4. CASE ~(Len(fbq) < QueueLen)
    <2>1. fbq' = fbq /\ en' = [en EXCEPT ![pos] = TRUE, ![popped] = TRUE]
      BY <1>4, Zenon DEF ResendFrame
    <2>2. \A f \in Frames : en'[f] <=> en[f] \/ f = popped \/ f = pos
      BY <2>1 DEF TypeOK
    <2>3. Spare' = Spare
      BY <1>1, <2>2, NoneNoFrame DEF Spare, Filled
    <2> QED BY <1>1, <2>1, <2>3 DEF Spare, Pool!vars
  <1> QED BY <1>3, <1>4

LEMMA TakerPool ==
  ASSUME TypeOK, Owners, NEW t \in Takers, Taker(t)
  PROVE  [Pool!Next]_(Pool!vars)
  <1>1. CASE TakeFrame(t)
    <2>1. /\ took[t] = None /\ fbq # <<>> /\ fbq' = Tail(fbq)
          /\ took' = [took EXCEPT ![t] = Head(fbq)]
          /\ UNCHANGED <<pc, pos, popped, en>>
      BY <1>1 DEF TakeFrame, taskVars
    <2>2. Spare' = Spare
      BY <2>1 DEF Spare, Filled
    <2> QED BY <2>1, <2>2 DEF Spare, Pool!Next, Pool!Take
  <1>2. CASE RejectFrame(t) \/ ReturnFrame(t)
    <2>1. /\ took[t] # None
          /\ en' = [en EXCEPT ![took[t]] = TRUE]
          /\ took' = [took EXCEPT ![t] = None]
          /\ UNCHANGED <<pc, pos, popped, fbq>>
      BY <1>2 DEF RejectFrame, ReturnFrame, GiveBack, taskVars
    <2>2. took[t] \in Frames
      BY <2>1 DEF TypeOK
    <2>3. \A f \in Frames : en'[f] <=> en[f] \/ f = took[t]
      BY <2>1 DEF TypeOK
    <2>4. Spare' = Spare \cup {took[t]}
      BY <2>1, <2>2, <2>3 DEF Spare, Filled
    <2> QED BY <2>1, <2>4 DEF Spare, Pool!Next, Pool!Return
  <1> QED BY <1>1, <1>2 DEF Taker

LEMMA PoolStep == DriverInv /\ [Next]_vars => [Pool!Next]_(Pool!vars)
  <1> SUFFICES ASSUME DriverInv, [Next]_vars PROVE [Pool!Next]_(Pool!vars)
    OBVIOUS
  <1> USE DEF dmaVars, taskVars, frameVars
  <1>0. TypeOK /\ Owners /\ CapturesIntoOwnFrame /\ Phases
    BY OwnersIsOneOwner DEF DriverInv
  <1>1. CASE ShotBegins \/ HalfBufferFull \/ ShotEnds
    BY <1>1, SamePool DEF ShotBegins, HalfBufferFull, ShotEnds
  <1>2. CASE Receive
    <2>1. pc' \in {"eof", "vsync"}
      BY <1>0, <1>2, HeadTailProperties DEF Receive, TypeOK
    <2> QED BY <1>2, <2>1, SamePool DEF Receive
  <1>3. CASE HandleEof \/ CopyHalf \/ HandleVsync \/ BeginFrame
    BY <1>3, SamePool DEF HandleEof, CopyHalf, HandleVsync, BeginFrame
  <1>4. CASE StartFrame \/ Restart
    BY <1>4, SamePool DEF StartFrame, Restart
  <1>5. CASE SendFrame
    BY <1>0, <1>5, SendPool DEF CapturesIntoOwnFrame, Capturing, Phases, SendFrame
  <1>6. CASE PopFrame
    BY <1>0, <1>6, PopPool DEF Phases, PopFrame
  <1>7. CASE ResendFrame
    BY <1>0, <1>7, ResendPool DEF Phases, ResendFrame
  <1>8. ASSUME NEW t \in Takers, Taker(t) PROVE [Pool!Next]_(Pool!vars)
    BY <1>0, <1>8, TakerPool
  <1>9. CASE UNCHANGED vars
    BY <1>9, SamePool DEF vars
  <1> QED
    BY <1>1, <1>2, <1>3, <1>4, <1>5, <1>6, <1>7, <1>8, <1>9 DEF Next, CamTask

\* The camera driver implements the pool of frames: pictures come in order,
\* the oldest is dropped first, no frame is lost or has two readers.
THEOREM DriverImplementsPool == Spec => ImplementsPool
  <1>1. Spec => Pool!Init /\ [][Pool!Next]_(Pool!vars)
    BY PoolInit, PoolStep, DriverInvariance, PTL DEF Spec
  <1> QED BY <1>1 DEF ImplementsPool, Pool!Spec

-----------------------------------------------------------------------------
(* Slots of the ring                                                       *)

LEMMA RingDivide ==
  ASSUME NEW n \in Nat
  PROVE  /\ n \div HalfCnt \in Nat /\ n % HalfCnt \in 0..(HalfCnt - 1)
         /\ n = HalfCnt * (n \div HalfCnt) + (n % HalfCnt)
  BY DriverAssumption DEF DriverAssumption

LEMMA RingOrder ==
  ASSUME NEW p \in Nat, NEW q \in Nat
  PROVE  /\ HalfCnt * p \in Nat /\ HalfCnt * q \in Nat
         /\ p < q => HalfCnt * p + HalfCnt <= HalfCnt * q
  <1>1. HalfCnt \in Nat
    BY DriverAssumption DEF DriverAssumption
  <1>2. HalfCnt * p \in Nat /\ HalfCnt * q \in Nat
    BY <1>1
  <1>3. ASSUME p < q PROVE HalfCnt * p + HalfCnt <= HalfCnt * q
    <2>1. q - p - 1 \in Nat
      BY <1>3
    <2>2. HalfCnt * (q - p - 1) \in Nat
      BY <1>1, <2>1
    <2>3. HalfCnt * q = HalfCnt * p + HalfCnt + HalfCnt * (q - p - 1)
      BY <1>1, <2>1
    <2> QED BY <1>1, <1>2, <2>2, <2>3
  <1> QED BY <1>2, <1>3

LEMMA RingUnique ==
  ASSUME NEW p \in Nat, NEW q \in Nat, NEW x \in 0..(HalfCnt - 1), NEW y \in 0..(HalfCnt - 1),
         HalfCnt * p + x = HalfCnt * q + y
  PROVE  x = y /\ p = q
  <1>1. HalfCnt \in Nat
    BY DriverAssumption DEF DriverAssumption
  <1>2. ~(p < q) /\ ~(q < p)
    BY <1>1, RingOrder
  <1>3. p = q
    BY <1>2
  <1> QED BY <1>1, <1>3, RingOrder

\* Half buffers that are less than a ring apart are in different slots.
LEMMA RingApart ==
  ASSUME NEW m \in Nat, NEW n \in Nat, m < n, n - m < HalfCnt
  PROVE  m % HalfCnt # n % HalfCnt
  <1> DEFINE p == m \div HalfCnt
             q == n \div HalfCnt
  <1>1. HalfCnt \in Nat
    BY DriverAssumption DEF DriverAssumption
  <1>2. /\ p \in Nat /\ q \in Nat
        /\ m = HalfCnt * p + (m % HalfCnt) /\ n = HalfCnt * q + (n % HalfCnt)
        /\ m % HalfCnt \in 0..(HalfCnt - 1) /\ n % HalfCnt \in 0..(HalfCnt - 1)
    BY RingDivide
  <1> HIDE DEF p, q
  <1> SUFFICES ASSUME m % HalfCnt = n % HalfCnt PROVE FALSE
    OBVIOUS
  <1>3. CASE p < q
    BY <1>1, <1>2, <1>3, RingOrder
  <1>4. CASE q < p
    BY <1>1, <1>2, <1>4, RingOrder
  <1>5. CASE p = q
    BY <1>1, <1>2, <1>5, RingOrder
  <1> QED BY <1>2, <1>3, <1>4, <1>5

LEMMA RingNext ==
  ASSUME NEW n \in Nat
  PROVE  ((n % HalfCnt) + 1) % HalfCnt = (n + 1) % HalfCnt
  <1> DEFINE r == n % HalfCnt
             p == n \div HalfCnt
             a == (r + 1) \div HalfCnt
             x == (r + 1) % HalfCnt
             b == (n + 1) \div HalfCnt
             y == (n + 1) % HalfCnt
  <1>1. HalfCnt \in Nat
    BY DriverAssumption DEF DriverAssumption
  <1>2. r \in Nat /\ p \in Nat /\ n = HalfCnt * p + r
    BY <1>1, RingDivide
  <1> HIDE DEF r, p
  <1>3. a \in Nat /\ x \in 0..(HalfCnt - 1) /\ r + 1 = HalfCnt * a + x
    <2>1. r + 1 \in Nat
      BY <1>2
    <2> QED BY <2>1, RingDivide
  <1>4. b \in Nat /\ y \in 0..(HalfCnt - 1) /\ n + 1 = HalfCnt * b + y
    <2>1. n + 1 \in Nat
      OBVIOUS
    <2> QED BY <2>1, RingDivide
  <1> HIDE DEF a, x, b, y
  <1>5. HalfCnt * (p + a) = HalfCnt * p + HalfCnt * a /\ p + a \in Nat
    BY <1>1, <1>2, <1>3
  <1>6. HalfCnt * p \in Nat /\ HalfCnt * a \in Nat /\ HalfCnt * b \in Nat
    BY <1>2, <1>3, <1>4, RingOrder
  <1>7. HalfCnt * (p + a) + x = HalfCnt * b + y
    BY <1>1, <1>2, <1>3, <1>4, <1>5, <1>6
  <1>8. x = y
    BY <1>3, <1>4, <1>5, <1>7, RingUnique
  <1> QED BY <1>8 DEF x, y, r

-----------------------------------------------------------------------------
(* Half buffers announced and not copied                                   *)

Event == {"eof", "vsync"}
Announced(q) == {i \in DOMAIN q : q[i] = "eof"}
EofCount(q) == Cardinality(Announced(q))

LEMMA EofCountType ==
  ASSUME NEW q \in Seq(Event)
  PROVE  IsFiniteSet(Announced(q)) /\ EofCount(q) \in Nat
  <1>1. DOMAIN q = 1..Len(q) /\ Len(q) \in Nat
    BY LenProperties
  <1>2. IsFiniteSet(1..Len(q)) /\ Announced(q) \in SUBSET (1..Len(q))
    BY <1>1, FS_Interval DEF Announced
  <1>3. IsFiniteSet(Announced(q))
    BY <1>2, FS_Subset
  <1> QED BY <1>3, FS_CardinalityType DEF EofCount

LEMMA EofCountAppend ==
  ASSUME NEW q \in Seq(Event), NEW e \in Event
  PROVE  EofCount(Append(q, e)) = IF e = "eof" THEN EofCount(q) + 1 ELSE EofCount(q)
  <1> DEFINE n == Len(q) + 1
             r == Append(q, e)
  <1>1. /\ DOMAIN q = 1..Len(q) /\ Len(q) \in Nat
        /\ DOMAIN r = 1..n /\ r[n] = e
        /\ \A i \in 1..Len(q) : r[i] = q[i]
    BY AppendProperties, LenProperties
  <1> HIDE DEF r
  <1>2. Announced(r) = IF e = "eof" THEN Announced(q) \cup {n} ELSE Announced(q)
    BY <1>1 DEF Announced
  <1>3. n \notin Announced(q)
    BY <1>1 DEF Announced
  <1>4. EofCount(r) = IF e = "eof" THEN EofCount(q) + 1 ELSE EofCount(q)
    <2>1. CASE e = "eof"
      <3>1. Cardinality(Announced(q) \cup {n}) = Cardinality(Announced(q)) + 1
        BY <1>3, EofCountType, FS_AddElement
      <3> QED BY <1>2, <2>1, <3>1 DEF EofCount
    <2>2. CASE e # "eof"
      BY <1>2, <2>2 DEF EofCount
    <2> QED BY <2>1, <2>2
  <1> QED BY <1>4 DEF r

LEMMA EofCountTail ==
  ASSUME NEW q \in Seq(Event), q # <<>>
  PROVE  EofCount(q) = IF Head(q) = "eof" THEN EofCount(Tail(q)) + 1 ELSE EofCount(Tail(q))
  <1> DEFINE r == Tail(q)
             A == Announced(r)
             B == Announced(q) \ {1}
             f == [i \in A |-> i + 1]
  <1>1. /\ DOMAIN q = 1..Len(q) /\ Len(q) \in Nat \ {0}
        /\ DOMAIN r = 1..(Len(q) - 1) /\ Head(q) = q[1]
        /\ \A i \in 1..(Len(q) - 1) : r[i] = q[i + 1]
        /\ r \in Seq(Event)
    BY HeadTailProperties, LenProperties, EmptySeq
  <1> HIDE DEF r
  <1>2. \A i \in A : i \in Int /\ i + 1 \in B
    BY <1>1 DEF Announced
  <1>3. \A j \in B : j \in Int /\ j - 1 \in A
    <2>1. ASSUME NEW j \in B PROVE j \in Int /\ j - 1 \in A
      <3>1. j \in 1..Len(q) /\ j # 1 /\ q[j] = "eof"
        BY <1>1 DEF Announced
      <3>2. j - 1 \in 1..(Len(q) - 1) /\ (j - 1) + 1 = j
        BY <1>1, <3>1
      <3>3. r[j - 1] = q[(j - 1) + 1]
        BY <1>1, <3>2
      <3> QED BY <1>1, <3>1, <3>2, <3>3 DEF Announced
    <2> QED BY <2>1
  <1> HIDE DEF A, B
  <1>4. f \in Bijection(A, B)
    <2>1. f \in [A -> B]
      BY <1>2
    <2>2. \A i, j \in A : f[i] = f[j] => i = j
      BY <1>2
    <2>3. ASSUME NEW j \in B PROVE \E i \in A : f[i] = j
      <3>1. j - 1 \in A /\ f[j - 1] = j
        BY <1>3
      <3> QED BY <3>1
    <2> QED BY <2>1, <2>2, <2>3 DEF Bijection, Injection, Surjection, IsInjective
  <1>5. IsFiniteSet(A)
    BY <1>1, EofCountType DEF A
  <1>6. Cardinality(B) = Cardinality(A)
    BY <1>4, <1>5, FS_Bijection DEF ExistsBijection
  <1>7. IsFiniteSet(Announced(q)) /\ EofCount(q) \in Nat /\ EofCount(r) \in Nat
    BY <1>1, EofCountType
  <1>8. Cardinality(B) = IF 1 \in Announced(q) THEN EofCount(q) - 1 ELSE EofCount(q)
    BY <1>7, FS_RemoveElement DEF B, EofCount
  <1>9. 1 \in Announced(q) <=> Head(q) = "eof"
    BY <1>1 DEF Announced
  <1>10. EofCount(q) = IF Head(q) = "eof" THEN EofCount(r) + 1 ELSE EofCount(r)
    BY <1>6, <1>7, <1>8, <1>9 DEF A, EofCount
  <1> QED BY <1>10 DEF r

InHand == IF pc \in {"eof", "copy"} THEN 1 ELSE 0

LEMMA UncopiedIs == Uncopied = EofCount(events) + InHand
  BY DEF Uncopied, EofCount, Announced, InHand

LEMMA UncopiedType == TypeOK => Uncopied \in Nat /\ EofCount(events) \in Nat /\ InHand \in 0..1
  BY EofCountType, UncopiedIs DEF TypeOK, Event, InHand

-----------------------------------------------------------------------------
(* A picture is one shot                                                   *)

\* The half buffer that is copied k-th, or will be.
Index(k) == ring[k % HalfCnt]
Follows(a, b) == b.place = IF a.place # Adrift /\ ~a.last THEN a.place + 1 ELSE Adrift

\* The half buffer DMA is writing, counted from the start of the capture.
Ahead == cnt + Uncopied

\* Halves of a shot that has not ended, or the whole shot with whatever came
\* after it.
Unbroken(c) == c # <<>> /\ \A i \in DOMAIN c : c[i].place = i - 1 /\ ~c[i].last
Captured(c) == Whole(c) \/ Unbroken(c)

FrameSoFar ==
  /\ Len(filling) = cnt
  /\ cnt > 0 => Captured(filling) /\ Follows(filling[cnt], Index(cnt))

\* While a clean capture lasts, DMA is ahead of cam_task by what was announced,
\* it has left slot 0 when the first half buffer is copied, and each half
\* buffer from the one copied last follows the one before.
Aligned ==
  /\ \A k \in cnt..(Ahead - 1) : Follows(Index(k), Index(k + 1))
  /\ dma # "off" => slot = Ahead % HalfCnt
  /\ cnt = 0 => slot >= Uncopied
  /\ dma = "fresh" => Ahead = 0
  /\ pc = "begin" => cnt = 0
  /\ pc # "begin" => FrameSoFar

Quiet ==
  /\ dma = "fresh" => left = 0
  /\ pc \in {"send", "pop", "resend", "restart"} => dma = "off"
  /\ pc = "send" => cnt > 0

Ready ==
  /\ clean /\ pc \in {"pop", "resend"} => Captured(filling)
  /\ \A f \in Frames : content[f] = <<>> \/ Captured(content[f])

CaptureInv == (clean /\ Capturing => Aligned) /\ Quiet /\ Ready

LEMMA CapturedAppend ==
  ASSUME NEW c \in Seq(Half), NEW h \in Half,
         \/ c = <<>> /\ h.place = 0
         \/ c # <<>> /\ Captured(c) /\ Follows(c[Len(c)], h)
  PROVE  Captured(Append(c, h))
  <1> DEFINE d == Append(c, h)
             n == Len(c)
  <1>1. /\ DOMAIN c = 1..n /\ n \in Nat
        /\ DOMAIN d = 1..(n + 1) /\ d # <<>>
        /\ \A i \in 1..n : d[i] = c[i]
        /\ d[n + 1] = h
    BY AppendProperties, LenProperties
  <1> HIDE DEF d
  <1>2. CASE Whole(c)
    <2>1. PICK m \in 1..n : c[m].last /\ \A i \in 1..m : c[i].place = i - 1
      BY <1>1, <1>2 DEF Whole
    <2>2. m \in 1..(n + 1) /\ d[m].last /\ \A i \in 1..m : i \in 1..n /\ d[i].place = i - 1
      BY <1>1, <2>1
    <2>3. Whole(d)
      BY <1>1, <2>2 DEF Whole
    <2> QED BY <2>3 DEF d, Captured
  <1>3. ASSUME h.place = n, \A i \in 1..n : c[i].place = i - 1 /\ ~c[i].last
        PROVE  Captured(d)
    <2>1. \A i \in 1..(n + 1) : d[i].place = i - 1
      BY <1>1, <1>3
    <2>2. CASE h.last
      <3>1. n + 1 \in 1..(n + 1) /\ d[n + 1].last
        BY <1>1, <2>2
      <3>2. Whole(d)
        BY <1>1, <2>1, <3>1 DEF Whole
      <3> QED BY <3>2 DEF Captured
    <2>3. CASE ~h.last
      <3>1. \A i \in 1..(n + 1) : ~d[i].last
        BY <1>1, <1>3, <2>3
      <3>2. Unbroken(d)
        BY <1>1, <2>1, <3>1 DEF Unbroken
      <3> QED BY <3>2 DEF Captured
    <2> QED BY <2>2, <2>3
  <1>4. CASE c = <<>> /\ h.place = 0
    <2>1. n = 0
      BY <1>4, EmptySeq
    <2> QED BY <1>3, <1>4, <2>1 DEF d
  <1>5. CASE Unbroken(c) /\ Follows(c[n], h)
    <2>1. n \in 1..n
      BY <1>1, <1>5, EmptySeq DEF Unbroken
    <2>2. \A i \in 1..n : c[i].place = i - 1 /\ ~c[i].last
      BY <1>1, <1>5 DEF Unbroken
    <2>3. c[n].place = n - 1 /\ ~c[n].last
      BY <2>1, <2>2
    <2>4. h.place = n
      BY <1>1, <1>5, <2>1, <2>3 DEF Follows, Adrift
    <2> QED BY <1>3, <2>2, <2>4 DEF d
  <1> QED BY <1>2, <1>4, <1>5 DEF Captured

LEMMA IndexType ==
  ASSUME TypeOK, NEW k \in Nat PROVE Index(k) \in Half
  BY SlotOfCount DEF Index, TypeOK

LEMMA AheadType == TypeOK => cnt \in Nat /\ Ahead \in Nat /\ Ahead >= cnt
  BY UncopiedType DEF Ahead, TypeOK

\* A step that takes an event from the queue into the hand, or none, and
\* leaves the ring and the frame alone.
LEMMA AlignedKept ==
  ASSUME Aligned, UNCHANGED <<slot, ring, cnt, filling>>, dma' \in {dma, "off"},
         Uncopied' = Uncopied, pc # "begin" \/ pc' = "begin", pc' # "begin" \/ pc = "begin"
  PROVE  Aligned'
  <1>1. Ahead' = Ahead
    BY DEF Ahead
  <1> QED BY <1>1 DEF Aligned, FrameSoFar, Index

LEMMA VsyncEvent ==
  ASSUME TypeOK, SendEvent("vsync")
  PROVE  EofCount(events') = EofCount(events) /\ dma' \in {dma, "off"} /\ state' \in {state, "idle"}
  <1>1. events \in Seq(Event) /\ "vsync" \in Event /\ "vsync" # "eof"
    BY DEF TypeOK, Event
  <1>2. CASE Len(events) < EventLen
    BY <1>1, <1>2, EofCountAppend DEF SendEvent
  <1>3. CASE ~(Len(events) < EventLen)
    BY <1>3 DEF SendEvent
  <1> QED BY <1>2, <1>3

LEMMA EofEvent ==
  ASSUME TypeOK, SendEvent("eof")
  PROVE  /\ dma' \in {dma, "off"} /\ state' \in {state, "idle"}
         /\ \/ EofCount(events') = EofCount(events) + 1
            \/ EofCount(events') = EofCount(events) /\ dma' = "off"
  <1>1. events \in Seq(Event) /\ "eof" \in Event
    BY DEF TypeOK, Event
  <1>2. CASE Len(events) < EventLen
    BY <1>1, <1>2, EofCountAppend DEF SendEvent
  <1>3. CASE ~(Len(events) < EventLen)
    BY <1>3 DEF SendEvent
  <1> QED BY <1>2, <1>3

\* A capture that starts is aligned.
LEMMA AlignedStart ==
  ASSUME TypeOK, events' = events, StartDma, clean', cnt' = 0, pc' \notin {"eof", "copy"},
         pc' # "begin" => filling' = <<>>
  PROVE  Aligned'
  <1>1. slot' = 0 /\ \A i \in DOMAIN events : events[i] # "eof"
    BY DEF StartDma
  <1>2. Announced(events') = {} /\ EofCount(events') = 0
    BY <1>1, FS_EmptySet DEF Announced, EofCount
  <1>3. InHand' = 0 /\ Uncopied' = EofCount(events') + InHand'
    BY UncopiedIs DEF InHand, Uncopied, EofCount, Announced
  <1>4. Ahead' = 0
    BY <1>2, <1>3 DEF Ahead
  <1>5. 0 % HalfCnt = 0
    BY DriverAssumption DEF DriverAssumption
  <1>6. pc' # "begin" => FrameSoFar'
    BY EmptySeq DEF FrameSoFar
  <1>7. \A k \in cnt'..(Ahead' - 1) : FALSE
    BY <1>4
  <1>8. slot' >= Uncopied'
    BY <1>1, <1>2, <1>3
  <1> QED BY <1>1, <1>4, <1>5, <1>6, <1>7, <1>8 DEF Aligned

-----------------------------------------------------------------------------
(* The steps of the sensor and DMA                                         *)

LEMMA ShotBeginsCapture ==
  ASSUME TypeOK, CaptureInv, ShotBegins
  PROVE  CaptureInv'
  <1> USE DEF dmaVars, taskVars, frameVars
  <1>1. UNCHANGED <<slot, events, state, pc, cnt, filling, content, clean>>
    BY DEF ShotBegins
  <1>2. Uncopied' = Uncopied /\ (Capturing' <=> Capturing)
    BY <1>1 DEF Uncopied, Capturing
  <1>3. dma' = dma \/ dma' = "on"
    BY DEF ShotBegins
  <1>4. Quiet'
    <2>1. dma' # "fresh"
      BY <1>3 DEF ShotBegins
    <2>2. dma = "off" => dma' = "off"
      BY DEF ShotBegins
    <2> QED BY <1>1, <2>1, <2>2 DEF CaptureInv, Quiet
  <1>5. Ready'
    BY <1>1 DEF CaptureInv, Ready, Captured, Whole, Unbroken
  <1>6. ASSUME clean', Capturing' PROVE Aligned'
    <2>1. Aligned
      BY <1>1, <1>2, <1>6 DEF CaptureInv
    <2>2. CASE dma = "fresh"
      <3>1. Ahead = 0 /\ Ahead' = 0 /\ cnt = 0 /\ cnt' = 0
        BY <1>1, <1>2, <2>1, <2>2, AheadType DEF Aligned, Ahead
      <3>2. dma' = "on" /\ slot = 0 % HalfCnt
        BY <2>1, <2>2, <3>1 DEF ShotBegins, Aligned
      <3>3. \A k \in cnt'..(Ahead' - 1) : FALSE
        BY <3>1
      <3>4. pc' # "begin" => FrameSoFar'
        BY <1>1, <2>1, <3>1 DEF Aligned, FrameSoFar
      <3>5. cnt' = 0 => slot' >= Uncopied'
        BY <1>1, <1>2, <2>1 DEF Aligned
      <3> QED BY <1>1, <3>1, <3>2, <3>3, <3>4, <3>5 DEF Aligned
    <2>3. CASE dma # "fresh"
      <3>1. dma' = dma /\ ring' = ring
        BY <2>3 DEF ShotBegins
      <3> QED BY <1>1, <1>2, <2>1, <3>1, AlignedKept
    <2> QED BY <2>2, <2>3
  <1> QED BY <1>4, <1>5, <1>6 DEF CaptureInv

LEMMA ShotEndsCapture ==
  ASSUME TypeOK, CaptureInv, ShotEnds
  PROVE  CaptureInv'
  <1> USE DEF taskVars, frameVars
  <1>1. UNCHANGED <<slot, ring, pc, cnt, filling, content, clean>> /\ left = 1 /\ left' = 0
    BY DEF ShotEnds
  <1>2. EofCount(events') = EofCount(events) /\ dma' \in {dma, "off"} /\ state' \in {state, "idle"}
    BY VsyncEvent DEF ShotEnds
  <1>3. Uncopied' = Uncopied
    BY <1>1, <1>2 DEF Uncopied, EofCount, Announced
  <1>4. Capturing' => Capturing
    BY <1>1, <1>2 DEF Capturing
  <1>5. Quiet'
    BY <1>1, <1>2 DEF CaptureInv, Quiet
  <1>6. Ready'
    BY <1>1 DEF CaptureInv, Ready, Captured, Whole, Unbroken
  <1>7. ASSUME clean', Capturing' PROVE Aligned'
    BY <1>1, <1>2, <1>3, <1>4, <1>7, AlignedKept DEF CaptureInv
  <1> QED BY <1>5, <1>6, <1>7 DEF CaptureInv

\* DMA writes to the slot behind the half buffers that are not copied: as long
\* as the capture is clean that is none of theirs.
LEMMA NextHalfAligned ==
  ASSUME TypeOK, Aligned, HalfBufferFull, dma = "on", clean'
  PROVE  Aligned'
  <1> USE DEF taskVars, frameVars
  <1> DEFINE next == (slot + 1) % HalfCnt
             half == [place |-> IF ring[slot].place # Adrift /\ ~ring[slot].last
                                THEN ring[slot].place + 1 ELSE Adrift,
                      last |-> left' = 1]
  <1>1. /\ UNCHANGED <<pc, cnt, filling>> /\ slot' = next
        /\ ring' = [ring EXCEPT ![next] = half] /\ SendEvent("eof") /\ Uncopied + 1 < HalfCnt
    BY DEF HalfBufferFull
  <1>2. /\ cnt \in Nat /\ Ahead \in Nat /\ Ahead = cnt + Uncopied /\ Uncopied \in Nat
        /\ HalfCnt \in Nat \ {0}
    BY AheadType, UncopiedType, DriverAssumption DEF Ahead, DriverAssumption
  <1>3. slot = Ahead % HalfCnt
    BY DEF Aligned
  <1>4. next = (Ahead + 1) % HalfCnt
    BY <1>2, <1>3, RingNext
  <1>5. Follows(Index(Ahead), half)
    BY <1>3 DEF Follows, Index
  <1> HIDE DEF next, half
  <1>6. PICK n \in Nat : n = Ahead
    BY <1>2
  <1>7. n + 1 \in Nat /\ next = (n + 1) % HalfCnt
    BY <1>4, <1>6
  <1>8. next \in Slots /\ ring \in [Slots -> Half]
    BY <1>7, SlotOfCount DEF TypeOK
  <1>9. ASSUME NEW k \in cnt..n PROVE ring'[k % HalfCnt] = ring[k % HalfCnt]
    <2>1. k \in Nat /\ k < n + 1 /\ n + 1 - k < HalfCnt
      BY <1>1, <1>2, <1>6
    <2>2. k % HalfCnt # (n + 1) % HalfCnt
      BY <1>7, <2>1, RingApart
    <2>3. k % HalfCnt \in Slots
      BY <2>1, SlotOfCount
    <2> QED BY <1>1, <1>7, <1>8, <2>2, <2>3
  <1>10. ring'[(n + 1) % HalfCnt] = half
    BY <1>1, <1>7, <1>8
  <1>11. Follows(ring'[n % HalfCnt], ring'[(n + 1) % HalfCnt])
    <2>1. n \in cnt..n
      BY <1>2, <1>6
    <2>2. ring'[n % HalfCnt] = Index(Ahead)
      BY <1>6, <1>9, <2>1 DEF Index
    <2> QED BY <1>5, <1>10, <2>2
  <1>12. ASSUME NEW k \in cnt..(n - 1)
         PROVE  Follows(ring'[k % HalfCnt], ring'[(k + 1) % HalfCnt])
    <2>1. k \in cnt..n /\ k + 1 \in cnt..n /\ k \in cnt..(Ahead - 1)
      BY <1>2, <1>6
    <2>2. Follows(Index(k), Index(k + 1))
      BY <2>1 DEF Aligned
    <2> QED BY <1>9, <2>1, <2>2 DEF Index
  <1>13. pc' # "begin" => FrameSoFar'
    <2>1. cnt \in cnt..n
      BY <1>2, <1>6
    <2>2. Index(cnt)' = Index(cnt)
      BY <1>1, <1>9, <2>1 DEF Index
    <2> QED BY <1>1, <2>2 DEF Aligned, FrameSoFar
  <1>14. /\ \/ EofCount(events') = EofCount(events) + 1
            \/ EofCount(events') = EofCount(events) /\ dma' = "off"
         /\ dma' \in {dma, "off"}
    BY <1>1, EofEvent
  <1>15. /\ EofCount(events) \in Nat /\ InHand \in Nat /\ InHand' = InHand
         /\ Uncopied = EofCount(events) + InHand
         /\ Uncopied' = EofCount(events') + InHand
    BY <1>1, UncopiedType, UncopiedIs DEF InHand, Uncopied, EofCount, Announced
  <1>16. cnt' = 0 => slot' = Uncopied + 1
    <2> SUFFICES ASSUME cnt = 0 PROVE next = Uncopied + 1
      BY <1>1
    <2>1. n + 1 = Uncopied + 1 /\ n + 1 \in 0..(HalfCnt - 1)
      BY <1>1, <1>2, <1>6
    <2>2. (n + 1) % HalfCnt = n + 1
      BY <1>2, <2>1
    <2> QED BY <1>7, <2>1, <2>2
  <1>17. CASE Uncopied' = Uncopied + 1
    <2>1. Ahead' = n + 1
      BY <1>1, <1>2, <1>6, <1>17 DEF Ahead
    <2>2. \A k \in cnt..n : Follows(ring'[k % HalfCnt], ring'[(k + 1) % HalfCnt])
      BY <1>2, <1>6, <1>11, <1>12
    <2>3. \A k \in cnt'..(Ahead' - 1) : Follows(Index(k)', Index(k + 1)')
      BY <1>1, <2>1, <2>2 DEF Index
    <2>4. cnt' = 0 => slot' >= Uncopied'
      BY <1>2, <1>16, <1>17
    <2> QED BY <1>1, <1>7, <1>13, <1>14, <2>1, <2>3, <2>4 DEF Aligned
  <1>18. CASE Uncopied' = Uncopied /\ dma' = "off"
    <2>1. Ahead' = n
      BY <1>1, <1>2, <1>6, <1>18 DEF Ahead
    <2>2. \A k \in cnt'..(Ahead' - 1) : Follows(Index(k)', Index(k + 1)')
      BY <1>1, <1>12, <2>1 DEF Index
    <2>3. cnt' = 0 => slot' >= Uncopied'
      BY <1>2, <1>16, <1>18
    <2> QED BY <1>1, <1>13, <1>18, <2>1, <2>2, <2>3 DEF Aligned
  <1> QED BY <1>14, <1>15, <1>17, <1>18

LEMMA HalfBufferCapture ==
  ASSUME TypeOK, CaptureInv, HalfBufferFull
  PROVE  CaptureInv'
  <1> USE DEF taskVars, frameVars
  <1>1. /\ UNCHANGED <<pc, cnt, filling, content>> /\ left > 1 /\ left' = left - 1
    BY DEF HalfBufferFull
  <1>2. CASE dma = "off"
    <2>1. UNCHANGED <<dma, slot, ring, events, state, clean>>
      BY <1>2 DEF HalfBufferFull, dmaVars
    <2>2. Uncopied' = Uncopied /\ (Capturing' <=> Capturing)
      BY <1>1, <2>1 DEF Uncopied, Capturing
    <2>3. Quiet'
      BY <1>1, <1>2, <2>1 DEF CaptureInv, Quiet
    <2>4. Ready'
      BY <1>1, <2>1 DEF CaptureInv, Ready, Captured, Whole, Unbroken
    <2>5. ASSUME clean', Capturing' PROVE Aligned'
      BY <1>1, <2>1, <2>2, <2>5, AlignedKept DEF CaptureInv
    <2> QED BY <2>3, <2>4, <2>5 DEF CaptureInv
  <1>3. CASE dma # "off"
    <2>1. SendEvent("eof") /\ clean' = (clean /\ Uncopied + 1 < HalfCnt)
      BY <1>3 DEF HalfBufferFull
    <2>2. dma' \in {dma, "off"} /\ state' \in {state, "idle"}
      BY <2>1, EofEvent
    <2>3. dma # "fresh"
      BY <1>1 DEF TypeOK, CaptureInv, Quiet
    <2>4. Quiet'
      BY <1>1, <2>2, <2>3 DEF CaptureInv, Quiet
    <2>5. clean' => clean
      BY <2>1
    <2>6. Ready'
      BY <1>1, <2>5 DEF CaptureInv, Ready, Captured, Whole, Unbroken
    <2>7. Capturing' => Capturing
      BY <1>1, <2>2 DEF Capturing
    <2>8. ASSUME clean', Capturing' PROVE Aligned'
      BY <1>3, <2>3, <2>5, <2>7, <2>8, NextHalfAligned DEF CaptureInv, TypeOK
    <2> QED BY <2>4, <2>6, <2>8 DEF CaptureInv
  <1> QED BY <1>2, <1>3

-----------------------------------------------------------------------------
(* The steps of cam_task                                                   *)

LEMMA ReceiveCapture ==
  ASSUME TypeOK, CaptureInv, Receive
  PROVE  CaptureInv'
  <1> USE DEF dmaVars, frameVars
  <1>1. /\ UNCHANGED <<left, dma, slot, ring, state, cnt, filling, content, clean>>
        /\ pc = "receive" /\ events # <<>> /\ pc' = Head(events) /\ events' = Tail(events)
    BY DEF Receive
  <1>2. pc' \in {"eof", "vsync"} /\ events \in Seq(Event)
    BY <1>1, HeadTailProperties DEF TypeOK, Event
  <1>3. EofCount(events) = IF pc' = "eof" THEN EofCount(events') + 1 ELSE EofCount(events')
    BY <1>1, <1>2, EofCountTail
  <1>4. EofCount(events') \in Nat
    <2>1. Tail(events) \in Seq(Event)
      BY <1>1, <1>2, HeadTailProperties
    <2> QED BY <1>1, <2>1, EofCountType
  <1>5. Uncopied = EofCount(events)
    BY <1>1, UncopiedIs, UncopiedType DEF InHand
  <1>6. Uncopied' = EofCount(events') + (IF pc' = "eof" THEN 1 ELSE 0)
    BY <1>2 DEF Uncopied, EofCount, Announced
  <1>7. Uncopied' = Uncopied
    BY <1>3, <1>4, <1>5, <1>6
  <1>8. Quiet'
    BY <1>1, <1>2 DEF CaptureInv, Quiet
  <1>9. Ready'
    BY <1>1, <1>2 DEF CaptureInv, Ready, Captured, Whole, Unbroken
  <1>10. ASSUME clean', Capturing' PROVE Aligned'
    <2>1. clean /\ Capturing
      BY <1>1, <1>2, <1>10 DEF Capturing
    <2> QED BY <1>1, <1>2, <1>7, <2>1, AlignedKept DEF CaptureInv
  <1> QED BY <1>8, <1>9, <1>10 DEF CaptureInv

LEMMA HandleCapture ==
  ASSUME TypeOK, CaptureInv, HandleEof \/ HandleVsync
  PROVE  CaptureInv'
  <1> USE DEF dmaVars, frameVars
  <1>1. /\ UNCHANGED <<left, slot, ring, events, state, cnt, filling, content, clean>>
        /\ dma' \in {dma, "off"}
        /\ \/ pc = "eof" /\ pc' = (IF state = "read" THEN "copy" ELSE "receive")
           \/ /\ pc = "vsync"
              /\ IF state = "idle"
                 THEN pc' = "start"
                 ELSE dma' = "off" /\ pc' = IF cnt > 0 THEN "send" ELSE "restart"
    BY DEF HandleEof, HandleVsync, StopDma
  <1>2. Quiet'
    BY <1>1 DEF CaptureInv, Quiet
  <1>3. Ready'
    BY <1>1 DEF CaptureInv, Ready, Captured, Whole, Unbroken
  <1>4. ASSUME clean', Capturing' PROVE Aligned'
    <2>1. \/ pc = "eof" /\ pc' = "copy" /\ state = "read"
          \/ pc = "vsync" /\ pc' = "send" /\ state = "read"
      BY <1>1, <1>4 DEF Capturing, TypeOK
    <2>2. clean /\ Capturing
      BY <1>1, <1>4, <2>1 DEF Capturing
    <2>3. Uncopied' = Uncopied
      BY <1>1, <2>1 DEF Uncopied
    <2> QED BY <1>1, <2>1, <2>2, <2>3, AlignedKept DEF CaptureInv
  <1> QED BY <1>2, <1>3, <1>4 DEF CaptureInv

\* The half buffer that is copied follows the one copied last.
LEMMA CopyCapture ==
  ASSUME TypeOK, CaptureInv, CopyHalf
  PROVE  CaptureInv'
  <1> USE DEF dmaVars, frameVars
  <1>1. /\ UNCHANGED <<left, slot, ring, events, content, clean>>
        /\ dma' \in {dma, "off"} /\ pc = "copy" /\ pc' = "receive"
    BY DEF CopyHalf, StopDma
  <1>2. Quiet'
    BY <1>1 DEF CaptureInv, Quiet
  <1>3. Ready'
    BY <1>1 DEF CaptureInv, Ready, Captured, Whole, Unbroken
  <1>4. Uncopied = EofCount(events) + 1 /\ Uncopied' = EofCount(events) /\ EofCount(events) \in Nat
    BY <1>1, UncopiedType DEF Uncopied, EofCount, Announced
  <1>5. cnt \in Nat /\ Ahead = cnt + Uncopied /\ Index(cnt) \in Half
    BY AheadType, IndexType DEF Ahead
  <1>6. ASSUME clean', Capturing' PROVE Aligned'
    <2>1. Aligned /\ FrameSoFar /\ state' = "read"
      BY <1>1, <1>6 DEF CaptureInv, Capturing, Aligned
    <2>2. CASE Len(filling) + 1 > FbHalves
      <3>1. dma' = "off" /\ UNCHANGED <<filling, cnt>>
        BY <2>2 DEF CopyHalf, StopDma
      <3>2. Ahead' = Ahead - 1
        BY <1>4, <1>5, <3>1 DEF Ahead
      <3>3. \A k \in cnt'..(Ahead' - 1) : Follows(Index(k)', Index(k + 1)')
        <4>1. ASSUME NEW k \in cnt..(Ahead - 1 - 1) PROVE k \in cnt..(Ahead - 1)
          BY <1>4, <1>5
        <4>2. \A k \in cnt..(Ahead - 1 - 1) : Follows(Index(k), Index(k + 1))
          BY <2>1, <4>1 DEF Aligned
        <4> QED BY <1>1, <3>1, <3>2, <4>2 DEF Index
      <3>4. FrameSoFar'
        BY <1>1, <2>1, <3>1 DEF FrameSoFar, Index
      <3>5. cnt' = 0 => slot' >= Uncopied'
        <4>1. slot \in Int /\ Uncopied' = Uncopied - 1 /\ Uncopied \in Nat
          BY <1>4, SlotNat
        <4> QED BY <1>1, <2>1, <3>1, <4>1 DEF Aligned
      <3> QED BY <1>1, <3>1, <3>3, <3>4, <3>5 DEF Aligned
    <2>3. CASE ~(Len(filling) + 1 > FbHalves)
      <3> DEFINE h == Index(cnt)
      <3>1. filling' = Append(filling, h) /\ cnt' = cnt + 1 /\ UNCHANGED ring
        <4>1. NextHalf = h
          BY <1>1, <1>6, NextHalfType DEF Index
        <4>2. filling' = Append(filling, NextHalf) /\ cnt' = cnt + 1
          BY <2>3 DEF CopyHalf
        <4> QED BY <1>1, <4>1, <4>2
      <3>2. cnt = 0 => h.place = 0
        <4> SUFFICES ASSUME cnt = 0 PROVE h.place = 0
          OBVIOUS
        <4>1. slot >= Uncopied /\ slot \in Nat
          BY <2>1, SlotNat DEF Aligned
        <4>2. SoiSeen = {ring[0].place = 0}
          BY <1>4, <4>1 DEF SoiSeen
        <4>3. PICK begins \in SoiSeen : ~begins => state' = "idle"
          BY <2>3 DEF CopyHalf
        <4>4. ring[0].place = 0
          BY <2>1, <4>2, <4>3
        <4>5. h = ring[0]
          BY DriverAssumption DEF Index, DriverAssumption
        <4> QED BY <4>4, <4>5
      <3> HIDE DEF h
      <3>3. /\ Len(filling) = cnt /\ filling \in Seq(Half) /\ h \in Half
            /\ Len(filling') = cnt + 1 /\ filling'[cnt + 1] = h
        BY <1>5, <2>1, <3>1, AppendProperties DEF FrameSoFar, TypeOK, h
      <3>4. Captured(filling')
        <4>1. CASE cnt = 0
          <5>1. filling = <<>> /\ h.place = 0
            BY <3>2, <3>3, <4>1, EmptySeq
          <5> QED BY <3>1, <3>3, <5>1, CapturedAppend
        <4>2. CASE cnt # 0
          <5>1. filling # <<>> /\ Captured(filling) /\ Follows(filling[Len(filling)], h)
            BY <1>5, <2>1, <3>3, <4>2, EmptySeq DEF FrameSoFar, h
          <5> QED BY <3>1, <3>3, <5>1, CapturedAppend
        <4> QED BY <4>1, <4>2
      <3>5. Ahead' = Ahead
        BY <1>4, <1>5, <3>1 DEF Ahead
      <3>6. Follows(h, Index(cnt + 1))
        <4>1. cnt \in cnt..(Ahead - 1)
          BY <1>4, <1>5
        <4> QED BY <2>1, <4>1 DEF Aligned, h
      <3>7. FrameSoFar'
        <4>1. Index(cnt)' = Index(cnt + 1)
          BY <3>1 DEF Index
        <4> QED BY <1>5, <3>1, <3>3, <3>4, <3>6, <4>1 DEF FrameSoFar
      <3>8. \A k \in cnt'..(Ahead' - 1) : Follows(Index(k)', Index(k + 1)')
        <4>1. ASSUME NEW k \in cnt + 1..(Ahead - 1) PROVE k \in cnt..(Ahead - 1)
          BY <1>4, <1>5
        <4>2. \A k \in cnt + 1..(Ahead - 1) : Follows(Index(k), Index(k + 1))
          BY <2>1, <4>1 DEF Aligned
        <4> QED BY <3>1, <3>5, <4>2 DEF Index
      <3>9. (dma' # "off" => slot' = Ahead' % HalfCnt) /\ (dma' = "fresh" => Ahead' = 0)
        BY <1>1, <2>1, <3>5 DEF Aligned
      <3>10. cnt' # 0
        BY <1>5, <3>1
      <3> QED BY <1>1, <3>7, <3>8, <3>9, <3>10 DEF Aligned
    <2> QED BY <2>2, <2>3
  <1> QED BY <1>2, <1>3, <1>6 DEF CaptureInv

LEMMA StartCapture ==
  ASSUME TypeOK, Phases, CaptureInv, StartFrame \/ Restart
  PROVE  CaptureInv'
  <1> USE DEF dmaVars, frameVars
  <1>1. /\ UNCHANGED <<left, events, content>> /\ cnt' = 0
        /\ pc \in {"start", "restart"} /\ pc' \in {"begin", "receive"}
    BY DEF StartFrame, Restart
  <1>2. CASE HasFrame
    <2>1. StartDma /\ (pc' # "begin" => filling' = <<>>)
      BY <1>2 DEF StartFrame, Restart
    <2>2. Quiet'
      BY <1>1, <2>1 DEF Quiet, StartDma
    <2>3. Ready'
      BY <1>1 DEF CaptureInv, Ready, Captured, Whole, Unbroken
    <2>4. ASSUME clean' PROVE Aligned'
      BY <1>1, <2>1, <2>4, AlignedStart
    <2> QED BY <2>2, <2>3, <2>4 DEF CaptureInv
  <1>3. CASE ~HasFrame
    <2>1. state' = "idle" /\ pc' = "receive" /\ UNCHANGED <<dma, clean>>
      BY <1>3 DEF StartFrame, Restart, Phases
    <2>2. ~Capturing'
      BY <2>1 DEF Capturing
    <2>3. Quiet' /\ Ready'
      BY <1>1, <2>1 DEF CaptureInv, Quiet, Ready, Captured, Whole, Unbroken
    <2> QED BY <2>2, <2>3 DEF CaptureInv
  <1> QED BY <1>2, <1>3

LEMMA BeginCapture ==
  ASSUME TypeOK, CaptureInv, BeginFrame
  PROVE  CaptureInv'
  <1> USE DEF dmaVars, frameVars
  <1>1. /\ UNCHANGED <<left, dma, slot, ring, events, cnt, content, clean>>
        /\ pc = "begin" /\ pc' = "receive" /\ filling' = <<>>
    BY DEF BeginFrame
  <1>2. Quiet' /\ Ready'
    BY <1>1 DEF CaptureInv, Quiet, Ready, Captured, Whole, Unbroken
  <1>3. ASSUME clean', Capturing' PROVE Aligned'
    <2>1. Aligned /\ cnt = 0
      BY <1>1, <1>3 DEF CaptureInv, Capturing, Aligned
    <2>2. Uncopied' = Uncopied
      BY <1>1 DEF Uncopied
    <2>3. Ahead' = Ahead
      BY <1>1, <2>2 DEF Ahead
    <2>4. FrameSoFar'
      BY <1>1, <2>1, EmptySeq DEF FrameSoFar
    <2> QED BY <1>1, <2>1, <2>2, <2>3, <2>4 DEF Aligned, Index
  <1> QED BY <1>2, <1>3 DEF CaptureInv

\* A frame is queued with what was captured, or with nothing that counts.
LEMMA QueuedReady ==
  ASSUME TypeOK, Ready, NEW halves, Enqueue(halves), clean => Captured(halves),
         pc' = "restart"
  PROVE  Ready'
  <1> DEFINE held == IF clean THEN halves ELSE <<>>
  <1>1. held = <<>> \/ Captured(held)
    OBVIOUS
  <1>2. content' = [content EXCEPT ![pos] = held]
    BY DEF Enqueue
  <1> HIDE DEF held
  <1>3. \A f \in Frames : content'[f] = content[f] \/ content'[f] = held
    BY <1>2 DEF TypeOK
  <1>4. \A f \in Frames : content'[f] = <<>> \/ Captured(content'[f])
    BY <1>1, <1>3 DEF Ready
  <1> QED BY <1>4 DEF Ready

\* The half buffer the shot ended in is the last one of the frame.
LEMMA SendCapture ==
  ASSUME TypeOK, CaptureInv, SendFrame
  PROVE  CaptureInv'
  <1> USE DEF dmaVars
  <1> DEFINE halves == IF Len(filling) + 1 > FbHalves
                       THEN filling ELSE Append(filling, NextHalf)
  <1>1. /\ UNCHANGED <<left, dma, cnt, clean>> /\ pc = "send" /\ pc' \in {"restart", "pop"}
        /\ \/ Enqueue(halves) /\ pc' = "restart"
           \/ filling' = halves /\ pc' = "pop" /\ UNCHANGED content
    BY DEF SendFrame
  <1>2. clean => Captured(halves)
    <2> SUFFICES ASSUME clean PROVE Captured(halves)
      OBVIOUS
    <2>1. FrameSoFar /\ cnt > 0
      BY <1>1 DEF CaptureInv, Capturing, Aligned, Quiet
    <2>2. /\ filling \in Seq(Half) /\ Len(filling) = cnt /\ Captured(filling)
          /\ Follows(filling[Len(filling)], Index(cnt))
      BY <2>1 DEF FrameSoFar, TypeOK
    <2>3. filling # <<>> /\ Index(cnt) \in Half
      BY <2>1, <2>2, EmptySeq, IndexType DEF TypeOK
    <2>4. Captured(Append(filling, Index(cnt)))
      BY <2>2, <2>3, CapturedAppend
    <2>5. NextHalf = Index(cnt)
      BY NextHalfType DEF Index
    <2> QED BY <2>2, <2>4, <2>5
  <1> HIDE DEF halves
  <1>3. ~Capturing'
    BY <1>1 DEF Capturing
  <1>4. Quiet'
    BY <1>1 DEF CaptureInv, Quiet
  <1>5. CASE Enqueue(halves) /\ pc' = "restart"
    BY <1>2, <1>3, <1>4, <1>5, QueuedReady DEF CaptureInv
  <1>6. CASE filling' = halves /\ pc' = "pop" /\ UNCHANGED content
    <2>1. Captured(filling)' <=> Captured(halves)
      BY <1>6 DEF Captured, Whole, Unbroken
    <2>2. \A f \in Frames : (content[f] = <<>> \/ Captured(content[f]))'
      BY <1>6 DEF CaptureInv, Ready, Captured, Whole, Unbroken
    <2>3. Ready'
      BY <1>1, <1>2, <2>1, <2>2 DEF Ready
    <2> QED BY <1>3, <1>4, <2>3 DEF CaptureInv
  <1> QED BY <1>1, <1>5, <1>6

LEMMA PopCapture ==
  ASSUME TypeOK, CaptureInv, PopFrame
  PROVE  CaptureInv'
  <1> USE DEF dmaVars
  <1>1. /\ UNCHANGED <<left, dma, cnt, filling, content, clean>>
        /\ pc = "pop" /\ pc' \in {"restart", "resend"}
    BY DEF PopFrame
  <1>2. ~Capturing'
    BY <1>1 DEF Capturing
  <1>3. Quiet' /\ Ready'
    BY <1>1 DEF CaptureInv, Quiet, Ready
  <1> QED BY <1>2, <1>3 DEF CaptureInv

LEMMA ResendCapture ==
  ASSUME TypeOK, CaptureInv, ResendFrame
  PROVE  CaptureInv'
  <1> USE DEF dmaVars
  <1>1. /\ UNCHANGED <<left, dma, cnt, clean>> /\ pc = "resend" /\ pc' = "restart"
        /\ Enqueue(filling) \/ UNCHANGED content
    BY DEF ResendFrame
  <1>2. ~Capturing' /\ Quiet'
    BY <1>1 DEF CaptureInv, Capturing, Quiet
  <1>3. clean => Captured(filling)
    BY <1>1 DEF CaptureInv, Ready
  <1>4. Ready'
    <2>1. CASE Enqueue(filling)
      BY <1>1, <1>3, <2>1, QueuedReady DEF CaptureInv
    <2>2. CASE UNCHANGED content
      BY <1>1, <2>2 DEF CaptureInv, Ready
    <2> QED BY <1>1, <2>1, <2>2
  <1> QED BY <1>2, <1>4 DEF CaptureInv

LEMMA TakerCapture ==
  ASSUME TypeOK, CaptureInv, NEW t \in Takers, Taker(t)
  PROVE  CaptureInv'
  <1> USE DEF dmaVars, taskVars
  <1>1. UNCHANGED <<left, dma, slot, ring, events, state, pc, cnt, filling, clean>>
    BY DEF Taker, TakeFrame, RejectFrame, ReturnFrame, GiveBack
  <1>2. content' = content \/ content' = [content EXCEPT ![took[t]] = <<>>]
    BY DEF Taker, TakeFrame, RejectFrame, ReturnFrame, GiveBack
  <1>3. \A f \in Frames : content'[f] = content[f] \/ content'[f] = <<>>
    BY <1>2 DEF TypeOK
  <1>4. Quiet' /\ Ready'
    BY <1>1, <1>3 DEF CaptureInv, Quiet, Ready
  <1>5. Uncopied' = Uncopied /\ (Capturing' <=> Capturing)
    BY <1>1 DEF Uncopied, Capturing
  <1>6. ASSUME clean', Capturing' PROVE Aligned'
    BY <1>1, <1>5, <1>6, AlignedKept DEF CaptureInv
  <1> QED BY <1>4, <1>6 DEF CaptureInv

LEMMA StutterCapture ==
  ASSUME CaptureInv, UNCHANGED vars
  PROVE  CaptureInv'
  <1>1. UNCHANGED <<left, dma, slot, ring, events, state, pc, cnt, filling, content, clean>>
    BY DEF vars, dmaVars, taskVars, frameVars
  <1>2. Quiet' /\ Ready'
    BY <1>1 DEF CaptureInv, Quiet, Ready
  <1>3. Uncopied' = Uncopied /\ (Capturing' <=> Capturing)
    BY <1>1 DEF Uncopied, Capturing
  <1>4. ASSUME clean', Capturing' PROVE Aligned'
    BY <1>1, <1>3, <1>4, AlignedKept DEF CaptureInv
  <1> QED BY <1>2, <1>4 DEF CaptureInv

LEMMA CaptureInit == Init => CaptureInv
  BY DEF Init, CaptureInv, Capturing, Quiet, Ready

LEMMA CaptureInvStep == DriverInv /\ CaptureInv /\ [Next]_vars => CaptureInv'
  <1> SUFFICES ASSUME DriverInv, CaptureInv, [Next]_vars PROVE CaptureInv'
    OBVIOUS
  <1>1. TypeOK /\ Phases
    BY DEF DriverInv
  <1>2. CASE ShotBegins BY <1>1, <1>2, ShotBeginsCapture
  <1>3. CASE HalfBufferFull BY <1>1, <1>3, HalfBufferCapture
  <1>4. CASE ShotEnds BY <1>1, <1>4, ShotEndsCapture
  <1>5. CASE Receive BY <1>1, <1>5, ReceiveCapture
  <1>6. CASE HandleEof \/ HandleVsync BY <1>1, <1>6, HandleCapture
  <1>7. CASE CopyHalf BY <1>1, <1>7, CopyCapture
  <1>8. CASE StartFrame \/ Restart BY <1>1, <1>8, StartCapture
  <1>9. CASE BeginFrame BY <1>1, <1>9, BeginCapture
  <1>10. CASE SendFrame BY <1>1, <1>10, SendCapture
  <1>11. CASE PopFrame BY <1>1, <1>11, PopCapture
  <1>12. CASE ResendFrame BY <1>1, <1>12, ResendCapture
  <1>13. ASSUME NEW t \in Takers, Taker(t) PROVE CaptureInv' BY <1>1, <1>13, TakerCapture
  <1>14. CASE UNCHANGED vars BY <1>14, StutterCapture
  <1> QED
    BY <1>2, <1>3, <1>4, <1>5, <1>6, <1>7, <1>8, <1>9, <1>10, <1>11, <1>12, <1>13, <1>14
    DEF Next, CamTask

LEMMA WholePictures ==
  ASSUME TypeOK, CaptureInv PROVE PicturesAreWhole
  <1> SUFFICES ASSUME NEW t \in Takers, took[t] # None, HasEnd(content[took[t]])
               PROVE  Whole(content[took[t]])
    BY DEF PicturesAreWhole
  <1>1. took[t] \in Frames
    BY DEF TypeOK
  <1> DEFINE c == content[took[t]]
  <1>2. c = <<>> \/ Captured(c)
    BY <1>1 DEF CaptureInv, Ready
  <1> HIDE DEF c
  <1>3. HasEnd(c)
    BY DEF c
  <1>4. c # <<>> /\ ~Unbroken(c)
    BY <1>3 DEF HasEnd, Unbroken
  <1>5. Whole(c)
    BY <1>2, <1>4 DEF Captured
  <1> QED BY <1>5 DEF c

\* A picture that is given out with an end is one shot from its first half
\* buffer to its last, whatever stopped captures, dropped events or started
\* DMA in the middle of a shot, for clean captures: DMA did not run over what
\* was not copied, and no 'eof' of an earlier capture was in the queue when
\* the capture began (cam_hal.c:104-216, ll_cam.c:42-144).  Of other captures
\* it says nothing.
THEOREM WholePicturesHold == Spec => []PicturesAreWhole
  <1>1. Spec => []DriverInv
    BY DriverInvariance
  <1>2. Init => CaptureInv
    BY CaptureInit
  <1>3. DriverInv /\ CaptureInv /\ [Next]_vars => CaptureInv'
    BY CaptureInvStep
  <1>4. DriverInv /\ CaptureInv => PicturesAreWhole
    BY WholePictures DEF DriverInv
  <1> QED BY <1>1, <1>2, <1>3, <1>4, PTL DEF Spec
=============================================================================
