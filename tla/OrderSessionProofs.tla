-------------------------- MODULE OrderSessionProofs --------------------------
(***************************************************************************)
(* Proofs about OrderSession, for any messages and any number of orders.   *)
(***************************************************************************)
EXTENDS OrderSession, SequenceTheorems, TLAPS

Order == 1..MaxOrders

LEMMA OrderIsInt == \A o \in Order : o \in Int
  BY OrderAssumption DEF Order, OrderAssumption

LEMMA SevenTopics == Len(Topics) = 7
  BY DEF Topics

-----------------------------------------------------------------------------
(* Types, and what the parts of the connection have to do with each other  *)

FlagsOK ==
  /\ link \in {"up", "down"}
  /\ connected \in BOOLEAN
  /\ task \in {"idle", "subscribing", "handling", "acknowledging"}
  /\ subscribed \in 0..Len(Topics)
  /\ link = "up" => connected
  /\ task = "subscribing" => subscribed < Len(Topics)

PiecesOK ==
  /\ \/ pieces = <<>>
     \/ \E a : pieces = <<a>>
     \/ \E a, b : pieces = <<a, b>>
  /\ task = "handling" <=> pieces # <<>>

WireOK ==
  /\ Len(wire) <= pushed /\ (link = "up" => Len(wire) = pushed)
  /\ \A i \in DOMAIN wire : wire[i] = queue[pushed - Len(wire) + i]

SessionOK ==
  /\ orders \in Seq(Messages)
  /\ queue \in Seq(Order)
  /\ pushed \in 0..Len(queue)
  /\ wire \in Seq(Order)
  /\ task \in {"handling", "acknowledging"} => wire # <<>> /\ connected

TypeInv == FlagsOK /\ PiecesOK /\ SessionOK /\ WireOK

LEMMA TypesFromInv == TypeInv => TypeOK
  BY DEF TypeInv, FlagsOK, PiecesOK, SessionOK, WireOK, TypeOK, Order

LEMMA TypesInit == Init => TypeInv
  <1> SUFFICES ASSUME Init PROVE TypeInv
    OBVIOUS
  <1>1. FlagsOK
    <2>1. connected \in BOOLEAN /\ ~connected
      BY Zenon DEF Init
    <2> QED BY <2>1, SevenTopics DEF Init, FlagsOK
  <1>2. PiecesOK
    BY DEF Init, PiecesOK
  <1>3. SessionOK
    BY EmptySeq DEF Init, SessionOK
  <1>4. WireOK
    BY DEF Init, WireOK
  <1> QED BY <1>1, <1>2, <1>3, <1>4 DEF TypeInv

LEMMA FlagsStep ==
  ASSUME TypeInv, [Next]_vars
  PROVE  FlagsOK'
  <1> USE SevenTopics DEF TypeInv, FlagsOK
  <1>1. ASSUME NEW m \in Messages, SendOrder(m) PROVE FlagsOK' BY <1>1 DEF SendOrder
  <1>2. CASE Push BY <1>2 DEF Push
  <1>3. CASE LinkLost BY <1>3 DEF LinkLost, brokerVars
  <1>4. CASE Connect BY <1>4 DEF Connect
  <1>5. CASE Subscribe BY <1>5 DEF Subscribe
  <1>6. CASE Notice BY <1>6 DEF Notice, brokerVars
  <1>7. CASE Receive BY <1>7 DEF Receive, brokerVars
  <1>8. CASE HandlePiece BY <1>8 DEF HandlePiece, brokerVars
  <1>9. CASE Acknowledge BY <1>9 DEF Acknowledge
  <1>10. CASE UNCHANGED vars BY <1>10 DEF vars, brokerVars
  <1> QED
    BY <1>1, <1>2, <1>3, <1>4, <1>5, <1>6, <1>7, <1>8, <1>9, <1>10 DEF Next, MqttTask

LEMMA PiecesStep ==
  ASSUME TypeInv, [Next]_vars
  PROVE  PiecesOK'
  <1> USE DEF TypeInv, PiecesOK
  <1>1. ASSUME NEW m \in Messages, SendOrder(m) PROVE PiecesOK' BY <1>1 DEF SendOrder
  <1>2. CASE Push BY <1>2 DEF Push
  <1>3. CASE LinkLost BY <1>3 DEF LinkLost, brokerVars
  <1>4. CASE Connect BY <1>4 DEF Connect
  <1>5. CASE Subscribe BY <1>5 DEF Subscribe
  <1>6. CASE Notice BY <1>6 DEF Notice, brokerVars
  <1>7. CASE Receive BY <1>7 DEF Receive, PiecesOf
  <1>8. CASE HandlePiece
    <2>1. /\ task = "handling" /\ pieces' = Tail(pieces)
          /\ task' = IF Len(pieces) = 1 THEN "acknowledging" ELSE task
      BY <1>8 DEF HandlePiece
    <2>2. ASSUME NEW a, pieces = <<a>> PROVE PiecesOK'
      BY <2>1, <2>2
    <2>3. ASSUME NEW a, NEW b, pieces = <<a, b>> PROVE PiecesOK'
      <3>1. pieces' = <<b>> /\ Len(pieces) = 2
        BY <2>1, <2>3
      <3> QED BY <2>1, <3>1
    <2> QED BY <2>1, <2>2, <2>3
  <1>9. CASE Acknowledge BY <1>9 DEF Acknowledge
  <1>10. CASE UNCHANGED vars BY <1>10 DEF vars, brokerVars
  <1> QED
    BY <1>1, <1>2, <1>3, <1>4, <1>5, <1>6, <1>7, <1>8, <1>9, <1>10 DEF Next, MqttTask

\* An order is appended to the broker's queue, or the queue stays.
LEMMA SendQueue ==
  ASSUME TypeInv, NEW m \in Messages, SendOrder(m)
  PROVE  /\ orders' \in Seq(Messages) /\ Len(orders') = Len(orders) + 1
         /\ \A i \in 1..Len(orders) : orders'[i] = orders[i]
         /\ Len(orders) + 1 \in Order
         /\ queue' = queue \/ queue' = Append(queue, Len(orders) + 1)
         /\ queue' \in Seq(Order) /\ Len(queue') \in {Len(queue), Len(queue) + 1}
         /\ \A i \in 1..Len(queue) : queue'[i] = queue[i]
  <1>1. orders \in Seq(Messages) /\ queue \in Seq(Order) /\ Len(queue) \in Nat
        /\ Len(orders) \in Nat
    BY LenProperties DEF TypeInv, SessionOK
  <1>2. Len(orders) + 1 \in Order
    BY <1>1, OrderAssumption DEF SendOrder, Order, OrderAssumption
  <1>3. orders' = Append(orders, m)
    BY DEF SendOrder
  <1>4. queue' = queue \/ queue' = Append(queue, Len(orders) + 1)
    BY DEF SendOrder
  <1>5. /\ orders' \in Seq(Messages) /\ Len(orders') = Len(orders) + 1
        /\ \A i \in 1..Len(orders) : orders'[i] = orders[i]
    BY <1>1, <1>3, AppendProperties
  <1> DEFINE o == Len(orders) + 1
  <1> HIDE DEF o
  <1>6. o \in Order
    BY <1>2 DEF o
  <1>7. CASE queue' = Append(queue, o)
    BY <1>1, <1>2, <1>4, <1>5, <1>6, <1>7, AppendProperties DEF o
  <1>8. CASE queue' = queue
    BY <1>1, <1>2, <1>4, <1>5, <1>8
  <1> QED BY <1>4, <1>7, <1>8 DEF o

\* A step that leaves the broker and the wire alone.
SameSession == UNCHANGED <<orders, queue, pushed, wire>>

LEMMA SessionKept ==
  ASSUME TypeInv, SameSession, link' = link \/ link' = "down",
         task' \in {"handling", "acknowledging"} => wire # <<>> /\ connected'
  PROVE  SessionOK' /\ WireOK'
  BY DEF TypeInv, SameSession, SessionOK, WireOK

LEMMA SendSession ==
  ASSUME TypeInv, NEW m \in Messages, SendOrder(m)
  PROVE  SessionOK' /\ WireOK'
  <1>1. UNCHANGED <<link, connected, task, pushed, wire>>
    BY DEF SendOrder
  <1>2. SessionOK'
    BY <1>1, SendQueue, LenProperties DEF TypeInv, SessionOK
  <1>3. /\ Len(queue) \in Nat /\ Len(wire) \in Nat /\ DOMAIN wire = 1..Len(wire)
        /\ pushed \in 0..Len(queue) /\ Len(wire) <= pushed
    BY LenProperties DEF TypeInv, SessionOK, WireOK
  <1>4. \A i \in DOMAIN wire : pushed - Len(wire) + i \in 1..Len(queue)
    BY <1>3
  <1>5. \A i \in DOMAIN wire : queue'[pushed - Len(wire) + i] = queue[pushed - Len(wire) + i]
    BY <1>4, SendQueue
  <1>6. WireOK'
    BY <1>1, <1>5 DEF TypeInv, WireOK
  <1> QED BY <1>2, <1>6

LEMMA PushSession ==
  ASSUME TypeInv, Push
  PROVE  SessionOK' /\ WireOK'
  <1>1. queue \in Seq(Order) /\ Len(queue) \in Nat /\ wire \in Seq(Order) /\ Len(wire) = pushed
        /\ pushed \in Nat /\ pushed + 1 \in 1..Len(queue)
    BY LenProperties DEF TypeInv, SessionOK, WireOK, Push
  <1>2. queue[pushed + 1] \in Order
    BY <1>1, ElementOfSeq
  <1> DEFINE o == queue[pushed + 1]
  <1> HIDE DEF o
  <1>3. /\ Append(wire, o) \in Seq(Order) /\ Append(wire, o) # <<>>
        /\ Len(Append(wire, o)) = pushed + 1
        /\ \A i \in 1..pushed : Append(wire, o)[i] = wire[i]
        /\ Append(wire, o)[pushed + 1] = o
    BY <1>1, <1>2, AppendProperties DEF o
  <1>4. wire' = Append(wire, o) /\ pushed' = pushed + 1
        /\ UNCHANGED <<link, connected, task, orders, queue>>
    BY DEF Push, o
  <1>5. SessionOK'
    BY <1>1, <1>3, <1>4 DEF TypeInv, SessionOK
  <1>6. \A i \in 1..pushed : wire[i] = queue[i]
    BY <1>1, LenProperties DEF TypeInv, WireOK
  <1>7. \A i \in 1..pushed + 1 : wire'[i] = queue'[i]
    BY <1>1, <1>3, <1>4, <1>6 DEF o
  <1>8. DOMAIN wire' = 1..pushed + 1 /\ Len(wire') = pushed'
    BY <1>3, <1>4, LenProperties
  <1>9. WireOK'
    BY <1>1, <1>7, <1>8, <1>4 DEF WireOK
  <1> QED BY <1>5, <1>9

LEMMA AcknowledgeSession ==
  ASSUME TypeInv, Acknowledge
  PROVE  SessionOK' /\ WireOK'
  <1>1. /\ queue \in Seq(Order) /\ Len(queue) \in Nat
        /\ wire \in Seq(Order) /\ wire # <<>> /\ Len(wire) \in Nat \ {0}
        /\ pushed \in Nat /\ Len(wire) <= pushed /\ pushed <= Len(queue)
        /\ DOMAIN wire = 1..Len(wire)
    BY LenProperties, EmptySeq DEF TypeInv, SessionOK, WireOK, Acknowledge
  <1>2. queue # <<>>
    BY <1>1, EmptySeq
  <1>3. /\ Tail(wire) \in Seq(Order) /\ Len(Tail(wire)) = Len(wire) - 1
        /\ \A i \in 1..Len(wire) - 1 : Tail(wire)[i] = wire[i + 1]
    BY <1>1, HeadTailProperties
  <1>4. /\ Tail(queue) \in Seq(Order) /\ Len(Tail(queue)) = Len(queue) - 1
        /\ \A i \in 1..Len(queue) - 1 : Tail(queue)[i] = queue[i + 1]
    BY <1>1, <1>2, HeadTailProperties
  <1>5. wire' = Tail(wire) /\ task' = "idle" /\ UNCHANGED <<link, connected, orders>>
    BY DEF Acknowledge
  <1>6. DOMAIN wire' = 1..Len(wire) - 1
    BY <1>1, <1>3, <1>5, LenProperties
  <1>7. \A i \in 1..Len(wire) - 1 : wire'[i] = queue[pushed - Len(wire) + i + 1]
    <2>1. ASSUME NEW i \in 1..Len(wire) - 1
          PROVE  wire[i + 1] = queue[pushed - Len(wire) + i + 1]
      <3>1. i + 1 \in DOMAIN wire /\ pushed - Len(wire) + (i + 1) = pushed - Len(wire) + i + 1
        BY <1>1
      <3> QED BY <3>1 DEF TypeInv, WireOK
    <2> QED BY <1>3, <1>5, <2>1
  <1>8. CASE link = "up"
    <2>1. queue' = Tail(queue) /\ pushed' = pushed - 1 /\ Len(wire) = pushed
      BY <1>8 DEF Acknowledge, TypeInv, WireOK
    <2>2. \A i \in 1..Len(wire) - 1 : wire'[i] = queue'[i]
      BY <1>1, <1>4, <1>7, <2>1
    <2>3. WireOK'
      BY <1>1, <1>3, <1>5, <1>6, <2>1, <2>2 DEF WireOK
    <2>4. SessionOK'
      BY <1>1, <1>3, <1>4, <1>5, <2>1 DEF SessionOK, TypeInv
    <2> QED BY <2>3, <2>4
  <1>9. CASE link # "up"
    <2>1. queue' = queue /\ pushed' = pushed
      BY <1>9 DEF Acknowledge
    <2>2. Len(wire') = Len(wire) - 1 /\ Len(wire') <= pushed'
      BY <1>1, <1>3, <1>5, <2>1
    <2>3. \A i \in DOMAIN wire' : wire'[i] = queue'[pushed' - Len(wire') + i]
      <3>1. ASSUME NEW i \in 1..Len(wire) - 1
            PROVE  pushed' - Len(wire') + i = pushed - Len(wire) + i + 1
        BY <1>1, <2>1, <2>2
      <3> QED BY <1>6, <1>7, <2>1, <3>1
    <2>4. WireOK'
      BY <1>5, <1>9, <2>2, <2>3 DEF WireOK
    <2>5. SessionOK'
      BY <1>1, <1>3, <1>5, <2>1 DEF SessionOK, TypeInv
    <2> QED BY <2>4, <2>5
  <1> QED BY <1>8, <1>9

LEMMA SessionStep ==
  ASSUME TypeInv, [Next]_vars
  PROVE  SessionOK' /\ WireOK'
  <1> DEFINE Goal == SessionOK' /\ WireOK'
  <1>1. ASSUME NEW m \in Messages, SendOrder(m) PROVE Goal BY <1>1, SendSession
  <1>2. CASE Push BY <1>2, PushSession
  <1>3. CASE LinkLost
    BY <1>3, SessionKept DEF LinkLost, brokerVars, SameSession, TypeInv, SessionOK
  <1>4. CASE Connect
    BY <1>4, EmptySeq DEF Connect, Session, TypeInv, SessionOK, WireOK
  <1>5. CASE Subscribe
    BY <1>5, SessionKept DEF Subscribe, SameSession, TypeInv, SessionOK
  <1>6. CASE Notice
    BY <1>6, EmptySeq DEF Notice, brokerVars, TypeInv, SessionOK, WireOK
  <1>7. CASE Receive
    BY <1>7, SessionKept DEF Receive, brokerVars, SameSession, TypeInv, SessionOK
  <1>8. CASE HandlePiece
    BY <1>8, SessionKept DEF HandlePiece, brokerVars, SameSession, TypeInv, SessionOK
  <1>9. CASE Acknowledge BY <1>9, AcknowledgeSession
  <1>10. CASE UNCHANGED vars
    BY <1>10, SessionKept DEF vars, brokerVars, SameSession, TypeInv, SessionOK
  <1> QED
    BY <1>1, <1>2, <1>3, <1>4, <1>5, <1>6, <1>7, <1>8, <1>9, <1>10 DEF Next, MqttTask

LEMMA TypesStep == TypeInv /\ [Next]_vars => TypeInv'
  BY FlagsStep, PiecesStep, SessionStep DEF TypeInv

LEMMA TypeInvHolds == Spec => []TypeInv
  BY TypesInit, TypesStep, PTL DEF Spec

\* Types; and, however the connection breaks, the orders on the wire are the
\* last ones that the broker has written, and all of them as long as the
\* connection holds (client.c:76-120).
THEOREM TypesHold == Spec => []TypeOK
  BY TypeInvHolds, TypesFromInv, PTL

-----------------------------------------------------------------------------
(* Sequences                                                               *)

LEMMA RestAppend ==
  ASSUME NEW S, NEW s \in Seq(S), NEW e \in S, NEW n \in 0..Len(s)
  PROVE  SubSeq(Append(s, e), n + 1, Len(s) + 1) = Append(SubSeq(s, n + 1, Len(s)), e)
  <1> DEFINE t == Append(s, e)
             k == Len(s) - n
             r == SubSeq(s, n + 1, Len(s))
             u == SubSeq(t, n + 1, Len(s) + 1)
  <1>1. Len(s) \in Nat /\ k \in Nat /\ n \in Nat
    BY LenProperties
  <1>2. /\ t \in Seq(S) /\ Len(t) = Len(s) + 1
        /\ \A i \in 1..Len(s) : t[i] = s[i]
        /\ t[Len(s) + 1] = e
    BY AppendProperties
  <1> HIDE DEF t
  <1>3. \A i \in n + 1..Len(s) : s[i] \in S
    BY <1>1, ElementOfSeq
  <1>4. \A i \in n + 1..Len(s) + 1 : t[i] \in S
    BY <1>1, <1>2, ElementOfSeq
  <1>5. /\ r \in Seq(S) /\ Len(r) = k
        /\ \A i \in 1..k : r[i] = s[n + i]
    <2>1. /\ r \in Seq(S)
          /\ Len(r) = IF n + 1 <= Len(s) THEN Len(s) - (n + 1) + 1 ELSE 0
          /\ \A i \in 1..Len(s) - (n + 1) + 1 : r[i] = s[n + 1 + i - 1]
      BY <1>1, <1>3, SubSeqProperties
    <2> HIDE DEF r
    <2>2. Len(r) = k
      BY <1>1, <2>1
    <2>3. ASSUME NEW i \in 1..k PROVE r[i] = s[n + i]
      <3>1. i \in 1..Len(s) - (n + 1) + 1 /\ n + 1 + i - 1 = n + i
        BY <1>1
      <3> QED BY <2>1, <3>1
    <2> QED BY <2>1, <2>2, <2>3
  <1>6. /\ u \in Seq(S) /\ Len(u) = k + 1
        /\ \A i \in 1..k + 1 : u[i] = t[n + i]
    <2>1. /\ u \in Seq(S)
          /\ Len(u) = IF n + 1 <= Len(s) + 1 THEN Len(s) + 1 - (n + 1) + 1 ELSE 0
          /\ \A i \in 1..Len(s) + 1 - (n + 1) + 1 : u[i] = t[n + 1 + i - 1]
      BY <1>1, <1>4, SubSeqProperties
    <2> HIDE DEF u
    <2>2. Len(u) = k + 1
      BY <1>1, <2>1
    <2>3. ASSUME NEW i \in 1..k + 1 PROVE u[i] = t[n + i]
      <3>1. i \in 1..Len(s) + 1 - (n + 1) + 1 /\ n + 1 + i - 1 = n + i
        BY <1>1
      <3> QED BY <2>1, <3>1
    <2> QED BY <2>1, <2>2, <2>3
  <1> HIDE DEF r, u
  <1>7. /\ Append(r, e) \in Seq(S) /\ Len(Append(r, e)) = k + 1
        /\ \A i \in 1..k : Append(r, e)[i] = r[i]
        /\ Append(r, e)[k + 1] = e
    BY <1>5, AppendProperties
  <1>8. ASSUME NEW i \in 1..k + 1 PROVE u[i] = Append(r, e)[i]
    <2>1. CASE i = k + 1
      BY <1>1, <1>2, <1>6, <1>7, <2>1
    <2>2. CASE i # k + 1
      <3>1. i \in 1..k /\ n + i \in 1..Len(s)
        BY <1>1, <2>2
      <3> QED BY <1>2, <1>5, <1>6, <1>7, <3>1
    <2> QED BY <2>1, <2>2
  <1>9. u = Append(r, e)
    BY <1>6, <1>7, <1>8, SeqEqual
  <1> QED BY <1>9 DEF t, u, r

LEMMA RestTail ==
  ASSUME NEW S, NEW s \in Seq(S), NEW n \in 1..Len(s)
  PROVE  SubSeq(Tail(s), n, Len(s) - 1) = SubSeq(s, n + 1, Len(s))
  <1>1. Len(s) \in Nat \ {0} /\ s # <<>>
    BY LenProperties, EmptySeq
  <1>2. CASE n = Len(s)
    <2>1. SubSeq(s, n + 1, Len(s)) = <<>>
      BY <1>1, <1>2, SubSeqEmpty
    <2>2. SubSeq(Tail(s), n, Len(s) - 1) = <<>>
      BY <1>1, <1>2, SubSeqEmpty
    <2> QED BY <2>1, <2>2
  <1>3. CASE n # Len(s)
    <2>1. Tail(s) = SubSeq(s, 2, Len(s))
      BY <1>1, TailIsSubSeq
    <2>2. /\ 2 \in 1..Len(s) /\ Len(s) \in 1..Len(s) /\ Len(s) - 2 + 1 = Len(s) - 1
          /\ n \in 1..Len(s) - 2 + 1 /\ Len(s) - 1 \in 1..Len(s) - 2 + 1
          /\ 2 + n - 1 = n + 1 /\ 2 + (Len(s) - 1) - 1 = Len(s)
      BY <1>1, <1>3
    <2>3. SubSeq(SubSeq(s, 2, Len(s)), n, Len(s) - 1) = SubSeq(s, 2 + n - 1, 2 + (Len(s) - 1) - 1)
      BY <2>2, SubSeqOfSubSeq
    <2> QED BY <2>1, <2>2, <2>3
  <1> QED BY <1>2, <1>3

Entry == [order : Order, acts : SUBSET ToSet(Topics)]

LEMMA OrdersOfType ==
  ASSUME NEW h \in Seq(Entry)
  PROVE  /\ OrdersOf(h) \in Seq(Order) /\ Len(OrdersOf(h)) = Len(h)
         /\ \A i \in 1..Len(h) : OrdersOf(h)[i] = h[i].order
  <1>1. Len(h) \in Nat /\ DOMAIN h = 1..Len(h) /\ \A i \in 1..Len(h) : h[i] \in Entry
    BY LenProperties, ElementOfSeq
  <1>2. OrdersOf(h) \in [1..Len(h) -> Order]
    BY <1>1 DEF OrdersOf, Entry
  <1>3. OrdersOf(h) \in Seq(Order)
    BY <1>1, <1>2, SeqDef
  <1>4. \A i \in 1..Len(h) : OrdersOf(h)[i] = h[i].order
    BY <1>1 DEF OrdersOf
  <1>5. Len(OrdersOf(h)) \in Nat /\ 1..Len(OrdersOf(h)) = 1..Len(h)
    BY <1>2, <1>3, LenProperties
  <1>6. Len(OrdersOf(h)) = Len(h)
    <2> DEFINE m == Len(OrdersOf(h))
               n == Len(h)
    <2>1. m \in Nat /\ n \in Nat /\ 1..m = 1..n
      BY <1>1, <1>5
    <2> HIDE DEF m, n
    <2>2. m = n
      BY <2>1
    <2> QED BY <2>2 DEF m, n
  <1> QED BY <1>3, <1>4, <1>6

LEMMA OrdersOfAppend ==
  ASSUME NEW h \in Seq(Entry), NEW e \in Entry
  PROVE  OrdersOf(Append(h, e)) = Append(OrdersOf(h), e.order)
  <1> DEFINE g == Append(h, e)
             o == OrdersOf(h)
             f == Append(o, e.order)
  <1>1. /\ g \in Seq(Entry) /\ Len(g) = Len(h) + 1
        /\ \A i \in 1..Len(h) : g[i] = h[i]
        /\ g[Len(h) + 1] = e
    BY AppendProperties
  <1>2. o \in Seq(Order) /\ Len(o) = Len(h) /\ \A i \in 1..Len(h) : o[i] = h[i].order
    BY OrdersOfType
  <1>3. e.order \in Order /\ Len(h) \in Nat
    BY LenProperties DEF Entry
  <1> HIDE DEF g, o
  <1>4. /\ f \in Seq(Order) /\ Len(f) = Len(h) + 1
        /\ \A i \in 1..Len(h) : f[i] = o[i]
        /\ f[Len(h) + 1] = e.order
    BY <1>2, <1>3, AppendProperties
  <1>5. /\ OrdersOf(g) \in Seq(Order) /\ Len(OrdersOf(g)) = Len(g)
        /\ \A i \in 1..Len(g) : OrdersOf(g)[i] = g[i].order
    BY <1>1, OrdersOfType
  <1> HIDE DEF f
  <1>6. ASSUME NEW i \in 1..Len(h) + 1 PROVE OrdersOf(g)[i] = f[i]
    <2>1. CASE i = Len(h) + 1
      BY <1>1, <1>4, <1>5, <2>1
    <2>2. CASE i # Len(h) + 1
      <3>1. i \in 1..Len(h)
        BY <1>3, <2>2
      <3> QED BY <1>1, <1>2, <1>4, <1>5, <3>1
    <2> QED BY <2>1, <2>2
  <1>7. OrdersOf(g) = f
    BY <1>1, <1>4, <1>5, <1>6, SeqEqual
  <1> QED BY <1>7 DEF f, g, o

-----------------------------------------------------------------------------
(* What a step does to the rest of the session                             *)

LEMMA HandledRange ==
  ASSUME TypeInv
  PROVE  /\ queue \in Seq(Order) /\ Len(queue) \in Nat
         /\ Handled \in 0..Len(queue)
         /\ task = "acknowledging" => Handled >= 1
         /\ task # "acknowledging" /\ wire # <<>>
              => Handled + 1 \in 1..Len(queue) /\ queue[Handled + 1] = Head(wire)
  <1>1. /\ queue \in Seq(Order) /\ Len(queue) \in Nat
        /\ wire \in Seq(Order) /\ Len(wire) \in Nat /\ DOMAIN wire = 1..Len(wire)
        /\ pushed \in 0..Len(queue) /\ Len(wire) <= pushed
    BY LenProperties DEF TypeInv, SessionOK, WireOK
  <1>2. task \in {"handling", "acknowledging"} => wire # <<>> /\ Len(wire) >= 1
    BY <1>1, EmptySeq DEF TypeInv, SessionOK
  <1>3. Handled \in 0..Len(queue) /\ (task = "acknowledging" => Handled >= 1)
    BY <1>1, <1>2 DEF Handled
  <1>4. CASE task # "acknowledging" /\ wire # <<>>
    <2>1. Handled = pushed - Len(wire) /\ wire # <<>> /\ Len(wire) >= 1
      BY <1>1, <1>4, EmptySeq DEF Handled
    <2>2. Head(wire) = wire[1] /\ 1 \in DOMAIN wire
      BY <1>1, <2>1, HeadTailProperties
    <2>3. wire[1] = queue[pushed - Len(wire) + 1]
      BY <2>2 DEF TypeInv, WireOK
    <2> QED BY <1>1, <1>3, <2>1, <2>2, <2>3
  <1> QED BY <1>1, <1>3, <1>4

LEMMA UnhandledType ==
  ASSUME TypeInv PROVE Unhandled \in Seq(Order)
  <1>1. \A i \in Handled + 1..Len(queue) : queue[i] \in Order
    BY HandledRange, ElementOfSeq
  <1>2. SubSeq(queue, Handled + 1, Len(queue)) \in Seq(Order)
    BY <1>1, HandledRange, SubSeqProperties
  <1> QED BY <1>2, EmptySeq DEF Unhandled

LEMMA SendUnhandled ==
  ASSUME TypeInv, NEW m \in Messages, SendOrder(m)
  PROVE  Unhandled' \in {Unhandled, Append(Unhandled, Len(orders) + 1)}
  <1>1. UNCHANGED <<connected, task, pushed, wire>>
    BY DEF SendOrder
  <1>2. Handled' = Handled
    BY <1>1 DEF Handled
  <1>3. CASE queue' = queue \/ ~connected
    BY <1>1, <1>2, <1>3 DEF Unhandled
  <1>4. CASE queue' = Append(queue, Len(orders) + 1) /\ connected
    <2> DEFINE o == Len(orders) + 1
    <2>1. queue' = Append(queue, o) /\ o \in Order
      BY <1>4, SendQueue
    <2> HIDE DEF o
    <2>2. queue \in Seq(Order) /\ Handled \in 0..Len(queue)
      BY HandledRange
    <2>3. Len(queue') = Len(queue) + 1
      BY <2>1, <2>2, AppendProperties
    <2>4. SubSeq(Append(queue, o), Handled + 1, Len(queue) + 1)
            = Append(SubSeq(queue, Handled + 1, Len(queue)), o)
      BY <2>1, <2>2, RestAppend
    <2>5. Unhandled' = Append(Unhandled, o)
      BY <1>1, <1>2, <1>4, <2>1, <2>3, <2>4 DEF Unhandled
    <2> QED BY <2>5 DEF o
  <1> QED BY <1>3, <1>4, SendQueue

LEMMA HandleUnhandled ==
  ASSUME TypeInv, HandlePiece, Len(pieces) = 1
  PROVE  Unhandled # <<>> /\ Head(Unhandled) = Head(wire) /\ Unhandled' = Tail(Unhandled)
  <1>1. task = "handling" /\ task' = "acknowledging" /\ UNCHANGED <<connected, queue, pushed, wire>>
    BY DEF HandlePiece, brokerVars
  <1>2. /\ queue \in Seq(Order) /\ Len(queue) \in Nat /\ Handled \in Nat
        /\ Handled + 1 \in 1..Len(queue) /\ Len(queue) \in Handled + 1..Len(queue)
        /\ queue[Handled + 1] = Head(wire)
    BY <1>1, HandledRange DEF TypeInv, SessionOK
  <1>3. pushed \in Int /\ Len(wire) \in Int
    BY LenProperties DEF TypeInv, SessionOK
  <1>4. Handled' = Handled + 1
    BY <1>1, <1>3 DEF Handled
  <1>5. connected
    BY <1>1 DEF TypeInv, SessionOK
  <1>6. Unhandled = SubSeq(queue, Handled + 1, Len(queue))
    BY <1>5 DEF Unhandled
  <1>7. Unhandled' = SubSeq(queue, Handled + 1 + 1, Len(queue))
    BY <1>1, <1>4, <1>5 DEF Unhandled
  <1>8. /\ Head(SubSeq(queue, Handled + 1, Len(queue))) = queue[Handled + 1]
        /\ Tail(SubSeq(queue, Handled + 1, Len(queue))) = SubSeq(queue, Handled + 1 + 1, Len(queue))
    BY <1>2, HeadTailOfSubSeq
  <1>9. Unhandled # <<>>
    <2>1. \A i \in Handled + 1..Len(queue) : queue[i] \in Order
      BY <1>2, ElementOfSeq
    <2>2. Len(SubSeq(queue, Handled + 1, Len(queue)))
            = IF Handled + 1 <= Len(queue) THEN Len(queue) - (Handled + 1) + 1 ELSE 0
      BY <1>2, <2>1, SubSeqProperties
    <2>3. Len(Unhandled) # 0
      BY <1>2, <1>6, <2>2
    <2> QED BY <2>3, EmptySeq
  <1> QED BY <1>2, <1>6, <1>7, <1>8, <1>9

LEMMA AcknowledgeUnhandled ==
  ASSUME TypeInv, Acknowledge PROVE Unhandled' = Unhandled
  <1>1. /\ task = "acknowledging" /\ task' = "idle" /\ wire' = Tail(wire) /\ UNCHANGED connected
    BY DEF Acknowledge
  <1>2. /\ queue \in Seq(Order) /\ Len(queue) \in Nat /\ Handled \in 1..Len(queue)
        /\ pushed \in Nat /\ Len(wire) \in Nat /\ wire \in Seq(Order) /\ wire # <<>>
    BY <1>1, HandledRange, LenProperties DEF TypeInv, SessionOK
  <1>3. Len(wire') = Len(wire) - 1 /\ Handled = pushed - Len(wire) + 1
    BY <1>1, <1>2, HeadTailProperties DEF Handled
  <1>4. CASE link = "up"
    <2>1. queue' = Tail(queue) /\ pushed' = pushed - 1
      BY <1>4 DEF Acknowledge
    <2>2. queue # <<>>
      BY <1>2, EmptySeq
    <2>3. Len(queue') = Len(queue) - 1
      BY <1>2, <2>1, <2>2, HeadTailProperties
    <2>4. Handled' = Handled - 1
      BY <1>1, <1>2, <1>3, <2>1 DEF Handled
    <2>5. SubSeq(Tail(queue), Handled, Len(queue) - 1) = SubSeq(queue, Handled + 1, Len(queue))
      BY <1>2, RestTail
    <2>6. Handled - 1 + 1 = Handled
      BY <1>2
    <2> QED BY <1>1, <2>1, <2>3, <2>4, <2>5, <2>6 DEF Unhandled
  <1>5. CASE link # "up"
    <2>1. queue' = queue /\ pushed' = pushed
      BY <1>5 DEF Acknowledge
    <2>2. Handled' = Handled
      BY <1>1, <1>2, <1>3, <2>1 DEF Handled
    <2> QED BY <1>1, <2>1, <2>2 DEF Unhandled
  <1> QED BY <1>4, <1>5

LEMMA PushUnhandled ==
  ASSUME TypeInv, Push PROVE Unhandled' = Unhandled
  <1>1. /\ wire \in Seq(Order) /\ pushed \in Nat /\ queue[pushed + 1] \in Order /\ Len(wire) \in Nat
    <2>1. queue \in Seq(Order) /\ pushed + 1 \in 1..Len(queue)
      BY LenProperties DEF TypeInv, SessionOK, Push
    <2>2. queue[pushed + 1] \in Order
      BY <2>1, ElementOfSeq
    <2> QED BY <2>2, LenProperties DEF TypeInv, SessionOK
  <1>2. Len(wire') = Len(wire) + 1
    BY <1>1, AppendProperties DEF Push
  <1>3. Handled' = Handled
    BY <1>1, <1>2 DEF Handled, Push
  <1> QED BY <1>3 DEF Unhandled, Push

LEMMA ForgetUnhandled ==
  ASSUME TypeInv, Connect \/ Notice PROVE Unhandled' = <<>>
  <1>1. CASE Notice
    BY <1>1 DEF Notice, Unhandled
  <1>2. CASE Connect
    <2>1. /\ queue' = <<>> /\ wire' = <<>> /\ pushed' = 0 /\ task' = "subscribing" /\ connected'
      BY <1>2 DEF Connect, Session
    <2>2. Len(queue') = 0 /\ Len(wire') = 0
      BY <2>1, EmptySeq
    <2>3. Handled' = 0
      <3>1. pushed' = 0 /\ Len(wire') = 0 /\ task' # "acknowledging"
        BY <2>1, <2>2
      <3> QED BY <3>1 DEF Handled
    <2>4. SubSeq(queue', Handled' + 1, Len(queue')) = <<>>
      BY <2>2, <2>3, SubSeqEmpty
    <2> QED BY <2>1, <2>4 DEF Unhandled
  <1> QED BY <1>1, <1>2

LEMMA KeptUnhandled ==
  ASSUME UNCHANGED <<connected, queue, pushed, wire>>,
         task # "acknowledging", task' # "acknowledging"
  PROVE  Unhandled' = Unhandled
  BY DEF Unhandled, Handled

LEMMA KeptSteps ==
  ASSUME TypeInv, Push \/ LinkLost \/ Subscribe \/ Receive \/ Acknowledge \/ UNCHANGED vars
  PROVE  Unhandled' = Unhandled
  <1>1. CASE LinkLost
    BY <1>1 DEF LinkLost, brokerVars, Unhandled, Handled
  <1>2. CASE Subscribe \/ Receive
    BY <1>2, KeptUnhandled DEF Subscribe, Receive, brokerVars
  <1>3. CASE UNCHANGED vars
    BY <1>3 DEF vars, brokerVars, Unhandled, Handled
  <1> QED BY <1>1, <1>2, <1>3, PushUnhandled, AcknowledgeUnhandled

-----------------------------------------------------------------------------
(* Orders are carried out in their turn                                    *)

\* A document that does not fit into the client's buffer arrives in two
\* pieces, of which only the first has a topic.  And no topic of MQTT is empty.
IsLong(o) == orders[o].payload = "long"
NamedOrders == \A m \in Messages : m.topic # ""

\* In hand are all pieces of the order at the head of the wire, or the rest
\* of a long one.
HandOK ==
  task = "handling" =>
    \/ pieces = PiecesOf(orders[Head(wire)])
    \/ IsLong(Head(wire)) /\ pieces = Tail(PiecesOf(orders[Head(wire)]))

\* The first piece of a long order has been handled, the rest has not.
HalfDone == task = "handling" /\ Len(pieces) = 1 /\ IsLong(Head(wire))

RestOK ==
  /\ \A k \in 1..Len(Unhandled) : Unhandled[k] <= Len(orders)
  /\ \A j, k \in 1..Len(Unhandled) : j < k => Unhandled[j] < Unhandled[k]

\* Two entries of one order are next to each other, and the order is long.
HistoryOK ==
  /\ carried \in Seq(Entry)
  /\ \A i \in 1..Len(carried) : carried[i].order <= Len(orders)
  /\ \A i, j \in 1..Len(carried) :
       i < j => /\ carried[i].order <= carried[j].order
                /\ carried[i].order = carried[j].order => j = i + 1 /\ IsLong(carried[i].order)

\* What was carried out is older than what is left; only a long order half
\* done is the last of the one and the first of the other.
BeforeRest ==
  \A i \in 1..Len(carried), k \in 1..Len(Unhandled) :
    /\ carried[i].order <= Unhandled[k]
    /\ carried[i].order = Unhandled[k] => HalfDone /\ i = Len(carried) /\ k = 1

OrderInv == TypeInv /\ HandOK /\ RestOK /\ HistoryOK /\ BeforeRest

\* An order in one piece did what its topic says and nothing else.
ActsOK ==
  \A i \in 1..Len(carried) :
    ~IsLong(carried[i].order) => carried[i].acts = {orders[carried[i].order].topic}

LEMMA OrdersInit == Init => OrderInv /\ ActsOK
  <1> SUFFICES ASSUME Init PROVE OrderInv /\ ActsOK
    OBVIOUS
  <1>1. TypeInv
    BY TypesInit
  <1>2. Unhandled = <<>> /\ Len(Unhandled) = 0 /\ carried = <<>> /\ Len(carried) = 0
    BY EmptySeq DEF Init, Unhandled
  <1>3. carried \in Seq(Entry)
    BY <1>2, EmptySeq
  <1>4. HandOK
    BY DEF Init, HandOK
  <1> QED BY <1>1, <1>2, <1>3, <1>4 DEF OrderInv, RestOK, HistoryOK, BeforeRest, ActsOK

\* The order at the head of the wire is the first that is left, and was sent.
LEMMA HandSent ==
  ASSUME OrderInv, connected, wire # <<>>, task # "acknowledging"
  PROVE  /\ Head(wire) \in 1..Len(orders) /\ Head(wire) \in Order
         /\ Unhandled # <<>> /\ Head(Unhandled) = Head(wire)
  <1>1. /\ queue \in Seq(Order) /\ Len(queue) \in Nat /\ Handled \in Nat
        /\ Handled + 1 \in 1..Len(queue) /\ Len(queue) \in Handled + 1..Len(queue)
        /\ queue[Handled + 1] = Head(wire)
    BY HandledRange DEF OrderInv
  <1>2. Unhandled = SubSeq(queue, Handled + 1, Len(queue))
    BY DEF Unhandled
  <1>3. \A i \in Handled + 1..Len(queue) : queue[i] \in Order
    BY <1>1, ElementOfSeq
  <1>4. /\ Len(Unhandled) = IF Handled + 1 <= Len(queue) THEN Len(queue) - (Handled + 1) + 1 ELSE 0
        /\ \A i \in 1..Len(queue) - (Handled + 1) + 1 : Unhandled[i] = queue[Handled + 1 + i - 1]
    BY <1>1, <1>2, <1>3, SubSeqProperties
  <1>5. 1 \in 1..Len(Unhandled) /\ Unhandled[1] = queue[Handled + 1 + 1 - 1]
    BY <1>1, <1>4
  <1>6. Unhandled[1] = Head(wire) /\ Head(wire) \in Order
    BY <1>1, <1>3, <1>5
  <1>7. Unhandled[1] <= Len(orders)
    BY <1>5 DEF OrderInv, RestOK
  <1>8. Unhandled # <<>>
    BY <1>5, EmptySeq
  <1>9. Head(Unhandled) = Unhandled[1]
    BY <1>8, UnhandledType, HeadTailProperties DEF OrderInv
  <1> QED BY <1>6, <1>7, <1>8, <1>9, LenProperties DEF Order, OrderInv, TypeInv, SessionOK

\* A message is handed over in one piece, or in two if it is long.
LEMMA OneOrTwoPieces ==
  ASSUME NEW m
  PROVE  /\ m.payload # "long" => PiecesOf(m) = <<m>>
         /\ m.payload = "long" => \E a, b : PiecesOf(m) = <<a, b>>
  BY DEF PiecesOf

LEMMA HandPieces ==
  ASSUME HandOK, task = "handling"
  PROVE  \/ ~IsLong(Head(wire)) /\ pieces = <<orders[Head(wire)]>>
         \/ IsLong(Head(wire)) /\ \E a, b : pieces = <<a, b>> /\ pieces = PiecesOf(orders[Head(wire)])
         \/ IsLong(Head(wire)) /\ \E b : pieces = <<b>>
  <1> DEFINE m == orders[Head(wire)]
  <1>1. IsLong(Head(wire)) <=> m.payload = "long"
    BY DEF IsLong
  <1>2. pieces = PiecesOf(m) \/ (IsLong(Head(wire)) /\ pieces = Tail(PiecesOf(m)))
    BY DEF HandOK
  <1> HIDE DEF m
  <1>3. CASE m.payload # "long"
    BY <1>1, <1>2, <1>3, OneOrTwoPieces DEF m
  <1>4. CASE m.payload = "long"
    <2>1. PICK a, b : PiecesOf(m) = <<a, b>>
      BY <1>4, OneOrTwoPieces
    <2>2. Tail(PiecesOf(m)) = <<b>>
      BY <2>1
    <2> QED BY <1>1, <1>2, <1>4, <2>1, <2>2 DEF m
  <1> QED BY <1>3, <1>4

\* The head of the wire stays while its order is handled.
LEMMA SameHead ==
  ASSUME TypeInv, Push, task = "handling" PROVE Head(wire') = Head(wire)
  <1>1. wire' = Append(wire, queue[pushed + 1])
    BY DEF Push
  <1>2. queue \in Seq(Order) /\ pushed + 1 \in 1..Len(queue) /\ wire \in Seq(Order) /\ wire # <<>>
    BY LenProperties DEF TypeInv, SessionOK, Push
  <1>3. queue[pushed + 1] \in Order
    BY <1>2, ElementOfSeq
  <1> QED BY <1>1, <1>2, <1>3, HeadTailAppend

LEMMA HandStep ==
  ASSUME OrderInv, [Next]_vars
  PROVE  HandOK'
  <1> USE DEF OrderInv
  <1>1. ASSUME NEW m \in Messages, SendOrder(m) PROVE HandOK'
    <2>1. UNCHANGED <<task, wire, pieces>>
      BY <1>1 DEF SendOrder
    <2>2. task = "handling" => Head(wire) \in 1..Len(orders)
      BY HandSent DEF TypeInv, SessionOK
    <2>3. \A i \in 1..Len(orders) : orders'[i] = orders[i]
      BY <1>1, SendQueue
    <2> QED BY <2>1, <2>2, <2>3 DEF HandOK, IsLong
  <1>2. CASE Push
    <2>1. UNCHANGED <<task, orders, pieces>>
      BY <1>2 DEF Push
    <2>2. task = "handling" => Head(wire') = Head(wire)
      BY <1>2, SameHead
    <2> QED BY <2>1, <2>2 DEF HandOK, IsLong
  <1>3. CASE LinkLost BY <1>3 DEF LinkLost, brokerVars, HandOK, IsLong
  <1>4. CASE Connect BY <1>4 DEF Connect, HandOK
  <1>5. CASE Subscribe BY <1>5 DEF Subscribe, HandOK
  <1>6. CASE Notice BY <1>6 DEF Notice, brokerVars, HandOK
  <1>7. CASE Receive BY <1>7 DEF Receive, brokerVars, HandOK
  <1>8. CASE HandlePiece
    <2>1. /\ task = "handling" /\ pieces' = Tail(pieces) /\ UNCHANGED <<orders, wire>>
          /\ task' = IF Len(pieces) = 1 THEN "acknowledging" ELSE task
      BY <1>8 DEF HandlePiece, brokerVars
    <2>2. CASE Len(pieces) = 1
      BY <2>1, <2>2 DEF HandOK
    <2>3. CASE Len(pieces) # 1
      <3>1. IsLong(Head(wire)) /\ pieces = PiecesOf(orders[Head(wire)])
        BY <2>1, <2>3, HandPieces
      <3> QED BY <2>1, <3>1 DEF HandOK, IsLong
    <2> QED BY <2>2, <2>3
  <1>9. CASE Acknowledge BY <1>9 DEF Acknowledge, HandOK
  <1>10. CASE UNCHANGED vars BY <1>10 DEF vars, brokerVars, HandOK, IsLong
  <1> QED
    BY <1>1, <1>2, <1>3, <1>4, <1>5, <1>6, <1>7, <1>8, <1>9, <1>10 DEF Next, MqttTask

-----------------------------------------------------------------------------
(* The things that can happen to the rest of the session                   *)

Tidy == RestOK /\ HistoryOK /\ BeforeRest

\* An order that was sent keeps its message.
OrdersKept ==
  /\ Len(orders) \in Nat /\ Len(orders') \in Nat /\ Len(orders') >= Len(orders)
  /\ \A o \in 1..Len(orders) : orders'[o] = orders[o]

LEMMA HistoryOrders ==
  ASSUME HistoryOK, NEW i \in 1..Len(carried)
  PROVE  /\ carried[i].order \in Order /\ carried[i].order \in Int
         /\ Len(orders) \in Nat => carried[i].order \in 1..Len(orders)
  <1>1. carried[i] \in Entry
    BY ElementOfSeq DEF HistoryOK
  <1>2. carried[i].order \in Order
    BY <1>1 DEF Entry
  <1>3. carried[i].order \in Int /\ carried[i].order >= 1
    BY <1>2, OrderAssumption DEF Order, OrderAssumption
  <1> QED BY <1>2, <1>3 DEF HistoryOK

LEMMA HistoryKept ==
  ASSUME HistoryOK, OrdersKept, carried' = carried
  PROVE  HistoryOK'
  <1>1. \A i \in 1..Len(carried) : carried[i].order \in Int /\ carried[i].order \in 1..Len(orders)
    BY HistoryOrders DEF OrdersKept
  <1>2. \A i \in 1..Len(carried) : IsLong(carried[i].order) => orders'[carried[i].order].payload = "long"
    BY <1>1 DEF OrdersKept, IsLong
  <1> QED BY <1>1, <1>2 DEF HistoryOK, OrdersKept, IsLong

\* An entry of an order that is not older than those before it, and is in
\* the last of them only if it is long.
LEMMA HistoryGrows ==
  ASSUME HistoryOK, orders' = orders, NEW e \in Entry, carried' = Append(carried, e),
         e.order <= Len(orders),
         \A i \in 1..Len(carried) :
           /\ carried[i].order <= e.order
           /\ carried[i].order = e.order => i = Len(carried) /\ IsLong(e.order)
  PROVE  HistoryOK'
  <1> DEFINE c == Len(carried)
  <1>1. c \in Nat /\ carried \in Seq(Entry)
    BY LenProperties DEF HistoryOK
  <1>2. /\ carried' \in Seq(Entry) /\ Len(carried') = c + 1
        /\ \A i \in 1..c : carried'[i] = carried[i]
        /\ carried'[c + 1] = e
    BY <1>1, AppendProperties
  <1>3. \A i \in 1..c : carried[i].order <= Len(orders)
    BY DEF HistoryOK
  <1>4. \A i, j \in 1..c : i < j =>
          /\ carried[i].order <= carried[j].order
          /\ carried[i].order = carried[j].order => j = i + 1 /\ IsLong(carried[i].order)
    BY DEF HistoryOK
  <1>5. \A i \in 1..c : /\ carried[i].order <= e.order
                        /\ carried[i].order = e.order => i = c /\ IsLong(e.order)
    OBVIOUS
  <1> HIDE DEF c
  <1>6. ASSUME NEW i \in 1..c + 1 PROVE i = c + 1 \/ i \in 1..c
    BY <1>1
  <1>7. \A i \in 1..c + 1 : carried'[i].order <= Len(orders)
    BY <1>2, <1>3, <1>6
  <1>8. ASSUME NEW i \in 1..c + 1, NEW j \in 1..c + 1, i < j
        PROVE  /\ carried'[i].order <= carried'[j].order
               /\ carried'[i].order = carried'[j].order => j = i + 1 /\ IsLong(carried'[i].order)
    <2>1. i \in 1..c
      BY <1>1, <1>8
    <2>2. CASE j = c + 1
      BY <1>2, <1>5, <2>1, <2>2
    <2>3. CASE j \in 1..c
      BY <1>2, <1>4, <1>8, <2>1, <2>3
    <2> QED BY <1>6, <2>2, <2>3
  <1> QED BY <1>2, <1>7, <1>8 DEF HistoryOK, IsLong

LEMMA RestKept ==
  ASSUME Tidy, OrdersKept, carried' = carried, Unhandled' = Unhandled,
         Unhandled \in Seq(Order), HalfDone => HalfDone'
  PROVE  Tidy'
  <1>1. \A k \in 1..Len(Unhandled) : Unhandled[k] \in Int
    BY ElementOfSeq, OrderIsInt
  <1>2. RestOK'
    BY <1>1 DEF Tidy, RestOK, OrdersKept
  <1>3. HistoryOK'
    BY HistoryKept DEF Tidy
  <1>4. BeforeRest'
    <2>1. \A i \in 1..Len(carried), k \in 1..Len(Unhandled) :
            /\ carried[i].order <= Unhandled[k]
            /\ carried[i].order = Unhandled[k] => HalfDone' /\ i = Len(carried) /\ k = 1
      BY DEF Tidy, BeforeRest
    <2> QED BY <2>1 DEF BeforeRest
  <1> QED BY <1>2, <1>3, <1>4 DEF Tidy

LEMMA RestGrows ==
  ASSUME Tidy, OrdersKept, carried' = carried, Len(orders') = Len(orders) + 1,
         Len(orders) + 1 \in Order, Unhandled \in Seq(Order),
         Unhandled' = Append(Unhandled, Len(orders) + 1), HalfDone => HalfDone'
  PROVE  Tidy'
  <1> DEFINE o == Len(orders) + 1
             n == Len(Unhandled)
  <1>0. o \in Order /\ Unhandled' = Append(Unhandled, o) /\ Len(orders) \in Nat
    BY DEF OrdersKept
  <1>5. o \in Int /\ Len(orders') = o
    BY <1>0
  <1>3. \A i \in 1..Len(carried) : carried[i].order \in Int /\ carried[i].order < o
    BY <1>0, HistoryOrders DEF Tidy, HistoryOK
  <1>2. \A k \in 1..n : Unhandled[k] \in Int
    BY ElementOfSeq, OrderIsInt
  <1>4. \A k \in 1..n : Unhandled[k] < o
    BY <1>0, <1>2 DEF Tidy, RestOK
  <1> HIDE DEF o
  <1>1. /\ Len(Unhandled') = n + 1 /\ n \in Nat
        /\ \A k \in 1..n : Unhandled'[k] = Unhandled[k]
        /\ Unhandled'[n + 1] = o
    BY <1>0, AppendProperties, LenProperties
  <1> HIDE DEF n
  <1>6. ASSUME NEW k \in 1..n + 1 PROVE k = n + 1 \/ k \in 1..n
    BY <1>1
  <1>7. RestOK'
    <2>1. \A k \in 1..n + 1 : Unhandled'[k] <= o
      BY <1>1, <1>2, <1>4, <1>5, <1>6
    <2>2. ASSUME NEW j \in 1..n + 1, NEW k \in 1..n + 1, j < k
          PROVE  Unhandled'[j] < Unhandled'[k]
      <3>1. j \in 1..n
        BY <1>1, <2>2
      <3>2. CASE k = n + 1
        BY <1>1, <1>4, <3>1, <3>2
      <3>3. CASE k \in 1..n
        BY <1>1, <2>2, <3>1, <3>3 DEF Tidy, RestOK, n
      <3> QED BY <1>6, <3>2, <3>3
    <2> QED BY <1>1, <1>5, <2>1, <2>2 DEF RestOK
  <1>8. HistoryOK'
    BY HistoryKept DEF Tidy
  <1>9. BeforeRest'
    <2>1. ASSUME NEW i \in 1..Len(carried), NEW k \in 1..n + 1
          PROVE  /\ carried[i].order <= Unhandled'[k]
                 /\ carried[i].order = Unhandled'[k] => HalfDone' /\ i = Len(carried) /\ k = 1
      <3>1. CASE k = n + 1
        BY <1>1, <1>3, <1>5, <3>1
      <3>2. CASE k \in 1..n
        BY <1>1, <3>2 DEF Tidy, BeforeRest, n
      <3> QED BY <1>6, <3>1, <3>2
    <2> QED BY <1>1, <2>1 DEF BeforeRest
  <1> QED BY <1>7, <1>8, <1>9 DEF Tidy

LEMMA RestLost ==
  ASSUME Tidy, OrdersKept, carried' = carried, Unhandled' = <<>>
  PROVE  Tidy'
  <1>1. Len(Unhandled') = 0
    BY EmptySeq
  <1> QED BY <1>1, HistoryKept DEF Tidy, RestOK, BeforeRest

LEMMA Less == \A a, b \in Int : a < b => a <= b /\ a # b
  OBVIOUS

\* The oldest order is done: its only piece, or the rest of a long one.
LEMMA RestShrinks ==
  ASSUME Tidy, orders' = orders, Len(orders) \in Nat, Unhandled \in Seq(Order), Unhandled # <<>>,
         Unhandled' = Tail(Unhandled), HalfDone => IsLong(Head(Unhandled)),
         \/ carried' = carried
         \/ \E e \in Entry : e.order = Head(Unhandled) /\ carried' = Append(carried, e)
  PROVE  Tidy'
  <1> DEFINE n == Len(Unhandled)
             c == Len(carried)
             h == Head(Unhandled)
  <1>1. /\ Len(Unhandled') = n - 1 /\ n \in Nat \ {0} /\ h = Unhandled[1]
        /\ \A k \in 1..n - 1 : Unhandled'[k] = Unhandled[k + 1]
    BY HeadTailProperties, LenProperties, EmptySeq
  <1>2. \A k \in 1..n : Unhandled[k] \in Int
    BY ElementOfSeq, OrderIsInt
  <1>3. c \in Nat /\ carried \in Seq(Entry) /\ \A i \in 1..c : carried[i].order \in Int
    BY HistoryOrders, LenProperties DEF Tidy, HistoryOK
  <1>4. /\ \A k \in 1..n : Unhandled[k] <= Len(orders)
        /\ \A j, k \in 1..n : j < k => Unhandled[j] < Unhandled[k]
        /\ \A i \in 1..c, k \in 1..n :
             /\ carried[i].order <= Unhandled[k]
             /\ carried[i].order = Unhandled[k] => HalfDone /\ i = c /\ k = 1
    BY DEF Tidy, RestOK, BeforeRest
  <1>5. OrdersKept
    BY DEF OrdersKept
  <1> HIDE DEF n, c, h
  <1>6. 1 \in 1..n /\ \A k \in 1..n - 1 : k + 1 \in 1..n /\ k + 1 # 1 /\ 1 < k + 1
    BY <1>1
  <1>7. RestOK'
    <2>1. \A k \in 1..n - 1 : Unhandled'[k] <= Len(orders)
      BY <1>1, <1>4, <1>6
    <2>2. ASSUME NEW j \in 1..n - 1, NEW k \in 1..n - 1, j < k
          PROVE  Unhandled'[j] < Unhandled'[k]
      <3>1. j + 1 < k + 1
        BY <2>2
      <3> QED BY <1>1, <1>4, <1>6, <3>1
    <2> QED BY <1>1, <2>1, <2>2 DEF RestOK
  <1>8. \A i \in 1..c, k \in 1..n - 1 : carried[i].order < Unhandled'[k]
    BY <1>1, <1>2, <1>3, <1>4, <1>6
  <1>9. CASE carried' = carried
    <2>1. HistoryOK'
      BY <1>5, <1>9, HistoryKept DEF Tidy
    <2>2. \A i \in 1..c, k \in 1..n - 1 :
            carried[i].order <= Unhandled'[k] /\ carried[i].order # Unhandled'[k]
      BY <1>1, <1>2, <1>3, <1>6, <1>8
    <2>3. BeforeRest'
      BY <1>1, <1>9, <2>2 DEF BeforeRest, c
    <2> QED BY <1>7, <2>1, <2>3 DEF Tidy
  <1>10. CASE \E e \in Entry : e.order = h /\ carried' = Append(carried, e)
    <2>1. PICK e \in Entry : e.order = h /\ carried' = Append(carried, e)
      BY <1>10
    <2>2. /\ Len(carried') = c + 1 /\ carried'[c + 1] = e
          /\ \A i \in 1..c : carried'[i] = carried[i]
      BY <1>3, <2>1, AppendProperties DEF c
    <2>3. ASSUME NEW i \in 1..c + 1 PROVE i = c + 1 \/ i \in 1..c
      BY <1>3
    <2>4. h \in Int /\ h <= Len(orders) /\ \A k \in 1..n - 1 : h < Unhandled'[k]
      BY <1>1, <1>2, <1>4, <1>6
    <2>5. \A i \in 1..c : carried[i].order <= h /\ (carried[i].order = h => i = c /\ IsLong(h))
      BY <1>1, <1>4, <1>6 DEF h
    <2>6. HistoryOK'
      BY <2>1, <2>4, <2>5, HistoryGrows DEF c, Tidy
    <2>7. ASSUME NEW i \in 1..c + 1, NEW k \in 1..n - 1
          PROVE  carried'[i].order <= Unhandled'[k] /\ carried'[i].order # Unhandled'[k]
      <3>1. Unhandled'[k] \in Int
        BY <1>1, <1>2, <1>6
      <3>2. CASE i = c + 1
        <4>1. carried'[i].order = h /\ h < Unhandled'[k]
          BY <2>1, <2>2, <2>4, <3>2
        <4>2. h \in Int
          BY <2>4
        <4> QED BY <3>1, <4>1, <4>2, Less
      <3>3. CASE i \in 1..c
        <4>1. carried'[i].order = carried[i].order /\ carried[i].order < Unhandled'[k]
          BY <1>8, <2>2, <3>3
        <4>2. carried[i].order \in Int
          BY <1>3, <3>3
        <4> QED BY <3>1, <4>1, <4>2, Less
      <3> QED BY <2>3, <3>2, <3>3
    <2>8. BeforeRest'
      BY <1>1, <2>2, <2>7 DEF BeforeRest
    <2> QED BY <1>7, <2>6, <2>8 DEF Tidy
  <1> QED BY <1>9, <1>10 DEF h

\* The first piece of a long order is done.
LEMMA RestHalved ==
  ASSUME Tidy, orders' = orders, Len(orders) \in Nat, Unhandled \in Seq(Order), Unhandled # <<>>,
         Unhandled' = Unhandled, ~HalfDone, HalfDone',
         \/ carried' = carried
         \/ \E e \in Entry : e.order = Head(Unhandled) /\ carried' = Append(carried, e)
  PROVE  Tidy'
  <1> DEFINE n == Len(Unhandled)
             c == Len(carried)
             h == Head(Unhandled)
  <1>1. n \in Nat \ {0} /\ h = Unhandled[1] /\ 1 \in 1..n
    BY HeadTailProperties, LenProperties, EmptySeq
  <1>2. \A k \in 1..n : Unhandled[k] \in Int
    BY ElementOfSeq, OrderIsInt
  <1>3. c \in Nat /\ carried \in Seq(Entry) /\ \A i \in 1..c : carried[i].order \in Int
    BY HistoryOrders, LenProperties DEF Tidy, HistoryOK
  <1>4. /\ \A k \in 1..n : Unhandled[k] <= Len(orders)
        /\ \A j, k \in 1..n : j < k => Unhandled[j] < Unhandled[k]
        /\ \A i \in 1..c, k \in 1..n :
             carried[i].order <= Unhandled[k] /\ carried[i].order # Unhandled[k]
    BY DEF Tidy, RestOK, BeforeRest
  <1>5. OrdersKept
    BY DEF OrdersKept
  <1>6. CASE carried' = carried
    BY <1>5, <1>6, RestKept
  <1> HIDE DEF n, c, h
  <1>7. CASE \E e \in Entry : e.order = h /\ carried' = Append(carried, e)
    <2>1. PICK e \in Entry : e.order = h /\ carried' = Append(carried, e)
      BY <1>7
    <2>2. /\ Len(carried') = c + 1 /\ carried'[c + 1] = e
          /\ \A i \in 1..c : carried'[i] = carried[i]
      BY <1>3, <2>1, AppendProperties DEF c
    <2>3. ASSUME NEW i \in 1..c + 1 PROVE i = c + 1 \/ i \in 1..c
      BY <1>3
    <2>4. h \in Int /\ h <= Len(orders)
      BY <1>1, <1>2, <1>4
    <2>5. ASSUME NEW k \in 1..n PROVE h <= Unhandled[k] /\ (h = Unhandled[k] => k = 1)
      BY <1>1, <1>2, <1>4
    <2>6. \A i \in 1..c : carried[i].order <= h /\ carried[i].order # h
      BY <1>1, <1>4
    <2>7. HistoryOK'
      BY <2>1, <2>4, <2>6, HistoryGrows DEF c, Tidy
    <2>8. ASSUME NEW i \in 1..c + 1, NEW k \in 1..n
          PROVE  /\ carried'[i].order <= Unhandled[k]
                 /\ carried'[i].order = Unhandled[k] => i = c + 1 /\ k = 1
      <3>1. CASE i = c + 1
        BY <2>1, <2>2, <2>5, <3>1
      <3>2. CASE i \in 1..c
        BY <1>4, <2>2, <3>2
      <3> QED BY <2>3, <3>1, <3>2
    <2>9. BeforeRest'
      BY <2>2, <2>8 DEF BeforeRest, n
    <2>10. RestOK'
      BY DEF Tidy, RestOK
    <2> QED BY <2>7, <2>9, <2>10 DEF Tidy
  <1> QED BY <1>6, <1>7 DEF h

-----------------------------------------------------------------------------
(* The steps                                                               *)

\* What a piece appends to the history.
LEMMA HandleEntry ==
  ASSUME OrderInv, HandlePiece
  PROVE  /\ connected /\ wire # <<>> /\ Head(wire) \in 1..Len(orders)
         /\ Unhandled # <<>> /\ Head(Unhandled) = Head(wire)
         /\ \/ carried' = carried
            \/ \E e \in Entry : /\ e.order = Head(wire) /\ carried' = Append(carried, e)
                                /\ e.acts = Performed(Head(pieces)) /\ e.acts # {}
  <1>1. task = "handling" /\ wire # <<>> /\ connected
    BY DEF HandlePiece, OrderInv, TypeInv, SessionOK
  <1>2. /\ Head(wire) \in 1..Len(orders) /\ Head(wire) \in Order
        /\ Unhandled # <<>> /\ Head(Unhandled) = Head(wire)
    BY <1>1, HandSent
  <1> DEFINE a == Performed(Head(pieces))
  <1>3. a \in SUBSET ToSet(Topics)
    BY DEF Performed
  <1>4. carried' = IF a = {} THEN carried ELSE Append(carried, [order |-> Head(wire), acts |-> a])
    BY DEF HandlePiece
  <1> HIDE DEF a
  <1>5. [order |-> Head(wire), acts |-> a] \in Entry
    BY <1>2, <1>3 DEF Entry
  <1>6. \/ carried' = carried
        \/ \E e \in Entry : /\ e.order = Head(wire) /\ carried' = Append(carried, e)
                            /\ e.acts = a /\ a # {}
    BY <1>4, <1>5
  <1> QED BY <1>1, <1>2, <1>6 DEF a

\* While an order is in hand, half done or not, the other actors leave it so.
LEMMA HalfKept ==
  ASSUME OrderInv, HalfDone,
         \/ \E m \in Messages : SendOrder(m)
         \/ Push \/ LinkLost \/ Subscribe \/ Receive \/ Acknowledge \/ UNCHANGED vars
  PROVE  HalfDone'
  <1>1. task = "handling" /\ IsLong(Head(wire)) /\ wire # <<>> /\ connected
    BY DEF HalfDone, OrderInv, TypeInv, SessionOK
  <1>2. ASSUME NEW m \in Messages, SendOrder(m) PROVE HalfDone'
    <2>1. UNCHANGED <<task, wire, pieces>>
      BY <1>2 DEF SendOrder
    <2>2. Head(wire) \in 1..Len(orders)
      BY <1>1, HandSent
    <2>3. orders'[Head(wire)] = orders[Head(wire)]
      BY <1>2, <2>2, SendQueue DEF OrderInv
    <2> QED BY <2>1, <2>3 DEF HalfDone, IsLong
  <1>3. CASE Push
    <2>1. UNCHANGED <<task, orders, pieces>>
      BY <1>3 DEF Push
    <2>2. Head(wire') = Head(wire)
      BY <1>1, <1>3, SameHead DEF OrderInv
    <2> QED BY <2>1, <2>2 DEF HalfDone, IsLong
  <1>4. CASE LinkLost
    BY <1>4 DEF LinkLost, brokerVars, HalfDone, IsLong
  <1>5. CASE UNCHANGED vars
    BY <1>5 DEF vars, brokerVars, HalfDone, IsLong
  <1>6. CASE Subscribe \/ Receive \/ Acknowledge
    BY <1>1, <1>6 DEF Subscribe, Receive, Acknowledge
  <1> QED BY <1>2, <1>3, <1>4, <1>5, <1>6

LEMMA HandleTidy ==
  ASSUME OrderInv, HandlePiece
  PROVE  Tidy'
  <1>1. TypeInv /\ HandOK /\ Tidy /\ Unhandled \in Seq(Order) /\ Len(orders) \in Nat
    BY UnhandledType, LenProperties DEF OrderInv, Tidy, TypeInv, SessionOK
  <1>2. /\ task = "handling" /\ UNCHANGED <<orders, connected, queue, pushed, wire>>
        /\ pieces' = Tail(pieces)
        /\ task' = IF Len(pieces) = 1 THEN "acknowledging" ELSE task
    BY DEF HandlePiece, brokerVars
  <1>3. /\ Unhandled # <<>> /\ Head(Unhandled) = Head(wire)
        /\ \/ carried' = carried
           \/ \E e \in Entry : e.order = Head(Unhandled) /\ carried' = Append(carried, e)
    BY HandleEntry
  <1>4. CASE Len(pieces) = 1
    <2>1. Unhandled' = Tail(Unhandled)
      BY <1>1, <1>4, HandleUnhandled
    <2>2. HalfDone => IsLong(Head(Unhandled))
      BY <1>3 DEF HalfDone
    <2> QED BY <1>1, <1>2, <1>3, <2>1, <2>2, RestShrinks
  <1>5. CASE Len(pieces) # 1
    <2>1. PICK a, b : IsLong(Head(wire)) /\ pieces = <<a, b>>
      BY <1>1, <1>2, <1>5, HandPieces
    <2>2. task' = "handling" /\ Len(pieces') = 1
      BY <1>2, <1>5, <2>1
    <2>3. Unhandled' = Unhandled
      BY <1>2, <2>2, KeptUnhandled
    <2>4. ~HalfDone /\ HalfDone'
      BY <1>2, <1>5, <2>1, <2>2 DEF HalfDone, IsLong
    <2> QED BY <1>1, <1>2, <1>3, <2>3, <2>4, RestHalved
  <1> QED BY <1>4, <1>5

LEMMA TidyStep ==
  ASSUME OrderInv, [Next]_vars
  PROVE  Tidy'
  <1>1. TypeInv /\ Tidy /\ Unhandled \in Seq(Order) /\ Len(orders) \in Nat
    BY UnhandledType, LenProperties DEF OrderInv, Tidy, TypeInv, SessionOK
  <1>2. ASSUME NEW m \in Messages, SendOrder(m) PROVE Tidy'
    <2>1. carried' = carried
      BY <1>2 DEF SendOrder
    <2>2. /\ Len(orders') = Len(orders) + 1 /\ Len(orders) + 1 \in Order
          /\ \A o \in 1..Len(orders) : orders'[o] = orders[o]
      BY <1>1, <1>2, SendQueue
    <2>3. OrdersKept
      BY <1>1, <2>2 DEF OrdersKept
    <2>4. Unhandled' = Unhandled \/ Unhandled' = Append(Unhandled, Len(orders) + 1)
      BY <1>1, <1>2, SendUnhandled
    <2>5. HalfDone => HalfDone'
      BY <1>2, HalfKept
    <2>6. CASE Unhandled' = Unhandled
      BY <1>1, <2>1, <2>3, <2>5, <2>6, RestKept
    <2>7. CASE Unhandled' = Append(Unhandled, Len(orders) + 1)
      BY <1>1, <2>1, <2>2, <2>3, <2>5, <2>7, RestGrows
    <2> QED BY <2>4, <2>6, <2>7
  <1>3. CASE Connect \/ Notice
    <2>1. orders' = orders /\ carried' = carried
      BY <1>3 DEF Connect, Notice, brokerVars
    <2>2. OrdersKept
      BY <1>1, <2>1 DEF OrdersKept
    <2> QED BY <1>1, <1>3, <2>1, <2>2, ForgetUnhandled, RestLost
  <1>4. CASE HandlePiece
    BY <1>4, HandleTidy
  <1>5. CASE Push \/ LinkLost \/ Subscribe \/ Receive \/ Acknowledge \/ UNCHANGED vars
    <2>1. orders' = orders /\ carried' = carried
      BY <1>5 DEF Push, LinkLost, Subscribe, Receive, Acknowledge, vars, brokerVars
    <2>2. Unhandled' = Unhandled
      BY <1>1, <1>5, KeptSteps
    <2>3. OrdersKept
      BY <1>1, <2>1 DEF OrdersKept
    <2>4. HalfDone => HalfDone'
      BY <1>5, HalfKept
    <2> QED BY <1>1, <2>1, <2>2, <2>3, <2>4, RestKept
  <1> QED BY <1>2, <1>3, <1>4, <1>5 DEF Next, MqttTask

LEMMA OrderStep == OrderInv /\ [Next]_vars => OrderInv'
  BY TypesStep, HandStep, TidyStep DEF OrderInv, Tidy

LEMMA OrderInvHolds == Spec => []OrderInv
  BY OrdersInit, OrderStep, PTL DEF Spec

\* The actions of a message with a topic are that topic's or none.
LEMMA OneTopic ==
  ASSUME NEW m, m.topic # "" PROVE Performed(m) \in {{}, {m.topic}}
  BY DEF Performed, Matches

LEMMA ActsStep ==
  ASSUME NamedOrders, OrderInv, ActsOK, [Next]_vars
  PROVE  ActsOK'
  <1>1. orders \in Seq(Messages) /\ carried \in Seq(Entry) /\ Len(carried) \in Nat /\ Len(orders) \in Nat
    BY LenProperties DEF OrderInv, TypeInv, SessionOK, HistoryOK
  <1>2. \A i \in 1..Len(carried) : carried[i].order \in 1..Len(orders)
    BY <1>1, HistoryOrders DEF OrderInv
  <1>3. ASSUME NEW m \in Messages, SendOrder(m) PROVE ActsOK'
    <2>1. carried' = carried
      BY <1>3 DEF SendOrder
    <2>2. \A i \in 1..Len(orders) : orders'[i] = orders[i]
      BY <1>3, SendQueue DEF OrderInv
    <2> QED BY <1>2, <2>1, <2>2 DEF ActsOK, IsLong
  <1>4. CASE HandlePiece
    <2>1. orders' = orders /\ task = "handling"
      BY <1>4 DEF HandlePiece, brokerVars
    <2>2. CASE carried' = carried
      BY <2>1, <2>2 DEF ActsOK, IsLong
    <2>3. CASE carried' # carried
      <3>1. PICK e \in Entry : /\ e.order = Head(wire) /\ carried' = Append(carried, e)
                               /\ e.acts = Performed(Head(pieces)) /\ e.acts # {}
        BY <1>4, <2>3, HandleEntry
      <3>2. orders[Head(wire)] \in Messages
        BY <1>1, <1>4, HandleEntry, ElementOfSeq
      <3>3. ~IsLong(Head(wire)) => Head(pieces) = orders[Head(wire)]
        BY <2>1, HandPieces DEF OrderInv
      <3>4. ~IsLong(e.order) => e.acts = {orders[e.order].topic}
        BY <3>1, <3>2, <3>3, OneTopic DEF NamedOrders
      <3>5. /\ Len(carried') = Len(carried) + 1 /\ carried'[Len(carried) + 1] = e
            /\ \A i \in 1..Len(carried) : carried'[i] = carried[i]
        BY <1>1, <3>1, AppendProperties
      <3>6. ASSUME NEW i \in 1..Len(carried) + 1, ~IsLong(carried'[i].order)
            PROVE  carried'[i].acts = {orders[carried'[i].order].topic}
        <4>1. CASE i = Len(carried) + 1
          BY <3>4, <3>5, <3>6, <4>1
        <4>2. CASE i # Len(carried) + 1
          <5>1. i \in 1..Len(carried)
            BY <1>1, <4>2
          <5> QED BY <3>5, <3>6, <5>1 DEF ActsOK
        <4> QED BY <4>1, <4>2
      <3> QED BY <2>1, <3>5, <3>6 DEF ActsOK, IsLong
    <2> QED BY <2>2, <2>3
  <1>5. CASE Push \/ LinkLost \/ Connect \/ Subscribe \/ Notice \/ Receive \/ Acknowledge \/ UNCHANGED vars
    BY <1>5 DEF Push, LinkLost, Connect, Subscribe, Notice, Receive, Acknowledge, vars, brokerVars,
                ActsOK, IsLong
  <1> QED BY <1>3, <1>4, <1>5 DEF Next, MqttTask

\* What is carried out follows the order of the sending, and only a long
\* order is carried out twice, its pieces one after the other.
OrdersInTurn ==
  \A i, j \in DOMAIN carried :
    i < j => /\ carried[i].order <= carried[j].order
             /\ carried[i].order = carried[j].order
                  => j = i + 1 /\ orders[carried[i].order].payload = "long"

\* Whatever the length of the messages and however the connection breaks,
\* orders are carried out in their turn: none is taken up again after a newer
\* one, nor after a reconnection (client.c:99-114, 160).
THEOREM OrdersInTurnHolds == Spec => []OrdersInTurn
  <1>1. OrderInv => OrdersInTurn
    <2>1. OrderInv => DOMAIN carried = 1..Len(carried)
      BY LenProperties DEF OrderInv, HistoryOK
    <2> QED BY <2>1 DEF OrderInv, HistoryOK, OrdersInTurn, IsLong
  <1> QED BY <1>1, OrderInvHolds, PTL

\* An order in one piece did what its topic says.
ShortOrdersObeyed ==
  \A i \in DOMAIN carried :
    orders[carried[i].order].payload # "long"
      => carried[i].acts = {orders[carried[i].order].topic}

\* An order that fits into the buffer does what its topic says and nothing
\* else, whether long ones come before it or not (client.c:29-61).
THEOREM ShortOrdersObeyedHolds ==
  ASSUME NamedOrders PROVE Spec => []ShortOrdersObeyed
  <1>1. Init => OrderInv /\ ActsOK
    BY OrdersInit
  <1>2. OrderInv /\ ActsOK /\ [Next]_vars => OrderInv' /\ ActsOK'
    BY OrderStep, ActsStep
  <1>3. OrderInv /\ ActsOK => ShortOrdersObeyed
    <2>1. OrderInv => DOMAIN carried = 1..Len(carried)
      BY LenProperties DEF OrderInv, HistoryOK
    <2> QED BY <2>1 DEF ActsOK, IsLong, ShortOrdersObeyed
  <1> QED BY <1>1, <1>2, <1>3, PTL DEF Spec

-----------------------------------------------------------------------------
(* Orders that fit into the buffer                                         *)

\* Of longer ones the properties below do not hold, as the run order_long
\* shows.
ShortOrders == \A m \in Messages : m.payload # "long"

\* However the connection breaks, an order is carried out at most once, in
\* the order of the sending, and does what its topic says and nothing else
\* (client.c:29-61, 99-114, 160).
THEOREM OrdersOnceHolds ==
  ASSUME ShortOrders, NamedOrders PROVE Spec => []OrdersOnce
  <1>1. OrderInv /\ OrdersInTurn /\ ShortOrdersObeyed => OrdersOnce
    <2> SUFFICES ASSUME OrderInv, OrdersInTurn, ShortOrdersObeyed PROVE OrdersOnce
      OBVIOUS
    <2>1. orders \in Seq(Messages) /\ Len(orders) \in Nat /\ DOMAIN carried = 1..Len(carried)
      BY LenProperties DEF OrderInv, TypeInv, SessionOK, HistoryOK
    <2>2. \A i \in DOMAIN carried :
            carried[i].order \in Int /\ orders[carried[i].order].payload # "long"
      <3>1. ASSUME NEW i \in 1..Len(carried) PROVE orders[carried[i].order] \in Messages
        BY <2>1, HistoryOrders, ElementOfSeq DEF OrderInv
      <3> QED BY <2>1, <3>1, HistoryOrders DEF OrderInv, ShortOrders
    <2>3. \A i, j \in DOMAIN carried : i < j => carried[i].order < carried[j].order
      BY <2>2 DEF OrdersInTurn
    <2> QED BY <2>2, <2>3 DEF OrdersOnce, ShortOrdersObeyed
  <1> QED BY <1>1, OrderInvHolds, OrdersInTurnHolds, ShortOrdersObeyedHolds, PTL

\* A feed is given for an order on "distribution" and for no other
\* (client.c:32).
THEOREM FeedsOnlyOnOrderHolds ==
  ASSUME ShortOrders, NamedOrders PROVE Spec => []FeedsOnlyOnOrder
  <1>1. OrdersOnce => FeedsOnlyOnOrder
    BY DEF OrdersOnce, FeedsOnlyOnOrder
  <1>2. Spec => []OrdersOnce
    BY OrdersOnceHolds
  <1> QED BY <1>1, <1>2, PTL

-----------------------------------------------------------------------------
(* The session keeps the promise of OrderBook                              *)

LEMMA BookInit == Init => Book!Init
  <1> SUFFICES ASSUME Init PROVE Book!Init
    OBVIOUS
  <1>1. Len(orders) = 0 /\ Unhandled = <<>> /\ carried = <<>>
    BY EmptySeq DEF Init, Unhandled
  <1>2. carried \in Seq(Entry) /\ Len(carried) = 0
    BY <1>1, EmptySeq
  <1>3. OrdersOf(carried) \in Seq(Order) /\ Len(OrdersOf(carried)) = 0
    BY <1>2, OrdersOfType
  <1>4. OrdersOf(carried) = <<>>
    BY <1>3, EmptySeq
  <1> QED BY <1>1, <1>4 DEF Book!Init

\* A short order is handed over in one piece.
LEMMA ShortPiece ==
  ASSUME ShortOrders, OrderInv, HandlePiece PROVE Len(pieces) = 1
  <1>1. task = "handling"
    BY DEF HandlePiece
  <1>2. orders[Head(wire)] \in Messages
    BY HandleEntry, ElementOfSeq DEF OrderInv, TypeInv, SessionOK
  <1>3. pieces = <<orders[Head(wire)]>>
    BY <1>1, <1>2, HandPieces DEF OrderInv, ShortOrders, IsLong
  <1> QED BY <1>3

LEMMA BookStep ==
  ASSUME ShortOrders, OrderInv, [Next]_vars
  PROVE  [Book!Next]_(Book!bookVars)
  <1> DEFINE Goal == [Book!Next]_(Book!bookVars)
  <1>1. TypeInv /\ Unhandled \in Seq(Order) /\ Len(orders) \in Nat /\ carried \in Seq(Entry)
    BY UnhandledType, LenProperties DEF OrderInv, HistoryOK, TypeInv, SessionOK
  <1>2. ASSUME NEW m \in Messages, SendOrder(m) PROVE Goal
    <2>1. OrdersOf(carried)' = OrdersOf(carried)
      BY <1>2 DEF SendOrder, OrdersOf
    <2>2. Len(orders') = Len(orders) + 1
      BY <1>1, <1>2, SendQueue
    <2>3. Unhandled' \in {Unhandled, Append(Unhandled, Len(orders) + 1)}
      BY <1>1, <1>2, SendUnhandled
    <2>4. Book!Send
      BY <2>1, <2>2, <2>3 DEF Book!Send
    <2> QED BY <2>4 DEF Book!Next
  <1>3. CASE Connect \/ Notice
    <2>1. Unhandled' = <<>>
      BY <1>1, <1>3, ForgetUnhandled
    <2>2. orders' = orders /\ carried' = carried
      BY <1>3 DEF Connect, Notice, brokerVars
    <2>3. Book!Forget
      BY <2>1, <2>2 DEF Book!Forget, OrdersOf
    <2> QED BY <2>3 DEF Book!Next
  <1>4. CASE HandlePiece
    <2>1. orders' = orders /\ Len(pieces) = 1
      BY <1>4, ShortPiece DEF HandlePiece, brokerVars
    <2>2. Unhandled # <<>> /\ Head(Unhandled) = Head(wire) /\ Unhandled' = Tail(Unhandled)
      BY <1>1, <1>4, <2>1, HandleUnhandled
    <2>3. CASE carried' = carried
      <3>1. Book!PassOver
        BY <2>1, <2>2, <2>3 DEF Book!PassOver, OrdersOf
      <3> QED BY <3>1 DEF Book!Next
    <2>4. CASE carried' # carried
      <3>1. PICK e \in Entry : e.order = Head(wire) /\ carried' = Append(carried, e)
        BY <1>4, <2>4, HandleEntry
      <3>2. OrdersOf(carried') = Append(OrdersOf(carried), Head(Unhandled))
        BY <1>1, <2>2, <3>1, OrdersOfAppend
      <3>3. Book!CarryOut
        BY <2>1, <2>2, <3>2 DEF Book!CarryOut
      <3> QED BY <3>3 DEF Book!Next
    <2> QED BY <2>3, <2>4
  <1>5. CASE Push \/ LinkLost \/ Subscribe \/ Receive \/ Acknowledge \/ UNCHANGED vars
    <2>1. orders' = orders /\ carried' = carried
      BY <1>5 DEF Push, LinkLost, Subscribe, Receive, Acknowledge, vars, brokerVars
    <2>2. Unhandled' = Unhandled
      BY <1>1, <1>5, KeptSteps
    <2> QED BY <2>1, <2>2 DEF Book!bookVars, OrdersOf
  <1> QED BY <1>2, <1>3, <1>4, <1>5 DEF Next, MqttTask

\* An order is carried out once and in its turn, or never: each step of the
\* session takes an order, carries the oldest one out, passes over it,
\* forgets them all, or does nothing of the kind (client.c:29-120).
THEOREM SessionImplementsBook ==
  ASSUME ShortOrders PROVE Spec => ImplementsBook
  <1>1. Spec => []OrderInv
    BY OrderInvHolds
  <1>2. OrderInv /\ [Next]_vars => [Book!Next]_(Book!bookVars)
    BY BookStep
  <1>3. Spec => Book!Init /\ [][Book!Next]_(Book!bookVars)
    BY <1>1, <1>2, BookInit, PTL DEF Spec
  <1> QED BY <1>3 DEF ImplementsBook, Book!Spec
=============================================================================
