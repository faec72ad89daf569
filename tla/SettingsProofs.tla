---------------------------- MODULE SettingsProofs ----------------------------
(***************************************************************************)
(* Proofs about the settings of the feeder: how they travel (ConfigSync),  *)
(* for any set of blobs and any number of updates and restarts; and how    *)
(* they are written and read (SettingsText), for texts and numbers of any  *)
(* length.  The latter need inductions over the digits of a number, done   *)
(* with sets of numbers.                                                   *)
(***************************************************************************)
EXTENDS ConfigSync, SettingsText, SequenceTheorems, WellFoundedInduction, TLAPS

-----------------------------------------------------------------------------
(* ConfigSync                                                              *)

LEMMA DocsNat == Docs \subseteq Nat /\ 0 \in Docs
  BY ConfigAssumption DEF Docs, ConfigAssumption

\* A publication stays within the types of the outbox and the histories.
LEMMA AnnounceType ==
  ASSUME TypeOK, NEW k \in Kinds, NEW text \in Docs, Announce(k, text)
  PROVE  /\ outbox' \subseteq Messages
         /\ newest' \in [Kinds -> Docs]
         /\ regress' \in [Kinds -> Nat]
  <1>1. outbox' \subseteq Messages
    BY DEF Announce, TypeOK, Messages
  <1>2. newest' \in [Kinds -> Docs] /\ regress' \in [Kinds -> Nat]
    BY DEF Announce, TypeOK
  <1> QED BY <1>1, <1>2

\* Every step keeps the types.
LEMMA ConfigTypeStep == TypeOK /\ [Next]_vars => TypeOK'
  <1> SUFFICES ASSUME TypeOK, [Next]_vars PROVE TypeOK'
    OBVIOUS
  <1>1. ASSUME NEW k \in Kinds, Receive(k) PROVE TypeOK'
    BY <1>1, ConfigAssumption DEF Receive, TypeOK, Docs, ConfigAssumption
  <1>2. ASSUME NEW k \in Kinds, Write(k) PROVE TypeOK'
    BY <1>2 DEF Write, TypeOK
  <1>3. ASSUME NEW k \in Kinds, SendUpdated(k) PROVE TypeOK'
    <2>1. Announce(k, flash[k]) /\ flash[k] \in Docs
      BY <1>3 DEF SendUpdated, TypeOK, get_json
    <2> QED
      BY <1>3, <2>1, AnnounceType, DocsNat DEF SendUpdated, TypeOK, IdleHandler
  <1>4. ASSUME NEW k \in Kinds, send_callback(k) PROVE TypeOK'
    BY <1>4 DEF send_callback, TypeOK, get_json
  <1>5. CASE PublishReport
    <2>1. Announce(report.kind, report.text) /\ report.kind \in Kinds /\ report.text \in Docs
      BY <1>5 DEF PublishReport, TypeOK
    <2> QED
      BY <1>5, <2>1, AnnounceType, DocsNat DEF PublishReport, TypeOK, IdleReport
  <1>6. ASSUME NEW m \in Messages, Deliver(m) \/ DeliverUnacknowledged(m) \/ Expire(m)
        PROVE  TypeOK'
    BY <1>6 DEF Deliver, DeliverUnacknowledged, Expire, TypeOK, Messages
  <1>7. CASE Restart
    BY <1>7, DocsNat, ConfigAssumption
    DEF Restart, TypeOK, IdleHandler, IdleReport, ConfigAssumption
  <1>8. CASE UNCHANGED vars
    BY <1>8 DEF vars, TypeOK
  <1> QED BY <1>1, <1>2, <1>3, <1>4, <1>5, <1>6, <1>7, <1>8 DEF Next

\* The invariant holds before the first step.
LEMMA ConfigInit == Init => ConfigInv
  BY DocsNat, ConfigAssumption
  DEF Init, ConfigInv, TypeOK, OnTheWayWasStored, ShownWasStored, InOrder,
      StaleIsSpent, AtMostOneStaleReport, IdleHandler, IdleReport, Docs,
      ConfigAssumption

\* The payloads on the way stay among the stored documents.
LEMMA StoredStep ==
  ConfigInv /\ [Next]_vars => OnTheWayWasStored' /\ ShownWasStored'
  <1> SUFFICES ASSUME TypeOK, OnTheWayWasStored, ShownWasStored, [Next]_vars
               PROVE  OnTheWayWasStored' /\ ShownWasStored'
    BY DEF ConfigInv
  <1> USE DEF OnTheWayWasStored, ShownWasStored
  <1>1. ASSUME NEW k \in Kinds, Receive(k)
        PROVE  OnTheWayWasStored' /\ ShownWasStored'
    BY <1>1 DEF Receive
  <1>2. ASSUME NEW k \in Kinds, Write(k)
        PROVE  OnTheWayWasStored' /\ ShownWasStored'
    <2>1. \A j \in Kinds : stored[j] \subseteq stored'[j]
      BY <1>2 DEF Write, TypeOK
    <2>2. \A j \in Kinds : flash'[j] \in stored'[j]
      BY <1>2 DEF Write, TypeOK
    <2>3. report' = report /\ outbox' = outbox /\ shown' = shown
      BY <1>2 DEF Write
    <2> QED BY <2>1, <2>2, <2>3 DEF TypeOK, Messages
  <1>3. ASSUME NEW k \in Kinds, SendUpdated(k)
        PROVE  OnTheWayWasStored' /\ ShownWasStored'
    BY <1>3 DEF SendUpdated, Announce, get_json, TypeOK
  <1>4. ASSUME NEW k \in Kinds, send_callback(k)
        PROVE  OnTheWayWasStored' /\ ShownWasStored'
    BY <1>4 DEF send_callback, get_json, TypeOK
  <1>5. CASE PublishReport
    BY <1>5 DEF PublishReport, Announce, IdleReport, TypeOK
  <1>6. ASSUME NEW m \in Messages, Deliver(m) \/ DeliverUnacknowledged(m) \/ Expire(m)
        PROVE  OnTheWayWasStored' /\ ShownWasStored'
    BY <1>6 DEF Deliver, DeliverUnacknowledged, Expire, TypeOK, Messages
  <1>7. CASE Restart
    BY <1>7 DEF Restart, IdleReport
  <1>8. CASE UNCHANGED vars
    BY <1>8 DEF vars
  <1> QED BY <1>1, <1>2, <1>3, <1>4, <1>5, <1>6, <1>7, <1>8 DEF Next

\* Announcing a text no newer than the flash keeps the announcements in
\* order; only a text older than the newest one counts as stale.
LEMMA AnnounceOrder ==
  ASSUME TypeOK, InOrder, NEW k \in Kinds, NEW text \in Docs, text <= flash[k],
         Announce(k, text)
  PROVE  /\ \A j \in Kinds : newest'[j] <= flash[j]
         /\ \A j \in Kinds : j # k => newest'[j] = newest[j] /\ regress'[j] = regress[j]
         /\ text >= newest[k] => regress'[k] = 0 \/ (regress'[k] = regress[k] /\ newest'[k] = newest[k])
         /\ text < newest[k] => regress'[k] = regress[k] + 1 /\ newest'[k] = newest[k]
  <1>1. CASE text >= newest[k]
    <2>1. newest' = [newest EXCEPT ![k] = text]
      BY <1>1 DEF Announce
    <2>2. regress' = IF text > newest[k] THEN [regress EXCEPT ![k] = 0] ELSE regress
      BY <1>1 DEF Announce
    <2>3. text \in Nat /\ newest[k] \in Nat
      BY DocsNat DEF TypeOK
    <2> QED BY <1>1, <2>1, <2>2, <2>3 DEF TypeOK, InOrder
  <1>2. CASE ~(text >= newest[k])
    <2>1. newest' = newest /\ regress' = [regress EXCEPT ![k] = @ + 1]
      BY <1>2 DEF Announce
    <2> QED BY <1>2, <2>1 DEF TypeOK, InOrder
  <1> QED BY <1>1, <1>2

\* Documents are stored and announced in the order of their receipt, and the
\* only announcement out of order is the one the timer task had in hand.
LEMMA OrderStep ==
  ConfigInv /\ [Next]_vars => InOrder' /\ StaleIsSpent' /\ AtMostOneStaleReport'
  <1> SUFFICES ASSUME TypeOK, InOrder, StaleIsSpent, AtMostOneStaleReport, [Next]_vars
               PROVE  InOrder' /\ StaleIsSpent' /\ AtMostOneStaleReport'
    BY DEF ConfigInv
  <1> DEFINE Goal == InOrder /\ StaleIsSpent /\ AtMostOneStaleReport
  <1>a. /\ updates \in Nat /\ handler.doc \in Nat /\ report.text \in Nat
        /\ \A k \in Kinds : flash[k] \in Nat /\ newest[k] \in Nat /\ regress[k] \in Nat
    BY DocsNat DEF TypeOK
  <1>1. ASSUME NEW k \in Kinds, Receive(k) PROVE Goal'
    BY <1>1, <1>a DEF Receive, InOrder, StaleIsSpent, AtMostOneStaleReport, TypeOK
  <1>2. ASSUME NEW k \in Kinds, Write(k) PROVE Goal'
    <2>1. \A j \in Kinds : flash[j] <= flash'[j] /\ flash'[j] <= updates
      BY <1>2, <1>a DEF Write, InOrder, TypeOK
    <2>2. /\ report' = report /\ newest' = newest /\ regress' = regress
          /\ updates' = updates /\ handler'.step = "announcing"
      BY <1>2 DEF Write, TypeOK
    <2>3. \A j \in Kinds : flash'[j] \in Nat
      BY <1>2, <1>a DEF Write, TypeOK
    <2>4. InOrder'
      BY <2>1, <2>2, <2>3, <1>a DEF InOrder, TypeOK
    <2> QED BY <2>2, <2>4 DEF StaleIsSpent, AtMostOneStaleReport
  <1>3. ASSUME NEW k \in Kinds, SendUpdated(k) PROVE Goal'
    <2>1. Announce(k, flash[k]) /\ flash[k] \in Docs
      BY <1>3 DEF SendUpdated, TypeOK, get_json
    <2>2. /\ flash' = flash /\ updates' = updates /\ report' = report
          /\ handler'.step = "idle"
      BY <1>3 DEF SendUpdated, IdleHandler
    <2>3. newest[k] <= flash[k] /\ flash[k] <= flash[k]
      BY <1>a DEF InOrder
    <2>4. /\ \A j \in Kinds : newest'[j] <= flash[j]
          /\ \A j \in Kinds : \/ newest'[j] = newest[j] /\ regress'[j] = regress[j]
                              \/ regress'[j] = 0
      BY <2>1, <2>3, AnnounceOrder
    <2>5. InOrder'
      BY <2>2, <2>4 DEF InOrder
    <2> QED BY <2>2, <2>4, <2>5 DEF StaleIsSpent, AtMostOneStaleReport
  <1>4. ASSUME NEW k \in Kinds, send_callback(k) PROVE Goal'
    BY <1>4, <1>a
    DEF send_callback, get_json, InOrder, StaleIsSpent, AtMostOneStaleReport
  <1>5. CASE PublishReport
    <2> DEFINE k == report.kind
    <2>1. /\ Announce(k, report.text) /\ k \in Kinds /\ report.text \in Docs
          /\ report.text <= flash[k]
      BY <1>5 DEF PublishReport, TypeOK, InOrder
    <2>2. /\ flash' = flash /\ updates' = updates /\ handler' = handler
          /\ report'.step = "idle"
      BY <1>5 DEF PublishReport, IdleReport
    <2>3. /\ \A j \in Kinds : newest'[j] <= flash[j]
          /\ \A j \in Kinds : j # k => regress'[j] = regress[j]
          /\ report.text >= newest[k] => regress'[k] = 0 \/ regress'[k] = regress[k]
          /\ report.text < newest[k] => regress'[k] = regress[k] + 1
      BY <2>1, AnnounceOrder
    <2>4. report.text < newest[k] => regress[k] = 0
      BY <1>5, <2>1, <1>a DEF PublishReport, StaleIsSpent
    <2>5. AtMostOneStaleReport'
      BY <2>1, <2>3, <2>4, <1>a DEF AtMostOneStaleReport
    <2>6. InOrder' /\ StaleIsSpent'
      BY <2>2, <2>3 DEF InOrder, StaleIsSpent
    <2> QED BY <2>5, <2>6
  <1>6. ASSUME NEW m \in Messages, Deliver(m) \/ DeliverUnacknowledged(m) \/ Expire(m)
        PROVE  Goal'
    BY <1>6
    DEF Deliver, DeliverUnacknowledged, Expire, InOrder, StaleIsSpent,
        AtMostOneStaleReport
  <1>7. CASE Restart
    BY <1>7
    DEF Restart, IdleHandler, IdleReport, InOrder, StaleIsSpent, AtMostOneStaleReport
  <1>8. CASE UNCHANGED vars
    BY <1>8 DEF vars, InOrder, StaleIsSpent, AtMostOneStaleReport
  <1> QED BY <1>1, <1>2, <1>3, <1>4, <1>5, <1>6, <1>7, <1>8 DEF Next

\* ConfigSync never leaves its inductive invariant.
LEMMA ConfigInvariance == Spec => []ConfigInv
  <1>1. ConfigInv /\ [Next]_vars => ConfigInv'
    BY ConfigTypeStep, StoredStep, OrderStep DEF ConfigInv
  <1> QED BY ConfigInit, <1>1, PTL DEF Spec

\* The application is only ever shown documents the feeder has stored
\* (time.c:290-309, portions.c:119-138), however writes fail and
\* publications are repeated, reordered or lost.
THEOREM OnlyStoredShown == Spec => []ShownWasStored
  BY ConfigInvariance, PTL DEF ConfigInv

\* Two tasks announce the settings (client.c:224-232) but an update is
\* followed by at most one older announcement.
THEOREM OneStaleReport == Spec => []AtMostOneStaleReport
  BY ConfigInvariance, PTL DEF ConfigInv

-----------------------------------------------------------------------------
(* Induction, for sets of numbers.                                         *)

LEMMA StrongInduction ==
  ASSUME NEW S, \A n \in Nat : (\A m \in 0..(n - 1) : m \in S) => n \in S
  PROVE  Nat \subseteq S
  <1>1. SUFFICES ASSUME Nat \ S # {} PROVE FALSE
    OBVIOUS
  <1>2. PICK x \in Nat \ S : \A y \in Nat \ S : ~(<<y, x>> \in OpToRel(<, Nat))
    BY <1>1, NatLessThanWellFounded, WFMin, Zenon
  <1>3. x \in Nat /\ \A y \in Nat : y < x => y \in S
    BY <1>2 DEF OpToRel
  <1>4. \A y \in 0..(x - 1) : y \in S
    BY <1>3
  <1> QED BY <1>2, <1>3, <1>4

LEMMA Induction ==
  ASSUME NEW S, 0 \in S, \A n \in Nat : n \in S => n + 1 \in S
  PROVE  Nat \subseteq S
  <1>1. ASSUME NEW n \in Nat, \A m \in 0..(n - 1) : m \in S PROVE n \in S
    <2>1. CASE n = 0
      BY <2>1
    <2>2. CASE n > 0
      <3>1. n - 1 \in Nat /\ n - 1 \in 0..(n - 1) /\ (n - 1) + 1 = n
        BY <2>2
      <3> QED BY <1>1, <3>1
    <2> QED BY <2>1, <2>2
  <1> QED BY <1>1, StrongInduction

-----------------------------------------------------------------------------
(* What digits are worth.                                                  *)

\* The function behind the fold of Sum10: the worth of the digits at places s.
Worth(f, text, n) ==
  f = [s \in SUBSET (1..n) |->
         IF s = {} THEN 0 ELSE 10 * f[s \ {Max(s)}] + text[Max(s)]]

LEMMA Sum10Is ==
  ASSUME NEW text, NEW n, DOMAIN text = 1..n
  PROVE  Sum10(text) = (CHOOSE f : Worth(f, text, n))[1..n]
  BY DEF Sum10, FoldLeft, MapThenFoldSet, Worth

LEMMA MaxOfLast ==
  ASSUME NEW n \in Nat, NEW s \in SUBSET (1..n), n \in s
  PROVE  Max(s) = n
  <1>1. n \in s /\ \A y \in s : n >= y
    OBVIOUS
  <1>2. \A x \in s : (\A y \in s : x >= y) => x = n
    OBVIOUS
  <1> QED BY <1>1, <1>2 DEF Max

\* There is such a function for every text.
LEMMA WorthExists ==
  ASSUME NEW text, NEW n \in Nat
  PROVE  \E f : Worth(f, text, n)
  <1> DEFINE S == {k \in Nat : \E f : Worth(f, text, k)}
  <1>1. 0 \in S
    <2>1. Worth([s \in SUBSET (1..0) |-> 0], text, 0)
      BY DEF Worth
    <2> QED BY <2>1
  <1>2. ASSUME NEW k \in Nat, k \in S PROVE k + 1 \in S
    <2>1. PICK f : Worth(f, text, k)
      BY <1>2
    <2> DEFINE g == [s \in SUBSET (1..(k + 1)) |->
                       IF k + 1 \in s THEN 10 * f[s \ {k + 1}] + text[k + 1] ELSE f[s]]
    <2>2. ASSUME NEW s \in SUBSET (1..(k + 1))
          PROVE  g[s] = IF s = {} THEN 0 ELSE 10 * g[s \ {Max(s)}] + text[Max(s)]
      <3>1. CASE k + 1 \in s
        <4>1. Max(s) = k + 1 /\ s # {}
          BY <3>1, MaxOfLast
        <4>2. s \ {k + 1} \in SUBSET (1..(k + 1)) /\ k + 1 \notin s \ {k + 1}
          OBVIOUS
        <4>3. g[s \ {k + 1}] = f[s \ {k + 1}]
          BY <4>2
        <4> QED BY <3>1, <4>1, <4>3
      <3>2. CASE k + 1 \notin s
        <4>1. s \in SUBSET (1..k)
          BY <3>2
        <4>2. g[s] = f[s]
          BY <3>2
        <4>3. s \ {Max(s)} \in SUBSET (1..k) /\ s \ {Max(s)} \in SUBSET (1..(k + 1))
              /\ k + 1 \notin s \ {Max(s)}
          BY <3>2, <4>1
        <4>4. g[s \ {Max(s)}] = f[s \ {Max(s)}]
          BY <4>3
        <4> QED BY <2>1, <4>1, <4>2, <4>4 DEF Worth
      <3> QED BY <3>1, <3>2
    <2>3. Worth(g, text, k + 1)
      BY <2>2 DEF Worth
    <2> QED BY <2>3
  <1> HIDE DEF S
  <1>3. Nat \subseteq S
    BY <1>1, <1>2, Induction
  <1> QED BY <1>3 DEF S

\* The worth of the first k digits, for each k.
LEMMA Sum10Steps ==
  ASSUME NEW text, NEW n \in Nat, DOMAIN text = 1..n
  PROVE  \E h : /\ h[0] = 0
                /\ \A k \in 1..n : h[k] = 10 * h[k - 1] + text[k]
                /\ Sum10(text) = h[n]
  <1>1. PICK f : Worth(f, text, n) /\ Sum10(text) = f[1..n]
    BY WorthExists, Sum10Is
  <1> DEFINE h == [k \in 0..n |-> f[1..k]]
  <1>2. h[0] = 0
    <2>1. 1..0 = {} /\ {} \in SUBSET (1..n)
      OBVIOUS
    <2> QED BY <1>1, <2>1 DEF Worth
  <1>3. ASSUME NEW k \in 1..n PROVE h[k] = 10 * h[k - 1] + text[k]
    <2>1. 1..k \in SUBSET (1..n) /\ k \in 1..k /\ (1..k) \ {k} = 1..(k - 1)
      OBVIOUS
    <2>2. Max(1..k) = k
      BY <2>1, MaxOfLast
    <2>3. f[1..k] = 10 * f[1..(k - 1)] + text[k]
      BY <1>1, <2>1, <2>2 DEF Worth
    <2> QED BY <2>3
  <1>4. Sum10(text) = h[n]
    BY <1>1
  <1> QED BY <1>2, <1>3, <1>4

LEMMA Sum10Empty == Sum10(<<>>) = 0
  <1>1. DOMAIN <<>> = 1..0
    OBVIOUS
  <1> QED BY <1>1, Sum10Steps

\* One more digit: ten times the worth, and the digit.
LEMMA Sum10Append ==
  ASSUME NEW text \in Seq(Nat), NEW d \in Nat
  PROVE  Sum10(Append(text, d)) = 10 * Sum10(text) + d
  <1> DEFINE n == Len(text)
             more == Append(text, d)
  <1>1. n \in Nat /\ DOMAIN text = 1..n /\ DOMAIN more = 1..(n + 1)
        /\ more[n + 1] = d /\ \A k \in 1..n : more[k] = text[k]
    BY LenProperties, AppendProperties
  <1>2. PICK h : /\ h[0] = 0
                 /\ \A k \in 1..n : h[k] = 10 * h[k - 1] + text[k]
                 /\ Sum10(text) = h[n]
    BY <1>1, Sum10Steps
  <1>3. PICK g : /\ g[0] = 0
                 /\ \A k \in 1..(n + 1) : g[k] = 10 * g[k - 1] + more[k]
                 /\ Sum10(more) = g[n + 1]
    <2>1. n + 1 \in Nat /\ DOMAIN more = 1..(n + 1)
      BY <1>1
    <2> HIDE DEF more, n
    <2> QED BY <2>1, Sum10Steps
  <1> DEFINE S == {k \in Nat : k <= n => g[k] = h[k]}
  <1>4. 0 \in S
    BY <1>2, <1>3
  <1>5. ASSUME NEW k \in Nat, k \in S PROVE k + 1 \in S
    <2>1. SUFFICES ASSUME k + 1 <= n PROVE g[k + 1] = h[k + 1]
      OBVIOUS
    <2>2. g[k] = h[k] /\ k + 1 \in 1..n /\ k + 1 \in 1..(n + 1) /\ (k + 1) - 1 = k
      BY <1>1, <1>5, <2>1
    <2>3. h[k + 1] = 10 * h[k] + text[k + 1]
      BY <1>2, <2>2
    <2>4. g[k + 1] = 10 * g[k] + more[k + 1]
      BY <1>3, <2>2
    <2> QED BY <1>1, <2>2, <2>3, <2>4
  <1>6. n \in S
    <2> HIDE DEF S
    <2> QED BY <1>1, <1>4, <1>5, Induction
  <1>7. g[n] = h[n]
    BY <1>1, <1>6
  <1>8. g[n + 1] = 10 * g[n] + more[n + 1]
    <2>1. n + 1 \in 1..(n + 1) /\ (n + 1) - 1 = n
      BY <1>1
    <2> QED BY <1>3, <2>1
  <1> QED BY <1>1, <1>2, <1>3, <1>7, <1>8

-----------------------------------------------------------------------------
(* The digits of a number.                                                 *)

\* f gives the digits of the numbers up to n.
Writes(f, n) ==
  f = [m \in 0..n |-> IF m < 10 THEN <<m>> ELSE Append(f[m \div 10], m % 10)]

LEMMA TenthIsLess ==
  ASSUME NEW m \in Nat, m >= 10
  PROVE  m \div 10 \in Nat /\ m \div 10 < m /\ m % 10 \in 0..9
         /\ m = 10 * (m \div 10) + (m % 10) /\ m \div 10 >= 1
  <1>1. m \div 10 \in Nat /\ m % 10 \in 0..9 /\ m = 10 * (m \div 10) + (m % 10)
    OBVIOUS
  <1> DEFINE q == m \div 10
             r == m % 10
  <1>2. q \in Nat /\ r \in 0..9 /\ m = 10 * q + r
    BY <1>1
  <1> HIDE DEF q, r
  <1>3. q < m /\ q >= 1
    BY <1>2
  <1> QED BY <1>2, <1>3 DEF q, r

\* The function behind Digits is determined below n...
LEMMA WritesUnique ==
  ASSUME NEW f, NEW g, NEW m \in Nat, NEW n \in Nat, Writes(f, m), Writes(g, n),
         NEW k \in Nat, k <= m, k <= n
  PROVE  f[k] = g[k]
  <1> DEFINE S == {i \in Nat : i <= m /\ i <= n => f[i] = g[i]}
  <1>1. ASSUME NEW i \in Nat, \A j \in 0..(i - 1) : j \in S PROVE i \in S
    <2>1. SUFFICES ASSUME i <= m, i <= n PROVE f[i] = g[i]
      OBVIOUS
    <2>2. /\ f[i] = IF i < 10 THEN <<i>> ELSE Append(f[i \div 10], i % 10)
          /\ g[i] = IF i < 10 THEN <<i>> ELSE Append(g[i \div 10], i % 10)
      <3>1. i \in 0..m /\ i \in 0..n
        BY <2>1
      <3>2. f[i] = IF i < 10 THEN <<i>> ELSE Append(f[i \div 10], i % 10)
        BY <3>1, Zenon DEF Writes
      <3>3. g[i] = IF i < 10 THEN <<i>> ELSE Append(g[i \div 10], i % 10)
        BY <3>1, Zenon DEF Writes
      <3> QED BY <3>2, <3>3
    <2>3. CASE i >= 10
      <3>1. i \div 10 \in 0..(i - 1)
        BY <2>3, TenthIsLess
      <3>2. i \div 10 \in S
        BY <1>1, <3>1
      <3>3. f[i \div 10] = g[i \div 10]
        BY <2>1, <3>1, <3>2
      <3> QED BY <2>2, <3>3
    <2> QED BY <2>2, <2>3
  <1> HIDE DEF S
  <1>2. k \in S
    BY <1>1, StrongInduction
  <1> QED BY <1>2 DEF S

\* ...and exists for every n.
LEMMA WritesExists ==
  ASSUME NEW n \in Nat
  PROVE  \E f : Writes(f, n)
  <1> DEFINE S == {k \in Nat : \E f : Writes(f, k)}
  <1>1. 0 \in S
    <2>1. Writes([m \in 0..0 |-> <<m>>], 0)
      BY DEF Writes
    <2> QED BY <2>1
  <1>2. ASSUME NEW k \in Nat, k \in S PROVE k + 1 \in S
    <2>1. PICK f : Writes(f, k)
      BY <1>2
    <2> DEFINE last == IF k + 1 < 10 THEN <<k + 1>>
                       ELSE Append(f[(k + 1) \div 10], (k + 1) % 10)
               g == [m \in 0..(k + 1) |-> IF m = k + 1 THEN last ELSE f[m]]
    <2>2. ASSUME NEW m \in 0..(k + 1)
          PROVE  g[m] = IF m < 10 THEN <<m>> ELSE Append(g[m \div 10], m % 10)
      <3>1. m >= 10 => m \div 10 \in 0..k /\ g[m \div 10] = f[m \div 10]
        BY TenthIsLess
      <3>2. CASE m = k + 1
        BY <3>1, <3>2
      <3>3. CASE m # k + 1
        <4>1. m \in 0..k /\ g[m] = f[m]
          BY <3>3
        <4>2. f[m] = IF m < 10 THEN <<m>> ELSE Append(f[m \div 10], m % 10)
          BY <2>1, <4>1, Zenon DEF Writes
        <4> HIDE DEF g
        <4> QED BY <3>1, <4>1, <4>2
      <3> QED BY <3>2, <3>3
    <2>3. Writes(g, k + 1)
      BY <2>2 DEF Writes
    <2> QED BY <2>3
  <1> HIDE DEF S
  <1>3. Nat \subseteq S
    BY <1>1, <1>2, Induction
  <1> QED BY <1>3 DEF S

\* What Digits does, as if it had been written without CHOOSE.
LEMMA DigitsDef ==
  ASSUME NEW n \in Nat
  PROVE  Digits[n] = IF n < 10 THEN <<n>> ELSE Append(Digits[n \div 10], n % 10)
  <1> DEFINE W(k) == CHOOSE f : Writes(f, k)
             D == [k \in Nat |-> W(k)[k]]
             Def(f) == f = [m \in Nat |-> IF m < 10 THEN <<m>> ELSE Append(f[m \div 10], m % 10)]
  <1>1. \A k \in Nat : Writes(W(k), k)
    BY WritesExists
  <1>2. ASSUME NEW m \in Nat
        PROVE  D[m] = IF m < 10 THEN <<m>> ELSE Append(D[m \div 10], m % 10)
    <2> DEFINE f == W(m)
    <2>1. Writes(f, m)
      BY <1>1
    <2>2. D[m] = f[m]
      OBVIOUS
    <2> HIDE DEF f
    <2>3. f[m] = IF m < 10 THEN <<m>> ELSE Append(f[m \div 10], m % 10)
      <3>1. m \in 0..m
        OBVIOUS
      <3> QED BY <2>1, <3>1, Zenon DEF Writes
    <2>4. ASSUME m >= 10 PROVE f[m \div 10] = D[m \div 10]
      <3>1. m \div 10 \in Nat /\ m \div 10 <= m
        BY <2>4, TenthIsLess
      <3>2. Writes(W(m \div 10), m \div 10)
        BY <1>1, <3>1
      <3> DEFINE q == m \div 10
      <3>3. D[q] = W(q)[q]
        BY <3>1
      <3>4. f[q] = W(q)[q]
        <4> HIDE DEF W
        <4> QED BY <2>1, <3>1, <3>2, WritesUnique
      <3> QED BY <3>3, <3>4
    <2> HIDE DEF D
    <2> QED BY <2>2, <2>3, <2>4
  <1>3. Def(D)
    <2> HIDE DEF W
    <2>1. D = [k \in Nat |-> D[k]]
      OBVIOUS
    <2> HIDE DEF D
    <2> QED BY <1>2, <2>1
  <1>4. Digits = CHOOSE f : Def(f)
    BY DEF Digits
  <1>5. Def(Digits)
    <2> HIDE DEF D, Def
    <2> QED BY <1>3, <1>4
  <1> QED BY <1>5

LEMMA OneDigit == ASSUME NEW n \in Nat, n < 10 PROVE Digits[n] = <<n>>
  BY DigitsDef, Zenon

LEMMA MoreDigits ==
  ASSUME NEW n \in Nat, n >= 10
  PROVE  Digits[n] = Append(Digits[n \div 10], n % 10)
  <1>1. ~(n < 10)
    OBVIOUS
  <1> QED BY <1>1, DigitsDef, Zenon

\* The digits of a number are worth the number.
LEMMA DigitsWorth ==
  ASSUME NEW n \in Nat
  PROVE  Digits[n] \in Seq(Digit) /\ Digits[n] # <<>> /\ Sum10(Digits[n]) = n
  <1> DEFINE S == {k \in Nat : /\ Digits[k] \in Seq(Digit) /\ Digits[k] # <<>>
                               /\ Sum10(Digits[k]) = k}
  <1>1. ASSUME NEW k \in Nat, \A m \in 0..(k - 1) : m \in S PROVE k \in S
    <2>1. CASE k < 10
      <3>1. Digits[k] = <<k>> /\ <<k>> = Append(<<>>, k) /\ <<>> \in Seq(Nat)
        BY <2>1, OneDigit
      <3>2. Sum10(<<k>>) = 10 * Sum10(<<>>) + k
        BY <3>1, Sum10Append
      <3>3. k \in Digit /\ <<k>> \in Seq(Digit) /\ <<k>> # <<>>
        BY <2>1 DEF Digit
      <3>4. Sum10(<<k>>) = k
        BY <3>2, Sum10Empty
      <3> QED BY <3>1, <3>3, <3>4, Zenon
    <2>2. CASE k >= 10
      <3> DEFINE q == k \div 10
                 r == k % 10
      <3>1. q \in 0..(k - 1) /\ q \in Nat /\ r \in 0..9 /\ k = 10 * q + r
        BY <2>2, TenthIsLess
      <3>2. Digits[k] = Append(Digits[q], r)
        BY <2>2, MoreDigits
      <3> HIDE DEF q, r
      <3>3. Digits[q] \in Seq(Digit) /\ Sum10(Digits[q]) = q
        BY <1>1, <3>1
      <3>4. r \in Digit /\ r \in Nat /\ Digits[q] \in Seq(Nat)
        BY <3>1, <3>3, SeqMonotonic DEF Digit
      <3>5. Sum10(Digits[k]) = 10 * q + r
        BY <3>2, <3>3, <3>4, Sum10Append
      <3>6. Digits[k] \in Seq(Digit) /\ Digits[k] # <<>>
        BY <3>2, <3>3, <3>4, AppendProperties
      <3> QED BY <3>1, <3>5, <3>6
    <2> QED BY <2>1, <2>2
  <1> HIDE DEF S
  <1>2. n \in S
    BY <1>1, StrongInduction
  <1> QED BY <1>2 DEF S

LEMMA OneMore ==
  ASSUME NEW l, NEW n \in Nat, NEW m \in 1..n, l = m + 1
  PROVE  l \in 1..(n + 1)
  OBVIOUS

LEMMA DigitsGrow ==
  ASSUME NEW n \in Nat, n >= 10
  PROVE  Len(Digits[n]) = Len(Digits[n \div 10]) + 1
  <1>1. n \div 10 \in Nat /\ n % 10 \in Digit
    BY TenthIsLess DEF Digit
  <1>2. Digits[n \div 10] \in Seq(Digit)
    BY <1>1, DigitsWorth
  <1> QED BY <1>1, <1>2, MoreDigits, AppendProperties

\* Four digits up to 9999, five up to 99999.
LEMMA DigitsLength ==
  ASSUME NEW n \in Nat
  PROVE  /\ n <= 9999 => Len(Digits[n]) \in 1..4
         /\ n <= 99999 => Len(Digits[n]) \in 1..5
  <1>1. ASSUME NEW k \in Nat, k <= 9 PROVE Len(Digits[k]) = 1
    BY <1>1, OneDigit
  <1>2. ASSUME NEW k \in Nat, k >= 10
        PROVE  \E q \in Nat : 10 * q <= k /\ Len(Digits[k]) = Len(Digits[q]) + 1
    BY <1>2, DigitsGrow, TenthIsLess
  <1>3. ASSUME NEW k \in Nat, k <= 99 PROVE Len(Digits[k]) \in 1..2
    <2>1. CASE k >= 10
      <3>1. PICK q \in Nat : 10 * q <= k /\ Len(Digits[k]) = Len(Digits[q]) + 1
        BY <2>1, <1>2
      <3>2. q <= 9
        BY <3>1, <1>3
      <3>3. Len(Digits[q]) \in 1..1
        BY <3>2, <1>1
      <3>4. 1 + 1 = 2 /\ 1 \in Nat
        OBVIOUS
      <3> QED BY <3>1, <3>3, <3>4, OneMore, Zenon
    <2>2. CASE k <= 9
      BY <1>1, <2>2
    <2> QED BY <2>1, <2>2
  <1>4. ASSUME NEW k \in Nat, k <= 999 PROVE Len(Digits[k]) \in 1..3
    <2>1. CASE k >= 10
      <3>1. PICK q \in Nat : 10 * q <= k /\ Len(Digits[k]) = Len(Digits[q]) + 1
        BY <2>1, <1>2
      <3>2. q <= 99
        BY <3>1, <1>4
      <3>3. Len(Digits[q]) \in 1..2
        BY <3>2, <1>3
      <3>4. 2 + 1 = 3 /\ 2 \in Nat
        OBVIOUS
      <3> QED BY <3>1, <3>3, <3>4, OneMore, Zenon
    <2>2. CASE k <= 9
      BY <1>1, <2>2
    <2> QED BY <2>1, <2>2
  <1>5. ASSUME NEW k \in Nat, k <= 9999 PROVE Len(Digits[k]) \in 1..4
    <2>1. CASE k >= 10
      <3>1. PICK q \in Nat : 10 * q <= k /\ Len(Digits[k]) = Len(Digits[q]) + 1
        BY <2>1, <1>2
      <3>2. q <= 999
        BY <3>1, <1>5
      <3>3. Len(Digits[q]) \in 1..3
        BY <3>2, <1>4
      <3>4. 3 + 1 = 4 /\ 3 \in Nat
        OBVIOUS
      <3> QED BY <3>1, <3>3, <3>4, OneMore, Zenon
    <2>2. CASE k <= 9
      BY <1>1, <2>2
    <2> QED BY <2>1, <2>2
  <1>6. ASSUME NEW k \in Nat, k <= 99999 PROVE Len(Digits[k]) \in 1..5
    <2>1. CASE k >= 10
      <3>1. PICK q \in Nat : 10 * q <= k /\ Len(Digits[k]) = Len(Digits[q]) + 1
        BY <2>1, <1>2
      <3>2. q <= 9999
        BY <3>1, <1>6
      <3>3. Len(Digits[q]) \in 1..4
        BY <3>2, <1>5
      <3>4. 4 + 1 = 5 /\ 4 \in Nat
        OBVIOUS
      <3> QED BY <3>1, <3>3, <3>4, OneMore, Zenon
    <2>2. CASE k <= 9
      BY <1>1, <2>2
    <2> QED BY <2>1, <2>2
  <1> QED BY <1>5, <1>6

-----------------------------------------------------------------------------
(* Reading a number.                                                       *)

Characters == 0..12

LEMMA DigitsAreCharacters == Digit \subseteq Characters /\ Minus \in Characters /\ Minus \notin Digit
  BY DEF Digit, Characters, Minus

\* A text that is a number is read to its end.
LEMMA WholeNumber ==
  ASSUME NEW text \in Seq(Characters), IsNumber(text)
  PROVE  Numbers(text) # {} /\ Longest(Numbers(text)) = text
  <1>1. Len(text) \in Nat /\ SubSeq(text, 1, Len(text)) = text
    BY LenProperties, SubSeqFull
  <1>2. text \in Numbers(text)
    <2>1. Len(text) \in 0..Len(text)
      BY <1>1
    <2>2. text \in Prefixes(text)
      BY <1>1, <2>1, Zenon DEF Prefixes
    <2> QED BY <2>2 DEF Numbers
  <1>3. ASSUME NEW q \in Numbers(text)
        PROVE  Len(q) <= Len(text) /\ (Len(text) <= Len(q) => q = text)
    <2>1. PICK l \in 0..Len(text) : q = SubSeq(text, 1, l)
      BY DEF Numbers, Prefixes
    <2>2. \A i \in 1..l : text[i] \in Characters
      BY <1>1, <2>1, ElementOfSeq
    <2>3. Len(q) = l
      BY <1>1, <2>1, <2>2, SubSeqProperties
    <2>4. Len(q) <= Len(text)
      BY <1>1, <2>3
    <2>5. ASSUME Len(text) <= Len(q) PROVE q = text
      <3>1. Len(text) <= l
        BY <2>3, <2>5, Zenon
      <3>2. l = Len(text)
        <4> DEFINE n == Len(text)
        <4>1. n \in Nat /\ l \in 0..n /\ n <= l
          BY <1>1, <3>1
        <4> HIDE DEF n
        <4>2. l = n
          BY <4>1
        <4> QED BY <4>2 DEF n
      <3> QED BY <1>1, <2>1, <3>2, Zenon
    <2> QED BY <2>4, <2>5
  <1>4. \A p \in Numbers(text) : (\A q \in Numbers(text) : Len(q) <= Len(p)) => p = text
    BY <1>2, <1>3
  <1>5. \A q \in Numbers(text) : Len(q) <= Len(text)
    BY <1>3
  <1> QED BY <1>2, <1>4, <1>5 DEF Longest

LEMMA DigitsAreNumber ==
  ASSUME NEW text \in Seq(Digit), text # <<>>
  PROVE  IsNumber(text) /\ Value(text) = Sum10(text) /\ text \in Seq(Characters)
  <1>1. Head(text) \in Digit /\ DOMAIN text = 1..Len(text)
    BY HeadTailProperties, LenProperties
  <1>2. ToSet(text) \subseteq Digit
    BY <1>1, ElementOfSeq DEF ToSet
  <1>3. Head(text) # Minus
    BY <1>1, DigitsAreCharacters
  <1>4. text \in Seq(Characters)
    BY DigitsAreCharacters, SeqMonotonic
  <1> QED BY <1>2, <1>3, <1>4 DEF IsNumber, Value

LEMMA MinusIsNumber ==
  ASSUME NEW text \in Seq(Digit), text # <<>>
  PROVE  LET signed == <<Minus>> \o text
         IN  /\ IsNumber(signed) /\ Value(signed) = -Sum10(text)
             /\ signed \in Seq(Characters) /\ Len(signed) = Len(text) + 1
  <1> DEFINE signed == <<Minus>> \o text
  <1>1. text \in Seq(Characters) /\ <<Minus>> \in Seq(Characters)
    BY DigitsAreCharacters, SeqMonotonic
  <1>2. signed \in Seq(Characters) /\ Len(signed) = Len(text) + 1
    BY <1>1, ConcatProperties
  <1>3. Head(signed) = Minus /\ Tail(signed) = text /\ signed # <<>>
    BY <1>1
  <1>4. DOMAIN text = 1..Len(text)
    BY LenProperties
  <1>5. ToSet(text) \subseteq Digit
    BY <1>4, ElementOfSeq DEF ToSet
  <1> HIDE DEF signed
  <1>6. IsNumber(signed) /\ Value(signed) = -Sum10(text)
    BY <1>3, <1>5 DEF IsNumber, Value
  <1> QED BY <1>2, <1>6 DEF signed

\* A text that fits is not cut.
LEMMA CutNothing ==
  ASSUME NEW text \in Seq(Characters), Len(text) <= 5
  PROVE  Cut(text) = text
  <1> DEFINE n == Len(text)
  <1>1. n \in Nat /\ n <= 5 /\ Width = 5
    BY LenProperties DEF Width
  <1> HIDE DEF n
  <1>2. n < Width \/ n = Width
    BY <1>1
  <1>3. (IF n < Width THEN n ELSE Width) = n
    BY <1>2, Zenon
  <1>4. Cut(text) = SubSeq(text, 1, IF n < Width THEN n ELSE Width)
    BY Zenon DEF Cut, n
  <1>5. SubSeq(text, 1, n) = text
    BY SubSeqFull DEF n
  <1> QED BY <1>3, <1>4, <1>5

-----------------------------------------------------------------------------
(* The round trips.                                                        *)

LEMMA AppendOne ==
  ASSUME NEW S, NEW a \in S, NEW b \in S
  PROVE  Append(<<a>>, b) = <<a, b>>
  <1>1. <<a>> \in Seq(S) /\ <<a, b>> \in Seq(S) /\ Len(<<a>>) = 1 /\ Len(<<a, b>>) = 2
        /\ <<a, b>>[1] = a /\ <<a, b>>[2] = b /\ <<a>>[1] = a
    OBVIOUS
  <1> DEFINE more == Append(<<a>>, b)
  <1>2. /\ more \in Seq(S) /\ Len(more) = 2
        /\ more[1] = a /\ more[2] = b
    BY <1>1, AppendProperties
  <1>3. \A i \in 1..2 : more[i] = <<a, b>>[i]
    BY <1>1, <1>2
  <1> HIDE DEF more
  <1>4. more = <<a, b>>
    BY <1>1, <1>2, <1>3, SeqEqual
  <1> QED BY <1>4 DEF more

\* Two digits, with a zero in front.
LEMMA TwoDigitText ==
  ASSUME NEW n \in 0..99
  PROVE  /\ n \div 10 \in Digit /\ n % 10 \in Digit
         /\ Padded(n) = <<n \div 10, n % 10>>
         /\ Sum10(<<n \div 10, n % 10>>) = n
  <1> DEFINE a == n \div 10
             b == n % 10
  <1>1. a \in 0..9 /\ b \in 0..9 /\ n = 10 * a + b
    OBVIOUS
  <1>2. Padded(n) = <<a, b>>
    <2>1. CASE n < 10
      <3>1. a = 0 /\ b = n /\ ~(n < 0)
        BY <2>1
      <3> HIDE DEF a, b
      <3> QED BY <2>1, <3>1, Zenon DEF Padded
    <2>2. CASE n >= 10
      <3>1. Digits[n] = Append(Digits[a], b) /\ a \in Nat /\ a < 10 /\ ~(n < 0) /\ ~(n < 10)
        <4> n \in Nat
          OBVIOUS
        <4> QED BY <2>2, MoreDigits
      <3>2. Digits[a] = <<a>>
        BY <3>1, OneDigit
      <3>3. b \in Nat
        BY <1>1
      <3> HIDE DEF a, b
      <3>4. Digits[n] = <<a, b>>
        BY <3>1, <3>2, <3>3, AppendOne
      <3> QED BY <3>1, <3>4, Zenon DEF Padded
    <2> QED BY <2>1, <2>2
  <1> HIDE DEF a, b
  <1>3. Sum10(<<a, b>>) = n
    <2>1. <<a>> = Append(<<>>, a) /\ <<a, b>> = Append(<<a>>, b) /\ <<a>> \in Seq(Nat)
          /\ <<>> \in Seq(Nat) /\ a \in Nat /\ b \in Nat
      BY <1>1
    <2>2. Sum10(<<a>>) = 10 * Sum10(<<>>) + a
      BY <2>1, Sum10Append
    <2>3. Sum10(<<a, b>>) = 10 * Sum10(<<a>>) + b
      BY <2>1, Sum10Append
    <2> QED BY <1>1, <2>2, <2>3, Sum10Empty
  <1>4. a \in Digit /\ b \in Digit
    BY <1>1 DEF Digit
  <1> QED BY <1>2, <1>3, <1>4 DEF a, b

\* A text that is a number and fits is read back as that number.
LEMMA ReadBack ==
  ASSUME NEW text \in Seq(Characters), IsNumber(text), Len(text) <= 5
  PROVE  scan_portion(Cut(text)) = Value(text)
  BY WholeNumber, CutNothing, Zenon DEF scan_portion

LEMMA PaddedNegative ==
  ASSUME NEW n, n < 0
  PROVE  Padded(n) = <<Minus>> \o Digits[-n]
  BY Zenon DEF Padded

LEMMA PaddedLarge ==
  ASSUME NEW n, ~(n < 0), ~(n < 10)
  PROVE  Padded(n) = Digits[n]
  BY Zenon DEF Padded

\* The bounds stay folded: the provers are slow with large numerals.
LEMMA Bounds == Debt \in Int /\ Ration \in Int
  BY SMT DEF Debt, Ration

LEMMA NegativePortion ==
  ASSUME NEW n \in Int, n < 0, Debt <= n
  PROVE  scan_portion(get_portions_string(n)) = n
  <1> DEFINE m == -n
  <1>1. m \in Nat /\ m <= -Debt /\ -m = n
    BY SMT DEF Debt
  <1>2. Padded(n) = <<Minus>> \o Digits[m]
    BY PaddedNegative
  <1> HIDE DEF m
  <1>3. Digits[m] \in Seq(Digit) /\ Digits[m] # <<>> /\ Sum10(Digits[m]) = m
    BY <1>1, DigitsWorth
  <1> DEFINE text == <<Minus>> \o Digits[m]
             l == Len(Digits[m])
             k == Len(text)
  <1>4. /\ IsNumber(text) /\ Value(text) = -Sum10(Digits[m])
        /\ text \in Seq(Characters) /\ k = l + 1
    BY <1>3, MinusIsNumber, Zenon
  <1>5. l \in 1..4
    BY <1>1, DigitsLength, SMT DEF Debt
  <1> HIDE DEF l, k
  <1>6. k <= 5
    BY <1>4, <1>5
  <1>7. Value(text) = n
    BY <1>1, <1>3, <1>4, Zenon
  <1> HIDE DEF text
  <1>8. scan_portion(Cut(text)) = Value(text)
    BY <1>4, <1>6, ReadBack, Zenon DEF k
  <1> QED BY <1>2, <1>7, <1>8, Zenon DEF get_portions_string, text

LEMMA SmallPortion ==
  ASSUME NEW n \in 0..9
  PROVE  scan_portion(get_portions_string(n)) = n
  <1> DEFINE a == n \div 10
             b == n % 10
             text == <<a, b>>
  <1>1. a \in Digit /\ b \in Digit /\ Padded(n) = text /\ Sum10(text) = n
    <2>1. n \in 0..99
      OBVIOUS
    <2> QED BY <2>1, TwoDigitText, Zenon
  <1> HIDE DEF a, b
  <1>2. text \in Seq(Digit) /\ text # <<>> /\ Len(text) <= 5
    BY <1>1
  <1> HIDE DEF text
  <1>3. IsNumber(text) /\ Value(text) = Sum10(text) /\ text \in Seq(Characters)
    BY <1>2, DigitsAreNumber, Zenon
  <1> QED BY <1>1, <1>2, <1>3, ReadBack, Zenon DEF get_portions_string

LEMMA LargePortion ==
  ASSUME NEW n \in Nat, n >= 10, n <= Ration
  PROVE  scan_portion(get_portions_string(n)) = n
  <1> DEFINE text == Digits[n]
             l == Len(text)
  <1>1. ~(n < 0) /\ ~(n < 10)
    OBVIOUS
  <1>2. Padded(n) = text
    BY <1>1, PaddedLarge
  <1>3. text \in Seq(Digit) /\ text # <<>> /\ Sum10(text) = n
    BY DigitsWorth
  <1>4. IsNumber(text) /\ Value(text) = Sum10(text) /\ text \in Seq(Characters)
    BY <1>3, DigitsAreNumber, Zenon
  <1>5. l \in 1..5
    BY DigitsLength, SMT DEF Ration
  <1> HIDE DEF l
  <1>6. l <= 5
    BY <1>5
  <1> HIDE DEF text
  <1>7. scan_portion(Cut(text)) = Value(text)
    BY <1>4, <1>6, ReadBack, Zenon DEF l
  <1> QED BY <1>2, <1>3, <1>4, <1>7, Zenon DEF get_portions_string

\* A portion from -9999 to 99999 is read back as it was written.
LEMMA PortionReadBack ==
  ASSUME NEW n \in Int, Debt <= n, n <= Ration
  PROVE  scan_portion(get_portions_string(n)) = n
  <1>1. CASE n < 0
    BY <1>1, NegativePortion
  <1>2. CASE n \in 0..9
    BY <1>2, SmallPortion
  <1>3. CASE n >= 10
    BY <1>3, LargePortion
  <1> QED BY <1>1, <1>2, <1>3

-----------------------------------------------------------------------------
(* A time is two numbers with a colon between them.                        *)

LEMMA InactiveReadBack == scan_time(Inactif) = Inactive
  <1>1. ASSUME NEW p \in Numbers(Inactif) PROVE FALSE
    <2>1. PICK l \in 0..Len(Inactif) : p = SubSeq(Inactif, 1, l)
      BY DEF Numbers, Prefixes
    <2>2. l = 0 \/ l = 1
      BY <2>1 DEF Inactif
    <2>3. SubSeq(Inactif, 1, 0) = <<>> /\ SubSeq(Inactif, 1, 1) = <<12>>
      <3>1. Inactif \in Seq({12}) /\ Len(Inactif) = 1 /\ 0 < 1
        BY DEF Inactif
      <3>2. SubSeq(Inactif, 1, 1) = Inactif
        BY <3>1, SubSeqFull, Zenon
      <3>3. SubSeq(Inactif, 1, 0) = <<>>
        BY <3>1, SubSeqEmpty
      <3> QED BY <3>2, <3>3, Zenon DEF Inactif
    <2>4. IsNumber(p)
      BY DEF Numbers
    <2>5. ~IsNumber(<<>>)
      BY Zenon DEF IsNumber
    <2>6. ~IsNumber(<<12>>)
      <3> DEFINE text == <<12>>
      <3>1. Head(text) # Minus /\ DOMAIN text = {1} /\ text[1] = 12 /\ 12 \notin Digit
        BY DEF Minus, Digit
      <3> HIDE DEF text
      <3>2. 12 \in ToSet(text)
        BY <3>1 DEF ToSet
      <3>3. ~IsNumber(text)
        BY <3>1, <3>2, Zenon DEF IsNumber
      <3> QED BY <3>3 DEF text
    <2> QED BY <2>1, <2>2, <2>3, <2>4, <2>5, <2>6, Zenon
  <1>2. Numbers(Inactif) = {}
    BY <1>1
  <1> QED BY <1>2 DEF scan_time

LEMMA CharacterAt ==
  ASSUME NEW text \in Seq(Characters), NEW n \in Nat, Len(text) = n
  PROVE  \A i \in 1..n : text[i] \in Characters
  BY ElementOfSeq

\* The text of a time and the parts scan_time takes from it.
ClockText(a, b, c, d) ==
  LET text == <<a, b, Colon, c, d>>
  IN  /\ <<a, b>> \o <<Colon>> \o <<c, d>> = text
      /\ text[1] = a /\ text[3] = Colon
      /\ text \in Seq(Characters) /\ Len(text) = 5
      /\ SubSeq(text, 1, 2) = <<a, b>>
      /\ SubSeq(text, 3, 5) = <<Colon, c, d>>
      /\ Tail(<<Colon, c, d>>) = <<c, d>>

\* The text of a time: two digits, a colon and two digits.
LEMMA TimeText ==
  ASSUME NEW a \in Digit, NEW b \in Digit, NEW c \in Digit, NEW d \in Digit
  PROVE  ClockText(a, b, c, d)
  <1> DEFINE text == <<a, b, Colon, c, d>>
             hour == <<a, b>>
             rest == <<Colon, c, d>>
             minute == <<c, d>>
  <1>1. a \in Characters /\ b \in Characters /\ c \in Characters /\ d \in Characters
        /\ Colon \in Characters
    BY DEF Digit, Characters, Colon
  <1>2. /\ text \in Seq(Characters) /\ Len(text) = 5
        /\ text[1] = a /\ text[2] = b /\ text[3] = Colon /\ text[4] = c /\ text[5] = d
    BY <1>1
  <1>3. hour \in Seq(Characters) /\ Len(hour) = 2 /\ hour[1] = a /\ hour[2] = b
    BY <1>1
  <1>4. /\ rest \in Seq(Characters) /\ Len(rest) = 3
        /\ rest[1] = Colon /\ rest[2] = c /\ rest[3] = d
    BY <1>1
  <1>5. minute \in Seq(Characters) /\ Len(minute) = 2 /\ minute[1] = c /\ minute[2] = d
    BY <1>1
  <1>6. Tail(rest) = minute
    OBVIOUS
  <1> DEFINE colon == <<Colon>>
  <1>0. colon \in Seq(Characters) /\ Len(colon) = 1 /\ colon[1] = Colon
    BY <1>1
  <1> HIDE DEF text, hour, rest, minute, colon
  <1>7. hour \o colon \o minute = text
    <2> DEFINE front == hour \o colon
               whole == front \o minute
    <2>1. /\ front \in Seq(Characters) /\ Len(front) = 3
          /\ front[1] = a /\ front[2] = b /\ front[3] = Colon
      BY <1>3, <1>0, ConcatProperties
    <2> HIDE DEF front
    <2>2. /\ whole \in Seq(Characters) /\ Len(whole) = 5
          /\ \A i \in 1..5 : whole[i] = IF i <= 3 THEN front[i] ELSE minute[i - 3]
      <3>1. /\ whole \in Seq(Characters) /\ Len(whole) = Len(front) + Len(minute)
            /\ \A i \in 1..(Len(front) + Len(minute)) :
                 whole[i] = IF i <= Len(front) THEN front[i] ELSE minute[i - Len(front)]
        BY <1>5, <2>1, ConcatProperties, Zenon
      <3>2. Len(front) = 3 /\ Len(minute) = 2 /\ 3 + 2 = 5
        BY <1>5, <2>1
      <3> HIDE DEF whole
      <3> QED BY <3>1, <3>2, Zenon
    <2>3. \A i \in 1..5 : whole[i] = text[i]
      <3>1. /\ whole[1] = front[1] /\ whole[2] = front[2] /\ whole[3] = front[3]
            /\ whole[4] = minute[1] /\ whole[5] = minute[2]
        <4> HIDE DEF whole
        <4> QED BY <2>2
      <3> HIDE DEF whole
      <3> QED BY <1>2, <1>5, <2>1, <3>1
    <2> HIDE DEF whole
    <2> QED BY <1>2, <2>2, <2>3, SeqEqual DEF whole, front
  <1>8. SubSeq(text, 1, 2) = hour
    <2> DEFINE first == SubSeq(text, 1, 2)
    <2>1. first \in Seq(Characters) /\ Len(first) = 2 /\ first[1] = a /\ first[2] = b
      BY <1>2, ElementOfSeq, SubSeqProperties
    <2>2. \A i \in 1..2 : first[i] = hour[i]
      BY <1>3, <2>1
    <2> HIDE DEF first
    <2> QED BY <1>3, <2>1, <2>2, SeqEqual DEF first
  <1>9. SubSeq(text, 3, 5) = rest
    <2> DEFINE last == SubSeq(text, 3, 5)
    <2>0. \A i \in 3..5 : text[i] \in Characters
      BY <1>2, CharacterAt
    <2>1. /\ last \in Seq(Characters) /\ Len(last) = 3
          /\ last[1] = text[3] /\ last[2] = text[4] /\ last[3] = text[5]
      BY <2>0, SubSeqProperties
    <2>2. \A i \in 1..3 : last[i] = rest[i]
      BY <1>2, <1>4, <2>1
    <2> HIDE DEF last
    <2> QED BY <1>4, <2>1, <2>2, SeqEqual DEF last
  <1> QED BY <1>2, <1>6, <1>7, <1>8, <1>9 DEF ClockText, text, hour, rest, minute, colon

\* The number at the start of a time is its hour.
LEMMA HourIsFirst ==
  ASSUME NEW a \in Digit, NEW b \in Digit, NEW c \in Digit, NEW d \in Digit
  PROVE  LET text == <<a, b, Colon, c, d>>
         IN  Numbers(text) # {} /\ Longest(Numbers(text)) = <<a, b>>
  <1> DEFINE text == <<a, b, Colon, c, d>>
             hour == <<a, b>>
  <1>1. /\ text \in Seq(Characters) /\ Len(text) = 5 /\ SubSeq(text, 1, 2) = hour
        /\ text[1] = a /\ text[3] = Colon
    <2>1. ClockText(a, b, c, d)
      BY TimeText
    <2> QED BY <2>1, Zenon DEF ClockText
  <1>2. hour \in Seq(Digit) /\ hour # <<>> /\ Len(hour) = 2
    OBVIOUS
  <1>3. IsNumber(hour)
    BY <1>2, DigitsAreNumber
  <1> HIDE DEF text, hour
  <1>4. hour \in Numbers(text)
    <2>1. 2 \in 0..Len(text)
      BY <1>1
    <2> QED BY <1>1, <1>3, <2>1, Zenon DEF Numbers, Prefixes
  <1>5. ASSUME NEW q \in Numbers(text)
        PROVE  Len(q) <= 2 /\ (2 <= Len(q) => q = hour)
    <2>1. PICK l \in 0..5 : q = SubSeq(text, 1, l)
      BY <1>1 DEF Numbers, Prefixes
    <2>2. \A i \in 1..l : text[i] \in Characters
      <3>1. \A i \in 1..5 : text[i] \in Characters
        BY <1>1, CharacterAt
      <3>2. \A i \in 1..l : i \in 1..5
        OBVIOUS
      <3> QED BY <3>1, <3>2, Zenon
    <2>3. Len(q) = l /\ DOMAIN q = 1..l /\ \A i \in 1..l : q[i] = text[i]
      <3>1. q \in Seq(Characters) /\ Len(q) = l /\ \A i \in 1..l : q[i] = text[1 + i - 1]
        BY <2>1, <2>2, SubSeqProperties
      <3> QED BY <3>1, LenProperties
    <2>4. ~(l >= 3)
      <3> SUFFICES ASSUME l >= 3 PROVE FALSE
        OBVIOUS
      <3>1. 1 \in DOMAIN q /\ 3 \in DOMAIN q /\ q[1] = a /\ q[3] = Colon
        BY <1>1, <2>3
      <3>2. Head(q) # Minus /\ IsNumber(q)
        BY <3>1, DigitsAreCharacters DEF Numbers
      <3>3. q[3] \in Digit
        BY <3>1, <3>2, Zenon DEF IsNumber, ToSet
      <3> QED BY <3>1, <3>3 DEF Digit, Colon
    <2>5. Len(q) <= 2
      <3>1. l <= 2
        BY <2>4
      <3> QED BY <2>3, <3>1, Zenon
    <2>6. ASSUME 2 <= Len(q) PROVE q = hour
      <3>1. 2 <= l
        BY <2>3, <2>6, Zenon
      <3>2. l = 2
        BY <2>4, <3>1
      <3> QED BY <1>1, <2>1, <3>2, Zenon
    <2> QED BY <2>5, <2>6
  <1>6. \A p \in Numbers(text) : (\A q \in Numbers(text) : Len(q) <= Len(p)) => p = hour
    BY <1>2, <1>4, <1>5
  <1>7. \A q \in Numbers(text) : Len(q) <= Len(hour)
    BY <1>2, <1>5
  <1> QED BY <1>4, <1>6, <1>7 DEF Longest, text, hour

\* A time of two digits is read back as it was written.
LEMMA TimeReadBack ==
  ASSUME NEW h \in 0..99, NEW m \in 0..99
  PROVE  LET t == [hour |-> h, minute |-> m] IN scan_time(get_timer_string(t)) = t
  <1> DEFINE t == [hour |-> h, minute |-> m]
  <1>1. CASE t = Inactive
    BY <1>1, InactiveReadBack, Zenon DEF get_timer_string
  <1>2. CASE t # Inactive
    <2>1. PICK a \in Digit, b \in Digit : Padded(h) = <<a, b>> /\ Sum10(<<a, b>>) = h
      BY TwoDigitText
    <2>2. PICK c \in Digit, d \in Digit : Padded(m) = <<c, d>> /\ Sum10(<<c, d>>) = m
      BY TwoDigitText
    <2> DEFINE text == <<a, b, Colon, c, d>>
               hour == <<a, b>>
               minute == <<c, d>>
               rest == <<Colon, c, d>>
    <2>3. /\ text \in Seq(Characters) /\ Len(text) = 5
          /\ hour \o <<Colon>> \o minute = text
          /\ SubSeq(text, 3, 5) = rest /\ Tail(rest) = minute
      <3>1. ClockText(a, b, c, d)
        BY TimeText
      <3> QED BY <3>1, Zenon DEF ClockText
    <2>4. /\ hour \in Seq(Digit) /\ hour # <<>> /\ Len(hour) + 1 = 3
          /\ minute \in Seq(Digit) /\ minute # <<>>
          /\ rest # <<>> /\ Head(rest) = Colon
      OBVIOUS
    <2>5. Numbers(text) # {} /\ Longest(Numbers(text)) = hour
      BY HourIsFirst
    <2>6. /\ IsNumber(minute) /\ minute \in Seq(Characters)
          /\ Value(hour) = h /\ Value(minute) = m
      BY <2>1, <2>2, <2>4, DigitsAreNumber
    <2>7. Numbers(minute) # {} /\ Longest(Numbers(minute)) = minute
      BY <2>6, WholeNumber
    <2> HIDE DEF text, hour, minute, rest
    <2>8. get_timer_string(t) = text
      <3>1. t.hour = h /\ t.minute = m
        OBVIOUS
      <3>2. get_timer_string(t) = Cut(text)
        BY <1>2, <2>1, <2>2, <2>3, <3>1, Zenon DEF get_timer_string, hour, minute
      <3>3. Len(text) <= 5
        BY <2>3
      <3> QED BY <2>3, <3>2, <3>3, CutNothing
    <2>9. SubSeq(text, Len(hour) + 1, Len(text)) = rest
      BY <2>3, <2>4, Zenon
    <2>10. scan_time(text) = [hour |-> Value(hour), minute |-> Value(minute)]
      BY <2>3, <2>4, <2>5, <2>7, <2>9, Zenon DEF scan_time
    <2> QED BY <2>6, <2>8, <2>10
  <1> QED BY <1>1, <1>2

-----------------------------------------------------------------------------
(* The settings come back as they were sent.                               *)

\* A blob is absent or holds a time, or a portion, for each slot.
TextTypes ==
  /\ schedule = None \/ \E h, m : schedule = [i \in Slots |-> [hour |-> h[i], minute |-> m[i]]]
  /\ portions = None \/ \E n : portions = [i \in Slots |-> n[i]]

LEMMA ScannedTime ==
  ASSUME NEW text
  PROVE  \E h, m : scan_time(text) = [hour |-> h, minute |-> m]
  BY Zenon DEF scan_time, Inactive

\* What is stored stays a function of the slots.
LEMMA TextTypesStep == TextTypes /\ [TextNext]_textVars => TextTypes'
  <1> SUFFICES ASSUME TextTypes, [TextNext]_textVars PROVE TextTypes'
    OBVIOUS
  <1>1. ASSUME NEW payload, update_schedule_from_json(payload) PROVE TextTypes'
    <2> DEFINE T(i) == scan_time(payload.texts[i])
               H(i) == CHOOSE h : \E m : T(i) = [hour |-> h, minute |-> m]
               M(i) == CHOOSE m : T(i) = [hour |-> H(i), minute |-> m]
               hs == [i \in Slots |-> H(i)]
               ms == [i \in Slots |-> M(i)]
    <2>1. ASSUME NEW i \in Slots PROVE T(i) = [hour |-> hs[i], minute |-> ms[i]]
      <3>1. T(i) = [hour |-> H(i), minute |-> M(i)]
        BY ScannedTime, Zenon
      <3> QED BY <3>1
    <2>2. schedule' = [i \in Slots |-> T(i)] /\ portions' = portions
      BY <1>1 DEF update_schedule_from_json
    <2> HIDE DEF T, hs, ms
    <2>3. schedule' = [i \in Slots |-> [hour |-> hs[i], minute |-> ms[i]]]
      BY <2>1, <2>2
    <2>4. \E h, m : schedule' = [i \in Slots |-> [hour |-> h[i], minute |-> m[i]]]
      BY <2>3
    <2> QED BY <2>2, <2>4 DEF TextTypes
  <1>2. ASSUME NEW payload, update_portions_from_json(payload) PROVE TextTypes'
    <2> DEFINE n == [i \in Slots |-> scan_portion(payload.texts[i])]
    <2>1. portions' = [i \in Slots |-> n[i]] /\ schedule' = schedule
      BY <1>2 DEF update_portions_from_json
    <2> HIDE DEF n
    <2>2. \E m : portions' = [i \in Slots |-> m[i]]
      BY <2>1
    <2> QED BY <2>1, <2>2 DEF TextTypes
  <1>3. CASE UNCHANGED textVars
    BY <1>3 DEF TextTypes, textVars
  <1> QED BY <1>1, <1>2, <1>3
          DEF TextNext, SetSchedule, SetPortions, EchoSchedule, EchoPortions

LEMMA TextTypesHold == TextSpec => []TextTypes
  <1>1. TextInit => TextTypes
    BY DEF TextInit, TextTypes
  <1> QED BY <1>1, TextTypesStep, PTL DEF TextSpec

\* EchoKeepsSchedule: a schedule of times of two digits, sent back as it was
\* announced, is stored as it was (time.c:186-200, 255), whatever was stored
\* or sent before.
THEOREM ScheduleComesBack == TextSpec => EchoKeepsSchedule
  <1>1. ASSUME TextTypes, EchoSchedule, \A i \in Slots : TwoDigits(schedule[i])
        PROVE  schedule' = schedule
    <2>1. /\ schedule # None
          /\ schedule' = [i \in Slots |-> scan_time(get_timer_string(schedule[i]))]
      BY <1>1 DEF EchoSchedule, update_schedule_from_json, get_schedule_json
    <2>2. PICK h, m : schedule = [i \in Slots |-> [hour |-> h[i], minute |-> m[i]]]
      BY <1>1, <2>1 DEF TextTypes
    <2>3. ASSUME NEW i \in Slots
          PROVE  scan_time(get_timer_string(schedule[i])) = schedule[i]
      <3>1. schedule[i] = [hour |-> h[i], minute |-> m[i]]
        BY <2>2
      <3>2. h[i] \in 0..99 /\ m[i] \in 0..99
        BY <1>1, <3>1 DEF TwoDigits
      <3> QED BY <3>1, <3>2, TimeReadBack
    <2>4. schedule = [i \in Slots |-> schedule[i]]
      BY <2>2
    <2> QED BY <2>1, <2>3, <2>4
  <1>2. TextTypes /\ [TextNext]_textVars =>
          [EchoSchedule /\ (\A i \in Slots : TwoDigits(schedule[i]))
             => schedule' = schedule]_textVars
    BY <1>1
  <1> QED BY <1>2, TextTypesHold, PTL DEF TextSpec, EchoKeepsSchedule

\* EchoKeepsPortions: so do portions from -9999 to 99999 g
\* (portions.c:90, 141-152).
THEOREM PortionsComeBack == TextSpec => EchoKeepsPortions
  <1>1. ASSUME TextTypes, EchoPortions,
               \A i \in Slots : portions[i] \in Int /\ Debt <= portions[i] /\ portions[i] <= Ration
        PROVE  portions' = portions
    <2>1. /\ portions # None
          /\ portions' = [i \in Slots |-> scan_portion(get_portions_string(portions[i]))]
      BY <1>1, Zenon DEF EchoPortions, update_portions_from_json, get_portions_json
    <2>2. \A i \in Slots : scan_portion(get_portions_string(portions[i])) = portions[i]
      BY <1>1, PortionReadBack, Zenon
    <2>3. portions = [i \in Slots |-> portions[i]]
      BY <1>1, <2>1 DEF TextTypes
    <2> QED BY <2>1, <2>2, <2>3
  <1>2. ASSUME NEW n \in Debt..Ration PROVE n \in Int /\ Debt <= n /\ n <= Ration
    BY Bounds, SMT
  <1>3. TextTypes /\ [TextNext]_textVars =>
          [EchoPortions /\ (\A i \in Slots : portions[i] \in Debt..Ration)
             => portions' = portions]_textVars
    BY <1>1, <1>2
  <1> QED BY <1>3, TextTypesHold, PTL DEF TextSpec, EchoKeepsPortions
=============================================================================
