------------------------------ MODULE ScaleProofs ------------------------------
(***************************************************************************)
(* Proofs about Scale, for any number of samples and any width of the      *)
(* converter and of the word, as long as Times * Half <= Word: 10 * 2^23   *)
(* is below 2^31, and so is any count up to 255.                           *)
(***************************************************************************)
EXTENDS Scale, TLAPS

LEMMA Product ==
  ASSUME NEW n \in Nat, NEW h \in Nat
  PROVE  n * h \in Nat /\ (n + 1) * h = n * h + h
  OBVIOUS

LEMMA ProductMonotone ==
  ASSUME NEW n \in Nat, NEW m \in Nat, n <= m, NEW h \in Nat
  PROVE  n * h <= m * h
  <1>1. m * h = n * h + (m - n) * h /\ (m - n) * h \in Nat
    OBVIOUS
  <1> QED BY <1>1, Product

\* Division towards zero does not leave the symmetric range of its dividend.
LEMMA QuotientShrinks ==
  ASSUME NEW a \in Int, NEW n \in Nat \ {0}
  PROVE  /\ Quotient(a, n) \in Int
         /\ a >= 0 => 0 <= Quotient(a, n) /\ Quotient(a, n) <= a
         /\ a < 0 => a <= Quotient(a, n) /\ Quotient(a, n) <= 0
  <1>1. \A b \in Nat : b \div n \in Nat /\ b \div n <= b
    OBVIOUS
  <1> QED BY <1>1 DEF Quotient

\* The two's complement of a raw word is a sample.
LEMMA SignExtendRange ==
  ASSUME NEW raw \in Raw
  PROVE  SignExtend(raw) \in (-Half)..(Half - 1)
  BY ScaleAssumption DEF Raw, SignExtend, ScaleAssumption

LEMMA ProductOrder ==
  ASSUME NEW n \in Nat, NEW a \in Int, NEW b \in Int, a <= b
  PROVE  n * a <= n * b
  <1>1. n * b = n * a + n * (b - a) /\ n * (b - a) \in Nat
    OBVIOUS
  <1>2. n * a \in Int /\ n * b \in Int
    OBVIOUS
  <1> QED BY <1>1, <1>2

\* A mean, truncated towards zero, lies between the bounds of its terms.
LEMMA QuotientBetween ==
  ASSUME NEW n \in Nat \ {0}, NEW s \in Int, NEW l \in Int, NEW h \in Int,
         n * l <= s, s <= n * h
  PROVE  Quotient(s, n) \in l..h
  <1> DEFINE q == Quotient(s, n)
  <1>1. q \in Int
    BY QuotientShrinks
  <1>2. CASE s >= 0
    <2>1. q = s \div n /\ n * q <= s /\ s < n * q + n
      BY <1>2 DEF Quotient
    <2>2. l <= q
      <3> SUFFICES ASSUME q + 1 <= l PROVE FALSE
        BY <1>1
      <3>1. n * (q + 1) <= n * l
        BY <1>1, ProductOrder
      <3>2. n * (q + 1) = n * q + n /\ n * q \in Int /\ n * l \in Int
        BY <1>1
      <3> QED BY <2>1, <3>1, <3>2
    <2>3. q <= h
      <3> SUFFICES ASSUME h + 1 <= q PROVE FALSE
        BY <1>1
      <3>1. n * (h + 1) <= n * q
        BY <1>1, ProductOrder
      <3>2. n * (h + 1) = n * h + n /\ n * q \in Int /\ n * h \in Int
        BY <1>1
      <3> QED BY <2>1, <3>1, <3>2
    <2> QED BY <1>1, <2>2, <2>3
  <1>3. CASE s < 0
    <2> DEFINE d == (-s) \div n
    <2>1. q = -d /\ d \in Nat /\ n * d <= -s /\ -s < n * d + n
      BY <1>3 DEF Quotient
    <2>2. n * q = -(n * d)
      BY <1>1, <2>1
    <2>3. l <= q
      <3> SUFFICES ASSUME q + 1 <= l PROVE FALSE
        BY <1>1
      <3>1. n * (q + 1) <= n * l
        BY <1>1, ProductOrder
      <3>2. n * (q + 1) = n * q + n /\ n * q \in Int /\ n * l \in Int /\ n * d \in Int
        BY <1>1, <2>1
      <3> QED BY <2>1, <2>2, <3>1, <3>2
    <2>4. q <= h
      <3> SUFFICES ASSUME h + 1 <= q PROVE FALSE
        BY <1>1
      <3>1. n * (h + 1) <= n * q
        BY <1>1, ProductOrder
      <3>2. n * (h + 1) = n * h + n /\ n * q \in Int /\ n * h \in Int /\ n * d \in Int
        BY <1>1, <2>1
      <3> QED BY <2>1, <2>2, <3>1, <3>2
    <2> QED BY <1>1, <2>3, <2>4
  <1> QED BY <1>2, <1>3

-----------------------------------------------------------------------------
Sample == (-Half)..(Half - 1)

LEMMA SampleFits == Sample \subseteq Int32
  <1>1. 1 * Half <= Times * Half /\ Times * Half \in Nat
    BY ScaleAssumption, ProductMonotone DEF ScaleAssumption
  <1> QED BY <1>1, ScaleAssumption DEF ScaleAssumption, Sample, Int32

\* A sum of at most Times samples is an int32_t.
LEMMA SumFits ==
  ASSUME NEW n \in 0..Times, NEW l \in Sample, NEW h \in Sample, NEW s \in Int,
         n * l <= s, s <= n * h
  PROVE  s \in Int32
  <1>1. n \in Nat /\ n <= Times /\ Times \in Nat \ {0} /\ Half \in Nat \ {0}
    BY ScaleAssumption DEF ScaleAssumption
  <1>2. /\ Word \in Nat /\ Times * Half <= Word
        /\ l \in Int /\ -Half <= l /\ h \in Int /\ h <= Half - 1
    BY <1>1, ScaleAssumption DEF ScaleAssumption, Sample
  <1>3. n * (-Half) <= n * l /\ n * h <= n * (Half - 1)
    BY <1>1, <1>2, ProductOrder
  <1>4. n * Half <= Times * Half /\ n * (Half - 1) <= Times * (Half - 1)
    BY <1>1, ProductMonotone
  <1>5. n * (-Half) = -(n * Half) /\ Times * (Half - 1) = Times * Half - Times
    BY <1>1
  <1>6. /\ n * l \in Int /\ n * h \in Int /\ n * Half \in Int
        /\ n * (Half - 1) \in Int /\ Times * Half \in Int
    BY <1>1, <1>2
  <1>7. -Word <= s /\ s <= Word - 1
    BY <1>1, <1>2, <1>3, <1>4, <1>5, <1>6
  <1> QED BY <1>2, <1>7 DEF Int32

LEMMA ScaleInit == Init => ScaleInv
  <1> SUFFICES ASSUME Init PROVE ScaleInv
    OBVIOUS
  <1>1. 0 \in Sample /\ 0 \in Int32 /\ Timeout \in Int32 /\ 0 \in 0..Times /\ 0 < Times
    BY ScaleAssumption, SampleFits DEF ScaleAssumption, Sample, Int32
  <1>2. \A raw \in Levels : SignExtend(raw) \in Int32
    BY ScaleAssumption, SignExtendRange, SampleFits DEF ScaleAssumption, Raw, Sample
  <1>3. TypeOK
    BY <1>1, <1>2 DEF Init, TypeOK, Sample
  <1>4. SumBetweenSamples /\ AverageBetweenSamples
    BY <1>1 DEF Init, SumBetweenSamples, AverageBetweenSamples
  <1> QED BY <1>3, <1>4 DEF ScaleInv

\* Adding a sample keeps the sum between its bounds and within the word, and
\* the average of Times samples between the least and the greatest.
LEMMA ReadStep ==
  ASSUME ScaleInv, NEW t \in Tasks, hx711_read_data(t)
  PROVE  ScaleInv'
  <1> USE DEF ScaleInv
  <1>1. PICK raw \in Raw :
          LET v == SignExtend(raw)
              total == sum[t] + v
              first == samples[t] = 0
          IN  /\ samples' = [samples EXCEPT ![t] = @ + 1]
              /\ sum' = [sum EXCEPT ![t] = total]
              /\ lowest' = [lowest EXCEPT ![t] = IF first \/ v < @ THEN v ELSE @]
              /\ highest' = [highest EXCEPT ![t] = IF first \/ v > @ THEN v ELSE @]
              /\ \/ /\ samples[t] + 1 < Times
                    /\ step' = [step EXCEPT ![t] = "waiting"]
                    /\ UNCHANGED <<result, tare_del>>
                 \/ /\ samples[t] + 1 = Times
                    /\ Return(t, Quotient(total, Times))
    BY ScaleAssumption DEF hx711_read_data, ScaleAssumption, Raw
  <1> DEFINE v == SignExtend(raw)
             n == samples[t]
             total == sum[t] + v
             l == IF n = 0 \/ v < lowest[t] THEN v ELSE lowest[t]
             h == IF n = 0 \/ v > highest[t] THEN v ELSE highest[t]
  <1>2. v \in Sample /\ l \in Sample /\ h \in Sample /\ lowest[t] \in Sample /\ highest[t] \in Sample
    BY SignExtendRange DEF TypeOK, Sample
  <1>3. /\ n \in Nat /\ n + 1 \in 0..Times /\ sum[t] \in Int /\ total \in Int
        /\ l \in Int /\ h \in Int /\ v \in Int /\ lowest[t] \in Int /\ highest[t] \in Int
    <2>1. n \in 0..Times /\ n < Times /\ Times \in Nat \ {0} /\ sum[t] \in Int
      BY ScaleAssumption DEF TypeOK, hx711_read_data, ScaleAssumption, Int32
    <2>2. /\ v \in Int /\ l \in Int /\ h \in Int /\ lowest[t] \in Int /\ highest[t] \in Int
      BY <1>2 DEF Sample
    <2> QED BY <2>1, <2>2
  <1>4. (n + 1) * l <= total /\ total <= (n + 1) * h
    <2>0. \A i \in Nat, j \in Int : (i + 1) * j = i * j + j /\ (0 + 1) * j = j
      OBVIOUS
    <2>1. (n + 1) * l = n * l + l /\ (n + 1) * h = n * h + h
      <3> HIDE DEF l, h, n
      <3> QED BY <1>3, <2>0
    <2>2. CASE n = 0
      <3>1. total = v /\ l = v /\ h = v
        BY <1>3, <2>2 DEF SumBetweenSamples
      <3>2. (n + 1) * v = v
        BY <1>3, <2>0, <2>2
      <3> QED BY <1>3, <3>1, <3>2
    <2>3. CASE n # 0
      <3>1. l <= lowest[t] /\ l <= v /\ highest[t] <= h /\ v <= h
        BY <1>3, <2>3
      <3>2. n * l <= n * lowest[t] /\ n * highest[t] <= n * h
        BY <1>3, <3>1, ProductOrder
      <3>3. n * lowest[t] <= sum[t] /\ sum[t] <= n * highest[t]
        BY DEF SumBetweenSamples
      <3>4. n * l \in Int /\ n * lowest[t] \in Int /\ n * h \in Int /\ n * highest[t] \in Int
        BY <1>3
      <3> HIDE DEF l, h, v
      <3> QED BY <1>3, <2>1, <3>1, <3>2, <3>3, <3>4
    <2> QED BY <2>2, <2>3
  <1>5. total \in Int32
    BY <1>2, <1>3, <1>4, SumFits
  <1>6. /\ samples' = [samples EXCEPT ![t] = n + 1] /\ sum' = [sum EXCEPT ![t] = total]
        /\ lowest' = [lowest EXCEPT ![t] = l] /\ highest' = [highest EXCEPT ![t] = h]
    BY <1>1
  <1>7. SumBetweenSamples'
    <2> HIDE DEF l, h, v, total
    <2> QED BY <1>3, <1>4, <1>6 DEF SumBetweenSamples, TypeOK
  <1>8. CASE /\ n + 1 < Times
             /\ step' = [step EXCEPT ![t] = "waiting"]
             /\ UNCHANGED <<result, tare_del>>
    <2> HIDE DEF l, h, v, total
    <2>1. TypeOK'
      BY <1>2, <1>3, <1>5, <1>6, <1>8 DEF TypeOK, hx711_read_data, Sample
    <2>2. AverageBetweenSamples'
      BY <1>6, <1>8 DEF AverageBetweenSamples, TypeOK
    <2> QED BY <1>7, <2>1, <2>2
  <1>9. CASE n + 1 = Times /\ Return(t, Quotient(total, Times))
    <2> DEFINE r == Quotient(total, Times)
    <2>1. r \in l..h
      BY <1>3, <1>4, <1>9, QuotientBetween, ScaleAssumption DEF ScaleAssumption
    <2>2. r \in Sample
      BY <1>2, <1>3, <2>1, ScaleAssumption DEF Sample, ScaleAssumption
    <2>3. r \in Int32
      BY <2>2, SampleFits
    <2>4. /\ step' = [step EXCEPT ![t] = "idle"] /\ result' = [result EXCEPT ![t] = r]
          /\ tare_del' \in {r, tare_del}
      BY <1>9 DEF Return
    <2> HIDE DEF l, h, v, total, r
    <2>5. TypeOK'
      BY <1>2, <1>3, <1>5, <1>6, <2>3, <2>4 DEF TypeOK, hx711_read_data, Sample
    <2>6. AverageBetweenSamples'
      BY <1>6, <2>1, <2>4 DEF AverageBetweenSamples, TypeOK
    <2> QED BY <1>7, <2>5, <2>6
  <1> QED BY <1>1, <1>8, <1>9

LEMMA ScaleStep == ScaleInv /\ [Next]_vars => ScaleInv'
  <1> SUFFICES ASSUME ScaleInv, [Next]_vars PROVE ScaleInv'
    OBVIOUS
  <1> USE DEF ScaleInv, SumBetweenSamples, AverageBetweenSamples
  <1>a. Times \in Nat \ {0} /\ Half \in Nat \ {0} /\ 0 \in Int32 /\ Timeout \in Int32
    BY ScaleAssumption DEF ScaleAssumption, Int32
  <1>1. CASE Convert
    BY <1>1 DEF Convert, TypeOK, measures
  <1>2. ASSUME NEW t \in Tasks, NEW what \in {"weigh", "tare"}, Begin(t, what)
        PROVE  ScaleInv'
    BY <1>2 DEF Begin, TypeOK
  <1>3. ASSUME NEW t \in Tasks, Probe(t) PROVE ScaleInv'
    <2>1. TypeOK'
      BY <1>3, <1>a DEF Probe, EmptySum, TypeOK
    <2>2. \A i \in Tasks : lowest[i] \in Int /\ highest[i] \in Int
      BY <1>a DEF TypeOK
    <2>3. SumBetweenSamples'
      BY <1>3, <2>2 DEF Probe, EmptySum, TypeOK
    <2>4. AverageBetweenSamples'
      BY <1>3 DEF Probe, TypeOK
    <2> QED BY <2>1, <2>3, <2>4
  <1>4. ASSUME NEW t \in Tasks, hx711_wait(t) PROVE ScaleInv'
    BY <1>4 DEF hx711_wait, TypeOK, measures
  <1>5. ASSUME NEW t \in Tasks, hx711_wait_timeout(t) PROVE ScaleInv'
    <2>1. TypeOK'
      BY <1>5, <1>a DEF hx711_wait_timeout, Return, TypeOK
    <2>2. SumBetweenSamples'
      BY <1>5 DEF hx711_wait_timeout
    <2>3. AverageBetweenSamples'
      BY <1>5 DEF hx711_wait_timeout, Return, TypeOK
    <2> QED BY <2>1, <2>2, <2>3
  <1>6. ASSUME NEW t \in Tasks, hx711_read_data(t) PROVE ScaleInv'
    BY <1>6, ReadStep
  <1>7. CASE UNCHANGED vars
    BY <1>7 DEF vars, TypeOK
  <1> QED BY <1>1, <1>2, <1>3, <1>4, <1>5, <1>6, <1>7 DEF Next

LEMMA ScaleInvariance == Spec => []ScaleInv
  BY ScaleInit, ScaleStep, PTL DEF Spec

\* No average overflows (hx711.c:131-146): whatever the two tasks read, the
\* sum and the result stay within an int32_t.
THEOREM ScaleTypeCorrect == Spec => []TypeOK
  BY ScaleInvariance, PTL DEF ScaleInv

\* A completed average lies between the least and the greatest of its
\* samples (hx711.c:119-146), for any count and width that fit the word.
THEOREM AverageIsBetween == Spec => []AverageBetweenSamples
  BY ScaleInvariance, PTL DEF ScaleInv
=============================================================================
