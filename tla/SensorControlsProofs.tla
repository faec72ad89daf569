------------------------ MODULE SensorControlsProofs ------------------------
(***************************************************************************)
(* Failures are reported and loads survive (SensorControls), for all       *)
(* fourteen drivers, every value a control is called with, every number of *)
(* calls and failed transfers.  A call is a fold over its parts and a load *)
(* a fold over its settings; the first half of the module opens the folds. *)
(* Then, driver by driver, come the ways in which the parts of its setters *)
(* treat an error: this is where an omission of a driver shows.            *)
(***************************************************************************)
EXTENDS SensorControls, SequenceTheorems, WellFoundedInduction, TLAPS

-----------------------------------------------------------------------------
(* Induction, for sets of numbers.                                         *)

LEMMA StrongInduction ==
  ASSUME NEW S, \A n \in Nat : (\A m \in 0..(n - 1) : m \in S) => n \in S
  PROVE  Nat \subseteq S
  <1>1. SUFFICES ASSUME Nat \ S # {} PROVE FALSE
    OBVIOUS
  <1>2. PICK x \in Nat \ S : \A y \in Nat \ S : ~(<<y, x>> \in OpToRel(<, Nat))
    BY <1>1, NatLessThanWellFounded, WFMin, Zenon
  <1>3. x \in Nat /\ \A y \in Nat : y < x => y \in S
    BY <1>2 DEF OpToRel
  <1>4. \A y \in 0..(x - 1) : y \in S
    BY <1>3
  <1> QED BY <1>2, <1>3, <1>4

LEMMA Induction ==
  ASSUME NEW S, 0 \in S, \A n \in Nat : n \in S => n + 1 \in S
  PROVE  Nat \subseteq S
  <1>1. ASSUME NEW n \in Nat, \A m \in 0..(n - 1) : m \in S PROVE n \in S
    <2>1. CASE n = 0
      BY <2>1
    <2>2. CASE n > 0
      <3>1. n - 1 \in Nat /\ n - 1 \in 0..(n - 1) /\ (n - 1) + 1 = n
        BY <2>2
      <3> QED BY <1>1, <3>1
    <2> QED BY <2>1, <2>2
  <1> QED BY <1>1, StrongInduction

-----------------------------------------------------------------------------
(* The folds: the parts of a call, and the settings of a load.             *)

\* What element i makes of t.
Carry(fold, a, b, t, i) ==
  IF fold = "parts" THEN PartDone(a, b, t, [j \in DOMAIN a |-> j][i])
  ELSE SettingDone(a, t, b[i])

\* The function behind the fold: what the elements at places s make of base.
Carried(f, fold, a, b, base, n) ==
  f = [s \in SUBSET (1..n) |->
         IF s = {} THEN base ELSE Carry(fold, a, b, f[s \ {Max(s)}], Max(s))]

LEMMA MaxOfLast ==
  ASSUME NEW n \in Nat, NEW s \in SUBSET (1..n), n \in s
  PROVE  Max(s) = n
  <1>1. n \in s /\ \A y \in s : n >= y
    OBVIOUS
  <1>2. \A x \in s : (\A y \in s : x >= y) => x = n
    OBVIOUS
  <1> QED BY <1>1, <1>2 DEF Max

Folded(fold, a, b, base, n) == (CHOOSE f : Carried(f, fold, a, b, base, n))[1..n]

LEMMA CarriedExists ==
  ASSUME NEW fold, NEW a, NEW b, NEW base, NEW n \in Nat
  PROVE  \E f : Carried(f, fold, a, b, base, n)
  <1> DEFINE S == {k \in Nat : \E f : Carried(f, fold, a, b, base, k)}
  <1>1. 0 \in S
    <2>1. Carried([s \in SUBSET (1..0) |-> base], fold, a, b, base, 0)
      BY DEF Carried
    <2> QED BY <2>1
  <1>2. ASSUME NEW k \in Nat, k \in S PROVE k + 1 \in S
    <2>1. PICK f : Carried(f, fold, a, b, base, k)
      BY <1>2
    <2> DEFINE g == [s \in SUBSET (1..(k + 1)) |->
                       IF k + 1 \in s THEN Carry(fold, a, b, f[s \ {k + 1}], k + 1) ELSE f[s]]
    <2>2. ASSUME NEW s \in SUBSET (1..(k + 1))
          PROVE  g[s] = IF s = {} THEN base ELSE Carry(fold, a, b, g[s \ {Max(s)}], Max(s))
      <3>1. CASE k + 1 \in s
        <4>1. Max(s) = k + 1 /\ s # {}
          BY <3>1, MaxOfLast
        <4>2. s \ {k + 1} \in SUBSET (1..(k + 1)) /\ k + 1 \notin s \ {k + 1}
          OBVIOUS
        <4>3. g[s \ {k + 1}] = f[s \ {k + 1}]
          BY <4>2
        <4> QED BY <3>1, <4>1, <4>3
      <3>2. CASE k + 1 \notin s
        <4>1. s \in SUBSET (1..k)
          BY <3>2
        <4>2. g[s] = f[s]
          BY <3>2
        <4>3. s \ {Max(s)} \in SUBSET (1..k) /\ s \ {Max(s)} \in SUBSET (1..(k + 1))
              /\ k + 1 \notin s \ {Max(s)}
          BY <3>2, <4>1
        <4>4. g[s \ {Max(s)}] = f[s \ {Max(s)}]
          BY <4>3
        <4> QED BY <2>1, <4>1, <4>2, <4>4 DEF Carried
      <3> QED BY <3>1, <3>2
    <2>3. Carried(g, fold, a, b, base, k + 1)
      BY <2>2 DEF Carried
    <2> QED BY <2>3
  <1> HIDE DEF S
  <1>3. Nat \subseteq S
    BY <1>1, <1>2, Induction
  <1> QED BY <1>3 DEF S

\* What the first k elements make of it, for each k.
LEMMA CarriedSteps ==
  ASSUME NEW fold, NEW a, NEW b, NEW base, NEW n \in Nat
  PROVE  \E h : /\ h[0] = base
                /\ \A k \in 1..n : h[k] = Carry(fold, a, b, h[k - 1], k)
                /\ Folded(fold, a, b, base, n) = h[n]
  <1> DEFINE f == CHOOSE f : Carried(f, fold, a, b, base, n)
  <1>1. Carried(f, fold, a, b, base, n)
    BY CarriedExists
  <1> HIDE DEF f
  <1> DEFINE h == [k \in 0..n |-> f[1..k]]
  <1>2. h[0] = base
    <2>1. 1..0 = {} /\ {} \in SUBSET (1..n)
      OBVIOUS
    <2> QED BY <1>1, <2>1 DEF Carried
  <1>3. ASSUME NEW k \in 1..n PROVE h[k] = Carry(fold, a, b, h[k - 1], k)
    <2>1. 1..k \in SUBSET (1..n) /\ k \in 1..k /\ (1..k) \ {k} = 1..(k - 1)
      OBVIOUS
    <2>2. Max(1..k) = k
      BY <2>1, MaxOfLast
    <2>3. f[1..k] = Carry(fold, a, b, f[1..(k - 1)], k)
      BY <1>1, <2>1, <2>2 DEF Carried
    <2> QED BY <2>3
  <1>4. f[1..n] = h[n]
    OBVIOUS
  <1> QED BY <1>2, <1>3, <1>4 DEF Folded, f

Start(s) == [dev |-> s.dev, status |-> s.status, failed |-> FALSE, returned |-> FALSE]

LEMMA PerformSteps ==
  ASSUME NEW s, NEW call, NEW fault, NEW n \in Nat, DOMAIN call = 1..n
  PROVE  \E h : /\ h[0] = Start(s)
                /\ \A k \in 1..n : h[k] = PartDone(call, fault, h[k - 1], k)
                /\ Perform(s, call, fault) = h[n]
  <1> DEFINE ids == [i \in DOMAIN call |-> i]
             Folds(f) == f = [p \in SUBSET (1..n) |->
                            IF p = {} THEN Start(s)
                            ELSE PartDone(call, fault, f[p \ {Max(p)}], ids[Max(p)])]
  <1>1. Perform(s, call, fault) = (CHOOSE f : Folds(f))[1..n]
    BY DEF Perform, FoldLeft, MapThenFoldSet, Start
  <1>2. \A f : Folds(f) <=> Carried(f, "parts", call, fault, Start(s), n)
    BY DEF Carried, Carry
  <1>3. Perform(s, call, fault)
          = Folded("parts", call, fault, Start(s), n)
    BY <1>1, <1>2 DEF Folded
  <1>4. PICK h : /\ h[0] = Start(s)
                 /\ \A k \in 1..n : h[k] = Carry("parts", call, fault, h[k - 1], k)
                 /\ Folded("parts", call, fault, Start(s), n) = h[n]
    BY CarriedSteps
  <1>5. \A k \in 1..n : Carry("parts", call, fault, h[k - 1], k) = PartDone(call, fault, h[k - 1], k)
    BY DEF Carry
  <1> QED BY <1>3, <1>4, <1>5

LEMMA PerformAllSteps ==
  ASSUME NEW m, NEW s, NEW settings, NEW n \in Nat, DOMAIN settings = 1..n
  PROVE  \E h : /\ h[0] = [dev |-> s.dev, status |-> s.status, crashed |-> FALSE]
                /\ \A k \in 1..n : h[k] = SettingDone(m, h[k - 1], settings[k])
                /\ PerformAll(m, s, settings) = h[n]
  <1> DEFINE base == [dev |-> s.dev, status |-> s.status, crashed |-> FALSE]
             Folds(f) == f = [p \in SUBSET (1..n) |->
                            IF p = {} THEN base
                            ELSE SettingDone(m, f[p \ {Max(p)}], settings[Max(p)])]
  <1>1. PerformAll(m, s, settings) = (CHOOSE f : Folds(f))[1..n]
    BY DEF PerformAll, FoldLeft, MapThenFoldSet
  <1> HIDE DEF base
  <1>2. \A f : Folds(f) <=> Carried(f, "settings", m, settings, base, n)
    BY DEF Carried, Carry
  <1>3. PerformAll(m, s, settings)
          = Folded("settings", m, settings, base, n)
    BY <1>1, <1>2 DEF Folded
  <1>4. PICK h : /\ h[0] = base
                 /\ \A k \in 1..n : h[k] = Carry("settings", m, settings, h[k - 1], k)
                 /\ Folded("settings", m, settings, base, n) = h[n]
    BY CarriedSteps
  <1>5. \A k \in 1..n : Carry("settings", m, settings, h[k - 1], k)
                          = SettingDone(m, h[k - 1], settings[k])
    BY DEF Carry
  <1> QED BY <1>3, <1>4, <1>5 DEF base

-----------------------------------------------------------------------------
(* What the parts of a call do with their errors.                          *)

\* All parts of a call are of these kinds.
Only(call, errors) == \E S : call \in Seq(S) /\ \A p \in S : p.error \in errors

\* The kinds of which an error is a result, and those of a setter there is.
Loud == {"returned", "kept", "rejected"}
Present == Loud \cup {"ignored", "withheld"}

LEMMA OnlyParts ==
  ASSUME NEW call, NEW errors, Only(call, errors)
  PROVE  \E n \in Nat : DOMAIN call = 1..n /\ \A i \in 1..n : call[i].error \in errors
  <1>1. PICK S : call \in Seq(S) /\ \A p \in S : p.error \in errors
    BY DEF Only
  <1>2. Len(call) \in Nat /\ DOMAIN call = 1..Len(call)
    BY <1>1, LenProperties
  <1>3. \A i \in 1..Len(call) : call[i].error \in errors
    BY <1>1, ElementOfSeq
  <1> QED BY <1>2, <1>3

\* A write that fails in a call without silent parts is its result.
LEMMA LoudFails ==
  ASSUME NEW s, NEW call, NEW fault, Only(call, Loud),
         fault.part \in DOMAIN call, fault.kind = "write"
  PROVE  Perform(s, call, fault).failed
  <1>1. PICK n \in Nat : DOMAIN call = 1..n /\ \A i \in 1..n : call[i].error \in Loud
    BY OnlyParts
  <1>2. PICK h : /\ h[0] = Start(s)
                 /\ \A k \in 1..n : h[k] = PartDone(call, fault, h[k - 1], k)
                 /\ Perform(s, call, fault) = h[n]
    BY <1>1, PerformSteps
  <1> DEFINE p == fault.part
             S == {k \in Nat : k <= n => /\ h[k].returned \in BOOLEAN /\ h[k].failed \in BOOLEAN
                                         /\ h[k].returned => h[k].failed
                                         /\ k >= p => h[k].failed}
  <1>3. 0 \in S
    <2>1. p \in Nat /\ ~(0 >= p)
      BY <1>1
    <2>2. h[0].returned = FALSE /\ h[0].failed = FALSE
      BY <1>2 DEF Start
    <2> QED BY <2>1, <2>2
  <1>4. ASSUME NEW k \in Nat, k \in S PROVE k + 1 \in S
    <2>1. SUFFICES ASSUME k + 1 <= n
                   PROVE  /\ h[k + 1].returned \in BOOLEAN /\ h[k + 1].failed \in BOOLEAN
                          /\ h[k + 1].returned => h[k + 1].failed
                          /\ k + 1 >= p => h[k + 1].failed
      OBVIOUS
    <2>2. /\ h[k].returned \in BOOLEAN /\ h[k].failed \in BOOLEAN
          /\ h[k].returned => h[k].failed
          /\ k >= p => h[k].failed
      BY <1>1, <1>4, <2>1
    <2>3. h[k + 1] = PartDone(call, fault, h[k], k + 1) /\ call[k + 1].error \in Loud
      BY <1>1, <1>2, <2>1
    <2>4. CASE h[k].returned
      BY <2>2, <2>3, <2>4 DEF PartDone
    <2>5. CASE ~h[k].returned
      <3> DEFINE part == call[k + 1]
                 missed == k + 1 = fault.part /\ fault.kind = "write"
                 withheld == missed /\ part.error = "withheld"
                 fails == \/ part.error = "rejected"
                          \/ missed /\ part.error \in {"returned", "kept"}
      <3>1. /\ h[k + 1].failed = (h[k].failed \/ fails)
            /\ h[k + 1].returned = (withheld \/ (fails /\ part.error # "kept"))
        BY <2>3, <2>5 DEF PartDone
      <3>2. ~withheld
        BY <2>3 DEF Loud
      <3>3. k + 1 = p => fails
        BY <2>3 DEF Loud
      <3>4. p \in Nat /\ (k + 1 >= p => k >= p \/ k + 1 = p)
        BY <1>1
      <3> HIDE DEF withheld, fails
      <3> QED BY <2>2, <3>1, <3>2, <3>3, <3>4
    <2> QED BY <2>2, <2>4, <2>5
  <1>5. n \in S
    <2> HIDE DEF S
    <2> QED BY <1>3, <1>4, Induction
  <1> QED BY <1>1, <1>2, <1>5

LEMMA OnlyNone == ASSUME NEW errors PROVE Only(<<>>, errors)
  <1>1. <<>> \in Seq({})
    OBVIOUS
  <1>2. \A x \in {} : x.error \in errors
    OBVIOUS
  <1> DEFINE call == <<>>
             S == {}
  <1>3. call \in Seq(S) /\ \A x \in S : x.error \in errors
    BY <1>1, <1>2
  <1> HIDE DEF call, S
  <1>4. Only(call, errors)
    BY <1>3 DEF Only
  <1> QED BY <1>4 DEF call

LEMMA OnlyOne ==
  ASSUME NEW errors, NEW p, p.error \in errors
  PROVE  Only(<<p>>, errors)
  <1>1. <<p>> \in Seq({p})
    OBVIOUS
  <1>2. \A x \in {p} : x.error \in errors
    OBVIOUS
  <1> DEFINE call == <<p>>
             S == {p}
  <1>3. call \in Seq(S) /\ \A x \in S : x.error \in errors
    BY <1>1, <1>2
  <1> HIDE DEF call, S
  <1>4. Only(call, errors)
    BY <1>3 DEF Only
  <1> QED BY <1>4 DEF call

LEMMA OnlyConcat ==
  ASSUME NEW errors, NEW a, NEW b, Only(a, errors), Only(b, errors)
  PROVE  Only(a \o b, errors)
  <1>1. PICK S : a \in Seq(S) /\ \A p \in S : p.error \in errors
    BY DEF Only
  <1>2. PICK T : b \in Seq(T) /\ \A p \in T : p.error \in errors
    BY DEF Only
  <1>3. a \in Seq(S \cup T) /\ b \in Seq(S \cup T)
    BY <1>1, <1>2, SeqMonotonic
  <1>4. a \o b \in Seq(S \cup T)
    BY <1>3, ConcatProperties
  <1> QED BY <1>1, <1>2, <1>4 DEF Only

LEMMA OnlyFour ==
  ASSUME NEW errors, NEW a, NEW b, NEW c, NEW d,
         Only(a, errors), Only(b, errors), Only(c, errors), Only(d, errors)
  PROVE  Only(a \o b \o c \o d, errors)
  BY OnlyConcat

LEMMA OnlyTwo ==
  ASSUME NEW errors, NEW p, NEW q, p.error \in errors, q.error \in errors
  PROVE  Only(<<p, q>>, errors)
  <1>1. <<p, q>> \in Seq({p, q})
    OBVIOUS
  <1>2. \A x \in {p, q} : x.error \in errors
    OBVIOUS
  <1> DEFINE call == <<p, q>>
             S == {p, q}
  <1>3. call \in Seq(S) /\ \A x \in S : x.error \in errors
    BY <1>1, <1>2
  <1> HIDE DEF call, S
  <1>4. Only(call, errors)
    BY <1>3 DEF Only
  <1> QED BY <1>4 DEF call

LEMMA OnlyThree ==
  ASSUME NEW errors, NEW p, NEW q, NEW r,
         p.error \in errors, q.error \in errors, r.error \in errors
  PROVE  Only(<<p, q, r>>, errors)
  <1>1. <<p, q, r>> \in Seq({p, q, r})
    OBVIOUS
  <1>2. \A x \in {p, q, r} : x.error \in errors
    OBVIOUS
  <1> DEFINE call == <<p, q, r>>
             S == {p, q, r}
  <1>3. call \in Seq(S) /\ \A x \in S : x.error \in errors
    BY <1>1, <1>2
  <1> HIDE DEF call, S
  <1>4. Only(call, errors)
    BY <1>3 DEF Only
  <1> QED BY <1>4 DEF call

\* A part for each of n transfers.
LEMMA OnlyEach ==
  ASSUME NEW errors, NEW e \in errors, NEW note, NEW steps, NEW n \in Nat, DOMAIN steps = 1..n
  PROVE  Only([i \in DOMAIN steps |-> [steps |-> <<steps[i]>>, error |-> e, note |-> note]],
              errors)
  <1> DEFINE call == [i \in DOMAIN steps |->
                        [steps |-> <<steps[i]>>, error |-> e, note |-> note]]
             S == {call[i] : i \in 1..n}
  <1>1. call \in Seq(S)
    OBVIOUS
  <1>2. \A p \in S : p.error \in errors
    OBVIOUS
  <1> QED BY <1>1, <1>2 DEF Only

LEMMA OnlyMore ==
  ASSUME NEW call, NEW errors, NEW more, Only(call, errors), errors \subseteq more
  PROVE  Only(call, more)
  BY DEF Only

\* A call of a setter that is not there is none of these.
LEMMA NotMissing ==
  ASSUME NEW call, Only(call, Present)
  PROVE  call # Missing
  <1>1. SUFFICES ASSUME call = Missing PROVE FALSE
    OBVIOUS
  <1>2. call[1].error = "missing" /\ DOMAIN call = {1}
    BY <1>1 DEF Missing, Part
  <1>3. PICK n \in Nat : DOMAIN call = 1..n /\ \A i \in 1..n : call[i].error \in Present
    BY OnlyParts
  <1>4. "missing" \in Present
    BY <1>2, <1>3
  <1> QED BY <1>4 DEF Present, Loud

-----------------------------------------------------------------------------
(* The drivers: which setters have silent parts, and which are missing.    *)
(* First the ways to string transfers together, then the setters, one by   *)
(* one, then the table of the driver.                                      *)

LEMMA Ov2640Calls ==
  ASSUME NEW s, NEW control \in AllControls, NEW v
  PROVE  /\ control \notin Silent.OV2640 => Only(Ov2640!Setter(s, control, v), Loud)
         /\ Only(Ov2640!Setter(s, control, v), Present)
  <1>1. \A note, steps : Only(Ov2640!StatusFirst(note, steps), Loud)
    BY OnlyTwo DEF Loud, Ov2640!StatusFirst, Ov2640!Note, Ov2640!Checked, Ov2640!Part
  <1>2. Only(Ov2640!Rejected, Loud)
    BY OnlyOne DEF Loud, Ov2640!Rejected, Ov2640!Part
  <1>3. \A note : Only(<<Ov2640!Note(note)>>, Loud)
    BY OnlyOne DEF Loud, Ov2640!Note, Ov2640!Part
  <1>4. \A note : Only(<<Ov2640!Note(note)>> \o Ov2640!Rejected, Loud)
    BY <1>2, <1>3, OnlyConcat, Zenon
  <1>5. \A steps : Only(<<Ov2640!Ignored(steps)>>, Present)
    BY OnlyOne DEF Present, Ov2640!Ignored, Ov2640!Part
  <1>6. Only(Ov2640!set_pixformat(v), Loud)
    BY <1>1, <1>4, Zenon DEF Ov2640!set_pixformat
  <1>7. Only(Ov2640!set_framesize(v), Present)
    <2>1. \A note, steps : Only(Ov2640!StatusFirst(note, steps), Present)
      BY <1>1, OnlyMore DEF Present
    <2> QED BY <1>5, <2>1, OnlyConcat, Zenon DEF Ov2640!set_framesize
  <1>8. Only(Ov2640!set_vflip_sensor(v), Present)
    BY OnlyThree DEF Present, Loud, Ov2640!set_vflip_sensor, Ov2640!Note, Ov2640!Ignored, Ov2640!Part
  <1>9. \A field, lowest, highest, steps : Only(Ov2640!Level(field, v, lowest, highest, steps), Loud)
    BY <1>1, <1>2, Zenon DEF Ov2640!Level
  <1>10. /\ Only(Ov2640!set_contrast(v), Loud)
         /\ Only(Ov2640!set_brightness(v), Loud)
         /\ Only(Ov2640!set_saturation(v), Loud)
         /\ Only(Ov2640!set_special_effect(v), Loud)
         /\ Only(Ov2640!set_wb_mode(v), Loud)
         /\ Only(Ov2640!set_ae_level(v), Loud)
    BY <1>9, Zenon DEF Ov2640!set_contrast, Ov2640!set_brightness, Ov2640!set_saturation,
         Ov2640!set_special_effect, Ov2640!set_wb_mode, Ov2640!set_ae_level
  <1>11. /\ Only(Ov2640!set_quality(v), Loud)
         /\ Only(Ov2640!set_agc_gain(v), Loud)
         /\ Only(Ov2640!set_gainceiling_sensor(v), Loud)
         /\ Only(Ov2640!set_aec_value(v), Loud)
         /\ Only(Ov2640!set_aec2(v), Loud)
    <2>1. Only(Ov2640!set_quality(v), Loud)
      BY <1>1, Zenon DEF Ov2640!set_quality
    <2>2. Only(Ov2640!set_agc_gain(v), Loud)
      BY <1>1, Zenon DEF Ov2640!set_agc_gain
    <2>3. Only(Ov2640!set_gainceiling_sensor(v), Loud)
      BY <1>1, Zenon DEF Ov2640!set_gainceiling_sensor
    <2>4. Only(Ov2640!set_aec_value(v), Loud)
      BY <1>1, SMT DEF Ov2640!set_aec_value
    <2>5. Only(Ov2640!set_aec2(v), Loud)
      BY <1>1, Zenon DEF Ov2640!set_aec2
    <2> QED BY <2>1, <2>2, <2>3, <2>4, <2>5
  <1>12. \A field, reg, off : /\ Only(Ov2640!DspFlag(field, reg, off, v), Loud)
                              /\ Only(Ov2640!SensorFlag(field, reg, off, v), Loud)
    BY <1>1, Zenon DEF Ov2640!DspFlag, Ov2640!SensorFlag
  <1>13. /\ Only(Ov2640!set_colorbar(v), Loud)
         /\ Only(Ov2640!set_agc_sensor(v), Loud)
         /\ Only(Ov2640!set_aec_sensor(v), Loud)
         /\ Only(Ov2640!set_hmirror_sensor(v), Loud)
         /\ Only(Ov2640!set_raw_gma_dsp(v), Loud)
         /\ Only(Ov2640!set_awb_dsp(v), Loud)
         /\ Only(Ov2640!set_awb_gain_dsp(v), Loud)
         /\ Only(Ov2640!set_lenc_dsp(v), Loud)
         /\ Only(Ov2640!set_dcw_dsp(v), Loud)
         /\ Only(Ov2640!set_bpc_dsp(v), Loud)
         /\ Only(Ov2640!set_wpc_dsp(v), Loud)
    BY <1>12, Zenon DEF Ov2640!set_colorbar, Ov2640!set_agc_sensor, Ov2640!set_aec_sensor,
         Ov2640!set_hmirror_sensor, Ov2640!set_raw_gma_dsp, Ov2640!set_awb_dsp,
         Ov2640!set_awb_gain_dsp, Ov2640!set_lenc_dsp, Ov2640!set_dcw_dsp, Ov2640!set_bpc_dsp,
         Ov2640!set_wpc_dsp
  <1>14. control \notin {"framesize", "vflip"} => Only(Ov2640!Setter(s, control, v), Loud)
    BY <1>2, <1>6, <1>10, <1>11, <1>13, Zenon DEF Ov2640!Setter, AllControls
  <1>15. control \in {"framesize", "vflip"} => Only(Ov2640!Setter(s, control, v), Present)
    BY <1>7, <1>8, Zenon DEF Ov2640!Setter
  <1>16. Silent.OV2640 = {"framesize", "vflip"}
    BY DEF Silent
  <1> QED BY <1>14, <1>15, <1>16, OnlyMore DEF Present
LEMMA Ov3660Calls ==
  ASSUME NEW s, NEW control \in AllControls, NEW v
  PROVE  /\ control \notin Silent.OV3660 => Only(Ov3660!Setter(s, control, v), Loud)
         /\ Only(Ov3660!Setter(s, control, v), Present)
  <1>1. \A note, steps : Only(Ov3660!StatusLast(note, steps), Loud)
    BY OnlyOne DEF Loud, Present, Ov3660!StatusLast, Ov3660!Part
  <1>2. Only(Ov3660!Rejected, Loud)
    BY OnlyOne DEF Loud, Present, Ov3660!Rejected, Ov3660!Part
  <1>3. \A level, lowest, highest, call : Only(call, Loud) => Only(Ov3660!Within(level, lowest, highest, call), Loud)
    BY <1>2, Zenon DEF Ov3660!Within
  <1>4. Only(Ov3660!set_pixformat(v), Loud)
    BY <1>1, <1>2, SMT DEF Ov3660!set_pixformat
  <1>5. /\ Only(Ov3660!set_ae_level(v), Loud)
        /\ Only(Ov3660!set_special_effect(v), Loud)
        /\ Only(Ov3660!set_contrast(v), Loud)
        /\ Only(Ov3660!set_saturation(v), Loud)
        /\ Only(Ov3660!set_sharpness(v), Loud)
        /\ Only(Ov3660!set_denoise(v), Loud)
        /\ Only(Ov3660!set_wb_mode(v), Loud)
    BY <1>1, <1>3, SMT
    DEF Ov3660!set_ae_level, Ov3660!set_special_effect, Ov3660!set_contrast,
        Ov3660!set_saturation, Ov3660!set_sharpness, Ov3660!set_denoise, Ov3660!set_wb_mode
  <1>6. \A field, reg, off : /\ Only(Ov3660!Switch(field, reg, off, v), Loud)
                             /\ Only(Ov3660!Unless(field, reg, off, v), Loud)
    BY <1>1, Zenon DEF Ov3660!Switch, Ov3660!Unless
  <1>7. /\ Only(Ov3660!set_gain_ctrl(v), Loud)
        /\ Only(Ov3660!set_exposure_ctrl(v), Loud)
        /\ Only(Ov3660!set_whitebal(v), Loud)
        /\ Only(Ov3660!set_dcw_dsp(v), Loud)
        /\ Only(Ov3660!set_aec2(v), Loud)
        /\ Only(Ov3660!set_bpc_dsp(v), Loud)
        /\ Only(Ov3660!set_wpc_dsp(v), Loud)
        /\ Only(Ov3660!set_raw_gma_dsp(v), Loud)
        /\ Only(Ov3660!set_lenc_dsp(v), Loud)
    BY <1>6, SMT
    DEF Ov3660!set_gain_ctrl, Ov3660!set_exposure_ctrl, Ov3660!set_whitebal,
        Ov3660!set_dcw_dsp, Ov3660!set_aec2, Ov3660!set_bpc_dsp, Ov3660!set_wpc_dsp,
        Ov3660!set_raw_gma_dsp, Ov3660!set_lenc_dsp
  <1>8. /\ Only(Ov3660!set_quality(v), Loud)
        /\ Only(Ov3660!set_colorbar(v), Loud)
        /\ Only(Ov3660!set_agc_gain(v), Loud)
        /\ Only(Ov3660!set_aec_value(s.dev, v), Loud)
        /\ Only(Ov3660!set_awb_gain_dsp(s.status, v), Loud)
        /\ Only(Ov3660!set_brightness(v), Loud)
        /\ Only(Ov3660!set_gainceiling(v), Loud)
    BY <1>1, SMT
    DEF Ov3660!set_quality, Ov3660!set_colorbar, Ov3660!set_agc_gain, Ov3660!set_aec_value,
        Ov3660!set_awb_gain_dsp, Ov3660!set_brightness, Ov3660!set_gainceiling
  <1>9. \A st : Only(Ov3660!set_image_options(st), Present)
    BY OnlyTwo DEF Loud, Present, Ov3660!set_image_options, Ov3660!Ignored, Ov3660!Checked, Ov3660!Part
  <1>10. \A note, steps : Only(<<Ov3660!Note(note), Ov3660!Checked(steps)>>, Present)
    BY OnlyTwo DEF Loud, Present, Ov3660!Note, Ov3660!Checked, Ov3660!Part
  <1>11. \A note : Only(<<Ov3660!Note(note)>>, Present)
    BY OnlyOne DEF Loud, Present, Ov3660!Note, Ov3660!Part
  <1>12. Only(Ov3660!set_pll, Present)
    BY OnlyOne DEF Loud, Present, Ov3660!set_pll, Ov3660!Checked, Ov3660!Part
  <1>13. Only(Ov3660!set_framesize(s.status, v), Present)
    BY <1>9, <1>10, <1>11, <1>12, OnlyFour, SMT DEF Ov3660!set_framesize
  <1>14. /\ Only(Ov3660!set_hmirror(s.status, v), Present)
         /\ Only(Ov3660!set_vflip(s.status, v), Present)
    BY <1>9, <1>11, OnlyConcat, SMT DEF Ov3660!set_hmirror, Ov3660!set_vflip
  <1>15. control \notin {"framesize", "hmirror", "vflip"}
         => Only(Ov3660!Setter(s, control, v), Loud)
    BY <1>2, <1>4, <1>5, <1>7, <1>8, Zenon DEF Ov3660!Setter, AllControls
  <1>16. control \in {"framesize", "hmirror", "vflip"} => Only(Ov3660!Setter(s, control, v), Present)
    BY <1>13, <1>14, Zenon DEF Ov3660!Setter
  <1>17. Silent.OV3660 = {"framesize", "hmirror", "vflip"}
    BY DEF Silent
  <1> QED BY <1>15, <1>16, <1>17, OnlyMore DEF Present

LEMMA Ov7725Calls ==
  ASSUME NEW s, NEW control \in AllControls, NEW v
  PROVE  /\ control \notin Silent.OV7725 => Only(Ov7725!Setter(s, control, v), Loud)
         /\ Only(Ov7725!Setter(s, control, v), Present)
  <1>1. \A note, steps : Only(Ov7725!StatusLast(note, steps), Loud)
    BY OnlyOne DEF Loud, Present, Ov7725!StatusLast, Ov7725!Part
  <1>2. \A note, steps : Only(Ov7725!StatusFirst(note, steps), Loud)
    BY OnlyTwo DEF Loud, Present, Ov7725!StatusFirst, Ov7725!Note, Ov7725!Checked, Ov7725!Part
  <1>3. Only(Ov7725!Rejected, Loud)
    BY OnlyOne DEF Loud, Present, Ov7725!Rejected, Ov7725!Part
  <1>4. \A note : Only(<<Ov7725!Note(note)>>, Loud)
    BY OnlyOne DEF Loud, Present, Ov7725!Note, Ov7725!Part
  <1>5. Only(Ov7725!set_pixformat(v), Loud)
    BY <1>2, <1>4, <1>3, OnlyConcat, SMT DEF Ov7725!set_pixformat
  <1>6. /\ \A x : Only(Ov7725!Collected(<<x>>), Loud)
        /\ \A x, y : Only(Ov7725!Collected(<<x, y>>), Loud)
    <2>1. ASSUME NEW steps, NEW n \in Nat, DOMAIN steps = 1..n
          PROVE  Only(Ov7725!Collected(steps), Loud)
      BY <2>1, OnlyEach DEF Loud, Present, Ov7725!Collected, Ov7725!Part
    <2>2. /\ (\A x : DOMAIN <<x>> = 1..1)
          /\ (\A x, y : DOMAIN <<x, y>> = 1..2)
      OBVIOUS
    <2>3. 1 \in Nat /\ 2 \in Nat
      OBVIOUS
    <2> QED BY <2>1, <2>2, <2>3, Zenon
  <1>7. /\ \A note, x : Only(Ov7725!NotedThenCollected(note, <<x>>), Loud)
        /\ \A note, x, y : Only(Ov7725!NotedThenCollected(note, <<x, y>>), Loud)
        /\ \A note, x, y : Only(Ov7725!CollectedThenNoted(note, <<x, y>>), Loud)
    BY <1>4, <1>6, OnlyConcat, SMT DEF Ov7725!NotedThenCollected, Ov7725!CollectedThenNoted
  <1>8. /\ Only(Ov7725!set_framesize(v), Loud)
        /\ Only(Ov7725!set_colorbar(v), Loud)
        /\ Only(Ov7725!set_aec_value(v), Loud)
    BY <1>7, <1>3, SMT DEF Ov7725!set_framesize, Ov7725!set_colorbar, Ov7725!set_aec_value
  <1>9. \A field, reg, off : Only(Ov7725!Switch(field, reg, off, v), Loud)
    BY <1>1, SMT DEF Ov7725!Switch
  <1>10. /\ Only(Ov7725!set_dcw_dsp(v), Loud)
         /\ Only(Ov7725!set_aec2(v), Loud)
         /\ Only(Ov7725!set_bpc_dsp(v), Loud)
         /\ Only(Ov7725!set_wpc_dsp(v), Loud)
         /\ Only(Ov7725!set_raw_gma_dsp(v), Loud)
         /\ Only(Ov7725!set_lenc_dsp(v), Loud)
         /\ Only(Ov7725!set_awb_gain_dsp(v), Loud)
         /\ Only(Ov7725!set_agc_gain(v), Loud)
         /\ Only(Ov7725!set_brightness(v), Loud)
         /\ Only(Ov7725!set_contrast(v), Loud)
    BY <1>1, <1>9, SMT
    DEF Ov7725!set_dcw_dsp, Ov7725!set_aec2, Ov7725!set_bpc_dsp, Ov7725!set_wpc_dsp,
        Ov7725!set_raw_gma_dsp, Ov7725!set_lenc_dsp, Ov7725!set_awb_gain_dsp,
        Ov7725!set_agc_gain, Ov7725!set_brightness, Ov7725!set_contrast
  <1>11. \A status_, field, steps : Only(Ov7725!ReturnsStatus(status_, field, steps, v), Present)
    <2> TAKE status_, field, steps
    <2> DEFINE error == IF status_[field] = 0 THEN "withheld" ELSE "returned"
               part == [steps |-> steps, error |-> error, note |-> (field :> v)]
               rest == IF v = 0 THEN <<>> ELSE Ov7725!Rejected
    <2>1. Only(<<part>>, Present)
      <3>1. part.error \in Present
        BY DEF Present, Loud
      <3> HIDE DEF part
      <3> QED BY <3>1, OnlyOne
    <2>2. Only(rest, Present)
      BY <1>3, OnlyNone, OnlyMore DEF Present
    <2>3. Ov7725!ReturnsStatus(status_, field, steps, v) = <<part>> \o rest
      BY Zenon DEF Ov7725!ReturnsStatus, Ov7725!Part
    <2> HIDE DEF part, rest
    <2> QED BY <2>1, <2>2, <2>3, OnlyConcat
  <1>12. /\ Only(Ov7725!set_whitebal(s.status, v), Present)
         /\ Only(Ov7725!set_gain_ctrl(s.status, v), Present)
         /\ Only(Ov7725!set_exposure_ctrl(s.status, v), Present)
         /\ Only(Ov7725!set_hmirror(s.status, v), Present)
         /\ Only(Ov7725!set_vflip(s.status, v), Present)
    BY <1>11, SMT
    DEF Ov7725!set_whitebal, Ov7725!set_gain_ctrl, Ov7725!set_exposure_ctrl,
        Ov7725!set_hmirror, Ov7725!set_vflip
  <1>13. control \notin {"aec", "agc", "awb", "hmirror", "vflip"}
         => Only(Ov7725!Setter(s, control, v), Loud)
    BY <1>3, <1>5, <1>8, <1>10, Zenon DEF Ov7725!Setter, AllControls
  <1>14. control \in {"aec", "agc", "awb", "hmirror", "vflip"} => Only(Ov7725!Setter(s, control, v), Present)
    BY <1>12, Zenon DEF Ov7725!Setter
  <1>15. Silent.OV7725 = {"aec", "agc", "awb", "hmirror", "vflip"}
    BY DEF Silent
  <1> QED BY <1>13, <1>14, <1>15, OnlyMore DEF Present

LEMMA Ov5640Calls ==
  ASSUME NEW s, NEW control \in AllControls, NEW v
  PROVE  /\ Only(Ov5640!Setter(s, control, v), Loud)
         /\ Only(Ov5640!Setter(s, control, v), Present)
  <1>1. \A note, steps : Only(Ov5640!Ov3660!StatusLast(note, steps), Loud)
    BY OnlyOne DEF Loud, Present, Ov5640!Ov3660!StatusLast, Ov5640!Ov3660!Part
  <1>2. Only(Ov5640!Ov3660!Rejected, Loud)
    BY OnlyOne DEF Loud, Present, Ov5640!Ov3660!Rejected, Ov5640!Ov3660!Part
  <1>3. \A level, lowest, highest, call :
           Only(call, Loud) => Only(Ov5640!Ov3660!Within(level, lowest, highest, call), Loud)
    BY <1>2, Zenon DEF Ov5640!Ov3660!Within
  <1>4. \A field, reg, off : /\ Only(Ov5640!Ov3660!Switch(field, reg, off, v), Loud)
                             /\ Only(Ov5640!Ov3660!Unless(field, reg, off, v), Loud)
    BY <1>1, Zenon DEF Ov5640!Ov3660!Switch, Ov5640!Ov3660!Unless
  <1>5. Only(Ov5640!set_pixformat(v), Loud)
    BY <1>1, <1>2, SMT DEF Ov5640!set_pixformat, Ov5640!Ov3660!set_pixformat
  <1>6. /\ Only(Ov5640!set_ae_level(v), Loud)
        /\ Only(Ov5640!set_special_effect(v), Loud)
        /\ Only(Ov5640!set_contrast(v), Loud)
        /\ Only(Ov5640!set_saturation(v), Loud)
        /\ Only(Ov5640!set_sharpness(v), Loud)
        /\ Only(Ov5640!set_denoise(v), Loud)
        /\ Only(Ov5640!set_wb_mode(v), Loud)
    BY <1>1, <1>3, SMT
    DEF Ov5640!set_ae_level, Ov5640!set_special_effect, Ov5640!set_contrast,
        Ov5640!set_saturation, Ov5640!set_sharpness, Ov5640!set_denoise, Ov5640!set_wb_mode,
        Ov5640!Ov3660!set_ae_level, Ov5640!Ov3660!set_special_effect,
        Ov5640!Ov3660!set_contrast, Ov5640!Ov3660!set_saturation, Ov5640!Ov3660!set_sharpness,
        Ov5640!Ov3660!set_denoise, Ov5640!Ov3660!set_wb_mode
  <1>7. /\ Only(Ov5640!set_gain_ctrl(v), Loud)
        /\ Only(Ov5640!set_exposure_ctrl(v), Loud)
        /\ Only(Ov5640!set_whitebal(v), Loud)
        /\ Only(Ov5640!set_dcw_dsp(v), Loud)
        /\ Only(Ov5640!set_aec2(v), Loud)
        /\ Only(Ov5640!set_bpc_dsp(v), Loud)
        /\ Only(Ov5640!set_wpc_dsp(v), Loud)
        /\ Only(Ov5640!set_raw_gma_dsp(v), Loud)
        /\ Only(Ov5640!set_lenc_dsp(v), Loud)
    BY <1>4, SMT
    DEF Ov5640!set_gain_ctrl, Ov5640!set_exposure_ctrl, Ov5640!set_whitebal,
        Ov5640!set_dcw_dsp, Ov5640!set_aec2, Ov5640!set_bpc_dsp, Ov5640!set_wpc_dsp,
        Ov5640!set_raw_gma_dsp, Ov5640!set_lenc_dsp, Ov5640!Ov3660!set_gain_ctrl,
        Ov5640!Ov3660!set_exposure_ctrl, Ov5640!Ov3660!set_whitebal, Ov5640!Ov3660!set_dcw_dsp,
        Ov5640!Ov3660!set_aec2, Ov5640!Ov3660!set_bpc_dsp, Ov5640!Ov3660!set_wpc_dsp,
        Ov5640!Ov3660!set_raw_gma_dsp, Ov5640!Ov3660!set_lenc_dsp
  <1>8. /\ Only(Ov5640!set_quality(v), Loud)
        /\ Only(Ov5640!set_colorbar(v), Loud)
        /\ Only(Ov5640!set_agc_gain(v), Loud)
        /\ Only(Ov5640!set_aec_value(s.dev, v), Loud)
        /\ Only(Ov5640!set_awb_gain_dsp(s.status, v), Loud)
        /\ Only(Ov5640!set_brightness(v), Loud)
        /\ Only(Ov5640!set_gainceiling(v), Loud)
    BY <1>1, SMT
    DEF Ov5640!set_quality, Ov5640!set_colorbar, Ov5640!set_agc_gain, Ov5640!set_aec_value,
        Ov5640!set_awb_gain_dsp, Ov5640!set_brightness, Ov5640!set_gainceiling,
        Ov5640!Ov3660!set_quality, Ov5640!Ov3660!set_colorbar, Ov5640!Ov3660!set_agc_gain,
        Ov5640!Ov3660!set_aec_value, Ov5640!Ov3660!set_awb_gain_dsp,
        Ov5640!Ov3660!set_brightness, Ov5640!Ov3660!set_gainceiling
  <1>9. Only(Ov5640!Rejected, Loud)
    BY OnlyOne DEF Loud, Present, Ov5640!Rejected, Ov5640!Part
  <1>10. \A st : Only(Ov5640!set_image_options(st), Loud)
    BY OnlyTwo DEF Loud, Ov5640!set_image_options, Ov5640!Checked, Ov5640!Part, Ov5640!Ov3660!set_image_options,
         Ov5640!Ov3660!Ignored, Ov5640!Ov3660!Checked, Ov5640!Ov3660!Part
  <1>11. \A note, steps : Only(<<Ov5640!Note(note), Ov5640!Checked(steps)>>, Loud)
    BY OnlyTwo DEF Loud, Present, Ov5640!Note, Ov5640!Checked, Ov5640!Part
  <1>12. \A note : Only(<<Ov5640!Note(note)>>, Loud)
    BY OnlyOne DEF Loud, Present, Ov5640!Note, Ov5640!Part
  <1>13. Only(Ov5640!set_pll, Loud)
    BY OnlyOne DEF Loud, Present, Ov5640!set_pll, Ov5640!Checked, Ov5640!Part
  <1>14. Only(Ov5640!set_framesize(s.status, v), Loud)
    BY <1>10, <1>11, <1>12, <1>13, <1>9, OnlyConcat, OnlyFour, SMT DEF Ov5640!set_framesize
  <1>15. /\ Only(Ov5640!set_hmirror(s.status, v), Loud)
         /\ Only(Ov5640!set_vflip(s.status, v), Loud)
    BY <1>10, <1>12, OnlyConcat, SMT DEF Ov5640!set_hmirror, Ov5640!set_vflip
  <1>16. Only(Ov5640!Setter(s, control, v), Loud)
    BY <1>5, <1>6, <1>7, <1>8, <1>14, <1>15, Zenon DEF Ov5640!Setter, AllControls
  <1> QED BY <1>16, OnlyMore DEF Present

LEMMA Ov7670Calls ==
  ASSUME NEW s, NEW control \in AllControls, NEW v
  PROVE  control \notin Silent.OV7670
            => Only(Ov7670!Setter(s, control, v), Loud) \/ Ov7670!Setter(s, control, v) = Missing
  <1>1. \A note, steps : Only(Ov7670!StatusLast(note, steps), Loud)
    BY OnlyOne DEF Loud, Present, Ov7670!StatusLast, Ov7670!Part
  <1>2. Only(Ov7670!Rejected, Loud)
    BY OnlyOne DEF Loud, Present, Ov7670!Rejected, Ov7670!Part
  <1>3. Only(Ov7670!Sent, Loud)
    BY OnlyOne DEF Loud, Present, Ov7670!Sent, Ov7670!Checked, Ov7670!Part
  <1>4. Only(Ov7670!set_framesize(v), Loud)
    BY <1>1, <1>2, SMT DEF Ov7670!set_framesize
  <1>5. /\ Only(Ov7670!set_whitebal(v), Loud)
        /\ Only(Ov7670!set_gain_ctrl(v), Loud)
        /\ Only(Ov7670!set_exposure_ctrl(v), Loud)
        /\ Only(Ov7670!set_hmirror(v), Loud)
        /\ Only(Ov7670!set_vflip(v), Loud)
    BY <1>3, SMT
    DEF Ov7670!set_whitebal, Ov7670!set_gain_ctrl, Ov7670!set_exposure_ctrl,
        Ov7670!set_hmirror, Ov7670!set_vflip
  <1>6. /\ \A x : Only(Ov7670!Collected(<<x>>), Loud)
        /\ \A x, y : Only(Ov7670!Collected(<<x, y>>), Loud)
    <2>1. ASSUME NEW steps, NEW n \in Nat, DOMAIN steps = 1..n
          PROVE  Only(Ov7670!Collected(steps), Loud)
      BY <2>1, OnlyEach DEF Loud, Present, Ov7670!Collected, Ov7670!Part
    <2>2. /\ (\A x : DOMAIN <<x>> = 1..1)
          /\ (\A x, y : DOMAIN <<x, y>> = 1..2)
      OBVIOUS
    <2>3. 1 \in Nat /\ 2 \in Nat
      OBVIOUS
    <2> QED BY <2>1, <2>2, <2>3, Zenon
  <1>7. Only(Ov7670!set_colorbar(v), Loud)
    BY <1>6, SMT DEF Ov7670!set_colorbar
  <1>8. Ov7670!Missing = Missing
    BY DEF Ov7670!Missing, Ov7670!Part, Ov7670!NoNote, Missing, Part, NoNote
  <1>9. control \notin {"pixformat"}
         => Only(Ov7670!Setter(s, control, v), Loud) \/ Ov7670!Setter(s, control, v) = Missing
    BY <1>2, <1>4, <1>5, <1>7, <1>8, Zenon DEF Ov7670!Setter, AllControls
  <1>10. Silent.OV7670 = {"pixformat"}
    BY DEF Silent
  <1> QED BY <1>9, <1>10

LEMMA Nt99141Calls ==
  ASSUME NEW s, NEW control \in AllControls, NEW v
  PROVE  /\ control \notin Silent.NT99141 => Only(Nt99141!Setter(s, control, v), Loud)
         /\ Only(Nt99141!Setter(s, control, v), Present)
  <1>1. \A note, steps : Only(Nt99141!StatusLast(note, steps), Loud)
    BY OnlyOne DEF Loud, Present, Nt99141!StatusLast, Nt99141!Part
  <1>2. Only(Nt99141!Rejected, Loud)
    BY OnlyOne DEF Loud, Present, Nt99141!Rejected, Nt99141!Part
  <1>3. \A note : Only(<<Nt99141!Note(note)>>, Loud)
    BY OnlyOne DEF Loud, Present, Nt99141!Note, Nt99141!Part
  <1>4. \A steps : Only(<<Nt99141!Ignored(steps)>>, Present)
    BY OnlyOne DEF Loud, Present, Nt99141!Ignored, Nt99141!Part
  <1>5. Only(<<>>, Loud)
    BY OnlyNone
  <1>6. \A steps : Only(<<Nt99141!Checked(steps)>>, Loud)
    BY OnlyOne DEF Loud, Present, Nt99141!Checked, Nt99141!Part
  <1>7. /\ Only(Nt99141!set_pixformat(v), Loud)
        /\ Only(Nt99141!set_wb_mode(v), Loud)
        /\ Only(Nt99141!set_special_effect(v), Loud)
        /\ Only(Nt99141!set_saturation(v), Loud)
        /\ Only(Nt99141!set_sharpness(v), Loud)
    BY <1>1, <1>2, SMT
    DEF Nt99141!set_pixformat, Nt99141!set_wb_mode, Nt99141!set_special_effect,
        Nt99141!set_saturation, Nt99141!set_sharpness
  <1>8. /\ Only(Nt99141!set_quality(v), Loud)
        /\ Only(Nt99141!set_colorbar(v), Loud)
        /\ Only(Nt99141!set_gain_ctrl(v), Loud)
        /\ Only(Nt99141!set_exposure_ctrl(v), Loud)
        /\ Only(Nt99141!set_awb_gain_dsp(s.status, v), Loud)
        /\ Only(Nt99141!set_brightness(v), Loud)
    BY <1>1, SMT
    DEF Nt99141!set_quality, Nt99141!set_colorbar, Nt99141!set_gain_ctrl,
        Nt99141!set_exposure_ctrl, Nt99141!set_awb_gain_dsp, Nt99141!set_brightness
  <1>9. /\ Only(Nt99141!set_whitebal(v), Loud)
        /\ Only(Nt99141!set_dcw_dsp(v), Loud)
        /\ Only(Nt99141!set_aec2(v), Loud)
        /\ Only(Nt99141!set_bpc_dsp(v), Loud)
        /\ Only(Nt99141!set_wpc_dsp(v), Loud)
        /\ Only(Nt99141!set_raw_gma_dsp(v), Loud)
        /\ Only(Nt99141!set_lenc_dsp(v), Loud)
    BY <1>3, SMT
    DEF Nt99141!set_whitebal, Nt99141!set_dcw_dsp, Nt99141!set_aec2, Nt99141!set_bpc_dsp,
        Nt99141!set_wpc_dsp, Nt99141!set_raw_gma_dsp, Nt99141!set_lenc_dsp
  <1>10. /\ Only(Nt99141!set_gainceiling(v), Loud)
         /\ Only(Nt99141!set_denoise(v), Loud)
    BY <1>5, SMT DEF Nt99141!set_gainceiling, Nt99141!set_denoise
  <1>11. /\ Only(Nt99141!set_hmirror(s.status, v), Loud)
         /\ Only(Nt99141!set_vflip(s.status, v), Loud)
    BY <1>3, <1>6, OnlyConcat, SMT
    DEF Nt99141!set_hmirror, Nt99141!set_vflip, Nt99141!set_image_options
  <1>12. Only(Nt99141!set_framesize(v), Present)
    BY OnlyThree DEF Loud, Present, Nt99141!set_framesize, Nt99141!Note, Nt99141!Ignored, Nt99141!Checked, Nt99141!Part
  <1>13. Only(Nt99141!set_aec_value(v), Present)
    BY OnlyTwo DEF Loud, Present, Nt99141!set_aec_value, Nt99141!Ignored, Nt99141!Checked, Nt99141!Part
  <1>14. Only(Nt99141!set_ae_level(v), Present)
    BY <1>4, SMT DEF Nt99141!set_ae_level
  <1>15. Only(Nt99141!set_agc_gain(v), Present)
    BY <1>4, OnlyNone, SMT DEF Nt99141!set_agc_gain
  <1>16. Only(Nt99141!set_contrast(v), Present)
    <2>1. \A note, steps : Only(Nt99141!StatusLast(note, steps), Present)
      BY <1>1, OnlyMore DEF Present
    <2> QED BY <1>4, <2>1, OnlyConcat, SMT DEF Nt99141!set_contrast
  <1>17. control \notin {"ae_level", "aec_value", "agc_gain", "contrast", "framesize"}
         => Only(Nt99141!Setter(s, control, v), Loud)
    BY <1>2, <1>7, <1>8, <1>9, <1>10, <1>11, Zenon DEF Nt99141!Setter, AllControls
  <1>18. control \in {"ae_level", "aec_value", "agc_gain", "contrast", "framesize"} => Only(Nt99141!Setter(s, control, v), Present)
    BY <1>12, <1>13, <1>14, <1>15, <1>16, Zenon DEF Nt99141!Setter
  <1>19. Silent.NT99141 = {"ae_level", "aec_value", "agc_gain", "contrast", "framesize"}
    BY DEF Silent
  <1> QED BY <1>17, <1>18, <1>19, OnlyMore DEF Present

LEMMA Gc2145Calls ==
  ASSUME NEW s, NEW control \in AllControls, NEW v
  PROVE  /\ control \notin Silent.GC2145 => Only(Gc2145!Setter(s, control, v), Loud)
         /\ Only(Gc2145!Setter(s, control, v), Present)
  <1>1. \A note, steps : Only(Gc2145!StatusLast(note, steps), Loud)
    BY OnlyOne DEF Loud, Present, Gc2145!StatusLast, Gc2145!Part
  <1>2. Only(Gc2145!Rejected, Loud)
    BY OnlyOne DEF Loud, Present, Gc2145!Rejected, Gc2145!Part
  <1>3. \A note : Only(<<Gc2145!Note(note)>>, Loud)
    BY OnlyOne DEF Loud, Present, Gc2145!Note, Gc2145!Part
  <1>4. \A steps : Only(<<Gc2145!Ignored(steps)>>, Present)
    BY OnlyOne DEF Loud, Present, Gc2145!Ignored, Gc2145!Part
  <1>5. /\ \A x : Only(Gc2145!Collected(<<x>>), Loud)
        /\ \A x, y : Only(Gc2145!Collected(<<x, y>>), Loud)
    <2>1. ASSUME NEW steps, NEW n \in Nat, DOMAIN steps = 1..n
          PROVE  Only(Gc2145!Collected(steps), Loud)
      BY <2>1, OnlyEach DEF Loud, Present, Gc2145!Collected, Gc2145!Part
    <2>2. /\ (\A x : DOMAIN <<x>> = 1..1)
          /\ (\A x, y : DOMAIN <<x, y>> = 1..2)
      OBVIOUS
    <2>3. 1 \in Nat /\ 2 \in Nat
      OBVIOUS
    <2> QED BY <2>1, <2>2, <2>3, Zenon
  <1>6. /\ \A x : Only(Gc2145!Shrugged(<<x>>), Present)
        /\ \A x, y : Only(Gc2145!Shrugged(<<x, y>>), Present)
    <2>1. ASSUME NEW steps, NEW n \in Nat, DOMAIN steps = 1..n
          PROVE  Only(Gc2145!Shrugged(steps), Present)
      BY <2>1, OnlyEach DEF Loud, Present, Gc2145!Shrugged, Gc2145!Ignored, Gc2145!Part
    <2>2. /\ (\A x : DOMAIN <<x>> = 1..1)
          /\ (\A x, y : DOMAIN <<x, y>> = 1..2)
      OBVIOUS
    <2>3. 1 \in Nat /\ 2 \in Nat
      OBVIOUS
    <2> QED BY <2>1, <2>2, <2>3, Zenon
  <1>7. /\ Only(Gc2145!set_hmirror(v), Loud)
        /\ Only(Gc2145!set_vflip(v), Loud)
    BY <1>3, <1>5, OnlyConcat, SMT
    DEF Gc2145!set_hmirror, Gc2145!set_vflip, Gc2145!NotedThenCollected
  <1>8. Only(Gc2145!set_colorbar(v), Loud)
    BY <1>3, SMT DEF Gc2145!set_colorbar
  <1>9. /\ \A note, steps : Only(Gc2145!StatusLast(note, steps), Present)
        /\ \A note : Only(<<Gc2145!Note(note)>>, Present)
        /\ Only(Gc2145!Rejected, Present)
        /\ Only(<<>>, Present)
    BY <1>1, <1>2, <1>3, OnlyMore, OnlyNone DEF Present
  <1>10. Only(Gc2145!set_pixformat(v), Present)
    BY <1>4, <1>9, OnlyConcat, SMT DEF Gc2145!set_pixformat
  <1>11. Only(Gc2145!set_framesize(v), Present)
    BY <1>9, <1>6, OnlyConcat, SMT DEF Gc2145!set_framesize
  <1>12. control \notin {"framesize", "pixformat"}
         => Only(Gc2145!Setter(s, control, v), Loud)
    BY <1>2, <1>7, <1>8, Zenon DEF Gc2145!Setter, AllControls
  <1>13. control \in {"framesize", "pixformat"} => Only(Gc2145!Setter(s, control, v), Present)
    BY <1>10, <1>11, Zenon DEF Gc2145!Setter
  <1>14. Silent.GC2145 = {"framesize", "pixformat"}
    BY DEF Silent
  <1> QED BY <1>12, <1>13, <1>14, OnlyMore DEF Present

LEMMA Gc032aCalls ==
  ASSUME NEW s, NEW control \in AllControls, NEW v
  PROVE  /\ control \notin Silent.GC032A => Only(Gc032a!Setter(s, control, v), Loud)
         /\ Only(Gc032a!Setter(s, control, v), Present)
  <1>1. \A note, steps : Only(Gc032a!StatusLast(note, steps), Loud)
    BY OnlyOne DEF Loud, Present, Gc032a!StatusLast, Gc032a!Part
  <1>2. Only(Gc032a!Rejected, Loud)
    BY OnlyOne DEF Loud, Present, Gc032a!Rejected, Gc032a!Part
  <1>3. \A note : Only(<<Gc032a!Note(note)>>, Loud)
    BY OnlyOne DEF Loud, Present, Gc032a!Note, Gc032a!Part
  <1>4. \A steps : Only(<<Gc032a!Ignored(steps)>>, Present)
    BY OnlyOne DEF Loud, Present, Gc032a!Ignored, Gc032a!Part
  <1>5. /\ \A x : Only(Gc032a!Collected(<<x>>), Loud)
        /\ \A x, y : Only(Gc032a!Collected(<<x, y>>), Loud)
    <2>1. ASSUME NEW steps, NEW n \in Nat, DOMAIN steps = 1..n
          PROVE  Only(Gc032a!Collected(steps), Loud)
      BY <2>1, OnlyEach DEF Loud, Present, Gc032a!Collected, Gc032a!Part
    <2>2. /\ (\A x : DOMAIN <<x>> = 1..1)
          /\ (\A x, y : DOMAIN <<x, y>> = 1..2)
      OBVIOUS
    <2>3. 1 \in Nat /\ 2 \in Nat
      OBVIOUS
    <2> QED BY <2>1, <2>2, <2>3, Zenon
  <1>6. /\ \A x : Only(Gc032a!Shrugged(<<x>>), Present)
        /\ \A x, y : Only(Gc032a!Shrugged(<<x, y>>), Present)
    <2>1. ASSUME NEW steps, NEW n \in Nat, DOMAIN steps = 1..n
          PROVE  Only(Gc032a!Shrugged(steps), Present)
      BY <2>1, OnlyEach DEF Loud, Present, Gc032a!Shrugged, Gc032a!Ignored, Gc032a!Part
    <2>2. /\ (\A x : DOMAIN <<x>> = 1..1)
          /\ (\A x, y : DOMAIN <<x, y>> = 1..2)
      OBVIOUS
    <2>3. 1 \in Nat /\ 2 \in Nat
      OBVIOUS
    <2> QED BY <2>1, <2>2, <2>3, Zenon
  <1>7. /\ Only(Gc032a!set_hmirror(v), Loud)
        /\ Only(Gc032a!set_vflip(v), Loud)
    BY <1>3, <1>5, OnlyConcat, SMT
    DEF Gc032a!set_hmirror, Gc032a!set_vflip, Gc032a!NotedThenCollected
  <1>8. Only(Gc032a!set_colorbar(v), Loud)
    BY <1>3, <1>5, OnlyConcat, SMT DEF Gc032a!set_colorbar, Gc032a!CollectedThenNoted
  <1>9. /\ \A note, steps : Only(Gc032a!StatusLast(note, steps), Present)
        /\ \A note : Only(<<Gc032a!Note(note)>>, Present)
        /\ Only(Gc032a!Rejected, Present)
        /\ Only(<<>>, Present)
    BY <1>1, <1>2, <1>3, OnlyMore, OnlyNone DEF Present
  <1>10. Only(Gc032a!set_pixformat(v), Present)
    BY <1>4, <1>9, OnlyConcat, SMT DEF Gc032a!set_pixformat
  <1>11. Only(Gc032a!set_framesize(v), Present)
    BY <1>9, <1>6, OnlyConcat, SMT DEF Gc032a!set_framesize
  <1>12. control \notin {"framesize", "pixformat"}
         => Only(Gc032a!Setter(s, control, v), Loud)
    BY <1>2, <1>7, <1>8, Zenon DEF Gc032a!Setter, AllControls
  <1>13. control \in {"framesize", "pixformat"} => Only(Gc032a!Setter(s, control, v), Present)
    BY <1>10, <1>11, Zenon DEF Gc032a!Setter
  <1>14. Silent.GC032A = {"framesize", "pixformat"}
    BY DEF Silent
  <1> QED BY <1>12, <1>13, <1>14, OnlyMore DEF Present

LEMMA Gc0308Calls ==
  ASSUME NEW s, NEW control \in AllControls, NEW v
  PROVE  /\ control \notin Silent.GC0308 => Only(Gc0308!Setter(s, control, v), Loud)
         /\ Only(Gc0308!Setter(s, control, v), Present)
  <1>1. \A note, steps : Only(Gc0308!StatusLast(note, steps), Loud)
    BY OnlyOne DEF Loud, Present, Gc0308!StatusLast, Gc0308!Part
  <1>2. Only(Gc0308!Rejected, Loud)
    BY OnlyOne DEF Loud, Present, Gc0308!Rejected, Gc0308!Part
  <1>3. \A note : Only(<<Gc0308!Note(note)>>, Loud)
    BY OnlyOne DEF Loud, Present, Gc0308!Note, Gc0308!Part
  <1>4. \A steps : Only(<<Gc0308!Ignored(steps)>>, Present)
    BY OnlyOne DEF Loud, Present, Gc0308!Ignored, Gc0308!Part
  <1>5. /\ \A x : Only(Gc0308!Collected(<<x>>), Loud)
        /\ \A x, y : Only(Gc0308!Collected(<<x, y>>), Loud)
    <2>1. ASSUME NEW steps, NEW n \in Nat, DOMAIN steps = 1..n
          PROVE  Only(Gc0308!Collected(steps), Loud)
      BY <2>1, OnlyEach DEF Loud, Present, Gc0308!Collected, Gc0308!Part
    <2>2. /\ (\A x : DOMAIN <<x>> = 1..1)
          /\ (\A x, y : DOMAIN <<x, y>> = 1..2)
      OBVIOUS
    <2>3. 1 \in Nat /\ 2 \in Nat
      OBVIOUS
    <2> QED BY <2>1, <2>2, <2>3, Zenon
  <1>6. /\ \A x : Only(Gc0308!Shrugged(<<x>>), Present)
        /\ \A x, y : Only(Gc0308!Shrugged(<<x, y>>), Present)
        /\ \A x, y, z : Only(Gc0308!Shrugged(<<x, y, z>>), Present)
        /\ \A x, y, z, u : Only(Gc0308!Shrugged(<<x, y, z, u>>), Present)
        /\ \A x, y, z, u, w : Only(Gc0308!Shrugged(<<x, y, z, u, w>>), Present)
    <2>1. ASSUME NEW steps, NEW n \in Nat, DOMAIN steps = 1..n
          PROVE  Only(Gc0308!Shrugged(steps), Present)
      BY <2>1, OnlyEach DEF Loud, Present, Gc0308!Shrugged, Gc0308!Ignored, Gc0308!Part
    <2>2. /\ (\A x : DOMAIN <<x>> = 1..1)
          /\ (\A x, y : DOMAIN <<x, y>> = 1..2)
          /\ (\A x, y, z : DOMAIN <<x, y, z>> = 1..3)
          /\ (\A x, y, z, u : DOMAIN <<x, y, z, u>> = 1..4)
          /\ (\A x, y, z, u, w : DOMAIN <<x, y, z, u, w>> = 1..5)
      OBVIOUS
    <2>3. 1 \in Nat /\ 2 \in Nat /\ 3 \in Nat /\ 4 \in Nat /\ 5 \in Nat
      OBVIOUS
    <2> QED BY <2>1, <2>2, <2>3, Zenon
  <1>7. /\ Only(Gc0308!set_hmirror(v), Loud)
        /\ Only(Gc0308!set_vflip(v), Loud)
    BY <1>3, <1>5, OnlyConcat, SMT
    DEF Gc0308!set_hmirror, Gc0308!set_vflip, Gc0308!NotedThenCollected
  <1>8. Only(Gc0308!set_colorbar(v), Loud)
    BY <1>3, <1>5, OnlyConcat, SMT DEF Gc0308!set_colorbar, Gc0308!CollectedThenNoted
  <1>9. /\ \A note, steps : Only(Gc0308!StatusLast(note, steps), Present)
        /\ \A note : Only(<<Gc0308!Note(note)>>, Present)
        /\ Only(Gc0308!Rejected, Present)
        /\ Only(<<>>, Present)
    BY <1>1, <1>2, <1>3, OnlyMore, OnlyNone DEF Present
  <1>10. Only(Gc0308!set_pixformat(v), Present)
    BY <1>4, <1>9, OnlyConcat, SMT DEF Gc0308!set_pixformat
  <1>11. Only(Gc0308!set_framesize(v), Present)
    BY <1>9, <1>6, OnlyConcat, SMT DEF Gc0308!set_framesize
  <1>12. /\ Only(Gc0308!set_contrast(v), Present)
         /\ Only(Gc0308!set_global_gain(v), Present)
    BY <1>9, <1>6, SMT DEF Gc0308!set_contrast, Gc0308!set_global_gain
  <1>13. control \notin {"agc", "contrast", "framesize", "pixformat"}
         => Only(Gc0308!Setter(s, control, v), Loud)
    BY <1>2, <1>7, <1>8, Zenon DEF Gc0308!Setter, AllControls
  <1>14. control \in {"agc", "contrast", "framesize", "pixformat"} => Only(Gc0308!Setter(s, control, v), Present)
    BY <1>10, <1>11, <1>12, Zenon DEF Gc0308!Setter
  <1>15. Silent.GC0308 = {"agc", "contrast", "framesize", "pixformat"}
    BY DEF Silent
  <1> QED BY <1>13, <1>14, <1>15, OnlyMore DEF Present

LEMMA Bf3005Calls ==
  ASSUME NEW s, NEW control \in AllControls, NEW v
  PROVE  control \notin Silent.BF3005
            => Only(Bf3005!Setter(s, control, v), Loud) \/ Bf3005!Setter(s, control, v) = Missing
  <1>1. \A note, steps : Only(Bf3005!StatusLast(note, steps), Loud)
    BY OnlyOne DEF Loud, Present, Bf3005!StatusLast, Bf3005!Part
  <1>2. Only(Bf3005!Rejected, Loud)
    BY OnlyOne DEF Loud, Present, Bf3005!Rejected, Bf3005!Part
  <1>3. \A note : Only(<<Bf3005!Note(note)>>, Loud)
    BY OnlyOne DEF Loud, Present, Bf3005!Note, Bf3005!Part
  <1>4. \A x : Only(Bf3005!Collected(<<x>>), Loud)
    <2>1. ASSUME NEW steps, NEW n \in Nat, DOMAIN steps = 1..n
          PROVE  Only(Bf3005!Collected(steps), Loud)
      BY <2>1, OnlyEach DEF Loud, Present, Bf3005!Collected, Bf3005!Part
    <2>2. (\A x : DOMAIN <<x>> = 1..1)
      OBVIOUS
    <2>3. 1 \in Nat
      OBVIOUS
    <2> QED BY <2>1, <2>2, <2>3, Zenon
  <1>5. Only(Bf3005!set_colorbar(v), Loud)
    BY <1>3, <1>4, OnlyConcat, SMT DEF Bf3005!set_colorbar, Bf3005!NotedThenCollected
  <1>6. /\ Only(Bf3005!set_raw_gma_dsp(v), Loud)
        /\ Only(Bf3005!set_lenc_dsp(v), Loud)
        /\ Only(Bf3005!set_agc_gain(v), Loud)
        /\ Only(Bf3005!set_awb_gain_dsp(v), Loud)
        /\ Only(Bf3005!set_brightness(v), Loud)
        /\ Only(Bf3005!set_contrast(v), Loud)
        /\ Only(Bf3005!set_sharpness(v), Loud)
    BY <1>1, SMT
    DEF Bf3005!set_raw_gma_dsp, Bf3005!set_lenc_dsp, Bf3005!set_agc_gain,
        Bf3005!set_awb_gain_dsp, Bf3005!set_brightness, Bf3005!set_contrast,
        Bf3005!set_sharpness
  <1>7. Bf3005!Missing = Missing
    BY DEF Bf3005!Missing, Bf3005!Part, Bf3005!NoNote, Missing, Part, NoNote
  <1>8. control \notin {"aec", "agc", "awb", "framesize", "hmirror", "pixformat", "vflip"}
         => Only(Bf3005!Setter(s, control, v), Loud) \/ Bf3005!Setter(s, control, v) = Missing
    BY <1>2, <1>5, <1>6, <1>7, Zenon DEF Bf3005!Setter, AllControls
  <1>9. Silent.BF3005 = {"aec", "agc", "awb", "framesize", "hmirror", "pixformat", "vflip"}
    BY DEF Silent
  <1> QED BY <1>8, <1>9

LEMMA Bf20a6Calls ==
  ASSUME NEW s, NEW control \in AllControls, NEW v
  PROVE  /\ control \notin Silent.BF20A6 => Only(Bf20a6!Setter(s, control, v), Loud)
         /\ Only(Bf20a6!Setter(s, control, v), Present)
  <1>1. \A note, steps : Only(Bf20a6!StatusLast(note, steps), Loud)
    BY OnlyOne DEF Loud, Present, Bf20a6!StatusLast, Bf20a6!Part
  <1>2. Only(Bf20a6!Rejected, Loud)
    BY OnlyOne DEF Loud, Present, Bf20a6!Rejected, Bf20a6!Part
  <1>3. \A note : Only(<<Bf20a6!Note(note)>>, Loud)
    BY OnlyOne DEF Loud, Present, Bf20a6!Note, Bf20a6!Part
  <1>4. \A x : Only(Bf20a6!Collected(<<x>>), Loud)
    <2>1. ASSUME NEW steps, NEW n \in Nat, DOMAIN steps = 1..n
          PROVE  Only(Bf20a6!Collected(steps), Loud)
      BY <2>1, OnlyEach DEF Loud, Present, Bf20a6!Collected, Bf20a6!Part
    <2>2. (\A x : DOMAIN <<x>> = 1..1)
      OBVIOUS
    <2>3. 1 \in Nat
      OBVIOUS
    <2> QED BY <2>1, <2>2, <2>3, Zenon
  <1>5. ASSUME NEW note, NEW x PROVE Only(Bf20a6!NotedThenCollected(note, <<x>>), Loud)
    <2>1. Only(<<Bf20a6!Note(note)>>, Loud) /\ Only(Bf20a6!Collected(<<x>>), Loud)
      BY <1>3, <1>4, Zenon
    <2>2. Only(<<Bf20a6!Note(note)>> \o Bf20a6!Collected(<<x>>), Loud)
      BY <2>1, OnlyConcat, Zenon
    <2> QED BY <2>2, Zenon DEF Bf20a6!NotedThenCollected
  <1>6. /\ Only(Bf20a6!set_framesize(v), Loud)
        /\ Only(Bf20a6!set_hmirror(v), Loud)
        /\ Only(Bf20a6!set_vflip(v), Loud)
    BY <1>5, <1>2, SMT DEF Bf20a6!set_framesize, Bf20a6!set_hmirror, Bf20a6!set_vflip
  <1>7. /\ Only(Bf20a6!set_colorbar(v), Loud)
        /\ Only(Bf20a6!set_sharpness(v), Loud)
    BY <1>1, SMT DEF Bf20a6!set_colorbar, Bf20a6!set_sharpness
  <1>8. \A x : Only(Bf20a6!Shrugged(<<x>>), Present)
    <2>1. ASSUME NEW steps, NEW n \in Nat, DOMAIN steps = 1..n
          PROVE  Only(Bf20a6!Shrugged(steps), Present)
      BY <2>1, OnlyEach DEF Loud, Present, Bf20a6!Shrugged, Bf20a6!Ignored, Bf20a6!Part
    <2>2. (\A x : DOMAIN <<x>> = 1..1)
      OBVIOUS
    <2>3. 1 \in Nat
      OBVIOUS
    <2> QED BY <2>1, <2>2, <2>3, Zenon
  <1>9. /\ \A note : Only(<<Bf20a6!Note(note)>>, Present)
        /\ Only(Bf20a6!Rejected, Present)
    BY <1>2, <1>3, OnlyMore DEF Present
  <1>10. Only(Bf20a6!set_pixformat(v), Present)
    BY <1>8, <1>9, OnlyConcat, SMT DEF Bf20a6!set_pixformat
  <1>11. control \notin {"pixformat"}
         => Only(Bf20a6!Setter(s, control, v), Loud)
    BY <1>2, <1>6, <1>7, Zenon DEF Bf20a6!Setter, AllControls
  <1>12. control \in {"pixformat"} => Only(Bf20a6!Setter(s, control, v), Present)
    BY <1>10, Zenon DEF Bf20a6!Setter
  <1>13. Silent.BF20A6 = {"pixformat"}
    BY DEF Silent
  <1> QED BY <1>11, <1>12, <1>13, OnlyMore DEF Present

LEMMA Sc101iotCalls ==
  ASSUME NEW s, NEW control \in AllControls, NEW v
  PROVE  Only(Sc101iot!Setter(s, control, v), Loud) \/ Sc101iot!Setter(s, control, v) = Missing
  <1>1. \A note, steps : Only(Sc101iot!StatusLast(note, steps), Loud)
    BY OnlyOne DEF Loud, Present, Sc101iot!StatusLast, Sc101iot!Part
  <1>2. Only(Sc101iot!Rejected, Loud)
    BY OnlyOne DEF Loud, Present, Sc101iot!Rejected, Sc101iot!Part
  <1>3. \A note : Only(<<Sc101iot!Note(note)>>, Loud)
    BY OnlyOne DEF Loud, Present, Sc101iot!Note, Sc101iot!Part
  <1>4. Only(Sc101iot!Sent, Loud)
    BY OnlyOne DEF Loud, Present, Sc101iot!Sent, Sc101iot!Checked, Sc101iot!Part
  <1>5. /\ Only(Sc101iot!set_hmirror(v), Loud)
        /\ Only(Sc101iot!set_vflip(v), Loud)
        /\ Only(Sc101iot!set_colorbar(v), Loud)
        /\ Only(Sc101iot!set_raw_gma(v), Loud)
        /\ Only(Sc101iot!set_sharpness(v), Loud)
        /\ Only(Sc101iot!set_agc_gain(v), Loud)
        /\ Only(Sc101iot!set_aec_value(v), Loud)
        /\ Only(Sc101iot!set_awb_gain(v), Loud)
        /\ Only(Sc101iot!set_saturation(v), Loud)
        /\ Only(Sc101iot!set_contrast(v), Loud)
    BY <1>4, SMT
    DEF Sc101iot!set_hmirror, Sc101iot!set_vflip, Sc101iot!set_colorbar, Sc101iot!set_raw_gma,
        Sc101iot!set_sharpness, Sc101iot!set_agc_gain, Sc101iot!set_aec_value,
        Sc101iot!set_awb_gain, Sc101iot!set_saturation, Sc101iot!set_contrast
  <1>6. Only(Sc101iot!set_framesize(v), Loud)
    BY <1>1, <1>2, SMT DEF Sc101iot!set_framesize
  <1>7. Only(<<>>, Loud)
    BY OnlyNone
  <1>8. Only(Sc101iot!set_pixformat(v), Loud)
    BY <1>2, <1>3, <1>7, OnlyConcat, SMT DEF Sc101iot!set_pixformat
  <1>9. Sc101iot!Missing = Missing
    BY DEF Sc101iot!Missing, Sc101iot!Part, Sc101iot!NoNote, Missing, Part, NoNote
  <1>10. Only(Sc101iot!Setter(s, control, v), Loud) \/ Sc101iot!Setter(s, control, v) = Missing
    BY <1>2, <1>5, <1>6, <1>8, <1>9, Zenon DEF Sc101iot!Setter, AllControls
  <1> QED BY <1>10

LEMMA Sc030iotCalls ==
  ASSUME NEW s, NEW control \in AllControls, NEW v
  PROVE  Only(Sc030iot!Setter(s, control, v), Loud) \/ Sc030iot!Setter(s, control, v) = Missing
  <1>1. \A note, steps : Only(Sc030iot!StatusLast(note, steps), Loud)
    BY OnlyOne DEF Loud, Present, Sc030iot!StatusLast, Sc030iot!Part
  <1>2. Only(Sc030iot!Rejected, Loud)
    BY OnlyOne DEF Loud, Present, Sc030iot!Rejected, Sc030iot!Part
  <1>3. \A note : Only(<<Sc030iot!Note(note)>>, Loud)
    BY OnlyOne DEF Loud, Present, Sc030iot!Note, Sc030iot!Part
  <1>4. Only(Sc030iot!Sent, Loud)
    BY OnlyOne DEF Loud, Present, Sc030iot!Sent, Sc030iot!Checked, Sc030iot!Part
  <1>5. /\ Only(Sc030iot!set_hmirror(v), Loud)
        /\ Only(Sc030iot!set_vflip(v), Loud)
        /\ Only(Sc030iot!set_colorbar(v), Loud)
        /\ Only(Sc030iot!set_sharpness(v), Loud)
        /\ Only(Sc030iot!set_agc_gain(v), Loud)
        /\ Only(Sc030iot!set_aec_value(v), Loud)
        /\ Only(Sc030iot!set_awb_gain(v), Loud)
        /\ Only(Sc030iot!set_saturation(v), Loud)
        /\ Only(Sc030iot!set_contrast(v), Loud)
    BY <1>4, SMT
    DEF Sc030iot!set_hmirror, Sc030iot!set_vflip, Sc030iot!set_colorbar,
        Sc030iot!set_sharpness, Sc030iot!set_agc_gain, Sc030iot!set_aec_value,
        Sc030iot!set_awb_gain, Sc030iot!set_saturation, Sc030iot!set_contrast
  <1>6. Only(Sc030iot!set_framesize(v), Loud)
    BY <1>1, <1>2, SMT DEF Sc030iot!set_framesize
  <1>7. Only(<<>>, Loud)
    BY OnlyNone
  <1>8. Only(Sc030iot!set_pixformat(v), Loud)
    BY <1>2, <1>3, <1>7, OnlyConcat, SMT DEF Sc030iot!set_pixformat
  <1>9. Sc030iot!Missing = Missing
    BY DEF Sc030iot!Missing, Sc030iot!Part, Sc030iot!NoNote, Missing, Part, NoNote
  <1>10. Only(Sc030iot!Setter(s, control, v), Loud) \/ Sc030iot!Setter(s, control, v) = Missing
    BY <1>2, <1>5, <1>6, <1>8, <1>9, Zenon DEF Sc030iot!Setter, AllControls
  <1> QED BY <1>10

LEMMA Sc031gsCalls ==
  ASSUME NEW s, NEW control \in AllControls, NEW v
  PROVE  control \notin Silent.SC031GS
            => Only(Sc031gs!Setter(s, control, v), Loud) \/ Sc031gs!Setter(s, control, v) = Missing
  <1>1. Only(Sc031gs!Rejected, Loud)
    BY OnlyOne DEF Loud, Present, Sc031gs!Rejected, Sc031gs!Part
  <1>2. \A note : Only(<<Sc031gs!Note(note)>>, Loud)
    BY OnlyOne DEF Loud, Present, Sc031gs!Note, Sc031gs!Part
  <1>3. Only(Sc031gs!Sent, Loud)
    BY OnlyOne DEF Loud, Present, Sc031gs!Sent, Sc031gs!Checked, Sc031gs!Part
  <1>4. /\ Only(Sc031gs!set_hmirror(v), Loud)
        /\ Only(Sc031gs!set_vflip(v), Loud)
        /\ Only(Sc031gs!set_colorbar(v), Loud)
        /\ Only(Sc031gs!set_agc_gain(v), Loud)
        /\ Only(Sc031gs!set_aec_value(v), Loud)
    BY <1>3, SMT
    DEF Sc031gs!set_hmirror, Sc031gs!set_vflip, Sc031gs!set_colorbar, Sc031gs!set_agc_gain,
        Sc031gs!set_aec_value
  <1>5. Only(<<>>, Loud)
    BY OnlyNone
  <1>6. Only(Sc031gs!set_pixformat(v), Loud)
    BY <1>1, <1>2, <1>5, OnlyConcat, SMT DEF Sc031gs!set_pixformat
  <1>7. Sc031gs!Missing = Missing
    BY DEF Sc031gs!Missing, Sc031gs!Part, Sc031gs!NoNote, Missing, Part, NoNote
  <1>8. control \notin {"framesize"}
         => Only(Sc031gs!Setter(s, control, v), Loud) \/ Sc031gs!Setter(s, control, v) = Missing
    BY <1>1, <1>4, <1>6, <1>7, Zenon DEF Sc031gs!Setter, AllControls
  <1>9. Silent.SC031GS = {"framesize"}
    BY DEF Silent
  <1> QED BY <1>8, <1>9

-----------------------------------------------------------------------------
(* All drivers together.                                                   *)

\* The setters of a sensor that may hide a failed write.
SilentOf(m) == IF m \in DOMAIN Silent THEN Silent[m] ELSE {}

\* What the parts of a call must be of: for a setter that tells of its errors,
\* and for a driver that leaves no setter out.
Tells(m, control, call) == control \notin SilentOf(m) => Only(call, Loud) \/ call = Missing
Complete(m, call) == m \notin Incomplete => Only(call, Present)

\* A setter outside Silent has no silent part or is missing, and a driver
\* outside Incomplete has them all.
LEMMA SetterCalls ==
  ASSUME NEW m \in AllModels, NEW s, NEW control \in AllControls, NEW v
  PROVE  /\ Tells(m, control, Setter(m, s, control, v))
         /\ Complete(m, Setter(m, s, control, v))
  <1>1. DOMAIN Silent = {"OV2640", "OV3660", "OV7670", "OV7725",
                         "NT99141", "GC2145", "GC032A", "GC0308",
                         "BF3005", "BF20A6", "SC031GS"}
    BY DEF Silent
  <1>2. CASE m = "OV2640"
    <2>1. Setter(m, s, control, v) = Ov2640!Setter(s, control, v)
      BY <1>2, Zenon DEF Setter
    <2>2. SilentOf(m) = Silent.OV2640
      BY <1>1, <1>2, Zenon DEF SilentOf
    <2> QED BY <2>1, <2>2, Ov2640Calls, OnlyMore DEF Tells, Complete
  <1>3. CASE m = "OV3660"
    <2>1. Setter(m, s, control, v) = Ov3660!Setter(s, control, v)
      BY <1>3, Zenon DEF Setter
    <2>2. SilentOf(m) = Silent.OV3660
      BY <1>1, <1>3, Zenon DEF SilentOf
    <2> QED BY <2>1, <2>2, Ov3660Calls, OnlyMore DEF Tells, Complete
  <1>4. CASE m = "OV5640"
    <2>1. Setter(m, s, control, v) = Ov5640!Setter(s, control, v)
      BY <1>4, Zenon DEF Setter
    <2>2. SilentOf(m) = {}
      BY <1>1, <1>4, Zenon DEF SilentOf
    <2> QED BY <2>1, <2>2, Ov5640Calls, OnlyMore DEF Tells, Complete
  <1>5. CASE m = "OV7670"
    <2>1. Setter(m, s, control, v) = Ov7670!Setter(s, control, v)
      BY <1>5, Zenon DEF Setter
    <2>2. SilentOf(m) = Silent.OV7670
      BY <1>1, <1>5, Zenon DEF SilentOf
    <2>3. m \in Incomplete
      BY <1>5 DEF Incomplete
    <2> QED BY <2>1, <2>2, <2>3, Ov7670Calls DEF Tells, Complete
  <1>6. CASE m = "OV7725"
    <2>1. Setter(m, s, control, v) = Ov7725!Setter(s, control, v)
      BY <1>6, Zenon DEF Setter
    <2>2. SilentOf(m) = Silent.OV7725
      BY <1>1, <1>6, Zenon DEF SilentOf
    <2> QED BY <2>1, <2>2, Ov7725Calls, OnlyMore DEF Tells, Complete
  <1>7. CASE m = "NT99141"
    <2>1. Setter(m, s, control, v) = Nt99141!Setter(s, control, v)
      BY <1>7, Zenon DEF Setter
    <2>2. SilentOf(m) = Silent.NT99141
      BY <1>1, <1>7, Zenon DEF SilentOf
    <2> QED BY <2>1, <2>2, Nt99141Calls, OnlyMore DEF Tells, Complete
  <1>8. CASE m = "GC2145"
    <2>1. Setter(m, s, control, v) = Gc2145!Setter(s, control, v)
      BY <1>8, Zenon DEF Setter
    <2>2. SilentOf(m) = Silent.GC2145
      BY <1>1, <1>8, Zenon DEF SilentOf
    <2> QED BY <2>1, <2>2, Gc2145Calls, OnlyMore DEF Tells, Complete
  <1>9. CASE m = "GC032A"
    <2>1. Setter(m, s, control, v) = Gc032a!Setter(s, control, v)
      BY <1>9, Zenon DEF Setter
    <2>2. SilentOf(m) = Silent.GC032A
      BY <1>1, <1>9, Zenon DEF SilentOf
    <2> QED BY <2>1, <2>2, Gc032aCalls, OnlyMore DEF Tells, Complete
  <1>10. CASE m = "GC0308"
    <2>1. Setter(m, s, control, v) = Gc0308!Setter(s, control, v)
      BY <1>10, Zenon DEF Setter
    <2>2. SilentOf(m) = Silent.GC0308
      BY <1>1, <1>10, Zenon DEF SilentOf
    <2> QED BY <2>1, <2>2, Gc0308Calls, OnlyMore DEF Tells, Complete
  <1>11. CASE m = "BF3005"
    <2>1. Setter(m, s, control, v) = Bf3005!Setter(s, control, v)
      BY <1>11, Zenon DEF Setter
    <2>2. SilentOf(m) = Silent.BF3005
      BY <1>1, <1>11, Zenon DEF SilentOf
    <2>3. m \in Incomplete
      BY <1>11 DEF Incomplete
    <2> QED BY <2>1, <2>2, <2>3, Bf3005Calls DEF Tells, Complete
  <1>12. CASE m = "BF20A6"
    <2>1. Setter(m, s, control, v) = Bf20a6!Setter(s, control, v)
      BY <1>12, Zenon DEF Setter
    <2>2. SilentOf(m) = Silent.BF20A6
      BY <1>1, <1>12, Zenon DEF SilentOf
    <2> QED BY <2>1, <2>2, Bf20a6Calls, OnlyMore DEF Tells, Complete
  <1>13. CASE m = "SC101IOT"
    <2>1. Setter(m, s, control, v) = Sc101iot!Setter(s, control, v)
      BY <1>13, Zenon DEF Setter
    <2>2. SilentOf(m) = {}
      BY <1>1, <1>13, Zenon DEF SilentOf
    <2>3. m \in Incomplete
      BY <1>13 DEF Incomplete
    <2> QED BY <2>1, <2>2, <2>3, Sc101iotCalls DEF Tells, Complete
  <1>14. CASE m = "SC030IOT"
    <2>1. Setter(m, s, control, v) = Sc030iot!Setter(s, control, v)
      BY <1>14, Zenon DEF Setter
    <2>2. SilentOf(m) = {}
      BY <1>1, <1>14, Zenon DEF SilentOf
    <2>3. m \in Incomplete
      BY <1>14 DEF Incomplete
    <2> QED BY <2>1, <2>2, <2>3, Sc030iotCalls DEF Tells, Complete
  <1>15. CASE m = "SC031GS"
    <2>1. Setter(m, s, control, v) = Sc031gs!Setter(s, control, v)
      BY <1>15, Zenon DEF Setter
    <2>2. SilentOf(m) = Silent.SC031GS
      BY <1>1, <1>15, Zenon DEF SilentOf
    <2>3. m \in Incomplete
      BY <1>15 DEF Incomplete
    <2> QED BY <2>1, <2>2, <2>3, Sc031gsCalls DEF Tells, Complete
  <1> QED BY <1>2, <1>3, <1>4, <1>5, <1>6, <1>7, <1>8, <1>9, <1>10, <1>11, <1>12, <1>13, <1>14, <1>15, Zenon DEF AllModels

-----------------------------------------------------------------------------
(* Reported failures.                                                      *)

LEMMA FaultsHavePlaces ==
  ASSUME NEW d, NEW call, NEW fault \in Faults(d, call)
  PROVE  fault.part \in DOMAIN call
  <1> DEFINE Places(kinds) ==
        UNION {[part : {p}, at : DOMAIN call[p].steps, kind : kinds] : p \in DOMAIN call}
  <1>1. \A kinds : \A f \in Places(kinds) : f.part \in DOMAIN call
    OBVIOUS
  <1>2. fault \in Places({"write"}) \/ fault \in Places({"name", "fetch"})
    BY Zenon DEF Faults
  <1> QED BY <1>1, <1>2

\* A write that fails in a setter outside Silent is reported.
LEMMA WriteReported ==
  ASSUME NEW control \in Controls, NEW v, model \in Models, NEW s, NEW fault,
         Setter(model, s, control, v) # Missing,
         fault \in Faults(s.dev, Setter(model, s, control, v)), fault.kind = "write",
         control \notin Except(Silent)
  PROVE  Perform(s, Setter(model, s, control, v), fault).failed
  <1> DEFINE call == Setter(model, s, control, v)
  <1>1. model \in AllModels /\ control \in AllControls
    BY SensorAssumption
  <1>2. control \notin SilentOf(model)
    BY DEF SilentOf, Except
  <1>3. Tells(model, control, call)
    BY <1>1, SetterCalls
  <1>4. Only(call, Loud)
    BY <1>2, <1>3 DEF Tells
  <1>5. fault.part \in DOMAIN call
    BY FaultsHavePlaces
  <1> HIDE DEF call
  <1>6. Perform(s, call, fault).failed
    BY <1>4, <1>5, LoudFails
  <1> QED BY <1>6 DEF call

\* What FailuresReported needs: the sensor does not change.
Reported == model \in Models /\ FailuresReported

LEMMA ReportedSet ==
  ASSUME Reported, NEW control \in Controls, NEW v \in Inputs[control], Set(control, v)
  PROVE  Reported'
  <1> DEFINE before == [dev |-> dev, status |-> status]
             call == Setter(model, before, control, v)
  <1>1. PICK fault \in {NoFault} \cup (IF faults < MaxFaults THEN Faults(dev, call) ELSE {}) :
          /\ call # Missing
          /\ IF fault = NoFault THEN UNCHANGED hidden
             ELSE hidden' = IF fault.kind = "write" /\ ~Perform(before, call, fault).failed
                            THEN hidden \cup {control} ELSE hidden
    BY Zenon DEF Set, history
  <1>2. model' = model
    BY Zenon DEF Set
  <1>3. hidden' = hidden \/ (hidden' = hidden \cup {control} /\ control \in Except(Silent))
    <2>1. CASE fault = NoFault
      BY <1>1, <2>1
    <2>2. CASE fault # NoFault /\ fault.kind = "write" /\ ~Perform(before, call, fault).failed
      <3>1. fault \in Faults(before.dev, call)
        <4>1. before.dev = dev
          OBVIOUS
        <4> HIDE DEF call, before
        <4> QED BY <1>1, <2>2, <4>1
      <3>2. model \in Models
        BY DEF Reported
      <3>3. control \in Except(Silent)
        <4> HIDE DEF before
        <4> QED BY <1>1, <2>2, <3>1, <3>2, WriteReported, Zenon
      <3>4. hidden' = hidden \cup {control}
        <4> HIDE DEF call, before
        <4> QED BY <1>1, <2>2
      <3> QED BY <3>3, <3>4
    <2>3. CASE fault # NoFault /\ ~(fault.kind = "write" /\ ~Perform(before, call, fault).failed)
      <3> HIDE DEF call, before
      <3> QED BY <1>1, <2>3
    <2> QED BY <2>1, <2>2, <2>3
  <1>4. Except(Silent)' = Except(Silent)
    BY <1>2, Zenon DEF Except, Silent
  <1> QED BY <1>2, <1>3, <1>4 DEF Reported, FailuresReported

\* FailuresReported: a setter whose write over SCCB failed does not report
\* success, but for the setters of the drivers in Silent.
THEOREM FailuresAreReported == Spec => []FailuresReported
  <1>1. Init => Reported
    BY DEF Init, Reported, FailuresReported
  <1>2. Reported /\ [Next]_vars => Reported'
    <2> SUFFICES ASSUME Reported, [Next]_vars PROVE Reported'
      OBVIOUS
    <2>1. ASSUME model' = model, hidden' = hidden PROVE Reported'
      <3>1. Except(Silent)' = Except(Silent)
        BY <2>1, Zenon DEF Except, Silent
      <3> QED BY <2>1, <3>1 DEF Reported, FailuresReported
    <2>2. CASE \E control \in Controls : \E v \in Inputs[control] : Set(control, v)
      BY <2>2, ReportedSet, Zenon
    <2>3. CASE Save
      BY <2>1, <2>3 DEF Save, history
    <2>4. CASE Restart
      BY <2>1, <2>4 DEF Restart
    <2>5. CASE Load
      BY <2>1, <2>5, Zenon DEF Load, history
    <2>6. CASE UNCHANGED vars
      BY <2>1, <2>6 DEF vars, history
    <2> QED BY <2>2, <2>3, <2>4, <2>5, <2>6, Zenon DEF Next
  <1>3. Reported => FailuresReported
    BY DEF Reported
  <1> QED BY <1>1, <1>2, <1>3, PTL DEF Spec

-----------------------------------------------------------------------------
(* A load with a driver that leaves no setter out.                         *)

LEMMA PerformAllSurvives ==
  ASSUME NEW m \in AllModels, m \notin Incomplete, NEW d, NEW st,
         NEW settings, NEW n \in Nat, DOMAIN settings = 1..n,
         \A k \in 1..n : settings[k][1] \in AllControls
  PROVE  ~PerformAll(m, [dev |-> d, status |-> st], settings).crashed
  <1> DEFINE s == [dev |-> d, status |-> st]
  <1>1. PICK h : /\ h[0] = [dev |-> s.dev, status |-> s.status, crashed |-> FALSE]
                 /\ \A k \in 1..n : h[k] = SettingDone(m, h[k - 1], settings[k])
                 /\ PerformAll(m, s, settings) = h[n]
    BY PerformAllSteps
  <1> DEFINE S == {k \in Nat : k <= n => ~h[k].crashed}
  <1>2. 0 \in S
    BY <1>1
  <1>3. ASSUME NEW k \in Nat, k \in S PROVE k + 1 \in S
    <2>1. SUFFICES ASSUME k + 1 <= n PROVE ~h[k + 1].crashed
      BY <1>1
    <2> DEFINE call == Setter(m, h[k], settings[k + 1][1], settings[k + 1][2])
               t == Perform(h[k], call, NoFault)
    <2>2. ~h[k].crashed /\ settings[k + 1][1] \in AllControls
          /\ h[k + 1] = SettingDone(m, h[k], settings[k + 1])
      BY <1>1, <1>3, <2>1
    <2>3. h[k + 1] = [dev |-> t.dev, status |-> t.status, crashed |-> call = Missing]
      BY <2>2 DEF SettingDone
    <2>4. Complete(m, call)
      BY <2>2, SetterCalls
    <2> HIDE DEF call
    <2>5. Only(call, Present)
      BY <2>4 DEF Complete
    <2>6. call # Missing
      BY <2>5, NotMissing
    <2>7. h[k + 1] = [dev |-> t.dev, status |-> t.status, crashed |-> FALSE]
      <3>1. (call = Missing) = FALSE
        BY <2>6
      <3> HIDE DEF t
      <3> QED BY <2>3, <3>1, Zenon
    <2> HIDE DEF t
    <2> QED BY <2>7
  <1>4. n \in S
    <2> HIDE DEF S
    <2> QED BY <1>2, <1>3, Induction
  <1> QED BY <1>1, <1>4

\* The settings of a load are of fields with a setter.
LEMMA LoadedControls ==
  /\ DOMAIN LoadOrder = 1..26
  /\ \A i \in 1..26 : LoadOrder[i] \in AllControls
  <1>1. LoadOrder \in Seq(AllControls) /\ Len(LoadOrder) = 26
    BY SMT DEF LoadOrder, AllControls
  <1> QED BY <1>1, LenProperties, ElementOfSeq

LEMMA LoadedSettings ==
  ASSUME NEW values
  PROVE  LET format == IF "pixformat" \in DOMAIN values
                       THEN <<<<"pixformat", values["pixformat"]>>>> ELSE <<>>
             order == [i \in DOMAIN LoadOrder |-> <<LoadOrder[i], values[LoadOrder[i]]>>]
         IN \E n \in Nat : /\ DOMAIN (order \o format) = 1..n
                         /\ \A k \in 1..n : (order \o format)[k][1] \in AllControls
  <1> DEFINE S == {<<c, values[c]>> : c \in AllControls}
             format == IF "pixformat" \in DOMAIN values
                       THEN <<<<"pixformat", values["pixformat"]>>>> ELSE <<>>
             order == [i \in DOMAIN LoadOrder |-> <<LoadOrder[i], values[LoadOrder[i]]>>]
  <1>1. order \in Seq(S)
    BY LoadedControls
  <1>2. "pixformat" \in AllControls
    BY DEF AllControls
  <1>3. format \in Seq(S)
    <2>1. <<"pixformat", values["pixformat"]>> \in S
      BY <1>2
    <2>2. \A T : \A x \in T : <<x>> \in Seq(T)
      OBVIOUS
    <2>3. <<>> \in Seq(S)
      OBVIOUS
    <2> HIDE DEF S
    <2>4. <<<<"pixformat", values["pixformat"]>>>> \in Seq(S)
      BY <2>1, <2>2, Zenon
    <2> QED BY <2>3, <2>4, Zenon
  <1> HIDE DEF order, format
  <1>4. order \o format \in Seq(S)
    BY <1>1, <1>3, ConcatProperties
  <1>5. Len(order \o format) \in Nat /\ DOMAIN (order \o format) = 1..Len(order \o format)
    BY <1>4, LenProperties
  <1>6. \A k \in 1..Len(order \o format) : (order \o format)[k] \in S
    BY <1>4, ElementOfSeq
  <1>7. \A x \in S : x[1] \in AllControls
    OBVIOUS
  <1> QED BY <1>5, <1>6, <1>7 DEF order, format

\* LoadSurvives: loading the settings calls no setter that is missing, but for
\* the drivers in Incomplete.
THEOREM LoadsSurvive == Spec => []LoadSurvives
  <1> DEFINE Unbroken == model \in Models /\ LoadSurvives
  <1>1. Init => Unbroken
    BY DEF Init, LoadSurvives
  <1>2. Unbroken /\ [Next]_vars => Unbroken'
    <2> SUFFICES ASSUME Unbroken, [Next]_vars PROVE Unbroken'
      OBVIOUS
    <2>1. CASE \E control \in Controls : \E v \in Inputs[control] : Set(control, v)
      <3>1. model' = model /\ phase' = phase
        BY <2>1, Zenon DEF Set
      <3> QED BY <3>1 DEF LoadSurvives
    <2>2. CASE Save
      BY <2>2 DEF Save, LoadSurvives
    <2>3. CASE Restart
      BY <2>3 DEF Restart, LoadSurvives
    <2>4. CASE Load
      <3> DEFINE format == IF "pixformat" \in DOMAIN saved
                           THEN <<<<"pixformat", saved["pixformat"]>>>> ELSE <<>>
                 order == [i \in DOMAIN LoadOrder |-> <<LoadOrder[i], saved[LoadOrder[i]]>>]
                 s == PerformAll(model, [dev |-> dev, status |-> status], order \o format)
      <3>1. model' = model /\ phase' = IF s.crashed THEN "crashed" ELSE "loaded"
        BY <2>4, Zenon DEF Load
      <3>2. PICK n \in Nat : /\ DOMAIN (order \o format) = 1..n
                             /\ \A k \in 1..n : (order \o format)[k][1] \in AllControls
        BY LoadedSettings
      <3>3. model \in AllModels
        BY SensorAssumption
      <3>4. model \notin Incomplete => ~s.crashed
        <4> HIDE DEF order, format
        <4> QED BY <3>2, <3>3, PerformAllSurvives
      <3> HIDE DEF s
      <3> QED BY <3>1, <3>4 DEF LoadSurvives
    <2>5. CASE UNCHANGED vars
      BY <2>5 DEF vars, LoadSurvives
    <2> QED BY <2>1, <2>2, <2>3, <2>4, <2>5, Zenon DEF Next
  <1>3. Unbroken => LoadSurvives
    OBVIOUS
  <1> QED BY <1>1, <1>2, <1>3, PTL DEF Spec
====
