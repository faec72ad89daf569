-------------------------------- MODULE Scale --------------------------------
(***************************************************************************)
(* The load cell (src/src/quantity/hx711.c): the esp_timer task weighs     *)
(* every three seconds and after a scheduled feed, the MQTT task tares and *)
(* weighs after an instant feed.  Both clock the same HX711 converter.     *)
(* Reading one sample is a critical section; waiting for the converter and *)
(* reading it are two steps, and nothing reserves the converter for the    *)
(* samples of one average.                                                 *)
(***************************************************************************)
EXTENDS Integers

CONSTANTS
  Tasks,       \* the tasks that use the load cell
  Tarers,      \* those of them that also tare
  Times,       \* samples of an average, CONFIG_EXAMPLE_AVG_TIMES (10)
  Half,        \* half the range of the converter: 2^23
  Word,        \* half the range of an int32_t: 2^31
  Timeout,     \* ESP_ERR_TIMEOUT, 0x107
  Levels       \* the raw words the converter delivers in a run

ASSUME ScaleAssumption ==
  /\ Tarers \subseteq Tasks
  /\ Times \in Nat \ {0}
  /\ Half \in Nat \ {0}
  /\ Word \in Nat
  /\ Times * Half <= Word
  /\ Timeout \in 0..(Word - 1)
  /\ Levels \subseteq 0..(2 * Half - 1)

VARIABLES
  adc,       \* the converter: "converting" or "ready"
  step,      \* step[t]: where task t is in weighing or taring
  purpose,   \* purpose[t]: "weigh" or "tare"
  samples,   \* samples[t]: samples added to the average so far
  sum,       \* sum[t]: their sum, *data
  tare_del,  \* the tare, shared by the tasks
  result,    \* result[t]: what the last hx711_read_average returned
  lowest,    \* history: the least sample of the current average
  highest    \* history: the greatest one

vars == <<adc, step, purpose, samples, sum, tare_del, result, lowest, highest>>
measures == <<purpose, samples, sum, tare_del, result, lowest, highest>>

Raw == 0..(2 * Half - 1)
Int32 == (-Word)..(Word - 1)

\* hx711_read_data: a set top bit extends over the upper byte.
NoExtension(raw) == raw
SignExtend(raw) == IF raw >= Half THEN raw - 2 * Half ELSE raw

\* Division of C: towards zero.
Quotient(a, n) == IF a >= 0 THEN a \div n ELSE -((-a) \div n)

\* init_tare has run: the tare is an average or an error code.
Init ==
  /\ adc = "converting"
  /\ step = [t \in Tasks |-> "idle"]
  /\ purpose = [t \in Tasks |-> "weigh"]
  /\ samples = [t \in Tasks |-> 0]
  /\ sum = [t \in Tasks |-> 0]
  /\ tare_del \in {SignExtend(raw) : raw \in Levels} \cup {Timeout}
  /\ result = [t \in Tasks |-> 0]
  /\ lowest = [t \in Tasks |-> 0]
  /\ highest = [t \in Tasks |-> 0]

\* hx711_wait finds the data line low.
LineLow(t) == adc = "ready"

\* hx711_read_average starts from an empty sum.
LastSum(t) == sum[t]
EmptySum(t) == 0

\* The converter finishes a conversion and pulls its data line low.
Convert ==
  /\ adc = "converting"
  /\ adc' = "ready"
  /\ UNCHANGED <<step, measures>>

\* get_quantity or tare: the task begins to wait for the converter.
Begin(t, what) ==
  /\ step[t] = "idle"
  /\ what = "tare" => t \in Tarers
  /\ step' = [step EXCEPT ![t] = "probing"]
  /\ purpose' = [purpose EXCEPT ![t] = what]
  /\ UNCHANGED <<adc, samples, sum, tare_del, result, lowest, highest>>

\* The first wait ends; a timeout is logged ("Device not found") and no
\* more.
Probe(t) ==
  /\ step[t] = "probing"
  /\ step' = [step EXCEPT ![t] = "waiting"]
  /\ samples' = [samples EXCEPT ![t] = 0]
  /\ sum' = [sum EXCEPT ![t] = EmptySum(t)]
  /\ UNCHANGED <<adc, purpose, tare_del, result, lowest, highest>>

\* hx711_wait returns ESP_OK.
hx711_wait(t) ==
  /\ step[t] = "waiting"
  /\ LineLow(t)
  /\ step' = [step EXCEPT ![t] = "reading"]
  /\ UNCHANGED <<adc, measures>>

\* hx711_read_average returns r, and its caller takes it for a reading:
\* tare stores it, get_quantity subtracts the tare from it.
Return(t, r) ==
  /\ step' = [step EXCEPT ![t] = "idle"]
  /\ result' = [result EXCEPT ![t] = r]
  /\ tare_del' = IF purpose[t] = "tare" THEN r ELSE tare_del

\* hx711_wait times out, and hx711_read_average returns the error code.
WaitForEver(t) == step[t] = "waiting" /\ UNCHANGED vars
hx711_wait_timeout(t) ==
  /\ step[t] = "waiting"
  /\ Return(t, Timeout)
  /\ UNCHANGED <<adc, purpose, samples, sum, lowest, highest>>

\* hx711_read_data: the word is clocked out within a critical section and
\* the next conversion begins.  A converter that is not ready gives any word.
hx711_read_data(t) ==
  /\ step[t] = "reading"
  /\ \E raw \in IF adc = "ready" THEN Levels ELSE Raw :
       LET v == SignExtend(raw)
           total == sum[t] + v
           first == samples[t] = 0
       IN  /\ samples' = [samples EXCEPT ![t] = @ + 1]
           /\ sum' = [sum EXCEPT ![t] = total]
           /\ lowest' = [lowest EXCEPT ![t] = IF first \/ v < @ THEN v ELSE @]
           /\ highest' = [highest EXCEPT ![t] = IF first \/ v > @ THEN v ELSE @]
           /\ \/ /\ samples[t] + 1 < Times
                 /\ step' = [step EXCEPT ![t] = "waiting"]
                 /\ UNCHANGED <<result, tare_del>>
              \/ /\ samples[t] + 1 = Times
                 /\ Return(t, Quotient(total, Times))
  /\ adc' = "converting"
  /\ UNCHANGED purpose

Next ==
  \/ Convert
  \/ \E t \in Tasks :
       \/ \E what \in {"weigh", "tare"} : Begin(t, what)
       \/ Probe(t)
       \/ hx711_wait(t)
       \/ hx711_wait_timeout(t)
       \/ hx711_read_data(t)

Spec == Init /\ [][Next]_vars

\* A task that waits or reads goes on: hx711_wait is bounded in time and
\* FreeRTOS schedules both tasks.  The converter owes nothing.
Proceed(t) == hx711_wait(t) \/ hx711_wait_timeout(t) \/ hx711_read_data(t)

FairSpec == Spec /\ \A t \in Tasks : WF_vars(Probe(t)) /\ WF_vars(Proceed(t))

-----------------------------------------------------------------------------
\* Type invariant.  The sum of an average never leaves the 32 bits it is
\* accumulated in (hx711.c:141), for any words read, garbage included.
TypeOK ==
  /\ adc \in {"converting", "ready"}
  /\ step \in [Tasks -> {"idle", "probing", "waiting", "reading"}]
  /\ purpose \in [Tasks -> {"weigh", "tare"}]
  /\ samples \in [Tasks -> 0..Times]
  /\ \A t \in Tasks : step[t] \in {"waiting", "reading"} => samples[t] < Times
  /\ sum \in [Tasks -> Int32]
  /\ tare_del \in Int32
  /\ result \in [Tasks -> Int32]
  /\ lowest \in [Tasks -> (-Half)..(Half - 1)]
  /\ highest \in [Tasks -> (-Half)..(Half - 1)]

\* An average that has completed lies between the least and the greatest of
\* its samples (hx711.c:131-146): the sign extension, the accumulation and
\* the truncating division do not carry it outside.
AverageBetweenSamples ==
  \A t \in Tasks :
    step[t] = "idle" /\ samples[t] = Times
      => result[t] \in lowest[t]..highest[t]

\* The sum of an average lies between as many times the least and as many
\* times the greatest of its samples.
SumBetweenSamples ==
  \A t \in Tasks :
    /\ samples[t] = 0 => sum[t] = 0
    /\ samples[t] * lowest[t] <= sum[t]
    /\ sum[t] <= samples[t] * highest[t]

ScaleInv == TypeOK /\ SumBetweenSamples /\ AverageBetweenSamples

\* Weighing and taring come to an end whatever the converter and the other
\* task do (hx711.c:105-117): a dead load cell does not stop the timers.
WeighingEnds == \A t \in Tasks : step[t] # "idle" ~> step[t] = "idle"
=============================================================================
