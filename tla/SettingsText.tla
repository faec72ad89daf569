----------------------------- MODULE SettingsText -----------------------------
(***************************************************************************)
(* The texts in which the settings travel (time.c, portions.c): a time is  *)
(* announced as "%02d:%02d" cut to five characters or as "inactif", a      *)
(* portion as "%02d" cut to five, and both are read back with sscanf.  The *)
(* application edits what was announced to it and sends it back, so what a *)
(* round trip does to the settings matters.  Write failures, delays and    *)
(* other tasks are the subject of ConfigSync; here an update succeeds.     *)
(*                                                                         *)
(* A character is a number: a digit is itself.  The application is assumed *)
(* to send strings without blanks and plus signs, which sscanf would skip. *)
(***************************************************************************)
EXTENDS Integers, SequencesExt

CONSTANTS
  Slots,   \* the slots of the schedule (1..6 on the device)
  Times,   \* texts of a time the application may send
  Amounts  \* texts of a portion it may send

VARIABLES
  schedule,   \* the schedule blob: hour and minute of each slot, or none
  portions    \* the portions blob: grams of each slot, or none

textVars == <<schedule, portions>>

Colon == 10
Minus == 11
Inactif == <<12>>    \* "inactif": a text in which sscanf finds no number
Missing == <<>>      \* a key that is not in the document

None == <<>>         \* a blob that was never stored

\* get_timer_string and get_portions_string allocate six bytes.
\* TightWidth: with no byte for the terminator.
TightWidth == 4
Width == 5

Inactive == [hour |-> 25, minute |-> 61]
Legacy == [hour |-> 26, minute |-> 65]

-----------------------------------------------------------------------------
\* The digits of a number, and "%02d" of it.
Digits[n \in Nat] == IF n < 10 THEN <<n>> ELSE Append(Digits[n \div 10], n % 10)

Padded(n) ==
  IF n < 0 THEN <<Minus>> \o Digits[-n]
  ELSE IF n < 10 THEN <<0, n>> ELSE Digits[n]

\* snprintf into a buffer of Width + 1 bytes.
Cut(text) == SubSeq(text, 1, IF Len(text) < Width THEN Len(text) ELSE Width)

get_timer_string(t) ==
  IF t = Inactive THEN Inactif
  ELSE Cut(Padded(t.hour) \o <<Colon>> \o Padded(t.minute))

get_portions_string(n) == Cut(Padded(n))

\* "%d" of sscanf takes as many characters as belong to a number.
Digit == 0..9
IsNumber(text) ==
  LET unsigned == IF text # <<>> /\ Head(text) = Minus THEN Tail(text) ELSE text
  IN  unsigned # <<>> /\ ToSet(unsigned) \subseteq Digit

\* What digits are worth, and the text of a number with its sign.
Sum10(digits) == FoldLeft(LAMBDA a, d : 10 * a + d, 0, digits)
Value(text) ==
  IF Head(text) = Minus THEN -Sum10(Tail(text)) ELSE Sum10(text)

\* The number at the start of a text, as its longest prefix that is one.
Numbers(text) == {p \in Prefixes(text) : IsNumber(p)}
Longest(texts) == CHOOSE p \in texts : \A q \in texts : Len(q) <= Len(p)

\* sscanf(text, "%d:%d") = 2: both numbers, or else the slot stays inactive.
scan_time(text) ==
  LET hour == Longest(Numbers(text))
      rest == SubSeq(text, Len(hour) + 1, Len(text))
  IN  IF /\ Numbers(text) # {}
         /\ rest # <<>> /\ Head(rest) = Colon
         /\ Numbers(Tail(rest)) # {}
      THEN [hour |-> Value(hour), minute |-> Value(Longest(Numbers(Tail(rest))))]
      ELSE Inactive

\* sscanf(text, "%d") = 1, or else the portion stays 0.
scan_portion(text) ==
  IF Numbers(text) # {} THEN Value(Longest(Numbers(text))) ELSE 0

-----------------------------------------------------------------------------
\* get_schedule_json: a payload that is JSON, or not.  The first text "26:65",
\* which may be what was left of a longer one, is overwritten with the eight
\* characters of `"inactif`, one more than its seven with their quotes, so the
\* separator after it is lost as well.
get_schedule_json ==
  [json |-> /\ schedule # None
            /\ \A i \in Slots : get_timer_string(schedule[i]) # get_timer_string(Legacy),
   texts |-> IF schedule = None THEN <<>>
             ELSE [i \in Slots |-> get_timer_string(schedule[i])]]

get_portions_json ==
  [json |-> portions # None,
   texts |-> IF portions = None THEN <<>>
             ELSE [i \in Slots |-> get_portions_string(portions[i])]]

TextInit == schedule = None /\ portions = None

\* A document replaces the whole blob; a payload that is not JSON is dropped.
update_schedule_from_json(payload) ==
  /\ payload.json
  /\ schedule' = [i \in Slots |-> scan_time(payload.texts[i])]
  /\ UNCHANGED portions

update_portions_from_json(payload) ==
  /\ payload.json
  /\ portions' = [i \in Slots |-> scan_portion(payload.texts[i])]
  /\ UNCHANGED schedule

\* The application sends settings of its own.
SetSchedule ==
  \E texts \in [Slots -> Times] :
    update_schedule_from_json([json |-> TRUE, texts |-> texts])

SetPortions ==
  \E texts \in [Slots -> Amounts] :
    update_portions_from_json([json |-> TRUE, texts |-> texts])

\* It sends what was announced to it back.  The keys of the portions it has
\* to rename: they are announced as "quantity1" and read as "portion1".
EchoSchedule == update_schedule_from_json(get_schedule_json)
EchoPortions == update_portions_from_json(get_portions_json)

TextNext == SetSchedule \/ SetPortions \/ EchoSchedule \/ EchoPortions

TextSpec == TextInit /\ [][TextNext]_textVars

-----------------------------------------------------------------------------
\* Times of two digits, those of a clock among them, and inactive slots.
TwoDigits(t) == t.hour \in 0..99 /\ t.minute \in 0..99

\* A schedule of such times survives the round trip through the application
\* (time.c:186-200, 255): neither the padding nor the six-byte buffer nor
\* the name of an inactive slot changes a meal.
EchoKeepsSchedule ==
  [][EchoSchedule /\ (\A i \in Slots : TwoDigits(schedule[i]))
       => schedule' = schedule]_textVars

\* The portions that fit in five characters.
Debt == -9999
Ration == 99999

\* Portions survive it from -9999 to 99999 g (portions.c:141-152, 90).
EchoKeepsPortions ==
  [][EchoPortions /\ (\A i \in Slots : portions[i] \in Debt..Ration)
       => portions' = portions]_textVars
=============================================================================
