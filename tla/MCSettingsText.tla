---------------------------- MODULE MCSettingsText ----------------------------
(* Small instances of SettingsText: times and portions at the borders of the *)
(* formats, some of them unpadded, unreadable, out of a clock or missing.    *)
EXTENDS SettingsText

Plain(h, m) == Digits[h] \o <<Colon>> \o Digits[m]

MCTimes ==
  {Missing, Inactif, <<7>>, Plain(0, 0), Plain(9, 30), Plain(23, 59),
   Plain(26, 65), Plain(26, 650), Plain(99, 99), Plain(12, 100), Plain(1234, 5), <<Minus, 1, Colon, 3>>,
   <<0, 8, Colon, 9, Colon, 1>>}

MCAmounts ==
  {Missing, <<0>>, <<Minus, 9, 9, 9, 9>>, <<Minus, 1, 0, 0, 0, 0>>,
   <<9, 9, 9, 9, 9>>, <<1, 0, 0, 0, 0, 0>>, <<0, 0, 5>>}
=============================================================================
