---------------------------- MODULE MCOrderSession ----------------------------
(* Small instances of OrderSession. *)
EXTENDS OrderSession

Order(topic, payload) == [topic |-> topic, payload |-> payload]

\* Orders of four branches, on topics subscribed early and late, and one
\* whose branch does nothing.
Orders ==
  {Order("distribution", ""), Order("tasks/img_capture", "on"), Order("timer/Settings", "json"),
   Order("quantity/taring", ""), Order("fountain/set", "on")}

LongDocument == {Order("timer/Settings", "long"), Order("distribution", "")}
=============================================================================
