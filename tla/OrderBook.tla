------------------------------ MODULE OrderBook -------------------------------
(***************************************************************************)
(* What the feeder promises of the orders it gets over MQTT: an order is   *)
(* carried out at most once, in the order of the sending, or never.        *)
(***************************************************************************)
EXTENDS Naturals, Sequences

VARIABLES
  sent,     \* number of orders sent
  pending,  \* orders that may still be carried out, oldest first
  done      \* orders carried out, in that order

bookVars == <<sent, pending, done>>

Init == sent = 0 /\ pending = <<>> /\ done = <<>>

\* An order is taken, or lost at once because nobody listens.
Send ==
  /\ sent' = sent + 1
  /\ pending' \in {pending, Append(pending, sent + 1)}
  /\ UNCHANGED done

CarryOut ==
  /\ pending # <<>>
  /\ done' = Append(done, Head(pending))
  /\ pending' = Tail(pending)
  /\ UNCHANGED sent

\* An order that asks for nothing the feeder does.
PassOver ==
  /\ pending # <<>>
  /\ pending' = Tail(pending)
  /\ UNCHANGED <<sent, done>>

\* With its session the feeder loses the orders that were waiting.
Forget ==
  /\ pending' = <<>>
  /\ UNCHANGED <<sent, done>>

Next == Send \/ CarryOut \/ PassOver \/ Forget

Spec == Init /\ [][Next]_bookVars
=============================================================================
