----------------------------- MODULE OrderSession -----------------------------
(***************************************************************************)
(* The orders of the phone application on their way through the broker to  *)
(* mqtt_process_received_data (client.c), and what they do there.  Topics  *)
(* have quality of service 1 and the session is clean: the broker keeps an *)
(* order until it is acknowledged, at most until the feeder connects again.*)
(* esp-mqtt acknowledges an order when the handler has returned, and hands *)
(* a message that exceeds its 2048-byte buffer over in pieces, of which    *)
(* only the first has the topic.                                           *)
(*                                                                         *)
(* How a feed, an update or a taring goes on is the subject of Dispensing, *)
(* ConfigSync and Scale; here they are done when the handler returns.      *)
(***************************************************************************)
EXTENDS Integers, SequencesExt

CONSTANTS
  Messages,  \* the orders the application sends: topic and payload
  MaxOrders  \* bound: orders of a behaviour

ASSUME OrderAssumption == MaxOrders \in Nat

\* In the order in which they are subscribed, and compared by the handler.
Topics ==
  <<"distribution", "tasks/img_capture", "timer/Settings", "timer/Quantities",
    "quantity/taring", "fountain/set", "fountain/toggle">>

VARIABLES
  link,        \* the TCP connection: "up" or "down"
  connected,   \* mqtt_connected
  task,        \* the MQTT task: "idle", "subscribing", "handling", "acknowledging"
  subscribed,  \* how many of Topics the broker has subscriptions for
  orders,      \* the messages sent so far; an order is its index
  queue,       \* the broker's unacknowledged orders of the session
  pushed,      \* how many of them it has written to the connection
  wire,        \* orders written and not yet read
  pieces,      \* pieces of the order in hand that are still to be handled
  carried      \* history: what was done, for which order

brokerVars == <<subscribed, orders, queue, pushed>>
vars == <<link, connected, task, brokerVars, wire, pieces, carried>>

Init ==
  /\ link = "down"
  /\ connected = FALSE
  /\ task = "idle"
  /\ subscribed = 0
  /\ orders = <<>>
  /\ queue = <<>>
  /\ pushed = 0
  /\ wire = <<>>
  /\ pieces = <<>>
  /\ carried = <<>>

-----------------------------------------------------------------------------
\* The application publishes; the broker keeps the order for a subscriber.
SendOrder(message) ==
  /\ Len(orders) < MaxOrders
  /\ orders' = Append(orders, message)
  /\ queue' = IF \E i \in 1..subscribed : Topics[i] = message.topic
              THEN Append(queue, Len(orders) + 1) ELSE queue
  /\ UNCHANGED <<link, connected, task, subscribed, pushed, wire, pieces, carried>>

Push ==
  /\ link = "up"
  /\ pushed < Len(queue)
  /\ wire' = Append(wire, queue[pushed + 1])
  /\ pushed' = pushed + 1
  /\ UNCHANGED <<link, connected, task, subscribed, orders, queue, pieces, carried>>

\* The network fails, or the connection is refreshed after 65 seconds.
LinkLost ==
  /\ link = "up"
  /\ link' = "down"
  /\ UNCHANGED <<connected, task, brokerVars, wire, pieces, carried>>

-----------------------------------------------------------------------------
\* disable_clean_session = false: a connection starts with a session of its own.
\* ResumedSession: with the broker's session of the last one.
ResumedSession(waiting) == waiting
Session(waiting) == <<>>

\* MQTT_EVENT_CONNECTED.
Connect ==
  /\ task = "idle"
  /\ ~connected
  /\ link' = "up"
  /\ connected' = TRUE
  /\ task' = "subscribing"
  /\ queue' = Session(queue)
  /\ subscribed' = 0
  /\ pushed' = 0
  /\ wire' = <<>>
  /\ UNCHANGED <<orders, pieces, carried>>

\* The handler subscribes to one topic after the other, and does not look
\* at what the calls return.
\* SubscribeShort: it leaves the last one out.
SubscribeShort ==
  /\ task = "subscribing"
  /\ subscribed' = IF link = "up" /\ subscribed < Len(Topics) - 1
                   THEN subscribed + 1 ELSE subscribed
  /\ task' = IF link = "down" \/ subscribed' = Len(Topics) - 1 THEN "idle" ELSE task
  /\ UNCHANGED <<link, connected, orders, queue, pushed, wire, pieces, carried>>

Subscribe ==
  /\ task = "subscribing"
  /\ subscribed' = IF link = "up" THEN subscribed + 1 ELSE subscribed
  /\ task' = IF link = "down" \/ subscribed' = Len(Topics) THEN "idle" ELSE task
  /\ UNCHANGED <<link, connected, orders, queue, pushed, wire, pieces, carried>>

\* MQTT_EVENT_DISCONNECTED: what was not read is lost.
\* NoticeAtOnce: the event does not wait for a handler to return.
NoticeAtOnce ==
  /\ connected
  /\ link = "down"
  /\ connected' = FALSE
  /\ wire' = <<>>
  /\ UNCHANGED <<link, task, brokerVars, pieces, carried>>

Notice ==
  /\ task = "idle"
  /\ connected
  /\ link = "down"
  /\ connected' = FALSE
  /\ wire' = <<>>
  /\ UNCHANGED <<link, task, brokerVars, pieces, carried>>

\* A long document arrives as a beginning and, without a topic, a rest.
PiecesOf(message) ==
  IF message.payload = "long"
  THEN <<[message EXCEPT !.payload = "half"], [topic |-> "", payload |-> "half"]>>
  ELSE <<message>>

\* MQTT_EVENT_DATA.
Receive ==
  /\ task = "idle"
  /\ connected
  /\ wire # <<>>
  /\ pieces' = PiecesOf(orders[Head(wire)])
  /\ task' = "handling"
  /\ UNCHANGED <<link, connected, brokerVars, wire, carried>>

\* strncmp(topic, name, topic_len) = 0, for the topics subscribed and none.
\* MatchesBut: the name of a topic is misspelt.
MatchesBut(topic, name) == topic \in {name, ""} /\ name # "quantity/taring"
Matches(topic, name) == topic \in {name, ""}

\* Whether a branch does something: the settings need a document, and the
\* fountain's payload is compared with as many characters as it has.
Acts(name, payload) ==
  \/ name \in {"distribution", "quantity/taring", "fountain/toggle"}
  \/ name \in {"timer/Settings", "timer/Quantities"} /\ payload = "json"
  \/ name = "fountain/set" /\ payload \in {"on", "off", ""}

\* The branches are not exclusive: each whose name matches is taken.
Performed(piece) ==
  {name \in ToSet(Topics) : Matches(piece.topic, name) /\ Acts(name, piece.payload)}

\* mqtt_process_received_data.
HandlePiece ==
  /\ task = "handling"
  /\ LET acts == Performed(Head(pieces))
     IN  carried' = IF acts = {} THEN carried
                    ELSE Append(carried, [order |-> Head(wire), acts |-> acts])
  /\ pieces' = Tail(pieces)
  /\ task' = IF Len(pieces) = 1 THEN "acknowledging" ELSE task
  /\ UNCHANGED <<link, connected, brokerVars, wire>>

\* The acknowledgement reaches the broker if the connection still exists.
Acknowledge ==
  /\ task = "acknowledging"
  /\ IF link = "up"
     THEN queue' = Tail(queue) /\ pushed' = pushed - 1
     ELSE UNCHANGED <<queue, pushed>>
  /\ wire' = Tail(wire)
  /\ task' = "idle"
  /\ UNCHANGED <<link, connected, subscribed, orders, pieces, carried>>

MqttTask ==
  Connect \/ Subscribe \/ Notice \/ Receive \/ HandlePiece \/ Acknowledge

Next ==
  \/ \E message \in Messages : SendOrder(message)
  \/ Push
  \/ LinkLost
  \/ MqttTask

Spec == Init /\ [][Next]_vars

\* The MQTT task is scheduled and tries again every two seconds; the broker
\* writes what it has.  Orders and failures of the network are free.
FairSpec == Spec /\ WF_vars(MqttTask) /\ WF_vars(Push)

-----------------------------------------------------------------------------
\* The order a history entry is about.
OrdersOf(history) == [i \in DOMAIN history |-> history[i].order]

\* Type invariant, and what the parts of the connection have to do with each
\* other: the orders on the wire are the last ones that the broker has
\* written, and all of them as long as the connection holds.
TypeOK ==
  /\ link \in {"up", "down"}
  /\ connected \in BOOLEAN
  /\ task \in {"idle", "subscribing", "handling", "acknowledging"}
  /\ subscribed \in 0..Len(Topics)
  /\ orders \in Seq(Messages)
  /\ queue \in Seq(1..MaxOrders)
  /\ pushed \in 0..Len(queue)
  /\ Len(wire) <= pushed /\ (link = "up" => Len(wire) = pushed)
  /\ \A i \in DOMAIN wire : wire[i] = queue[pushed - Len(wire) + i]
  /\ task \in {"handling", "acknowledging"} => wire # <<>> /\ connected
  /\ task = "handling" <=> pieces # <<>>

\* The orders are carried out at most once and in the order of the sending,
\* whenever the connection breaks (client.c:99-114, 160): an order that was
\* fed and not acknowledged is not fed again after the reconnection.  And
\* each does what its topic says and nothing else (client.c:29-61).
OrdersOnce ==
  /\ \A i, j \in DOMAIN carried : i < j => carried[i].order < carried[j].order
  /\ \A i \in DOMAIN carried : carried[i].acts = {orders[carried[i].order].topic}

\* How many orders of the session the handler has been through; the last of
\* them may not be acknowledged yet.
Handled == pushed - Len(wire) + (IF task = "acknowledging" THEN 1 ELSE 0)

\* What is left of the session.
Unhandled == IF connected THEN SubSeq(queue, Handled + 1, Len(queue)) ELSE <<>>

Book == INSTANCE OrderBook WITH
  sent <- Len(orders), pending <- Unhandled, done <- OrdersOf(carried)

\* The session keeps the promise of OrderBook (client.c:29-120).
ImplementsBook == Book!Spec

\* An order that the broker took and that asks for something is carried out
\* as long as the connection holds (client.c:111-113).
OrdersCarriedOut ==
  \A o \in 1..MaxOrders :
    Contains(queue, o) /\ Acts(orders[o].topic, orders[o].payload)
      ~> Contains(OrdersOf(carried), o) \/ link = "down"

\* After every reconnection the feeder listens to all its topics again,
\* unless the connection breaks before (client.c:87-98).
ListensAgain ==
  connected /\ link = "up" ~> subscribed = Len(Topics) \/ link = "down"

\* "Instant distribution order" (client.c:32): a feed is given for an order
\* on that topic.
FeedsOnlyOnOrder ==
  \A i \in DOMAIN carried :
    "distribution" \in carried[i].acts => orders[carried[i].order].topic = "distribution"
=============================================================================
