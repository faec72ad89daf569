------------------------------ MODULE ConfigSync ------------------------------
(***************************************************************************)
(* How the schedule and the portions travel: the application sends a       *)
(* document over MQTT, the MQTT task stores it in flash and announces what *)
(* the flash then holds (update_schedule_from_json in time.c,              *)
(* update_portions_from_json in portions.c), and once a minute the timer   *)
(* task announces the flash again (send_schedule_callback,                 *)
(* send_portions_callback).  The two tasks share the lock of the MQTT      *)
(* client: the MQTT task holds it while a handler runs, a publication of   *)
(* the timer task takes it, but the payload is formatted before.           *)
(*                                                                         *)
(* A document is the number of the update that carried it; 0 stands for a  *)
(* blob that was never stored and for the empty payload that announces it. *)
(* Publications are QoS 1: the outbox keeps them until the broker          *)
(* acknowledges, and may send them again or out of order or give them up.  *)
(***************************************************************************)
EXTENDS Integers

CONSTANTS
  Kinds,        \* the blobs, {"schedule", "portions"}
  MaxUpdates,   \* bound: documents the application sends
  MaxRestarts   \* bound: restarts in a behaviour

ASSUME ConfigAssumption == MaxUpdates \in Nat /\ MaxRestarts \in Nat

Docs == 0..MaxUpdates

VARIABLES
  flash,     \* flash[k]: the document stored in blob k
  updates,   \* documents received so far
  handler,   \* the MQTT task: its step, the blob and the document
  report,    \* the timer task: its step, the blob and the payload
  outbox,    \* publications the broker has not acknowledged
  shown,     \* shown[k]: the last announcement the application got
  restarts,  \* restarts so far
  stored,    \* history: stored[k] is every document blob k has held
  newest,    \* history: newest[k] is the newest document announced
  regress    \* history: announcements of k older than newest[k] since it

vars == <<flash, updates, handler, report, outbox, shown, restarts, stored,
          newest, regress>>

NoKind == "none"
IdleHandler == [step |-> "idle", kind |-> NoKind, doc |-> 0]
IdleReport == [step |-> "idle", kind |-> NoKind, text |-> 0]

\* The blobs the timer task announces by itself, once MQTT has connected.
\* OnlySchedule: without periodic_portions_send.
OnlySchedule == Kinds \cap {"schedule"}
Reported == Kinds

\* get_schedule_json and get_portions_json format what the flash holds now.
\* RequestedJson: what was asked for, before it is known to be stored.
RequestedJson(k) == IF handler.kind = k THEN handler.doc ELSE flash[k]

get_json(k) == flash[k]

Init ==
  /\ flash = [k \in Kinds |-> 0]
  /\ updates = 0
  /\ handler = IdleHandler
  /\ report = IdleReport
  /\ outbox = {}
  /\ shown = [k \in Kinds |-> 0]
  /\ restarts = 0
  /\ stored = [k \in Kinds |-> {0}]
  /\ newest = [k \in Kinds |-> 0]
  /\ regress = [k \in Kinds |-> 0]

\* esp_mqtt_client_publish: with QoS 1 the payload enters the outbox, the
\* link being up or not.
Announce(k, text) ==
  /\ outbox' = outbox \cup {[kind |-> k, text |-> text]}
  /\ IF text >= newest[k]
     THEN /\ newest' = [newest EXCEPT ![k] = text]
          /\ regress' = IF text > newest[k] THEN [regress EXCEPT ![k] = 0]
                                            ELSE regress
     ELSE /\ regress' = [regress EXCEPT ![k] = @ + 1]
          /\ UNCHANGED newest

-----------------------------------------------------------------------------
\* A document arrives; the client's lock is held until its handler returns.
Receive(k) ==
  /\ handler.step = "idle"
  /\ updates < MaxUpdates
  /\ updates' = updates + 1
  /\ handler' = [step |-> "storing", kind |-> k, doc |-> updates + 1]
  /\ UNCHANGED <<flash, report, outbox, shown, restarts, stored, newest, regress>>

\* write_distribution_schedule and write_distribution_portions store the
\* document or fail; the handler only logs which, and goes on.
Write(k) ==
  /\ handler.step = "storing" /\ handler.kind = k
  /\ handler' = [handler EXCEPT !.step = "announcing"]
  /\ \/ /\ flash' = [flash EXCEPT ![k] = handler.doc]
        /\ stored' = [stored EXCEPT ![k] = @ \cup {handler.doc}]
     \/ UNCHANGED <<flash, stored>>
  /\ UNCHANGED <<updates, report, outbox, shown, restarts, newest, regress>>

\* The handler ends with send_schedule_to_mqtt or send_portions_to_mqtt.
\* Nothing can change the flash between its two calls: only this task does.
SendUpdated(k) ==
  /\ handler.step = "announcing" /\ handler.kind = k
  /\ Announce(k, get_json(k))
  /\ handler' = IdleHandler
  /\ UNCHANGED <<flash, updates, report, shown, restarts, stored>>

\* A report falls due: the timer task formats the payload, without the lock.
send_callback(k) ==
  /\ report.step = "idle"
  /\ k \in Reported
  /\ report' = [step |-> "publishing", kind |-> k, text |-> get_json(k)]
  /\ UNCHANGED <<flash, updates, handler, outbox, shown, restarts, stored,
                 newest, regress>>

\* It publishes when no handler holds the client's lock.
\* PublishKept: the payload is formatted once and published every minute.
PublishKept ==
  /\ report.step = "publishing"
  /\ handler.step = "idle"
  /\ Announce(report.kind, report.text)
  /\ UNCHANGED <<report, flash, updates, handler, shown, restarts, stored>>

PublishReport ==
  /\ report.step = "publishing"
  /\ handler.step = "idle"
  /\ Announce(report.kind, report.text)
  /\ report' = IdleReport
  /\ UNCHANGED <<flash, updates, handler, shown, restarts, stored>>

-----------------------------------------------------------------------------
\* The application gets a publication, and the broker acknowledges it.
Deliver(m) ==
  /\ m \in outbox
  /\ shown' = [shown EXCEPT ![m.kind] = m.text]
  /\ outbox' = outbox \ {m}
  /\ UNCHANGED <<flash, updates, handler, report, restarts, stored, newest, regress>>

\* The acknowledgement is lost: the outbox will send the publication again.
DeliverUnacknowledged(m) ==
  /\ m \in outbox
  /\ shown' = [shown EXCEPT ![m.kind] = m.text]
  /\ UNCHANGED <<flash, updates, handler, report, outbox, restarts, stored,
                 newest, regress>>

\* During an outage the outbox gives a publication up.
Expire(m) ==
  /\ m \in outbox
  /\ outbox' = outbox \ {m}
  /\ UNCHANGED <<flash, updates, handler, report, shown, restarts, stored,
                 newest, regress>>

\* Power is lost: the flash stays, the tasks and the outbox do not.
Restart ==
  /\ restarts < MaxRestarts
  /\ restarts' = restarts + 1
  /\ handler' = IdleHandler
  /\ report' = IdleReport
  /\ outbox' = {}
  /\ UNCHANGED <<flash, updates, shown, stored, newest, regress>>

Messages == [kind : Kinds, text : Docs]

Next ==
  \/ \E k \in Kinds :
       \/ Receive(k) \/ Write(k) \/ SendUpdated(k) \/ send_callback(k)
  \/ PublishReport
  \/ \E m \in Messages : Deliver(m) \/ DeliverUnacknowledged(m) \/ Expire(m)
  \/ Restart

Spec == Init /\ [][Next]_vars

\* The tasks run, the report timers go off again and again, and what stays
\* in the outbox again and again is acknowledged in the end.
Fairness ==
  /\ \A k \in Kinds :
       WF_vars(Write(k)) /\ WF_vars(SendUpdated(k)) /\ SF_vars(send_callback(k))
  /\ WF_vars(PublishReport)
  /\ \A m \in Messages : SF_vars(Deliver(m))

FairSpec == Spec /\ Fairness

-----------------------------------------------------------------------------
\* Type invariant of the tasks, the outbox and the histories; a task that is
\* not idle works on one of the blobs.
TypeOK ==
  /\ flash \in [Kinds -> Docs]
  /\ updates \in Docs
  /\ handler \in [step : {"idle", "storing", "announcing"},
                  kind : Kinds \cup {NoKind}, doc : Docs]
  /\ handler.step # "idle" => handler.kind \in Kinds
  /\ report \in [step : {"idle", "publishing"},
                 kind : Kinds \cup {NoKind}, text : Docs]
  /\ report.step # "idle" => report.kind \in Kinds
  /\ outbox \subseteq Messages
  /\ shown \in [Kinds -> Docs]
  /\ restarts \in 0..MaxRestarts
  /\ stored \in [Kinds -> SUBSET Docs]
  /\ newest \in [Kinds -> Docs]
  /\ regress \in [Kinds -> Nat]

\* The application is only ever shown what the feeder has stored
\* (time.c:290-309, portions.c:119-138): after a write that failed it is
\* told of the old settings, never of the ones it asked for.
ShownWasStored == \A k \in Kinds : shown[k] \in stored[k]

\* A report formatted before an update may be published after it
\* (client.c:224-232), but only one: the timer task has at most one payload
\* in hand, so newer settings are followed by at most one older announcement.
AtMostOneStaleReport == \A k \in Kinds : regress[k] <= 1

\* Everything on its way to the application has been stored, and the
\* documents are stored and announced in the order they were received.
OnTheWayWasStored ==
  /\ \A k \in Kinds : flash[k] \in stored[k]
  /\ report.step = "publishing" => report.text \in stored[report.kind]
  /\ \A m \in outbox : m.text \in stored[m.kind]

InOrder ==
  /\ \A k \in Kinds : newest[k] <= flash[k] /\ flash[k] <= updates
  /\ handler.step = "storing" => handler.doc = updates
  /\ report.step = "publishing" => report.text <= flash[report.kind]

\* After a stale announcement the timer task has no other one in hand.
StaleIsSpent ==
  \A k \in Kinds :
    regress[k] >= 1 /\ report.step = "publishing" /\ report.kind = k
      => report.text >= newest[k]

ConfigInv ==
  /\ TypeOK
  /\ OnTheWayWasStored /\ ShownWasStored
  /\ InOrder /\ StaleIsSpent /\ AtMostOneStaleReport

\* Once the application stops sending and the feeder restarting, the
\* application ends up being shown what the feeder has stored, whatever was
\* lost, sent twice or overtaken on the way (time.c:312-325,
\* portions.c:179-192).
ShownConverges == \A k \in Kinds : <>[](shown[k] = flash[k])
=============================================================================
