----------------------------- MODULE Dispensing ------------------------------
(***************************************************************************)
(* The tasks that share the MQTT client once the feeder serves: the        *)
(* esp_timer task gives the scheduled feeds and the weight reports, the    *)
(* MQTT task the instant feeds (distribute_croquettes in croquettes.c),    *)
(* the image task sends one frame after the other (cam.c, client.c).  A    *)
(* publication takes the lock of the client; the MQTT task holds it from   *)
(* the arrival of an order until its handler returns.                      *)
(*                                                                         *)
(* A feed is the number of its beginning.  Publications reach the broker   *)
(* in the order of their calls: losses and repetitions are the subject of  *)
(* ConfigSync.                                                             *)
(***************************************************************************)
EXTENDS Integers, Sequences

CONSTANTS
  MaxFeeds,     \* bound: feeds of a behaviour
  MaxRotations  \* the longest feed, in rotations of the wheel

ASSUME DispensingAssumption == MaxFeeds \in Nat /\ MaxRotations \in Nat

Feeders == {"timer", "mqtt"}
Feeds == 1..MaxFeeds

VARIABLES
  lock,       \* the lock of the MQTT client: "free", or the task that holds it
  step,       \* step[t]: where a feeding task is in distribute_croquettes
  feed,       \* feed[t]: the feed it gives, 0 for a weight report
  left,       \* left[t]: rotations still to turn
  feeds,      \* feeds begun
  ended,      \* history: the feeds in the order in which the wheel stopped
  unsaid,     \* history: feeds for whose message there was no memory
  published,  \* the messages on distribution/last, in order; the last is retained
  connected,  \* mqtt_connected
  image,      \* the image task: its step of image_to_mqtt
  frame,      \* the frame buffer is with the "camera" or with the "task"
  upload      \* imageUploadSemaphore

feedVars == <<step, feed, left, feeds, ended, unsaid, published>>
imageVars == <<image, frame, upload>>
vars == <<lock, feedVars, connected, imageVars>>

Init ==
  /\ lock = "free"
  /\ step = [t \in Feeders |-> "idle"]
  /\ feed = [t \in Feeders |-> 0]
  /\ left = [t \in Feeders |-> 0]
  /\ feeds = 0
  /\ ended = <<>>
  /\ unsaid = {}
  /\ published = <<>>
  /\ connected = TRUE
  /\ image = "idle"
  /\ frame = "camera"
  /\ upload = 1

-----------------------------------------------------------------------------
\* The MQTT task takes the lock with the order, the timer task nothing.
TakesOrder(t) ==
  IF t = "mqtt" THEN lock = "free" /\ connected /\ lock' = t ELSE UNCHANGED lock

\* get_current_time_string, and quantity/10 rotations.
BeginFeed(t, rotations) ==
  /\ step[t] = "idle"
  /\ feeds < MaxFeeds
  /\ TakesOrder(t)
  /\ feeds' = feeds + 1
  /\ feed' = [feed EXCEPT ![t] = feeds + 1]
  /\ left' = [left EXCEPT ![t] = rotations]
  /\ step' = [step EXCEPT ![t] = "turning"]
  /\ unsaid' \in {unsaid, unsaid \cup {feeds + 1}}
  /\ UNCHANGED <<ended, published, connected, imageVars>>

\* One rotation: two commands to the servo, half a second each.
\* TurnUncounted: without counting it.
TurnUncounted(t) ==
  /\ step[t] = "turning"
  /\ left[t] > 0
  /\ UNCHANGED vars

Turn(t) ==
  /\ step[t] = "turning"
  /\ left[t] > 0
  /\ left' = [left EXCEPT ![t] = @ - 1]
  /\ UNCHANGED <<lock, step, feed, feeds, ended, unsaid, published, connected,
                 imageVars>>

\* The wheel stops.  Without a time string there is no message.
StopTurning(t) ==
  /\ step[t] = "turning"
  /\ left[t] = 0
  /\ ended' = Append(ended, feed[t])
  /\ step' = [step EXCEPT ![t] = IF feed[t] \in unsaid THEN "weighing" ELSE "publishing"]
  /\ UNCHANGED <<lock, feed, left, feeds, unsaid, published, connected, imageVars>>

\* The lock is recursive: a task that holds it may take it again.
MayTake(t) == lock \in {"free", t}

\* mqtt_publish_message("distribution/last", ...).
\* PublishIfFree: the message is skipped when the client is busy.
PublishIfFree(t) ==
  /\ step[t] = "publishing"
  /\ published' = IF MayTake(t) THEN Append(published, feed[t]) ELSE published
  /\ step' = [step EXCEPT ![t] = "weighing"]
  /\ UNCHANGED <<lock, feed, left, feeds, ended, unsaid, connected, imageVars>>

PublishLast(t) ==
  /\ step[t] = "publishing"
  /\ MayTake(t)
  /\ published' = Append(published, feed[t])
  /\ step' = [step EXCEPT ![t] = "weighing"]
  /\ UNCHANGED <<lock, feed, left, feeds, ended, unsaid, connected, imageVars>>

\* send_quantity_callback: the timer task weighs without a feed.
BeginReport ==
  /\ step["timer"] = "idle"
  /\ step' = [step EXCEPT !["timer"] = "weighing"]
  /\ feed' = [feed EXCEPT !["timer"] = 0]
  /\ UNCHANGED <<lock, left, feeds, ended, unsaid, published, connected, imageVars>>

\* get_quantity returns (Scale), and the weight is to be published.
Weighed(t) ==
  /\ step[t] = "weighing"
  /\ step' = [step EXCEPT ![t] = "sending"]
  /\ UNCHANGED <<lock, feed, left, feeds, ended, unsaid, published, connected,
                 imageVars>>

\* It is published with QoS 0; the handler of an order then returns, and the
\* MQTT task lets the lock go.
SendQuantity(t) ==
  /\ step[t] = "sending"
  /\ MayTake(t)
  /\ lock' = "free"
  /\ step' = [step EXCEPT ![t] = "idle"]
  /\ UNCHANGED <<feed, left, feeds, ended, unsaid, published, connected, imageVars>>

\* The connection comes and goes; the MQTT task notices it between orders.
LinkChanges ==
  /\ step["mqtt"] = "idle"
  /\ connected' = ~connected
  /\ UNCHANGED <<lock, feedVars, imageVars>>

-----------------------------------------------------------------------------
\* image_to_mqtt: without a connection there is nothing to do.  The camera
\* may give no frame for four seconds, and the task tries again.
TakeFrame ==
  /\ image = "idle"
  /\ connected
  /\ frame = "camera"
  /\ frame' = "task"
  /\ image' = "uploading"
  /\ UNCHANGED <<lock, feedVars, connected, upload>>

\* send_image_data waits for the semaphore, then for the client.
TakeSemaphore ==
  /\ image = "uploading"
  /\ upload = 1
  /\ upload' = 0
  /\ image' = "locking"
  /\ UNCHANGED <<lock, feedVars, connected, frame>>

LockForImage ==
  /\ image = "locking"
  /\ lock = "free"
  /\ lock' = "image"
  /\ image' = "sending"
  /\ UNCHANGED <<feedVars, connected, frame, upload>>

\* esp_mqtt_client_publish returns a message or an error: both branches give
\* the semaphore back.
\* GiveOnSuccess: one of them does not.
GiveOnSuccess ==
  /\ image = "sending"
  /\ lock' = "free"
  /\ upload' \in {0, 1}
  /\ image' = "returning"
  /\ UNCHANGED <<feedVars, connected, frame>>

SendImage ==
  /\ image = "sending"
  /\ lock' = "free"
  /\ upload' = 1
  /\ image' = "returning"
  /\ UNCHANGED <<feedVars, connected, frame>>

\* esp_camera_fb_return, whatever the publication said.
ReturnFrame ==
  /\ image = "returning"
  /\ frame' = "camera"
  /\ image' = "idle"
  /\ UNCHANGED <<lock, feedVars, connected, upload>>

FeedStep(t) ==
  \/ Turn(t) \/ StopTurning(t) \/ PublishLast(t) \/ Weighed(t) \/ SendQuantity(t)

ImageStep == TakeFrame \/ TakeSemaphore \/ LockForImage \/ SendImage \/ ReturnFrame

Next ==
  \/ \E t \in Feeders : \E rotations \in 0..MaxRotations : BeginFeed(t, rotations)
  \/ \E t \in Feeders : FeedStep(t)
  \/ BeginReport
  \/ LinkChanges
  \/ ImageStep

Spec == Init /\ [][Next]_vars

\* Every task is scheduled, and none waits for the lock for ever while it is
\* free again and again: FreeRTOS hands it to its most urgent waiter.
FairSpec ==
  /\ Spec
  /\ \A t \in Feeders : SF_vars(FeedStep(t))
  /\ SF_vars(ImageStep)

-----------------------------------------------------------------------------
\* Type invariant; the parts that matter are who holds the lock and when.
TypeOK ==
  /\ lock \in {"free", "image"} \cup Feeders
  /\ step \in [Feeders -> {"idle", "turning", "publishing", "weighing", "sending"}]
  /\ feed \in [Feeders -> 0..MaxFeeds]
  /\ left \in [Feeders -> 0..MaxRotations]
  /\ feeds \in 0..MaxFeeds
  /\ ended \in Seq(Feeds)
  /\ unsaid \subseteq Feeds
  /\ published \in Seq(Feeds)
  /\ connected \in BOOLEAN
  /\ image \in {"idle", "uploading", "locking", "sending", "returning"}
  /\ frame \in {"camera", "task"}
  /\ upload \in {0, 1}

Places(f, s) == {i \in DOMAIN s : s[i] = f}

Busy(t) == step[t] \in {"turning", "publishing"}
UnderWay(f) == \E t \in Feeders : Busy(t) /\ feed[t] = f

\* A feed that is over is announced exactly once, unless there was no memory
\* for its message, and none is announced before its wheel has stopped
\* (croquettes.c:13-31), however the two tasks interleave.
AnnouncedOnceEnded ==
  \A f \in Feeds :
    /\ \A i, j \in Places(f, published) : i = j
    /\ Places(f, published) # {} => Places(f, ended) # {}
    /\ f <= feeds /\ ~UnderWay(f) => f \in unsaid \/ Places(f, published) # {}

\* The frame buffer and the semaphore are with the image task exactly while
\* it uploads, and come back whatever the publication said (client.c:200-222,
\* cam.c:91-99).
ImageReturnsAll ==
  /\ frame = "task" <=> image # "idle"
  /\ upload = 0 <=> image \in {"locking", "sending"}

\* The MQTT task has the lock exactly while it handles an order, and the
\* image task exactly while it publishes.
LockOwned ==
  /\ lock = "mqtt" <=> step["mqtt"] # "idle"
  /\ lock = "image" <=> image = "sending"
  /\ lock # "timer"

\* A feed under way is given by one task, which has begun it and has not yet
\* announced it; nothing is known of feeds that have not begun.
FeedsKnown ==
  /\ \A t \in Feeders : Busy(t) => feed[t] \in 1..feeds
  /\ \A t, u \in Feeders : Busy(t) /\ Busy(u) /\ feed[t] = feed[u] => t = u
  /\ \A t \in Feeders : Busy(t) => Places(feed[t], published) = {}
  /\ \A t \in Feeders :
       step[t] = "publishing" => Places(feed[t], ended) # {}
  /\ \A f \in Feeds : f > feeds => Places(f, published) = {}

DispensingInv == TypeOK /\ ImageReturnsAll /\ LockOwned /\ FeedsKnown /\ AnnouncedOnceEnded

\* A feed comes to its end, messages and weight included, whatever the other
\* tasks do with the client (client.c:200-238, croquettes.c:12-36).
FeedsEnd == \A t \in Feeders : step[t] # "idle" ~> step[t] = "idle"

\* A frame that was taken is given back: the upload does not block for ever
\* (client.c:202).
FramesReturn == frame = "task" ~> frame = "camera"
=============================================================================
