---------------------------- MODULE CameraDriver ----------------------------
(***************************************************************************)
(* The camera driver while it runs (cam_hal.c and the ESP32-S3 part of it, *)
(* ll_cam.c) for JPEG pictures without PSRAM, as cam.c configures it: the  *)
(* sensor sends shots; DMA writes them, in half buffers, into a ring; two  *)
(* interrupts queue an event for every half buffer and for the end of      *)
(* every shot; cam_task copies the half buffers into a frame and queues    *)
(* the frame for the tasks that take pictures.                             *)
(*                                                                         *)
(* The unit of data is the half buffer.  Its content is its place in the   *)
(* shot this capture began with, and whether a shot ends in it; data of    *)
(* earlier captures and data that are not aligned with the start of the    *)
(* shot have place Adrift.                                                 *)
(***************************************************************************)
EXTENDS Integers, Sequences, FiniteSets

CONSTANTS
  FrameCnt,  \* cam_obj->frame_cnt: the frames are 1..FrameCnt
  QueueLen,  \* length of frame_buffer_queue
  HalfCnt,   \* cam_obj->dma_half_buffer_cnt: half buffers in the ring
  FbHalves,  \* half buffers that fit into a frame (fb_size)
  Takers,    \* the tasks that take pictures
  Sizes      \* half buffers a shot can fill, the last of them partly

ASSUME DriverAssumption ==
  /\ FrameCnt \in Nat \ {0}
  /\ QueueLen \in 1..FrameCnt
  /\ HalfCnt \in Nat /\ HalfCnt > 1
  /\ FbHalves \in Nat \ {0}
  /\ Sizes \subseteq Nat \ {0} /\ Sizes # {}

Frames == 1..FrameCnt
None == 0
Slots == 0..(HalfCnt - 1)
EventLen == HalfCnt - 1  \* queue_size in cam_config
Adrift == -1
Half == [place: Nat \cup {Adrift}, last: BOOLEAN]

VARIABLES
  \* the sensor and DMA
  left,      \* half buffers the shot has still to fill, 0 between two shots
  dma,       \* DMA and its interrupt are "off", "on", or "fresh": on, and no
             \* shot began since they were started
  slot,      \* slot of the ring DMA writes
  ring,      \* the half buffers of dma_buffer
  \* shared with the interrupts
  events,    \* event_queue
  state,     \* cam_obj->state
  \* cam_task
  pc,        \* its next step; "eof" and "vsync" with that event in hand
  cnt,       \* half buffers copied into the frame
  pos,       \* frame_pos
  filling,   \* what was copied into frame pos, as far as that is known
  popped,    \* fb2: the frame taken back from the full queue, or None
  \* the frames
  en,        \* en[f]: the driver may fill frame f
  content,   \* history: what frame f held when it was queued, <<>> if its
             \* capture was not clean
  fbq,       \* frame_buffer_queue
  \* the tasks that take pictures
  took,      \* took[t]: the frame t has received from the queue, or None
  clean      \* history: no half buffer of this capture was overwritten before
             \* it was copied, and no announcement of an earlier capture was
             \* left in the queue when it began

dmaVars == <<dma, slot, ring>>
taskVars == <<pc, cnt, pos, filling, popped>>
frameVars == <<en, content, fbq>>
vars == <<left, dmaVars, events, state, taskVars, frameVars, took, clean>>

\* Interrupts are enabled last (cam_start): cam_task waits, DMA stands still.
Init ==
  /\ left = 0
  /\ dma = "off" /\ slot = 0
  /\ ring = [s \in Slots |-> [place |-> Adrift, last |-> FALSE]]
  /\ events = <<>> /\ state = "idle"
  /\ pc = "receive" /\ cnt = 0 /\ pos = 1
  /\ filling = <<>> /\ popped = None
  /\ en = [f \in Frames |-> TRUE]
  /\ content = [f \in Frames |-> <<>>]
  /\ fbq = <<>>
  /\ took = [t \in Takers |-> None]
  /\ clean = TRUE

-----------------------------------------------------------------------------
(* The sensor, DMA and the interrupts                                      *)

\* Overrun: without the test for a full queue.
Overrun(e) == events' = Append(events, e) /\ UNCHANGED <<dma, state>>

\* ll_cam_send_event: an event that does not fit stops the capture.
SendEvent(e) ==
  IF Len(events) < EventLen
  THEN events' = Append(events, e) /\ UNCHANGED <<dma, state>>
  ELSE dma' = "off" /\ state' = "idle" /\ UNCHANGED events

\* A shot begins.  It is aligned with the ring if DMA was started before it.
ShotBegins ==
  /\ left = 0
  /\ left' \in Sizes
  /\ IF dma = "fresh"
     THEN dma' = "on" /\ ring' = [ring EXCEPT ![slot] = [place |-> 0, last |-> left' = 1]]
     ELSE UNCHANGED <<dma, ring>>
  /\ UNCHANGED <<slot, events, state, taskVars, frameVars, took, clean>>

\* Half buffers announced and not copied yet.
Uncopied ==
  Cardinality({i \in DOMAIN events : events[i] = "eof"})
    + (IF pc \in {"eof", "copy"} THEN 1 ELSE 0)

\* ll_cam_dma_isr: a half buffer is full, DMA goes on in the next one.  The
\* capture is not clean any more when that one has not been copied yet.
HalfBufferFull ==
  /\ left > 1
  /\ left' = left - 1
  /\ IF dma # "off"
     THEN LET next == (slot + 1) % HalfCnt
              aligned == ring[slot].place # Adrift /\ ~ring[slot].last
          IN /\ slot' = next
             /\ ring' = [ring EXCEPT ![next] =
                           [place |-> IF aligned THEN ring[slot].place + 1 ELSE Adrift,
                            last |-> left' = 1]]
             /\ SendEvent("eof")
             /\ clean' = (clean /\ Uncopied + 1 < HalfCnt)
     ELSE UNCHANGED <<dmaVars, events, state, clean>>
  /\ UNCHANGED <<taskVars, frameVars, took>>

\* ll_cam_vsync_isr: the shot is over.  DMA is not stopped.
ShotEnds ==
  /\ left = 1
  /\ left' = 0
  /\ SendEvent("vsync")
  /\ UNCHANGED <<slot, ring, taskVars, frameVars, took, clean>>

-----------------------------------------------------------------------------
(* cam_task                                                                *)

\* cam_get_next_frame: the frame filled last if it is free, else the first.
FirstFree(f) == en[f] /\ \A g \in 1..(f - 1) : ~en[g]
HasFrame == \E f \in Frames : FirstFree(f)
NextFrame == IF en[pos] THEN pos ELSE CHOOSE f \in Frames : FirstFree(f)

\* What is in the ring is of an earlier capture now.
Old == [s \in Slots |-> [ring[s] EXCEPT !.place = Adrift]]

\* ll_cam_start, ll_cam_do_vsync: DMA writes to the first slot again, maybe
\* in the middle of a shot.  Neither the ring nor the queue of events is
\* emptied: an 'eof' that is still queued will be taken for the first half
\* buffer of this capture, which is not clean then.
StartDma ==
  /\ dma' = IF left = 0 THEN "fresh" ELSE "on"
  /\ slot' = 0
  /\ ring' = [Old EXCEPT ![0].last = IF left = 0 THEN @ ELSE left = 1]
  /\ clean' = \A i \in DOMAIN events : events[i] # "eof"

StopDma == dma' = "off"

Receive ==
  /\ pc = "receive" /\ events # <<>>
  /\ pc' = Head(events)
  /\ events' = Tail(events)
  /\ UNCHANGED <<left, dmaVars, state, cnt, pos, filling, popped, frameVars, took, clean>>

\* CAM_IN_SUC_EOF_EVENT
HandleEof ==
  /\ pc = "eof"
  /\ pc' = IF state = "read" THEN "copy" ELSE "receive"
  /\ UNCHANGED <<left, dmaVars, events, state, cnt, pos, filling, popped, frameVars,
                 took, clean>>

\* What is copied next.  In a capture that is not clean it may be of any shot,
\* or a mixture of two, and counts as Adrift.
NextHalf == [ring[cnt % HalfCnt] EXCEPT !.place = IF clean THEN @ ELSE Adrift,
                                        !.last = clean /\ @]

\* CopyAny: without the test for the start of a shot.
CopyAny ==
  /\ pc = "copy"
  /\ pc' = "receive"
  /\ IF Len(filling) + 1 > FbHalves
     THEN StopDma /\ UNCHANGED <<filling, cnt>>
     ELSE /\ filling' = Append(filling, NextHalf)
          /\ cnt' = cnt + 1
          /\ UNCHANGED dma
  /\ UNCHANGED <<left, slot, ring, events, state, pos, popped, frameVars, took, clean>>

\* Whether the half buffer copied first begins with the start of a shot, this
\* one's or another's (cam_verify_jpeg_soi).  While DMA has not left slot 0,
\* what it starts with may be new, or the start of an earlier shot that is
\* still there, or neither.
SoiSeen == IF slot = 0 THEN BOOLEAN ELSE {ring[0].place = 0}

\* The half buffer is copied unless the frame is full (FB-OVF).  A capture
\* whose first half buffer does not begin with the start of a shot is given up.
CopyHalf ==
  /\ pc = "copy"
  /\ pc' = "receive"
  /\ IF Len(filling) + 1 > FbHalves
     THEN StopDma /\ UNCHANGED <<filling, cnt, state>>
     ELSE /\ filling' = Append(filling, NextHalf)
          /\ cnt' = cnt + 1
          /\ \E begins \in SoiSeen :
               IF cnt = 0 /\ ~begins
               THEN StopDma /\ state' = "idle"
               ELSE UNCHANGED <<dma, state>>
  /\ UNCHANGED <<left, slot, ring, events, pos, popped, frameVars, took, clean>>

\* DeafWhenIdle: a shot that ends in CAM_STATE_IDLE starts nothing.
DeafWhenIdle ==
  /\ pc = "vsync"
  /\ IF state = "idle"
     THEN pc' = "receive" /\ UNCHANGED dma
     ELSE StopDma /\ pc' = IF cnt > 0 THEN "send" ELSE "restart"
  /\ UNCHANGED <<left, slot, ring, events, state, cnt, pos, filling, popped, frameVars,
                 took, clean>>

\* CAM_VSYNC_EVENT: in CAM_STATE_READ_BUF the shot is over; one that filled no
\* half buffer is dropped.
HandleVsync ==
  /\ pc = "vsync"
  /\ IF state = "idle"
     THEN pc' = "start" /\ UNCHANGED dma
     ELSE StopDma /\ pc' = IF cnt > 0 THEN "send" ELSE "restart"
  /\ UNCHANGED <<left, slot, ring, events, state, cnt, pos, filling, popped, frameVars,
                 took, clean>>

\* CAM_STATE_IDLE: cam_start_frame; the state follows in a step of its own,
\* an interrupt may come first.
StartFrame ==
  /\ pc = "start"
  /\ cnt' = 0
  /\ IF HasFrame
     THEN pos' = NextFrame /\ StartDma /\ pc' = "begin"
     ELSE pc' = "receive" /\ UNCHANGED <<pos, dmaVars, clean>>
  /\ UNCHANGED <<left, events, state, filling, popped, frameVars, took>>

BeginFrame ==
  /\ pc = "begin"
  /\ filling' = <<>>
  /\ state' = "read"
  /\ pc' = "receive"
  /\ UNCHANGED <<left, dmaVars, events, cnt, pos, popped, frameVars, took, clean>>

\* EnqueueTwice: the frame is queued once more.
EnqueueTwice(halves) ==
  /\ fbq' = fbq \o <<pos, pos>>
  /\ content' = [content EXCEPT ![pos] = IF clean THEN halves ELSE <<>>]
  /\ filling' = <<>>

\* What a frame that was not captured cleanly holds is anybody's guess.
Enqueue(halves) ==
  /\ fbq' = Append(fbq, pos)
  /\ content' = [content EXCEPT ![pos] = IF clean THEN halves ELSE <<>>]
  /\ filling' = <<>>

\* The half buffer the shot ended in is copied if it fits; the frame is not
\* the driver's any more and goes to the queue.
SendFrame ==
  /\ pc = "send"
  /\ en' = [en EXCEPT ![pos] = FALSE]
  /\ LET halves == IF Len(filling) + 1 > FbHalves
                   THEN filling ELSE Append(filling, NextHalf)
     IN IF Len(fbq) < QueueLen
        THEN Enqueue(halves) /\ pc' = "restart"
        ELSE filling' = halves /\ pc' = "pop" /\ UNCHANGED <<fbq, content>>
  /\ UNCHANGED <<left, dmaVars, events, state, cnt, pos, popped, took, clean>>

\* The queue was full: the oldest frame is taken back, if none took it since.
PopFrame ==
  /\ pc = "pop"
  /\ IF fbq = <<>>
     THEN en' = [en EXCEPT ![pos] = TRUE] /\ pc' = "restart" /\ UNCHANGED <<fbq, popped>>
     ELSE /\ popped' = Head(fbq)
          /\ fbq' = Tail(fbq)
          /\ pc' = "resend"
          /\ UNCHANGED en
  /\ UNCHANGED <<left, dmaVars, events, state, cnt, pos, filling, content, took, clean>>

\* ResendAndForget: the old frame is not given back.
ResendAndForget ==
  /\ pc = "resend"
  /\ IF Len(fbq) < QueueLen
     THEN Enqueue(filling) /\ UNCHANGED en
     ELSE en' = [en EXCEPT ![pos] = TRUE] /\ UNCHANGED <<filling, fbq, content>>
  /\ popped' = None
  /\ pc' = "restart"
  /\ UNCHANGED <<left, dmaVars, events, state, cnt, pos, took, clean>>

\* The new frame is queued and the old one given back (cam_give).
ResendFrame ==
  /\ pc = "resend"
  /\ IF Len(fbq) < QueueLen
     THEN Enqueue(filling) /\ en' = [en EXCEPT ![popped] = TRUE]
     ELSE /\ en' = [en EXCEPT ![pos] = TRUE, ![popped] = TRUE]
          /\ UNCHANGED <<filling, fbq, content>>
  /\ popped' = None
  /\ pc' = "restart"
  /\ UNCHANGED <<left, dmaVars, events, state, cnt, pos, took, clean>>

\* KeepReading: without going idle when there is no free frame.
KeepReading ==
  /\ pc = "restart"
  /\ pc' = "receive"
  /\ cnt' = 0
  /\ IF HasFrame
     THEN pos' = NextFrame /\ StartDma /\ filling' = <<>> /\ UNCHANGED state
     ELSE UNCHANGED <<state, pos, filling, dmaVars, clean>>
  /\ UNCHANGED <<left, events, popped, frameVars, took>>

\* The next frame is started at once, if there is a free one.
Restart ==
  /\ pc = "restart"
  /\ pc' = "receive"
  /\ cnt' = 0
  /\ IF HasFrame
     THEN pos' = NextFrame /\ StartDma /\ filling' = <<>> /\ UNCHANGED state
     ELSE state' = "idle" /\ UNCHANGED <<pos, filling, dmaVars, clean>>
  /\ UNCHANGED <<left, events, popped, frameVars, took>>

CamTask ==
  \/ Receive \/ HandleEof \/ CopyHalf \/ HandleVsync \/ StartFrame \/ BeginFrame
  \/ SendFrame \/ PopFrame \/ ResendFrame \/ Restart

-----------------------------------------------------------------------------
(* The tasks that take pictures: cam_take, cam_give                        *)

\* xQueueReceive: while the queue is empty the task waits, or gives up after
\* the timeout and returns without a frame, which changes nothing here.
TakeFrame(t) ==
  /\ took[t] = None
  /\ fbq # <<>>
  /\ took' = [took EXCEPT ![t] = Head(fbq)]
  /\ fbq' = Tail(fbq)
  /\ UNCHANGED <<left, dmaVars, events, state, taskVars, en, content, clean>>

GiveBack(t) ==
  /\ en' = [en EXCEPT ![took[t]] = TRUE]
  /\ took' = [took EXCEPT ![t] = None]
  /\ content' = [content EXCEPT ![took[t]] = <<>>]
  /\ UNCHANGED <<left, dmaVars, events, state, taskVars, fbq, clean>>

\* cam_verify_jpeg_eoi: the end of a shot is in the frame.
HasEnd(halves) == \E i \in DOMAIN halves : halves[i].last

\* A frame without end goes back; the task waits for another or gives up.
RejectFrame(t) ==
  /\ took[t] # None
  /\ ~HasEnd(content[took[t]])
  /\ GiveBack(t)

\* The task uses the picture and returns it (esp_camera_fb_return).
ReturnFrame(t) ==
  /\ took[t] # None
  /\ content[took[t]] = <<>> \/ HasEnd(content[took[t]])
  /\ GiveBack(t)

Taker(t) == TakeFrame(t) \/ RejectFrame(t) \/ ReturnFrame(t)

Next ==
  \/ ShotBegins \/ HalfBufferFull \/ ShotEnds
  \/ CamTask
  \/ \E t \in Takers : Taker(t)

\* The sensor never stops, cam_task is scheduled, frames are returned.
Fairness ==
  /\ WF_vars(ShotBegins \/ HalfBufferFull \/ ShotEnds)
  /\ WF_vars(CamTask)
  /\ \A t \in Takers : WF_vars(RejectFrame(t) \/ ReturnFrame(t))

Spec == Init /\ [][Next]_vars /\ Fairness

-----------------------------------------------------------------------------
\* The types, and the limits of the queues and of a frame buffer.
TypeOK ==
  /\ left \in Nat
  /\ dma \in {"off", "fresh", "on"}
  /\ slot \in Slots /\ ring \in [Slots -> Half]
  /\ events \in Seq({"eof", "vsync"}) /\ Len(events) <= EventLen
  /\ state \in {"idle", "read"}
  /\ pc \in {"receive", "eof", "copy", "vsync", "start", "begin", "send", "pop", "resend",
             "restart"}
  /\ cnt \in Nat /\ pos \in Frames
  /\ filling \in Seq(Half) /\ Len(filling) <= FbHalves
  /\ popped \in Frames \cup {None}
  /\ en \in [Frames -> BOOLEAN] /\ content \in [Frames -> Seq(Half)]
  /\ fbq \in Seq(Frames) /\ Len(fbq) <= QueueLen
  /\ took \in [Takers -> Frames \cup {None}]
  /\ clean \in BOOLEAN

Filled(f) == pc \in {"pop", "resend"} /\ pos = f
Queued(f) == \E i \in DOMAIN fbq : fbq[i] = f
Held(f) == \E t \in Takers : took[t] = f

\* A frame has one owner: the driver, which may fill it, cam_task on its way
\* to or from the queue, the queue, or one taker.  Nothing is captured into a
\* frame somebody reads, and none gets lost.
FrameHasOneOwner ==
  \A f \in Frames :
    /\ en[f] \/ Filled(f) \/ popped = f \/ Queued(f) \/ Held(f)
    /\ en[f] => ~(Filled(f) \/ popped = f \/ Queued(f) \/ Held(f))
    /\ Queued(f) => ~(Filled(f) \/ popped = f \/ Held(f))
    /\ Held(f) => ~(Filled(f) \/ popped = f)
    /\ ~(Filled(f) /\ popped = f)
    /\ \A i, j \in DOMAIN fbq : fbq[i] = f /\ fbq[j] = f => i = j
    /\ \A t, u \in Takers : took[t] = f /\ took[u] = f => t = u

\* cam_task copies only into a frame the driver owns, whatever the interrupts
\* do to the state between its check and its copy.
Capturing ==
  \/ pc \in {"begin", "copy", "send"}
  \/ state = "read" /\ pc \in {"receive", "eof", "vsync"}
CapturesIntoOwnFrame == Capturing => en[pos]

\* The invariant of the proofs.
Phases ==
  /\ pc \in {"start", "begin"} => state = "idle"
  /\ pc = "resend" <=> popped # None
DriverInv == TypeOK /\ FrameHasOneOwner /\ CapturesIntoOwnFrame /\ Phases

\* A picture a taker got is one shot from its start to its end, if its capture
\* was clean: stopped captures, lost events, captures that begin in the middle
\* of a shot and shots that do not fit give no picture.  Two kinds of captures
\* are not clean, and nothing is claimed about their pictures: DMA ran over a
\* half buffer before cam_task copied it, or an 'eof' of an earlier capture
\* was queued at the start.  Such an 'eof' makes cam_task copy slot 0 too
\* early; the start of the earlier shot in it passes the check of CopyHalf
\* (cam_hal.c:158), and the picture mixes two shots.
Whole(c) ==
  \E n \in DOMAIN c : c[n].last /\ \A i \in 1..n : c[i].place = i - 1
PicturesAreWhole ==
  \A t \in Takers :
    took[t] # None /\ HasEnd(content[took[t]]) => Whole(content[took[t]])

\* Whatever stopped a capture, a driver that has a frame starts DMA again,
\* even if cam_task is always late.
CaptureResumes == (dma = "off" /\ HasFrame) ~> (dma # "off" \/ ~HasFrame)

\* The frames are used as FramePool says.
Pool == INSTANCE FramePool WITH
  ready <- fbq,
  spare <- {f \in Frames : en[f] \/ Filled(f) \/ popped = f},
  taken <- took
ImplementsPool == Pool!Spec
=============================================================================
