----------------------------- MODULE FramePool ------------------------------
(***************************************************************************)
(* What the camera driver promises about its frame buffers                 *)
(* (esp_camera_fb_get and esp_camera_fb_return in esp_camera.c): each      *)
(* buffer is the driver's, waits in the queue, or is held by one taker.    *)
(* A taker gets the oldest picture; a picture nobody took may be dropped,  *)
(* from the front of the queue, for a newer one.                           *)
(***************************************************************************)
EXTENDS Naturals, Sequences

CONSTANTS
  Frames,  \* the frame buffers of the driver
  Takers,  \* the tasks that take pictures
  None     \* no buffer

VARIABLES
  ready,  \* the buffers that wait to be taken, the oldest first
  spare,  \* the buffers the driver may fill
  taken   \* taken[t]: the buffer taker t holds, or None

vars == <<ready, spare, taken>>

Init ==
  /\ ready = <<>>
  /\ spare = Frames
  /\ taken = [t \in Takers |-> None]

\* The driver has filled a buffer.
Publish ==
  \E f \in spare :
    /\ spare' = spare \ {f}
    /\ ready' = Append(ready, f)
    /\ UNCHANGED taken

\* The driver takes the oldest picture back.
Drop ==
  /\ ready # <<>>
  /\ spare' = spare \cup {Head(ready)}
  /\ ready' = Tail(ready)
  /\ UNCHANGED taken

Take(t) ==
  /\ taken[t] = None
  /\ ready # <<>>
  /\ taken' = [taken EXCEPT ![t] = Head(ready)]
  /\ ready' = Tail(ready)
  /\ UNCHANGED spare

Return(t) ==
  /\ taken[t] # None
  /\ spare' = spare \cup {taken[t]}
  /\ taken' = [taken EXCEPT ![t] = None]
  /\ UNCHANGED ready

Next ==
  \/ Publish
  \/ Drop
  \/ \E t \in Takers : Take(t) \/ Return(t)

Spec == Init /\ [][Next]_vars
=============================================================================
