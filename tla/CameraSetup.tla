----------------------------- MODULE CameraSetup -----------------------------
(***************************************************************************)
(* esp_camera_init (driver/esp_camera.c, driver/cam_hal.c): the driver     *)
(* takes what it needs step by step; a step that fails gives back what the *)
(* earlier ones took, on one of several ways out, and the camera is as it  *)
(* was before.                                                             *)
(***************************************************************************)
EXTENDS Naturals, Sequences

CONSTANT FrameCnt   \* fb_count of the configuration

VARIABLE camera
  \* camera.step: the number of steps taken, and one more when all are done
  \* camera.failed: esp_camera_init has returned an error
  \* camera.held: what has been taken and not given back
  \* camera.buffers: frame buffers among that
  \* camera.set: cam_obj, s_state and sccb_owns_i2c_port that are not null
  \* camera.stray: history: what has been given back without being held

\* What is taken, in this order.  The step "buffers" is a loop over the
\* frames; "sensor" and "set_framesize" take nothing: the sensor is searched,
\* identified and reset, and its frame size is set.
Steps ==
  <<"cam_obj", "dma_num", "s_state", "sccb", "sensor", "frames", "buffers", "dma_buffer",
    "dma", "event_queue", "frame_buffer_queue", "dma_intr_handle", "cam_intr_handle",
    "cam_task", "set_framesize">>

Pointers == {"cam_obj", "s_state", "sccb"}
Resources == {Steps[i] : i \in DOMAIN Steps} \ {"sensor", "buffers", "set_framesize"}
Ready == camera.step = Len(Steps)
Settled == Ready \/ camera.failed

Off == [step |-> 0, failed |-> FALSE, held |-> {}, buffers |-> 0, set |-> {}, stray |-> {}]

-----------------------------------------------------------------------------
Free(c, X) == [c EXCEPT !.held = @ \ X, !.stray = @ \cup (X \ c.held)]

Forget(c, pointer) == [c EXCEPT !.set = @ \ {pointer}]

\* What cam_obj points to.  The DMA channel is always cleared: the one of
\* number 0 if none has been found.
Held(c) == (c.held \ {"cam_obj", "s_state", "sccb"}) \cup {"dma_num"}

\* The buffers are found through the array of frames; one that has not been
\* allocated is a null pointer there.
FreeAll(c) ==
  [Free(c, Held(c) \cup {"cam_obj"}) EXCEPT !.buffers = IF "frames" \in c.held THEN 0 ELSE @]

\* Mutant: cam_obj is not set to NULL.
DanglingDeinit(c) == IF "cam_obj" \notin c.set THEN c ELSE FreeAll(c)

cam_deinit(c) == IF "cam_obj" \notin c.set THEN c ELSE Forget(FreeAll(c), "cam_obj")

\* The I2C driver is deleted when the port is noted as owned.
SCCB_Deinit(c) == IF "sccb" \in c.set THEN Forget(Free(c, {"sccb"}), "sccb") ELSE c

esp_camera_deinit(c) ==
  LET d == cam_deinit(c)
  IN IF "s_state" \in d.set THEN Forget(Free(SCCB_Deinit(d), {"s_state"}), "s_state") ELSE d

\* The error paths.  cam_init returns at once; without a free DMA channel
\* ll_cam_dma_init has called cam_deinit before cam_init frees cam_obj.
\* cam_config calls cam_deinit before esp_camera_init calls esp_camera_deinit.
CleanUp(c, step) ==
  CASE step = "cam_obj" -> c
    [] step = "dma_num" ->
         LET d == cam_deinit(c)
         IN IF "cam_obj" \in d.set THEN Forget(Free(d, {"cam_obj"}), "cam_obj") ELSE d
    [] step \in {"s_state", "sccb", "sensor", "set_framesize"} -> esp_camera_deinit(c)
    [] OTHER -> esp_camera_deinit(cam_deinit(c))

-----------------------------------------------------------------------------
Init == camera = Off

Noted(pointers, step) == pointers \cup ({step} \cap Pointers)

\* The loop over the frames comes back until each has its buffer.
Succeed ==
  LET step == Steps[camera.step + 1]
      again == step = "buffers" /\ camera.buffers + 1 < FrameCnt
  IN camera' = [step |-> IF again THEN camera.step ELSE camera.step + 1,
                failed |-> FALSE,
                held |-> camera.held \cup ({step} \cap Resources),
                buffers |-> IF step = "buffers" THEN camera.buffers + 1 ELSE camera.buffers,
                set |-> Noted(camera.set, step),
                stray |-> camera.stray]

\* SCCB_Init notes the port as owned before it is.  The result of
\* xTaskCreatePinnedToCore is not looked at: the driver is set up without its
\* task then.
Fail ==
  LET step == Steps[camera.step + 1]
      c == IF step = "sccb" THEN [camera EXCEPT !.set = Noted(@, step)] ELSE camera
  IN camera' = IF step = "cam_task" THEN [camera EXCEPT !.step = @ + 1]
               ELSE [CleanUp(c, step) EXCEPT !.failed = TRUE]

Next == ~Settled /\ (Succeed \/ Fail)

-----------------------------------------------------------------------------
\* esp_camera_init takes everything or nothing (esp_camera.c:272-343): after
\* an error, on whatever way out, nothing is held and no pointer is left, and
\* a success holds all but, perhaps, the task.  Nothing is given back twice.
\* Two things may be given back that were never taken: a DMA channel when
\* none was free, and the I2C driver when it could not be installed.
AllOrNothing ==
  /\ camera.failed => camera.held = {} /\ camera.buffers = 0 /\ camera.set = {}
  /\ Ready => Resources \ {"cam_task"} \subseteq camera.held /\ camera.buffers = FrameCnt
  /\ camera.stray \subseteq {"dma_num", "sccb"}
=============================================================================
