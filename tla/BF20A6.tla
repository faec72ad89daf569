------------------------------- MODULE BF20A6 -------------------------------
(***************************************************************************)
(* The setters of the BF20A6 (sensors/bf20a6.c).                           *)
(***************************************************************************)
EXTENDS SensorBus

\* Registers that are read back, after reset (0 if the table does not set
\* them).
Defaults == \h13 :> \h05 @@ \h6F :> 0 @@ \h70 :> 0 @@ \hD6 :> \h88

reset == Device(Defaults)

\* No result is looked at.
set_pixformat(format) ==
  IF format \in {"yuv422", "raw", "grayscale"}
  THEN Shrugged(<<Other>>) \o <<Note("pixformat" :> format)>>
  ELSE Rejected

set_framesize(framesize) ==
  IF framesize > 8 THEN Rejected
  ELSE NotedThenCollected("framesize" :> framesize, <<Other>>)

set_hmirror(enable) == NotedThenCollected("hmirror" :> enable, <<Other>>)
set_vflip(enable) == NotedThenCollected("vflip" :> enable, <<Other>>)
set_colorbar(value) == StatusLast("colorbar" :> value, <<Other>>)
set_sharpness(level) == StatusLast("sharpness" :> level, <<Put(\h70, level)>>)

\* bf20a6_init: the setters of the driver; the others are set_dummy.
Setter(s, control, v) ==
  CASE control = "pixformat" -> set_pixformat(v)
    [] control = "framesize" -> set_framesize(v)
    [] control = "hmirror" -> set_hmirror(v)
    [] control = "vflip" -> set_vflip(v)
    [] control = "colorbar" -> set_colorbar(v)
    [] control = "sharpness" -> set_sharpness(v)
    [] OTHER -> Rejected

\* init_status: four fields are read, and all the others cleared.
Readable ==
  [brightness |-> SignedByte(\h6F), contrast |-> SignedByte(\hD6),
   sharpness |-> SignedByte(\h70), gainceiling |-> Byte(\h13)]
Fixed == [f \in Cleared \ DOMAIN Readable |-> 0]
=============================================================================
