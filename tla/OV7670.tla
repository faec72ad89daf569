------------------------------- MODULE OV7670 -------------------------------
(***************************************************************************)
(* The setters of the OV7670 (sensors/ov7670.c).  Only the frame size is   *)
(* noted, and init_status reads nothing back.                              *)
(***************************************************************************)
EXTENDS SensorBus

\* No register of the table of reset is read back.
Defaults == [r \in {} |-> 0]
reset == Device(Defaults)

\* Every format is taken.  For RGB565 a last write decides the result.
set_pixformat(format) == IF format = "rgb565" THEN <<Ignored(<<Other>>)>> \o Sent ELSE Sent

\* QQVGA, QVGA and VGA: a table, then the window.
set_framesize(framesize) ==
  IF framesize \in {1, 5, 8} THEN StatusLast("framesize" :> framesize, <<Other, Other>>)
  ELSE Rejected

set_colorbar(enable) == Collected(<<Other, Other>>)
set_whitebal(enable) == Sent
set_gain_ctrl(enable) == Sent
set_exposure_ctrl(enable) == Sent
set_hmirror(enable) == Sent
set_vflip(enable) == Sent

\* ov7670_init: contrast is not set; the others are set_dummy.
Setter(s, control, v) ==
  CASE control = "pixformat" -> set_pixformat(v)
    [] control = "framesize" -> set_framesize(v)
    [] control = "colorbar" -> set_colorbar(v)
    [] control = "awb" -> set_whitebal(v)
    [] control = "agc" -> set_gain_ctrl(v)
    [] control = "aec" -> set_exposure_ctrl(v)
    [] control = "hmirror" -> set_hmirror(v)
    [] control = "vflip" -> set_vflip(v)
    [] control = "contrast" -> Missing
    [] OTHER -> Rejected

\* init_status
Readable == NoNote
Fixed == [f \in {"awb", "aec", "agc", "hmirror", "vflip", "colorbar"} |-> 0]
=============================================================================
