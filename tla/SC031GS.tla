------------------------------ MODULE SC031GS -------------------------------
(***************************************************************************)
(* The setters of the SC031GS (sensors/sc031gs.c).  Only the frame size    *)
(* and the format are noted, and nothing is read back.                     *)
(***************************************************************************)
EXTENDS SensorBus

\* No register of the table of reset is read back.
Defaults == [r \in {} |-> 0]
reset == Device(Defaults)

set_hmirror(enable) == Sent
set_vflip(enable) == Sent
set_colorbar(enable) == Sent
set_agc_gain(gain) == Sent
set_aec_value(value) == Sent

set_output_window == <<Other>>
\* A failure in the table of the size is not looked at.
set_framesize(framesize) ==
  IF framesize > 8 THEN Rejected
  ELSE <<Ignored(<<Other>>)>> \o StatusLast("framesize" :> framesize, set_output_window)

set_pixformat(format) ==
  <<Note("pixformat" :> format)>> \o (IF format = "grayscale" THEN <<>> ELSE Rejected)

\* sc031gs_init: nine setters are set_dummy, set_special_effect among them:
\* the driver's own is replaced.  Eleven are not set at all.
Setter(s, control, v) ==
  CASE control = "pixformat" -> set_pixformat(v)
    [] control = "framesize" -> set_framesize(v)
    [] control = "hmirror" -> set_hmirror(v)
    [] control = "vflip" -> set_vflip(v)
    [] control = "colorbar" -> set_colorbar(v)
    [] control = "agc_gain" -> set_agc_gain(v)
    [] control = "aec_value" -> set_aec_value(v)
    [] control \in {"awb_gain", "contrast", "sharpness", "saturation", "denoise", "quality",
                    "special_effect", "wb_mode", "ae_level"} -> Rejected
    [] OTHER -> Missing

\* init_status
Readable == NoNote
Fixed == NoNote
=============================================================================
