------------------------------ MODULE SC030IOT ------------------------------
(***************************************************************************)
(* The setters of the SC030IOT (sensors/sc030iot.c).  Only the frame size  *)
(* and the format are noted, and nothing is read back.  Before a register  *)
(* is read or written its page is selected; a failure of either is         *)
(* returned.                                                               *)
(***************************************************************************)
EXTENDS SensorBus

\* No register of the table of reset is read back.
Defaults == [r \in {} |-> 0]
reset == Device(Defaults)

set_hmirror(enable) == Sent
set_vflip(enable) == Sent
set_colorbar(enable) == Sent
set_sharpness(level) == Sent
set_agc_gain(gain) == Sent
set_aec_value(value) == Sent
set_awb_gain(value) == Sent
set_saturation(level) == Sent
set_contrast(level) == Sent

set_window == <<Other>>
set_framesize(framesize) ==
  IF Width(framesize) > 640 \/ Height(framesize) > 480 THEN Rejected
  ELSE StatusLast("framesize" :> framesize, set_window)

\* Formats that are not supported are accepted too, but for JPEG and others.
set_pixformat(format) ==
  <<Note("pixformat" :> format)>>
    \o IF format \in {"rgb565", "raw", "grayscale", "yuv422"} THEN <<>> ELSE Rejected

\* sc030iot_init: five setters are set_dummy, and eleven are not set at all.
Setter(s, control, v) ==
  CASE control = "pixformat" -> set_pixformat(v)
    [] control = "framesize" -> set_framesize(v)
    [] control = "hmirror" -> set_hmirror(v)
    [] control = "vflip" -> set_vflip(v)
    [] control = "colorbar" -> set_colorbar(v)
    [] control = "sharpness" -> set_sharpness(v)
    [] control = "agc_gain" -> set_agc_gain(v)
    [] control = "aec_value" -> set_aec_value(v)
    [] control = "awb_gain" -> set_awb_gain(v)
    [] control = "saturation" -> set_saturation(v)
    [] control = "contrast" -> set_contrast(v)
    [] control \in {"denoise", "quality", "special_effect", "wb_mode", "ae_level"} -> Rejected
    [] OTHER -> Missing

\* init_status
Readable == NoNote
Fixed == NoNote
=============================================================================
