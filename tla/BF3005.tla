------------------------------- MODULE BF3005 -------------------------------
(***************************************************************************)
(* The setters of the BF3005 (sensors/bf3005.c).                           *)
(***************************************************************************)
EXTENDS SensorBus

\* Registers that are read back, after reset.  The loop of reset takes the
\* entry {0x00, 0x20} of the table for its end: the rest is not written.
Defaults ==
   \h13 :> \h17 @@ \h1E :> 0
@@ \h55 :> 0 @@ \h56 :> 0 @@ \h70 :> 0   \* brightness, contrast, sharpness
@@ \h87 :> \h10 @@ \hA6 :> 0 @@ \hB9 :> 0 @@ \hF1 :> 0

reset == Device(Defaults)

set_pixformat(format) ==
  <<Note("pixformat" :> format)>>
    \o IF format \in {"rgb565", "raw", "yuv422", "grayscale"} THEN <<Ignored(<<Other>>)>>
       ELSE Rejected

\* Whether the small window is set or the large one, the result of
\* set_reg_bits is ignored.
set_framesize(framesize) ==
  IF framesize > 8 THEN Rejected
  ELSE <<Note("framesize" :> framesize)>> \o Collected(<<Other>>)
         \o <<Ignored(<<Other>>)>> \o Collected(<<Other>>)

set_colorbar(value) == NotedThenCollected("colorbar" :> value, <<Put(\hB9, value)>>)

set_whitebal(status, enable) == ReturnsStatus(status, "awb", <<Bits(\h13, 1, 1, enable)>>, enable)
set_gain_ctrl(status, enable) == ReturnsStatus(status, "agc", <<Bits(\h13, 2, 1, enable)>>, enable)
set_exposure_ctrl(status, enable) ==
  ReturnsStatus(status, "aec", <<Bits(\h13, 0, 1, enable)>>, enable)
set_hmirror(status, enable) ==
  ReturnsStatus(status, "hmirror", <<Bits(\h1E, 5, 1, enable)>>, enable)
set_vflip(status, enable) == ReturnsStatus(status, "vflip", <<Bits(\h1E, 4, 1, enable)>>, enable)

\* The status is that of the bit, the contrary of what was asked for.
set_raw_gma_dsp(enable) ==
  StatusLast("raw_gma" :> 1 - enable, <<Bits(\hF1, 1, 1, 1 - enable)>>)
set_lenc_dsp(enable) ==
  StatusLast("lenc" :> 1 - enable, <<Bits(\hF1, 0, 1, 1 - enable)>>)

set_agc_gain(option) ==
  LET on == IF option = 0 THEN 0 ELSE 1
  IN StatusLast("agc_gain" :> on, <<Bits(\h13, 4, 1, on)>>)

set_awb_gain_dsp(value) == StatusLast("awb_gain" :> value, <<Put(\hA6, value)>>)
set_brightness(level) == StatusLast("brightness" :> level, <<Put(\h55, level)>>)
set_contrast(level) == StatusLast("contrast" :> level, <<Put(\h56, level)>>)
set_sharpness(level) == StatusLast("sharpness" :> level, <<Put(\h70, level)>>)

\* bf3005_init: seven setters are set_dummy, and five are not set at all.
Setter(s, control, v) ==
  CASE control = "pixformat" -> set_pixformat(v)
    [] control = "framesize" -> set_framesize(v)
    [] control = "brightness" -> set_brightness(v)
    [] control = "contrast" -> set_contrast(v)
    [] control = "sharpness" -> set_sharpness(v)
    [] control = "colorbar" -> set_colorbar(v)
    [] control = "awb" -> set_whitebal(s.status, v)
    [] control = "agc" -> set_gain_ctrl(s.status, v)
    [] control = "aec" -> set_exposure_ctrl(s.status, v)
    [] control = "hmirror" -> set_hmirror(s.status, v)
    [] control = "vflip" -> set_vflip(s.status, v)
    [] control = "awb_gain" -> set_awb_gain_dsp(v)
    [] control = "agc_gain" -> set_agc_gain(v)
    [] control = "raw_gma" -> set_raw_gma_dsp(v)
    [] control = "lenc" -> set_lenc_dsp(v)
    [] control \in {"saturation", "denoise", "quality", "special_effect", "wb_mode", "ae_level",
                    "gainceiling"} -> Rejected
    [] control \in {"aec2", "aec_value", "dcw", "bpc", "wpc"} -> Missing

-----------------------------------------------------------------------------
\* init_status; the fields it leaves out stay as they were.
Readable ==
  [brightness |-> SignedByte(\h55), contrast |-> SignedByte(\h56), sharpness |-> SignedByte(\h70),
   gainceiling |-> Byte(\h87), awb_gain |-> Byte(\hA6), colorbar |-> Byte(\hB9),
   awb |-> Flag(\h13, 1), agc |-> Flag(\h13, 2), aec |-> Flag(\h13, 0),
   raw_gma |-> Flag(\hF1, 1), lenc |-> Flag(\hF1, 0),
   hmirror |-> Flag(\h1E, 5), vflip |-> Flag(\h1E, 4)]

Fixed == [saturation |-> 0, ae_level |-> 0]
=============================================================================
