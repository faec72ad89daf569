------------------------------- MODULE OV7725 -------------------------------
(***************************************************************************)
(* The setters of the OV7725 (sensors/ov7725.c).  Five of them return the  *)
(* value that is now in the status where a caller expects an error.        *)
(***************************************************************************)
EXTENDS SensorBus

\* Registers that are read back, after the table of reset (0 if it does not
\* set them).
Defaults ==
   \h00 :> 0 @@ \h08 :> 0 @@ \h10 :> 0  \* GAIN, AECH, AEC
@@ \h0C :> \h10      \* COM3
@@ \h13 :> \hFF      \* COM8
@@ \h14 :> \h11      \* COM9
@@ \h46 :> \h05      \* LC_CTR
@@ \h63 :> \hE0 @@ \h64 :> \hFF @@ \h65 :> \h0F  \* AWB_CTRL0, DSP_CTRL1 and 2
@@ \h6B :> \hAA      \* AWB_CTRL3
@@ \h8E :> 0 @@ \h8F :> 0               \* DNSTH, EDGE0
@@ \h9B :> \h08 @@ \h9C :> \h30         \* brightness, contrast

reset == Device(Defaults)

set_pixformat(format) ==
  IF format \in {"rgb565", "yuv422", "grayscale"}
  THEN StatusFirst("pixformat" :> format, <<Other>>)
  ELSE <<Note("pixformat" :> format)>> \o Rejected

set_framesize(framesize) ==
  IF framesize > 8 THEN Rejected
  ELSE NotedThenCollected("framesize" :> framesize, <<Other>>)

set_colorbar(enable) ==
  NotedThenCollected("colorbar" :> enable, <<Bits(\h0C, 0, 1, enable), Other>>)

set_whitebal(status, enable) == ReturnsStatus(status, "awb", <<Bits(\h13, 1, 1, enable)>>, enable)
set_gain_ctrl(status, enable) == ReturnsStatus(status, "agc", <<Bits(\h13, 2, 1, enable)>>, enable)
set_exposure_ctrl(status, enable) ==
  ReturnsStatus(status, "aec", <<Bits(\h13, 0, 1, enable)>>, enable)
set_hmirror(status, enable) ==
  ReturnsStatus(status, "hmirror", <<Bits(\h0C, 6, 1, enable)>>, enable)
set_vflip(status, enable) == ReturnsStatus(status, "vflip", <<Bits(\h0C, 7, 1, enable)>>, enable)

\* Flags of one bit.
Switch(field, reg, off, enable) == StatusLast(field :> enable, <<Bits(reg, off, 1, enable)>>)

set_dcw_dsp(enable) == StatusLast("dcw" :> enable, <<Bits(\h65, 2, 1, 1 - enable)>>)
set_aec2(enable) == Switch("aec2", \h13, 7, enable)
set_bpc_dsp(enable) == Switch("bpc", \h64, 1, enable)
set_wpc_dsp(enable) == Switch("wpc", \h64, 0, enable)
set_raw_gma_dsp(enable) == Switch("raw_gma", \h64, 2, enable)
set_lenc_dsp(enable) == Switch("lenc", \h46, 0, enable)
set_awb_gain_dsp(enable) == Switch("awb_gain", \h63, 7, enable)

\* The remainder is sent, the gain itself noted.
set_agc_gain(gain) == StatusLast("agc_gain" :> gain, <<Bits(\h14, 4, 3, gain % 5)>>)

\* Both bytes are written, whatever becomes of the first.
set_aec_value(value) ==
  CollectedThenNoted("aec_value" :> value, <<Put(\h10, value), Put(\h08, value \div 256)>>)

set_brightness(level) == StatusLast("brightness" :> level, <<Put(\h9B, level)>>)
set_contrast(level) == StatusLast("contrast" :> level, <<Put(\h9C, level)>>)

\* ov7725_init: the setters of the driver; the others are set_dummy.
Setter(s, control, v) ==
  CASE control = "pixformat" -> set_pixformat(v)
    [] control = "framesize" -> set_framesize(v)
    [] control = "colorbar" -> set_colorbar(v)
    [] control = "awb" -> set_whitebal(s.status, v)
    [] control = "agc" -> set_gain_ctrl(s.status, v)
    [] control = "aec" -> set_exposure_ctrl(s.status, v)
    [] control = "hmirror" -> set_hmirror(s.status, v)
    [] control = "vflip" -> set_vflip(s.status, v)
    [] control = "brightness" -> set_brightness(v)
    [] control = "contrast" -> set_contrast(v)
    [] control = "aec2" -> set_aec2(v)
    [] control = "aec_value" -> set_aec_value(v)
    [] control = "awb_gain" -> set_awb_gain_dsp(v)
    [] control = "agc_gain" -> set_agc_gain(v)
    [] control = "dcw" -> set_dcw_dsp(v)
    [] control = "bpc" -> set_bpc_dsp(v)
    [] control = "wpc" -> set_wpc_dsp(v)
    [] control = "raw_gma" -> set_raw_gma_dsp(v)
    [] control = "lenc" -> set_lenc_dsp(v)
    [] OTHER -> Rejected

-----------------------------------------------------------------------------
\* init_status
Readable ==
  [brightness |-> SignedByte(\h9B), contrast |-> SignedByte(\h9C),
   special_effect |-> Flag(\h64, 5), wb_mode |-> Flag(\h6B, 7),
   agc_gain |-> Number(<<At(\h14, 4, 3)>>),
   aec_value |-> Number(<<At(\h08, 0, 8), At(\h10, 0, 8)>>),
   gainceiling |-> Byte(\h00),
   awb |-> Flag(\h13, 1), awb_gain |-> Flag(\h63, 7), aec |-> Flag(\h13, 0),
   aec2 |-> Flag(\h13, 7), agc |-> Flag(\h13, 2),
   bpc |-> Flag(\h64, 1), wpc |-> Flag(\h64, 0), raw_gma |-> Flag(\h64, 2),
   lenc |-> Flag(\h46, 0), hmirror |-> Flag(\h0C, 6), vflip |-> Flag(\h0C, 7),
   dcw |-> Flag(\h65, 2), colorbar |-> Flag(\h0C, 0),
   sharpness |-> Number(<<At(\h8F, 0, 5)>>), denoise |-> Byte(\h8E)]

Fixed == [saturation |-> 0, ae_level |-> 0]
=============================================================================
