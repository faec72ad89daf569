------------------------------ MODULE NT99141 -------------------------------
(***************************************************************************)
(* The setters of the NT99141 (sensors/nt99141.c): those of the OV3660 cut *)
(* down.  Many note a value that the sensor is never told, and init_status *)
(* reads it from a register that no setter writes.                         *)
(***************************************************************************)
EXTENDS SensorBus

\* Registers that are read back, after reset (0 if the table does not set
\* them).
Defaults ==
   \h3000 :> 0
@@ \h3021 :> 0         \* ISP_CONTROL_01, SYSTEM_CTROL0
@@ \h3022 :> 0         \* TIMING_TC_REG20 and 21
@@ \h3025 :> \h02      \* PRE_ISP_TEST_SETTING_1
@@ \h3201 :> 0         \* AEC_PK_MANUAL
@@ \h32F1 :> 0
@@ \h3301 :> 0
@@ \h3401 :> 0         \* COMPRESSION_CTRL07
@@ \h5000 :> 0 @@ \h5183 :> 0 @@ \h5306 :> 0

reset == Device(Defaults)

\* Only the table of grey pictures writes a register that is read back.
set_pixformat(format) ==
  IF format \in {"yuv422", "grayscale", "rgb565", "rgb888", "jpeg", "raw"}
  THEN StatusLast("pixformat" :> format,
         IF format = "grayscale" THEN <<Other, Put(\h32F1, 1)>> ELSE <<Other>>)
  ELSE Rejected

\* Both options are in the one register.
set_image_options(status) ==
  <<Checked(<<Put(\h3022, status["vflip"] + 2 * status["hmirror"])>>)>>

\* The registers of a frame size: QVGA and VGA, and the large ones, have
\* tables of their own.
FrameTable(framesize) ==
  <<Put(\h3021, 0), Other, Put(\h3401, \h4E), Put(\h3201, \h0F), Put(\h3022, \h24),
    Put(\h3201, IF framesize = 8 \/ framesize >= 11 THEN \h3F ELSE \h7F)>>
  \o IF framesize = 8 THEN <<Put(\h3025, 0), Put(\h3021, 6)>>
     ELSE <<Put(\h3021, 6), Put(\h3025, 0)>>

\* The table of reset is written first; its result is overwritten.
set_framesize(framesize) ==
  <<Note("framesize" :> framesize), Ignored(<<Other, Put(\h3021, 0), Put(\h3025, \h02)>>),
    Checked(FrameTable(framesize))>>

set_hmirror(status, enable) ==
  LET note == "hmirror" :> enable IN <<Note(note)>> \o set_image_options(note @@ status)
set_vflip(status, enable) ==
  LET note == "vflip" :> enable IN <<Note(note)>> \o set_image_options(note @@ status)

set_quality(qs) == StatusLast("quality" :> qs, <<Put(\h3401, qs % 64)>>)
set_colorbar(enable) == StatusLast("colorbar" :> enable, <<Bits(\h3025, 1, 1, enable)>>)
set_gain_ctrl(enable) == StatusLast("agc" :> enable, <<Other>>)
set_exposure_ctrl(enable) == StatusLast("aec" :> enable, <<Bits(\h3201, 5, 1, enable)>>)

\* Nothing is sent.
set_whitebal(enable) == <<Note("awb" :> enable)>>
set_dcw_dsp(enable) == <<Note("dcw" :> enable)>>
set_aec2(enable) == <<Note("aec2" :> enable)>>
set_bpc_dsp(enable) == <<Note("bpc" :> enable)>>
set_wpc_dsp(enable) == <<Note("wpc" :> enable)>>
set_raw_gma_dsp(enable) == <<Note("raw_gma" :> enable)>>
set_lenc_dsp(enable) == <<Note("lenc" :> enable)>>
set_gainceiling(level) == <<>>
set_denoise(level) == <<>>

\* Something is sent, but nothing noted.
set_agc_gain(gain) == IF gain \div 2 \in 0..4 THEN <<Ignored(<<Other>>)>> ELSE <<>>
set_aec_value(value) == <<Ignored(<<Other>>), Checked(<<Other>>)>>
set_ae_level(level) == <<Ignored(<<Other>>)>>

WhiteBalance(mode) == <<Put(\h3201, IF mode = 0 THEN 0 ELSE 1), Other>>
set_wb_mode(mode) ==
  IF mode \in 0..4 THEN StatusLast("wb_mode" :> mode, WhiteBalance(mode)) ELSE Rejected
set_awb_gain_dsp(status, enable) ==
  StatusLast("awb_gain" :> enable, WhiteBalance(IF enable = 1 THEN status["wb_mode"] ELSE 0))

\* The second write is to a register that is read back: u and v of the effect
\* are in the other ones.
set_special_effect(effect) ==
  IF effect \in 0..6
  THEN StatusLast("special_effect" :> effect, <<Put(\h32F1, <<0, 3, 1, 5, 5, 5, 2>>[effect + 1]), Other>>)
  ELSE Rejected

set_brightness(level) == StatusLast("brightness" :> level, <<Other>>)
\* The results of the first two writes are overwritten.
set_contrast(level) == <<Ignored(<<Other>>)>> \o StatusLast("contrast" :> level, <<Other>>)
set_saturation(level) ==
  IF level \in -4..4 THEN StatusLast("saturation" :> level, <<Other>>) ELSE Rejected
set_sharpness(level) ==
  IF level \in -3..3 THEN StatusLast("sharpness" :> level, <<Other>>) ELSE Rejected

\* nt99141_init: the setters of the driver.
Setter(s, control, v) ==
  CASE control = "pixformat" -> set_pixformat(v)
    [] control = "framesize" -> set_framesize(v)
    [] control = "contrast" -> set_contrast(v)
    [] control = "brightness" -> set_brightness(v)
    [] control = "saturation" -> set_saturation(v)
    [] control = "sharpness" -> set_sharpness(v)
    [] control = "gainceiling" -> set_gainceiling(v)
    [] control = "quality" -> set_quality(v)
    [] control = "colorbar" -> set_colorbar(v)
    [] control = "agc" -> set_gain_ctrl(v)
    [] control = "aec" -> set_exposure_ctrl(v)
    [] control = "awb" -> set_whitebal(v)
    [] control = "hmirror" -> set_hmirror(s.status, v)
    [] control = "vflip" -> set_vflip(s.status, v)
    [] control = "aec2" -> set_aec2(v)
    [] control = "aec_value" -> set_aec_value(v)
    [] control = "special_effect" -> set_special_effect(v)
    [] control = "wb_mode" -> set_wb_mode(v)
    [] control = "ae_level" -> set_ae_level(v)
    [] control = "dcw" -> set_dcw_dsp(v)
    [] control = "bpc" -> set_bpc_dsp(v)
    [] control = "wpc" -> set_wpc_dsp(v)
    [] control = "awb_gain" -> set_awb_gain_dsp(s.status, v)
    [] control = "agc_gain" -> set_agc_gain(v)
    [] control = "raw_gma" -> set_raw_gma_dsp(v)
    [] control = "lenc" -> set_lenc_dsp(v)
    [] control = "denoise" -> set_denoise(v)

-----------------------------------------------------------------------------
\* get_denoise; set_denoise does not write the register.
denoise == Field(<<At(\h5306, 0, 8)>>, [n \in 0..255 |-> (n \div 4) + 1])

\* init_status; of the two bytes at the gain ceiling the second remains.
Readable ==
  [sharpness |-> Byte(\h3301), denoise |-> denoise, gainceiling |-> Byte(\h32F1),
   awb |-> Flag(\h3021, 4), dcw |-> NotFlag(\h5183, 7),
   agc |-> NotFlag(\h3201, 1), aec |-> NotFlag(\h3201, 0),
   hmirror |-> Flag(\h3022, 1), vflip |-> Flag(\h3022, 0), colorbar |-> Flag(\h3025, 1),
   bpc |-> Flag(\h5000, 2), wpc |-> Flag(\h5000, 1), raw_gma |-> Flag(\h5000, 5),
   lenc |-> Flag(\h5000, 7), quality |-> Number(<<At(\h3401, 0, 6)>>),
   awb_gain |-> Flag(\h3000, 0), aec2 |-> Flag(\h3000, 2)]

Fixed ==
  [brightness |-> 0, contrast |-> 0, saturation |-> 0, ae_level |-> 0,
   special_effect |-> 0, wb_mode |-> 0, agc_gain |-> 0, aec_value |-> 0]
=============================================================================
