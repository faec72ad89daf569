------------------------------- MODULE OV3660 -------------------------------
(***************************************************************************)
(* The setters of the OV3660 (sensors/ov3660.c).  Registers have addresses *)
(* of sixteen bits; most setters note the new value in the status once the *)
(* transfers have succeeded.                                               *)
(***************************************************************************)
EXTENDS SensorBus

\* Registers that are read back or used, after reset (0 if the table does not
\* set them).
Defaults ==
   \h3500 :> 0 @@ \h3501 :> 0 @@ \h3502 :> 0  \* exposure
@@ \h3503 :> 0         \* AEC_PK_MANUAL
@@ \h350A :> 0 @@ \h350B :> 0                 \* gain
@@ \h3406 :> 0         \* white balance by hand
@@ \h3A00 :> \h3A
@@ \h3A18 :> 0 @@ \h3A19 :> \hF8              \* gain ceiling
@@ \h380E :> 0 @@ \h380F :> 0                 \* total height
@@ \h3820 :> 0 @@ \h3821 :> 0                 \* TIMING_TC_REG20, 21
@@ \h4407 :> 0         \* COMPRESSION_CTRL07
@@ \h5000 :> \hA7
@@ \h5001 :> \h83      \* ISP_CONTROL_01
@@ \h503D :> 0         \* PRE_ISP_TEST_SETTING_1
@@ \h5183 :> \h14
@@ \h5303 :> \h20 @@ \h5306 :> \h1C @@ \h5308 :> 0  \* sharpness, denoise

reset == Device(Defaults)

\* Flags of one bit.
Switch(field, reg, off, enable) == StatusLast(field :> enable, <<Bits(reg, off, 1, enable)>>)
Unless(field, reg, off, enable) == StatusLast(field :> enable, <<Bits(reg, off, 1, 1 - enable)>>)
Within(level, lowest, highest, call) == IF level \in lowest..highest THEN call ELSE Rejected

-----------------------------------------------------------------------------
set_pixformat(format) ==
  IF format \in {"yuv422", "grayscale", "rgb565", "rgb888", "jpeg", "raw"}
  THEN StatusLast("pixformat" :> format, <<Other>>)
  ELSE Rejected

\* The result of the first three writes is overwritten by that of the others.
set_image_options(status) ==
  LET reg20 == (IF status["binning"] = 1 THEN \h01 ELSE \h40)
                 + (IF status["vflip"] = 1 THEN \h06 ELSE 0)
      reg21 == (IF status["pixformat"] = "jpeg" THEN \h20 ELSE 0) + status["binning"]
                 + (IF status["hmirror"] = 1 THEN \h06 ELSE 0)
  IN <<Ignored(<<Put(\h3820, reg20), Put(\h3821, reg21), Other>>), Checked(<<Other>>)>>

set_pll == <<Checked(<<Other>>)>>

\* Largest width and height, and total height.
ratio_table ==
  "4x3" :> <<2048, 1536, 1564>> @@ "3x2" :> <<1920, 1280, 1436>> @@
  "16x10" :> <<2048, 1280, 1436>> @@ "16x9" :> <<1920, 1080, 1322>> @@
  "5x4" :> <<1920, 1536, 1564>> @@ "1x1" :> <<1536, 1536, 1564>> @@
  "9x16" :> <<864, 1536, 1564>>

\* The frame size is restored if anything but the clock fails.
set_framesize(status, size) ==
  LET framesize == IF size > 17 THEN 17 ELSE size
      w == Width(framesize)
      h == Height(framesize)
      max == ratio_table[Ratio(framesize)]
      binned == w <= max[1] \div 2 /\ h <= max[2] \div 2
      native == \/ w = max[1] /\ h = max[2]
                \/ w = max[1] \div 2 /\ h = max[2] \div 2
      note == [binning |-> IF binned THEN 1 ELSE 0, scale |-> IF native THEN 0 ELSE 1]
      total == IF binned THEN (max[3] \div 2) + 1 ELSE max[3]
  IN <<Note(note), Checked(<<Other>> \o Put16(\h380E, total)
                    \o <<Other, Bits(\h5001, 5, 1, note["scale"])>>)>>
       \o set_image_options(note @@ status)
       \o <<Note("framesize" :> framesize)>>
       \o set_pll

set_hmirror(status, enable) ==
  LET note == "hmirror" :> enable IN <<Note(note)>> \o set_image_options(note @@ status)
set_vflip(status, enable) ==
  LET note == "vflip" :> enable IN <<Note(note)>> \o set_image_options(note @@ status)

\* The value is noted as it was given.
set_quality(qs) == StatusLast("quality" :> qs, <<Put(\h4407, qs % 64)>>)

set_colorbar(enable) == StatusLast("colorbar" :> enable, <<Bits(\h503D, 6, 2, 3 * enable)>>)
set_gain_ctrl(enable) == Unless("agc", \h3503, 1, enable)
set_exposure_ctrl(enable) == Unless("aec", \h3503, 0, enable)
set_whitebal(enable) == Switch("awb", \h5001, 0, enable)
set_dcw_dsp(enable) == Unless("dcw", \h5183, 7, enable)
set_aec2(enable) == Switch("aec2", \h3A00, 2, enable)
set_bpc_dsp(enable) == Switch("bpc", \h5000, 2, enable)
set_wpc_dsp(enable) == Switch("wpc", \h5000, 1, enable)
set_raw_gma_dsp(enable) == Switch("raw_gma", \h5000, 5, enable)
set_lenc_dsp(enable) == Switch("lenc", \h5000, 7, enable)

set_agc_gain(gain) ==
  LET g == Clamp(gain, 0, 64)
      gainv == IF g = 0 THEN 0 ELSE 16 * g - 1
  IN StatusLast("agc_gain" :> g, Put16(\h350A, gainv))

\* The largest value is the total height of the present frame size.
set_aec_value(dev, value) ==
  LET max_val == 256 * dev.regs[\h380E] + dev.regs[\h380F]
      v == IF value > max_val THEN max_val ELSE value
  IN StatusLast("aec_value" :> v,
       <<Put(\h3500, Slice(v, 12, 4)), Put(\h3501, v \div 16), Put(\h3502, (v % 16) * 16)>>)

set_ae_level(level) == Within(level, -5, 5, StatusLast("ae_level" :> level, <<Other>>))

WhiteBalance(mode) == <<Put(\h3406, IF mode = 0 THEN 0 ELSE 1), Other>>
set_wb_mode(mode) == Within(mode, 0, 4, StatusLast("wb_mode" :> mode, WhiteBalance(mode)))

\* Through set_wb_mode, whose note is then taken back.
set_awb_gain_dsp(status, enable) ==
  StatusLast("awb_gain" :> enable, WhiteBalance(IF enable = 1 THEN status["wb_mode"] ELSE 0))

set_special_effect(effect) ==
  Within(effect, 0, 6, StatusLast("special_effect" :> effect, <<Other>>))
set_brightness(level) == StatusLast("brightness" :> level, <<Other>>)
set_contrast(level) == Within(level, -3, 3, StatusLast("contrast" :> level, <<Other>>))
set_saturation(level) == Within(level, -4, 4, StatusLast("saturation" :> level, <<Other>>))

set_sharpness(level) ==
  Within(level, -3, 3,
    StatusLast("sharpness" :> level,
      <<Bits(\h5308, 6, 1, 0), Other, Put(\h5303, 8 * (level + 3)), Other>>))

set_gainceiling(level) ==
  StatusLast("gainceiling" :> level, <<Put(\h3A18, Slice(level, 8, 2)), Put(\h3A19, level)>>)

set_denoise(level) ==
  Within(level, 0, 8,
    StatusLast("denoise" :> level,
      IF level = 0 THEN <<Bits(\h5308, 4, 1, 0)>>
      ELSE <<Bits(\h5308, 4, 1, 1), Put(\h5306, 4 * (level - 1))>>))

\* ov3660_init: the setters of the driver.
Setter(s, control, v) ==
  CASE control = "pixformat" -> set_pixformat(v)
    [] control = "framesize" -> set_framesize(s.status, v)
    [] control = "contrast" -> set_contrast(v)
    [] control = "brightness" -> set_brightness(v)
    [] control = "saturation" -> set_saturation(v)
    [] control = "sharpness" -> set_sharpness(v)
    [] control = "gainceiling" -> set_gainceiling(v)
    [] control = "quality" -> set_quality(v)
    [] control = "colorbar" -> set_colorbar(v)
    [] control = "agc" -> set_gain_ctrl(v)
    [] control = "aec" -> set_exposure_ctrl(v)
    [] control = "awb" -> set_whitebal(v)
    [] control = "hmirror" -> set_hmirror(s.status, v)
    [] control = "vflip" -> set_vflip(s.status, v)
    [] control = "aec2" -> set_aec2(v)
    [] control = "aec_value" -> set_aec_value(s.dev, v)
    [] control = "special_effect" -> set_special_effect(v)
    [] control = "wb_mode" -> set_wb_mode(v)
    [] control = "ae_level" -> set_ae_level(v)
    [] control = "dcw" -> set_dcw_dsp(v)
    [] control = "bpc" -> set_bpc_dsp(v)
    [] control = "wpc" -> set_wpc_dsp(v)
    [] control = "awb_gain" -> set_awb_gain_dsp(s.status, v)
    [] control = "agc_gain" -> set_agc_gain(v)
    [] control = "raw_gma" -> set_raw_gma_dsp(v)
    [] control = "lenc" -> set_lenc_dsp(v)
    [] control = "denoise" -> set_denoise(v)

-----------------------------------------------------------------------------
\* get_agc_gain: rounded up.
agc_gain == Field(<<At(\h350A, 0, 2), At(\h350B, 0, 8)>>, [n \in 0..1023 |-> (n + 15) \div 16])
\* get_denoise: 0 if the bit is clear.
denoise ==
  Field(<<At(\h5308, 4, 1), At(\h5306, 0, 8)>>,
        [n \in 0..511 |-> IF n < 256 THEN 0 ELSE ((n - 256) \div 4) + 1])

\* get_aec_value
aec_value == Number(<<At(\h3500, 0, 4), At(\h3501, 0, 8), At(\h3502, 4, 4)>>)

\* init_status
Readable ==
  [sharpness |-> Field(<<At(\h5303, 0, 8)>>, [n \in 0..255 |-> (n \div 8) - 3]),
   denoise |-> denoise,
   gainceiling |-> Number(<<At(\h3A18, 0, 2), At(\h3A19, 0, 8)>>),
   awb |-> Flag(\h5001, 0), dcw |-> NotFlag(\h5183, 7),
   agc |-> NotFlag(\h3503, 1), aec |-> NotFlag(\h3503, 0),
   hmirror |-> AllSet(\h3821, 1, 2), vflip |-> AllSet(\h3820, 1, 2),
   colorbar |-> AllSet(\h503D, 6, 2),
   bpc |-> Flag(\h5000, 2), wpc |-> Flag(\h5000, 1), raw_gma |-> Flag(\h5000, 5),
   lenc |-> Flag(\h5000, 7), quality |-> Number(<<At(\h4407, 0, 6)>>),
   awb_gain |-> Flag(\h3406, 0), agc_gain |-> agc_gain,
   aec_value |-> aec_value,
   aec2 |-> Flag(\h3A00, 2)]

Fixed ==
  [brightness |-> 0, contrast |-> 0, saturation |-> 0, ae_level |-> 0, special_effect |-> 0,
   wb_mode |-> 0]
=============================================================================
