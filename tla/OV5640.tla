------------------------------- MODULE OV5640 -------------------------------
(***************************************************************************)
(* The setters of the OV5640 (sensors/ov5640.c): those of the OV3660, but  *)
(* for the frame size and the image options.                               *)
(***************************************************************************)
EXTENDS SensorBus

Ov3660 == INSTANCE OV3660

\* Registers after reset where its table differs.
Defaults ==
  (\h3A00 :> 0 @@ \h5001 :> \hA3 @@ \h5303 :> \h19 @@ \h5306 :> \h08 @@ \h5308 :> \h40)
    @@ Ov3660!Defaults

reset == Device(Defaults)

set_pixformat(format) == Ov3660!set_pixformat(format)

\* Mutant: the result of the first three writes is overwritten, as in OV3660.
OverwrittenResult(status) == Ov3660!set_image_options(status)

\* A failure in the first three writes ends the call.
set_image_options(status) ==
  LET parts == Ov3660!set_image_options(status)
  IN <<Checked(parts[1].steps), parts[2]>>

set_pll == <<Checked(<<Other>>)>>

ratio_table ==
  "4x3" :> <<2560, 1920, 1968>> @@ "3x2" :> <<2560, 1704, 1752>> @@
  "16x10" :> <<2560, 1600, 1648>> @@ "16x9" :> <<2560, 1440, 1488>> @@
  "5x4" :> <<2400, 1920, 1968>> @@ "1x1" :> <<1920, 1920, 1968>> @@
  "9x16" :> <<1088, 1920, 1968>>

\* A size that is too large is noted, then rejected.  Half of the lines with
\* binning.
set_framesize(status, framesize) ==
  IF framesize > 21 THEN <<Note("framesize" :> framesize)>> \o Rejected
  ELSE LET w == Width(framesize)
           h == Height(framesize)
           max == ratio_table[Ratio(framesize)]
           binned == w <= max[1] \div 2 /\ h <= max[2] \div 2
           native == \/ w = max[1] /\ h = max[2]
                     \/ w = max[1] \div 2 /\ h = max[2] \div 2
           note == [binning |-> IF binned THEN 1 ELSE 0, scale |-> IF native THEN 0 ELSE 1]
       IN <<Note(note), Checked(<<Other>> \o Put16(\h380E, IF binned THEN max[3] \div 2 ELSE max[3])
                         \o <<Other, Bits(\h5001, 5, 1, note["scale"])>>)>>
            \o set_image_options(note @@ status)
            \o <<Note("framesize" :> framesize)>>
            \o set_pll

set_hmirror(status, enable) ==
  LET note == "hmirror" :> enable IN <<Note(note)>> \o set_image_options(note @@ status)
set_vflip(status, enable) ==
  LET note == "vflip" :> enable IN <<Note(note)>> \o set_image_options(note @@ status)

set_quality(qs) == Ov3660!set_quality(qs)
set_colorbar(enable) == Ov3660!set_colorbar(enable)
set_gain_ctrl(enable) == Ov3660!set_gain_ctrl(enable)
set_exposure_ctrl(enable) == Ov3660!set_exposure_ctrl(enable)
set_whitebal(enable) == Ov3660!set_whitebal(enable)
set_dcw_dsp(enable) == Ov3660!set_dcw_dsp(enable)
set_aec2(enable) == Ov3660!set_aec2(enable)
set_bpc_dsp(enable) == Ov3660!set_bpc_dsp(enable)
set_wpc_dsp(enable) == Ov3660!set_wpc_dsp(enable)
set_raw_gma_dsp(enable) == Ov3660!set_raw_gma_dsp(enable)
set_lenc_dsp(enable) == Ov3660!set_lenc_dsp(enable)
set_agc_gain(gain) == Ov3660!set_agc_gain(gain)
set_aec_value(dev, value) == Ov3660!set_aec_value(dev, value)
set_ae_level(level) == Ov3660!set_ae_level(level)
set_wb_mode(mode) == Ov3660!set_wb_mode(mode)
set_awb_gain_dsp(status, enable) == Ov3660!set_awb_gain_dsp(status, enable)
set_special_effect(effect) == Ov3660!set_special_effect(effect)
set_brightness(level) == Ov3660!set_brightness(level)
set_contrast(level) == Ov3660!set_contrast(level)
set_saturation(level) == Ov3660!set_saturation(level)
set_sharpness(level) == Ov3660!set_sharpness(level)
set_gainceiling(level) == Ov3660!set_gainceiling(level)
set_denoise(level) == Ov3660!set_denoise(level)

\* ov5640_init: the setters of the driver.
Setter(s, control, v) ==
  CASE control = "pixformat" -> set_pixformat(v)
    [] control = "framesize" -> set_framesize(s.status, v)
    [] control = "contrast" -> set_contrast(v)
    [] control = "brightness" -> set_brightness(v)
    [] control = "saturation" -> set_saturation(v)
    [] control = "sharpness" -> set_sharpness(v)
    [] control = "gainceiling" -> set_gainceiling(v)
    [] control = "quality" -> set_quality(v)
    [] control = "colorbar" -> set_colorbar(v)
    [] control = "agc" -> set_gain_ctrl(v)
    [] control = "aec" -> set_exposure_ctrl(v)
    [] control = "awb" -> set_whitebal(v)
    [] control = "hmirror" -> set_hmirror(s.status, v)
    [] control = "vflip" -> set_vflip(s.status, v)
    [] control = "aec2" -> set_aec2(v)
    [] control = "aec_value" -> set_aec_value(s.dev, v)
    [] control = "special_effect" -> set_special_effect(v)
    [] control = "wb_mode" -> set_wb_mode(v)
    [] control = "ae_level" -> set_ae_level(v)
    [] control = "dcw" -> set_dcw_dsp(v)
    [] control = "bpc" -> set_bpc_dsp(v)
    [] control = "wpc" -> set_wpc_dsp(v)
    [] control = "awb_gain" -> set_awb_gain_dsp(s.status, v)
    [] control = "agc_gain" -> set_agc_gain(v)
    [] control = "raw_gma" -> set_raw_gma_dsp(v)
    [] control = "lenc" -> set_lenc_dsp(v)
    [] control = "denoise" -> set_denoise(v)

agc_gain == Ov3660!agc_gain
denoise == Ov3660!denoise
aec_value == Ov3660!aec_value
Readable == Ov3660!Readable
Fixed == Ov3660!Fixed
=============================================================================
