------------------------------- MODULE OV2640 -------------------------------
(***************************************************************************)
(* The setters of the OV2640 (sensors/ov2640.c).  Its registers are in two *)
(* banks, and the driver remembers which one it has selected last.  Most   *)
(* setters note the new value in the status before the transfers.          *)
(***************************************************************************)
EXTENDS SensorBus

Dsp == 0
Sensor == 256

\* Registers that are read back, after the table of reset (0 if it does not
\* set them).
Defaults ==
   Sensor + \h00 :> 0       \* GAIN
@@ Sensor + \h04 :> \h28    \* REG04
@@ Sensor + \h10 :> 0       \* AEC
@@ Sensor + \h12 :> \h20    \* COM7
@@ Sensor + \h13 :> \hE5    \* COM8
@@ Sensor + \h14 :> \h48    \* COM9
@@ Sensor + \h45 :> 0       \* REG45
@@ Dsp + \h44 :> 0          \* QS
@@ Dsp + \h86 :> 0          \* CTRL2
@@ Dsp + \h87 :> \h50       \* CTRL3
@@ Dsp + \hC2 :> 0          \* CTRL0
@@ Dsp + \hC3 :> \hFD       \* CTRL1

reset == [Device(Defaults) EXCEPT !.bank = 0]

\* write_reg, and a table of registers that are not read back.
InDsp(steps) == <<Bank(0)>> \o steps
InSensor(steps) == <<Bank(1)>> \o steps

agc_gain_tbl ==
  <<\h00, \h10, \h18, \h30, \h34, \h38, \h3C, \h70, \h72, \h74, \h76, \h78, \h7A, \h7C, \h7E,
    \hF0, \hF1, \hF2, \hF3, \hF4, \hF5, \hF6, \hF7, \hF8, \hF9, \hFA, \hFB, \hFC, \hFD, \hFE,
    \hFF>>

-----------------------------------------------------------------------------
set_pixformat(format) ==
  IF format \in {"rgb565", "rgb888", "yuv422", "grayscale", "jpeg"}
  THEN StatusFirst("pixformat" :> format, InDsp(<<Other>>))
  ELSE <<Note("pixformat" :> format)>> \o Rejected

\* The tables of the three modes: the resolution is in the register of the
\* colour bar, and DCW is switched on.
ModeBits(framesize) ==
  IF framesize <= 6 THEN \h20 ELSE IF framesize <= 9 THEN \h40 ELSE \h00

set_window(com7) ==
  InDsp(<<Other>>) \o InSensor(<<Other, Put(\h12, com7), Other>>)
    \o InDsp(<<Other, Put(\h86, \h3D), Other>>)
    \o InSensor(<<Other>>) \o InDsp(<<Other, Other>>)

\* set_pixformat is called at the end of set_window; its result is ignored.
set_framesize(framesize) ==
  StatusFirst("framesize" :> framesize, set_window(ModeBits(framesize)))
    \o <<Ignored(InDsp(<<Other>>))>>

\* Levels with a table of registers that are not read back.
Level(field, level, lowest, highest, steps) ==
  IF level \in lowest..highest THEN StatusFirst(field :> level, steps) ELSE Rejected

set_contrast(level) == Level("contrast", level, -2, 2, InDsp(<<Other>>))
set_brightness(level) == Level("brightness", level, -2, 2, InDsp(<<Other>>))
set_saturation(level) == Level("saturation", level, -2, 2, InDsp(<<Other>>))
set_special_effect(effect) == Level("special_effect", effect, 0, 6, InDsp(<<Other>>))
set_wb_mode(mode) == Level("wb_mode", mode, 0, 4, InDsp(<<Other>>))
set_ae_level(level) == Level("ae_level", level, -2, 2, InSensor(<<Other>>))

set_quality(quality) ==
  LET q == Clamp(quality, 0, 63)
  IN StatusFirst("quality" :> q, InDsp(<<Put(\h44, q)>>))

set_agc_gain(gain) ==
  LET g == Clamp(gain, 0, 30)
  IN StatusFirst("agc_gain" :> g, InSensor(<<Put(\h00, agc_gain_tbl[g + 1])>>))

set_gainceiling_sensor(gainceiling) ==
  StatusFirst("gainceiling" :> gainceiling, InSensor(<<Bits(\h14, 5, 3, gainceiling)>>))

set_aec_value(value) ==
  LET v == Clamp(value, 0, 1200)
  IN StatusFirst("aec_value" :> v,
       InSensor(<<Bits(\h04, 0, 2, v), Put(\h10, v \div 4), Bits(\h45, 0, 6, v \div 1024)>>))

set_aec2(enable) ==
  StatusFirst("aec2" :> enable, InDsp(<<Bits(\hC2, 6, 1, 1 - enable)>>))

\* The flags of one bit.
DspFlag(field, reg, off, enable) ==
  StatusFirst(field :> enable, InDsp(<<Bits(reg, off, 1, enable)>>))
SensorFlag(field, reg, off, enable) ==
  StatusFirst(field :> enable, InSensor(<<Bits(reg, off, 1, enable)>>))

set_colorbar(enable) == SensorFlag("colorbar", \h12, 1, enable)
set_agc_sensor(enable) == SensorFlag("agc", \h13, 2, enable)
set_aec_sensor(enable) == SensorFlag("aec", \h13, 0, enable)
set_hmirror_sensor(enable) == SensorFlag("hmirror", \h04, 7, enable)

\* The results of the two transfers are combined with a bitwise "and": one
\* failure is not reported.
set_vflip_sensor(enable) ==
  <<Note("vflip" :> enable), Ignored(InSensor(<<Bits(\h04, 4, 1, enable)>>)),
    Ignored(InSensor(<<Bits(\h04, 6, 1, enable)>>))>>

\* Mutant: the bit of the white balance.
RawGammaBesideItsBit(enable) == DspFlag("raw_gma", \hC3, 3, enable)
set_raw_gma_dsp(enable) == DspFlag("raw_gma", \hC3, 5, enable)
set_awb_dsp(enable) == DspFlag("awb", \hC3, 3, enable)
set_awb_gain_dsp(enable) == DspFlag("awb_gain", \hC3, 2, enable)
set_lenc_dsp(enable) == DspFlag("lenc", \hC3, 1, enable)
set_dcw_dsp(enable) == DspFlag("dcw", \h86, 5, enable)
set_bpc_dsp(enable) == DspFlag("bpc", \h87, 7, enable)
set_wpc_dsp(enable) == DspFlag("wpc", \h87, 6, enable)

\* ov2640_init: the setters of the driver; what is not supported is rejected.
Setter(s, control, v) ==
  CASE control = "pixformat" -> set_pixformat(v)
    [] control = "framesize" -> set_framesize(v)
    [] control = "contrast" -> set_contrast(v)
    [] control = "brightness" -> set_brightness(v)
    [] control = "saturation" -> set_saturation(v)
    [] control = "quality" -> set_quality(v)
    [] control = "colorbar" -> set_colorbar(v)
    [] control = "gainceiling" -> set_gainceiling_sensor(v)
    [] control = "agc" -> set_agc_sensor(v)
    [] control = "aec" -> set_aec_sensor(v)
    [] control = "hmirror" -> set_hmirror_sensor(v)
    [] control = "vflip" -> set_vflip_sensor(v)
    [] control = "awb" -> set_awb_dsp(v)
    [] control = "aec2" -> set_aec2(v)
    [] control = "aec_value" -> set_aec_value(v)
    [] control = "special_effect" -> set_special_effect(v)
    [] control = "wb_mode" -> set_wb_mode(v)
    [] control = "ae_level" -> set_ae_level(v)
    [] control = "dcw" -> set_dcw_dsp(v)
    [] control = "bpc" -> set_bpc_dsp(v)
    [] control = "wpc" -> set_wpc_dsp(v)
    [] control = "awb_gain" -> set_awb_gain_dsp(v)
    [] control = "agc_gain" -> set_agc_gain(v)
    [] control = "raw_gma" -> set_raw_gma_dsp(v)
    [] control = "lenc" -> set_lenc_dsp(v)
    [] control \in {"sharpness", "denoise"} -> Rejected

-----------------------------------------------------------------------------
\* init_status reads these fields back; aec2 without the inversion of its
\* setter.
Readable ==
  [agc_gain |-> Field(<<At(Sensor + \h00, 0, 8)>>,
                  [n \in 0..255 |-> Len(SelectSeq(agc_gain_tbl, LAMBDA g : g <= n)) - 1]),
   aec_value |-> Number(<<At(Sensor + \h45, 0, 6), At(Sensor + \h10, 0, 8), At(Sensor + \h04, 0, 2)>>),
   quality |-> Byte(Dsp + \h44),
   gainceiling |-> Number(<<At(Sensor + \h14, 5, 3)>>),
   awb |-> Flag(Dsp + \hC3, 3), awb_gain |-> Flag(Dsp + \hC3, 2),
   aec |-> Flag(Sensor + \h13, 0), aec2 |-> Flag(Dsp + \hC2, 6),
   agc |-> Flag(Sensor + \h13, 2),
   bpc |-> Flag(Dsp + \h87, 7), wpc |-> Flag(Dsp + \h87, 6),
   raw_gma |-> Flag(Dsp + \hC3, 5), lenc |-> Flag(Dsp + \hC3, 1),
   hmirror |-> Flag(Sensor + \h04, 7), vflip |-> Flag(Sensor + \h04, 6),
   dcw |-> Flag(Dsp + \h86, 5), colorbar |-> Flag(Sensor + \h12, 1)]

Fixed ==
  [brightness |-> 0, contrast |-> 0, saturation |-> 0, ae_level |-> 0, special_effect |-> 0,
   wb_mode |-> 0, sharpness |-> 0, denoise |-> 0]

\* The last register it reads is in the bank of the sensor.
init_status(dev) == [dev EXCEPT !.page = 1, !.bank = 1]
=============================================================================
