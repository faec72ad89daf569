------------------------------- MODULE GC0308 -------------------------------
(***************************************************************************)
(* The setters of the GC0308 (sensors/gc0308.c).  Its registers are in     *)
(* pages, and every setter selects page 0 first.                           *)
(***************************************************************************)
EXTENDS SensorBus

\* Registers that are read back or set, after reset.
Defaults == \h14 :> \h11 @@ \h2E :> 0

reset == Device(Defaults)

set_pixformat(format) ==
  IF format \in {"rgb565", "yuv422", "grayscale"}
  THEN <<Ignored(<<Page(0)>>)>> \o StatusLast("pixformat" :> format, <<Other>>)
  ELSE Rejected

\* CONFIG_GC_SENSOR_SUBSAMPLE_MODE; no result is looked at.
set_framesize(size) ==
  LET framesize == IF size > 8 THEN 8 ELSE size
  IN <<Note("framesize" :> framesize)>>
       \o Shrugged(<<Page(0), Other, Page(1), Other, Page(0)>>)

set_contrast(contrast) == IF contrast = 0 THEN <<>> ELSE Shrugged(<<Page(0), Other>>)
set_global_gain(gain_level) == IF gain_level = 0 THEN <<>> ELSE Shrugged(<<Page(0), Other>>)

set_hmirror(enable) ==
  NotedThenCollected("hmirror" :> enable, <<Page(0), Bits(\h14, 0, 1, enable)>>)
set_vflip(enable) ==
  NotedThenCollected("vflip" :> enable, <<Page(0), Bits(\h14, 1, 1, enable)>>)
set_colorbar(enable) ==
  CollectedThenNoted("colorbar" :> enable, <<Page(0), Bits(\h2E, 0, 1, enable)>>)

\* gc0308_init: the setters of the driver; the others are set_dummy.
Setter(s, control, v) ==
  CASE control = "pixformat" -> set_pixformat(v)
    [] control = "framesize" -> set_framesize(v)
    [] control = "contrast" -> set_contrast(v)
    [] control = "agc" -> set_global_gain(v)
    [] control = "hmirror" -> set_hmirror(v)
    [] control = "vflip" -> set_vflip(v)
    [] control = "colorbar" -> set_colorbar(v)
    [] OTHER -> Rejected

\* init_status: two fields are read, on page 0, and all the others cleared.
Readable == [hmirror |-> Flag(\h14, 0), vflip |-> Flag(\h14, 1)]
Fixed == [f \in Cleared \ DOMAIN Readable |-> 0]
init_status(dev) == Done(dev, Page(0))
=============================================================================
