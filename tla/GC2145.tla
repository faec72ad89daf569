------------------------------- MODULE GC2145 -------------------------------
(***************************************************************************)
(* The setters of the GC2145 (sensors/gc2145.c).  Its registers are in     *)
(* pages, and setters select page 0 first.                                 *)
(***************************************************************************)
EXTENDS SensorBus

\* Registers that are read back, after reset.
Defaults == \h17 :> \h14

reset == Device(Defaults)

set_pixformat(format) ==
  IF format \in {"rgb565", "yuv422"}
  THEN <<Ignored(<<Page(0)>>)>> \o StatusLast("pixformat" :> format, <<Other>>)
  ELSE Rejected

\* No result is looked at.
set_framesize(size) ==
  LET framesize == IF size > 13 THEN 13 ELSE size
  IN <<Note("framesize" :> framesize)>>
       \o Shrugged(<<Page(0), Other>>)

set_hmirror(enable) ==
  NotedThenCollected("hmirror" :> enable, <<Page(0), Bits(\h17, 0, 1, enable)>>)
set_vflip(enable) ==
  NotedThenCollected("vflip" :> enable, <<Page(0), Bits(\h17, 1, 1, enable)>>)
\* The transfers are commented out.
set_colorbar(enable) == <<Note("colorbar" :> enable)>>

\* gc2145_init: the setters of the driver; the others are set_dummy.
Setter(s, control, v) ==
  CASE control = "pixformat" -> set_pixformat(v)
    [] control = "framesize" -> set_framesize(v)
    [] control = "hmirror" -> set_hmirror(v)
    [] control = "vflip" -> set_vflip(v)
    [] control = "colorbar" -> set_colorbar(v)
    [] OTHER -> Rejected

\* init_status: two fields are read, on page 0, and all the others cleared.
Readable == [hmirror |-> Flag(\h17, 0), vflip |-> Flag(\h17, 1)]
Fixed == [f \in Cleared \ DOMAIN Readable |-> 0]
init_status(dev) == Done(dev, Page(0))
=============================================================================
