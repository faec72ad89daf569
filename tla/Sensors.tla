------------------------------- MODULE Sensors ------------------------------
(***************************************************************************)
(* The table of the sensors (driver/sensor.c) and, for each, the driver    *)
(* that camera_probe takes from the table of functions in                  *)
(* driver/esp_camera.c.                                                    *)
(***************************************************************************)
EXTENDS SensorBus, SequencesExt

-----------------------------------------------------------------------------
(* Calls                                                                   *)

All(dev, steps) == FoldLeft(Done, dev, steps)

\* At most one transfer of a call fails: step "at" of part "part".
NoFault == [part |-> 0, at |-> 0, kind |-> "none"]

\* The steps of a part that fails at step "at".
Broken(dev, steps, at, kind) ==
  LET before == All(dev, SubSeq(steps, 1, at - 1))
      after == SubSeq(steps, at + 1, Len(steps))
  IN CASE kind = "write" -> Missed(before, steps[at])
       [] kind = "name" -> All(Misread(before, steps[at], 255), after)
       [] kind = "fetch" -> All(Misread(before, steps[at], 0), after)

\* What part i of a call makes of the state t, unless the call has returned.
PartDone(call, fault, t, i) ==
  LET part == call[i]
      broken == i = fault.part
      missed == broken /\ fault.kind = "write"
      withheld == missed /\ part.error = "withheld"
      fails == \/ part.error = "rejected"
               \/ missed /\ part.error \in {"returned", "kept"}
  IN IF t.returned THEN t
     ELSE [dev |-> IF broken THEN Broken(t.dev, part.steps, fault.at, fault.kind)
                   ELSE All(t.dev, part.steps),
           status |-> IF t.failed \/ fails \/ withheld THEN t.status
                     ELSE Stored(part.note) @@ t.status,
           failed |-> t.failed \/ fails,
           returned |-> withheld \/ (fails /\ part.error # "kept")]

\* What a call makes of the device and the status, and whether it fails.
Perform(s, call, fault) ==
  FoldLeft(LAMBDA t, i : PartDone(call, fault, t, i),
           [dev |-> s.dev, status |-> s.status, failed |-> FALSE, returned |-> FALSE],
           [i \in DOMAIN call |-> i])

\* What may fail: every write, but for the bank that is selected already, and
\* the read of set_reg_bits.
Faults(dev, call) ==
  LET Places(kinds) ==
        UNION {[part : {p}, at : DOMAIN call[p].steps, kind : kinds] : p \in DOMAIN call}
      Step(f) == call[f.part].steps[f.at]
      Held(f) == All(FoldLeft(LAMBDA d, part : All(d, part.steps), dev, SubSeq(call, 1, f.part - 1)),
                     SubSeq(call[f.part].steps, 1, f.at - 1)).bank
  IN {f \in Places({"write"}) : Step(f).op = "bank" => Held(f) # Step(f).val}
     \cup {f \in Places({"name", "fetch"}) : Step(f).op = "bits"}

-----------------------------------------------------------------------------
(* Reading back                                                            *)

Reading(dev, field) ==
  LET Add(n, b) == n * 2^b.width + Slice(dev.regs[b.reg], b.off, b.width)
  IN field.val[FoldLeft(Add, 0, field.at)]
Registers(field) == {field.at[i].reg : i \in DOMAIN field.at}

\* init_status: what can be read is read, the rest is set.
Initial(dev, readable, fixed) ==
  Stored([f \in DOMAIN readable |-> Reading(dev, readable[f])] @@ fixed)
-----------------------------------------------------------------------------
(* The drivers                                                             *)

Ov2640 == INSTANCE OV2640
Ov3660 == INSTANCE OV3660
Ov5640 == INSTANCE OV5640
Ov7670 == INSTANCE OV7670
Ov7725 == INSTANCE OV7725
Nt99141 == INSTANCE NT99141
Gc2145 == INSTANCE GC2145
Gc032a == INSTANCE GC032A
Gc0308 == INSTANCE GC0308
Bf3005 == INSTANCE BF3005
Bf20a6 == INSTANCE BF20A6
Sc101iot == INSTANCE SC101IOT
Sc030iot == INSTANCE SC030IOT
Sc031gs == INSTANCE SC031GS

\* What a setter does, given the device and the status.
Setter(m, s, control, v) ==
  CASE m = "OV2640" -> Ov2640!Setter(s, control, v)
    [] m = "OV3660" -> Ov3660!Setter(s, control, v)
    [] m = "OV5640" -> Ov5640!Setter(s, control, v)
    [] m = "OV7670" -> Ov7670!Setter(s, control, v)
    [] m = "OV7725" -> Ov7725!Setter(s, control, v)
    [] m = "NT99141" -> Nt99141!Setter(s, control, v)
    [] m = "GC2145" -> Gc2145!Setter(s, control, v)
    [] m = "GC032A" -> Gc032a!Setter(s, control, v)
    [] m = "GC0308" -> Gc0308!Setter(s, control, v)
    [] m = "BF3005" -> Bf3005!Setter(s, control, v)
    [] m = "BF20A6" -> Bf20a6!Setter(s, control, v)
    [] m = "SC101IOT" -> Sc101iot!Setter(s, control, v)
    [] m = "SC030IOT" -> Sc030iot!Setter(s, control, v)
    [] m = "SC031GS" -> Sc031gs!Setter(s, control, v)

\* The device after reset.
Reset(m) ==
  CASE m = "OV2640" -> Ov2640!reset
    [] m = "OV3660" -> Ov3660!reset
    [] m = "OV5640" -> Ov5640!reset
    [] m = "OV7670" -> Ov7670!reset
    [] m = "OV7725" -> Ov7725!reset
    [] m = "NT99141" -> Nt99141!reset
    [] m = "GC2145" -> Gc2145!reset
    [] m = "GC032A" -> Gc032a!reset
    [] m = "GC0308" -> Gc0308!reset
    [] m = "BF3005" -> Bf3005!reset
    [] m = "BF20A6" -> Bf20a6!reset
    [] m = "SC101IOT" -> Sc101iot!reset
    [] m = "SC030IOT" -> Sc030iot!reset
    [] m = "SC031GS" -> Sc031gs!reset

\* The fields that init_status reads, the ones it sets, and what it does to
\* the device.
Readable(m) ==
  CASE m = "OV2640" -> Ov2640!Readable
    [] m = "OV3660" -> Ov3660!Readable
    [] m = "OV5640" -> Ov5640!Readable
    [] m = "OV7670" -> Ov7670!Readable
    [] m = "OV7725" -> Ov7725!Readable
    [] m = "NT99141" -> Nt99141!Readable
    [] m = "GC2145" -> Gc2145!Readable
    [] m = "GC032A" -> Gc032a!Readable
    [] m = "GC0308" -> Gc0308!Readable
    [] m = "BF3005" -> Bf3005!Readable
    [] m = "BF20A6" -> Bf20a6!Readable
    [] m = "SC101IOT" -> Sc101iot!Readable
    [] m = "SC030IOT" -> Sc030iot!Readable
    [] m = "SC031GS" -> Sc031gs!Readable

Fixed(m) ==
  CASE m = "OV2640" -> Ov2640!Fixed
    [] m = "OV3660" -> Ov3660!Fixed
    [] m = "OV5640" -> Ov5640!Fixed
    [] m = "OV7670" -> Ov7670!Fixed
    [] m = "OV7725" -> Ov7725!Fixed
    [] m = "NT99141" -> Nt99141!Fixed
    [] m = "GC2145" -> Gc2145!Fixed
    [] m = "GC032A" -> Gc032a!Fixed
    [] m = "GC0308" -> Gc0308!Fixed
    [] m = "BF3005" -> Bf3005!Fixed
    [] m = "BF20A6" -> Bf20a6!Fixed
    [] m = "SC101IOT" -> Sc101iot!Fixed
    [] m = "SC030IOT" -> Sc030iot!Fixed
    [] m = "SC031GS" -> Sc031gs!Fixed

InitStatus(m, dev) ==
  CASE m = "OV2640" -> Ov2640!init_status(dev)
    [] m = "GC2145" -> Gc2145!init_status(dev)
    [] m = "GC032A" -> Gc032a!init_status(dev)
    [] m = "GC0308" -> Gc0308!init_status(dev)
    [] OTHER -> dev

\* camera_sensor: the largest frame size, and whether there is JPEG.
camera_sensor ==
  "OV2640" :> [max_size |-> 13, support_jpeg |-> TRUE] @@
  "OV3660" :> [max_size |-> 17, support_jpeg |-> TRUE] @@
  "OV5640" :> [max_size |-> 21, support_jpeg |-> TRUE] @@
  "OV7670" :> [max_size |-> 8, support_jpeg |-> FALSE] @@
  "OV7725" :> [max_size |-> 8, support_jpeg |-> FALSE] @@
  "NT99141" :> [max_size |-> 11, support_jpeg |-> TRUE] @@
  "GC2145" :> [max_size |-> 13, support_jpeg |-> FALSE] @@
  "GC032A" :> [max_size |-> 8, support_jpeg |-> FALSE] @@
  "GC0308" :> [max_size |-> 8, support_jpeg |-> FALSE] @@
  "BF3005" :> [max_size |-> 8, support_jpeg |-> FALSE] @@
  "BF20A6" :> [max_size |-> 8, support_jpeg |-> FALSE] @@
  "SC101IOT" :> [max_size |-> 11, support_jpeg |-> FALSE] @@
  "SC030IOT" :> [max_size |-> 8, support_jpeg |-> FALSE] @@
  "SC031GS" :> [max_size |-> 8, support_jpeg |-> FALSE]
=============================================================================
