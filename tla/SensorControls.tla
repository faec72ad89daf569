--------------------------- MODULE SensorControls ---------------------------
(***************************************************************************)
(* The controls of a camera sensor (sensor_t in driver/include/sensor.h):  *)
(* setters that write registers of the sensor over SCCB and note the value *)
(* in the status, saving the status in flash, and loading it after a       *)
(* restart (driver/esp_camera.c).  A transfer may fail.                    *)
(***************************************************************************)
EXTENDS Sensors

CONSTANTS
  Models,      \* the sensors that may be attached
  Inputs,      \* Inputs[control]: the values it is called with
  ConfigSize, ConfigQuality,  \* camera_config_t
  MaxCalls,    \* bound: calls of setters before the settings are saved
  MaxFaults    \* bound: transfers that fail

\* The sensors of camera_sensor and the fields of the status with a setter.
AllModels ==
  {"OV2640", "OV3660", "OV5640", "OV7670", "OV7725", "NT99141", "GC2145", "GC032A", "GC0308",
   "BF3005", "BF20A6", "SC101IOT", "SC030IOT", "SC031GS"}
AllControls ==
  {"pixformat", "framesize", "contrast", "brightness", "saturation", "sharpness", "denoise",
   "gainceiling", "quality", "colorbar", "awb", "agc", "aec", "hmirror", "vflip", "aec2",
   "awb_gain", "agc_gain", "aec_value", "special_effect", "wb_mode", "ae_level", "dcw", "bpc",
   "wpc", "raw_gma", "lenc"}

Controls == DOMAIN Inputs

ASSUME SensorAssumption == Models \subseteq AllModels /\ Controls \subseteq AllControls

None == [f \in {} |-> 0]

VARIABLES
  model,    \* the sensor that was detected
  dev,      \* its registers
  status,   \* sensor->status, with sensor->pixformat
  saved,    \* the settings in flash
  phase,    \* "run", "saved", "restarted", "loaded" or "crashed"
  calls, faults,  \* counters for the bounds
  doubt,    \* history: registers that are not what the calls make of them
  hidden,   \* history: controls whose call reported success after a failed
            \* write
  kept      \* history: controls whose call reported a failed transfer, but
            \* changed the status

history == <<doubt, hidden, kept>>
vars == <<model, dev, status, saved, phase, calls, faults, history>>

-----------------------------------------------------------------------------
\* Calls without a fault, up to one of a setter that is missing.
SettingDone(m, t, setting) ==
  LET call == Setter(m, t, setting[1], setting[2])
      after == Perform(t, call, NoFault)
  IN IF t.crashed THEN t
     ELSE [dev |-> after.dev, status |-> after.status, crashed |-> call = Missing]

PerformAll(m, s, settings) ==
  FoldLeft(LAMBDA t, setting : SettingDone(m, t, setting),
           [dev |-> s.dev, status |-> s.status, crashed |-> FALSE], settings)

-----------------------------------------------------------------------------
\* esp_camera_init: the sensor is reset and configured, then the status read.
ConfigFormat(m) == IF camera_sensor[m].support_jpeg THEN "jpeg" ELSE "rgb565"
FrameSize(m) ==
  IF ConfigSize > camera_sensor[m].max_size THEN camera_sensor[m].max_size ELSE ConfigSize

Configuration(m) ==
  <<<<"framesize", FrameSize(m)>>, <<"pixformat", ConfigFormat(m)>>>>
    \o (IF m = "OV2640"
        THEN <<<<"gainceiling", 0>>, <<"bpc", 0>>, <<"wpc", 1>>, <<"lenc", 1>>>> ELSE <<>>)
    \o (IF camera_sensor[m].support_jpeg THEN <<<<"quality", ConfigQuality>>>> ELSE <<>>)

Booted(m) ==
  LET blank == [pixformat |-> ConfigFormat(m), framesize |-> FrameSize(m), binning |-> 0,
                scale |-> 0] @@ [c \in Controls |-> 0]
      s == PerformAll(m, [dev |-> Reset(m), status |-> blank], Configuration(m))
  IN [dev |-> InitStatus(m, s.dev), status |-> Initial(s.dev, Readable(m), Fixed(m)) @@ s.status]

Init ==
  /\ model \in Models
  /\ dev = Booted(model).dev
  /\ status = Booted(model).status
  /\ saved = None
  /\ phase = "run"
  /\ calls = 0 /\ faults = 0
  /\ doubt = {} /\ hidden = {} /\ kept = {}

\* Registers that are not as the call makes them: the call had to change
\* them or has changed them, and a transfer failed.  All of them, once the
\* driver is mistaken about the bank it has selected.
Spoilt(d, intended) ==
  IF d.page # d.bank THEN DOMAIN d.regs
  ELSE {a \in DOMAIN d.regs : ~(d.regs[a] = dev.regs[a] /\ d.regs[a] = intended.regs[a])}

\* A setter is called that the driver has.
Set(control, v) ==
  /\ phase = "run" /\ calls < MaxCalls
  /\ LET before == [dev |-> dev, status |-> status]
         call == Setter(model, before, control, v)
     IN /\ call # Missing
        /\ \E fault \in {NoFault} \cup (IF faults < MaxFaults THEN Faults(dev, call) ELSE {}) :
             LET after == Perform(before, call, fault)
             IN /\ dev' = after.dev
                /\ status' = after.status
                /\ IF fault = NoFault
                   THEN UNCHANGED <<faults, history>>
                   ELSE /\ faults' = faults + 1
                        /\ doubt' = doubt \cup Spoilt(dev', Perform(before, call, NoFault).dev)
                        /\ hidden' = IF fault.kind = "write" /\ ~after.failed
                                     THEN hidden \cup {control} ELSE hidden
                        /\ kept' = IF after.failed /\ after.status # status
                                   THEN kept \cup {control} ELSE kept
  /\ calls' = calls + 1
  /\ UNCHANGED <<model, saved, phase>>

\* esp_camera_save_to_nvs: the status as one blob, then the pixel format,
\* which may fail.
Save ==
  /\ phase = "run"
  /\ \E formatSaved \in BOOLEAN :
       saved' = IF formatSaved THEN status
                ELSE [f \in DOMAIN status \ {"pixformat"} |-> status[f]]
  /\ phase' = "saved"
  /\ UNCHANGED <<model, dev, status, calls, faults, history>>

\* Power is cut; the camera is set up again.
Restart ==
  /\ phase = "saved"
  /\ dev' = Booted(model).dev
  /\ status' = Booted(model).status
  /\ phase' = "restarted"
  /\ doubt' = {}
  /\ UNCHANGED <<model, saved, calls, faults, hidden, kept>>

\* Mutant: the frame size after the image options.
FrameSizeLast ==
  <<"ae_level", "aec2", "aec_value", "agc_gain", "awb_gain", "bpc", "brightness", "colorbar",
    "contrast", "dcw", "denoise", "aec", "agc", "gainceiling", "hmirror", "lenc",
    "quality", "raw_gma", "saturation", "sharpness", "special_effect", "vflip", "wb_mode",
    "awb", "wpc", "framesize">>

\* esp_camera_load_from_nvs: the setters in this order, their results ignored;
\* none is looked at before it is called.
LoadOrder ==
  <<"ae_level", "aec2", "aec_value", "agc_gain", "awb_gain", "bpc", "brightness", "colorbar",
    "contrast", "dcw", "denoise", "aec", "framesize", "agc", "gainceiling", "hmirror", "lenc",
    "quality", "raw_gma", "saturation", "sharpness", "special_effect", "vflip", "wb_mode",
    "awb", "wpc">>

Load ==
  /\ phase = "restarted"
  /\ LET format == IF "pixformat" \in DOMAIN saved
                   THEN <<<<"pixformat", saved["pixformat"]>>>> ELSE <<>>
         s == PerformAll(model, [dev |-> dev, status |-> status],
                [i \in DOMAIN LoadOrder |-> <<LoadOrder[i], saved[LoadOrder[i]]>>] \o format)
     IN /\ dev' = s.dev /\ status' = s.status
        /\ phase' = IF s.crashed THEN "crashed" ELSE "loaded"
  /\ UNCHANGED <<model, saved, calls, faults, history>>

Next ==
  \/ \E control \in Controls : \E v \in Inputs[control] : Set(control, v)
  \/ Save
  \/ Restart
  \/ Load

Spec == Init /\ [][Next]_vars

-----------------------------------------------------------------------------
\* The registers hold bytes, and the status what fits its fields
\* (camera_status_t), whatever the setters are called with.
TypeOK ==
  /\ model \in Models
  /\ \A a \in DOMAIN dev.regs : dev.regs[a] \in 0..255
  /\ \A f \in DOMAIN status \ {"pixformat"} :
       status[f] \in CASE f \in Signed -> -128..127
                       [] f = "aec_value" -> 0..65535
                       [] OTHER -> 0..255
  /\ doubt \subseteq DOMAIN dev.regs
  /\ phase \in {"run", "saved", "restarted", "loaded", "crashed"}

\* Fields that are not as the driver would read them back: the setter inverts
\* the bit, or another setter changes it (OV2640); the value is noted before it
\* is cut to its width, or through a setter with a status of its own (OV3660,
\* OV5640, OV7725); nothing or another register is written (NT99141).
Unfaithful ==
  "OV2640" :> {"aec2", "colorbar", "dcw"} @@
  "OV3660" :> {"awb_gain", "quality"} @@
  "OV5640" :> {"awb_gain", "quality"} @@
  "OV7725" :> {"agc_gain", "dcw"} @@
  "NT99141" :> {"aec", "aec2", "agc", "awb", "awb_gain", "bpc", "colorbar", "dcw", "gainceiling",
                "hmirror", "lenc", "quality", "raw_gma", "sharpness", "vflip", "wpc"}

Except(table) == IF model \in DOMAIN table THEN table[model] ELSE {}

\* Setters that note the value before they send it and do not take it back when
\* a transfer fails: almost all of OV2640, elsewhere mirroring and flipping and
\* what a new frame size leaves in binning and scale.  Some of OV7725 and BF3005
\* return the status they have just set, which reads as a failure.
KeepsValue ==
  [OV2640 |-> AllControls \ {"sharpness", "denoise", "vflip"},
   OV3660 |-> {"framesize", "hmirror", "vflip"},
   OV5640 |-> {"framesize", "hmirror", "vflip"},
   OV7725 |-> {"aec", "agc", "awb", "colorbar", "hmirror", "pixformat", "vflip"},
   NT99141 |-> {"framesize", "hmirror", "vflip"},
   GC2145 |-> {"hmirror", "vflip"},
   GC032A |-> {"hmirror", "vflip"},
   GC0308 |-> {"hmirror", "vflip"},
   BF3005 |-> {"aec", "agc", "awb", "colorbar", "hmirror", "vflip"},
   BF20A6 |-> {"hmirror", "vflip"}]

\* What can be said of the status, whatever has been set in whatever order.
\* First: where no failed transfer interfered, it is what init_status would
\* read from the sensor (for the fields it reads): one setter does not undo
\* another, and none writes beside its bits.  Left out are the fields above
\* and, for good, those with a register that a call with a failed transfer
\* had to change or changed: what such a call leaves in them is not claimed.
\* Second: a setter that reports a failed transfer has left the status as it
\* was, but for the setters above, which keep a value that the sensor was
\* never told (ov3660.c:394).
StatusReadsBack ==
  /\ \A f \in DOMAIN Readable(model) \ Except(Unfaithful) :
       Registers(Readable(model)[f]) \cap doubt = {}
         => status[f] = Reading(dev, Readable(model)[f])
  /\ kept \subseteq Except(KeepsValue)

\* Setters that report success after a failed write: the result is dropped,
\* overwritten by that of a later write, combined by "and" (vflip of OV2640),
\* or the old status is returned in its place (OV7725, BF3005).
Silent ==
  [OV2640 |-> {"framesize", "vflip"},
   OV3660 |-> {"framesize", "hmirror", "vflip"},
   OV7670 |-> {"pixformat"},
   OV7725 |-> {"aec", "agc", "awb", "hmirror", "vflip"},
   NT99141 |-> {"ae_level", "aec_value", "agc_gain", "contrast", "framesize"},
   GC2145 |-> {"framesize", "pixformat"},
   GC032A |-> {"framesize", "pixformat"},
   GC0308 |-> {"agc", "contrast", "framesize", "pixformat"},
   BF3005 |-> {"aec", "agc", "awb", "framesize", "hmirror", "pixformat", "vflip"},
   BF20A6 |-> {"pixformat"},
   SC031GS |-> {"framesize"}]

\* A setter whose write over SCCB failed does not report success, but for
\* those above.
FailuresReported == hidden \subseteq Except(Silent)

\* Fields that a load does not restore: those that are not read back as they
\* were set, and the exposure of OV3660 and OV5640, which is loaded before the
\* frame size and cut to the lines of the size of the configuration.
Lost ==
  "OV2640" :> {"aec2", "colorbar", "dcw"} @@
  "OV3660" :> {"aec_value", "awb_gain", "quality"} @@
  "OV5640" :> {"aec_value", "awb_gain", "quality"} @@
  "OV7725" :> {"agc_gain", "dcw"} @@
  "NT99141" :> Unfaithful["NT99141"] \ {"hmirror", "vflip"}

\* Settings that were saved before a restart are in the registers of the sensor
\* once they have been loaded: the order of the calls in
\* esp_camera_load_from_nvs lets no setter undo an earlier one.
LoadRestores ==
  [][Load => phase' = "crashed" \/
       \A f \in DOMAIN Readable(model) \ Except(Lost) :
         Reading(dev', Readable(model)[f]) = saved[f]]_vars

\* Drivers that leave setters out which esp_camera_load_from_nvs calls.
Incomplete == {"OV7670", "BF3005", "SC101IOT", "SC030IOT", "SC031GS"}

\* Loading the settings calls no setter that the driver of the sensor has left
\* null, but for these drivers.
LoadSurvives == phase = "crashed" => model \in Incomplete
=============================================================================
