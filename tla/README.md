# A verification project for the CroqConnect feeder

CroqConnect is the firmware of a connected cat feeder: an ESP32-S3 with a servo that turns the
dispensing wheel, a load cell under the bowl (HX711), a water fountain behind a relay, a camera, and an
MQTT link to a phone application. It runs on ESP-IDF and FreeRTOS (100 Hz tick, two cores). This
directory holds TLA+ models of it, TLC configurations that check them on small instances, and TLAPS
proofs of the results that matter most. Paths below are relative to the repository (`src/time/time.c`);
`PROJECT.json` prefixes them with `src/`.

## The system

### Who runs

| actor | code it runs | notes |
|---|---|---|
| main task | `src/main.c:25-88` | brings the device up in a fixed order, then starts the timers and idles |
| event-loop task | `wifi_event_handler`, `src/com/wifi/wifi.c:45-69` | Wi-Fi and IP events, one at a time |
| MQTT task | `mqtt_event_handler`, `mqtt_process_received_data`, `src/com/mqtt/client.c:29-120` | runs handlers synchronously and holds the MQTT client's lock meanwhile |
| esp_timer task | four periodic callbacks: feeding check (60 s), schedule report (60 s), portions report (60 s), weight report (3 s) | one task for all of them; late alarms are caught up |
| image task | `send_mqtt_frame_callback`, `src/camera/cam.c:84-110` | created when MQTT is first connected, loops for ever |
| HTTP server task | portal page and its form, `src/com/wifi/wifi.c:189-274` | only in access-point mode |
| camera task and interrupts | `cam_task`, `lib/esp32-camera/driver/cam_hal.c`; `ll_cam_vsync_isr`, `ll_cam_dma_isr`, `target/esp32s3/ll_cam.c` | task of high priority, two interrupts; vendored driver |

### Components

| component | state | operations | correct when |
|---|---|---|---|
| scheduled feeding | periodic alarm, schedule and portions in flash | check, feed, update over MQTT, restart | every planned minute is fed, once |
| configuration in flash and its reports | blobs `schedule` and `portions` | update, periodic report | the application is shown what is stored |
| schedule and portions JSON | none | parse, format | what is stored survives a round trip |
| dispensing | position of the servo, "distribution/last" | scheduled and instant feeds | feeds of two tasks do not mix |
| load cell | tare, converter data line | tare, weigh | readings are whole conversions; an error is no weight |
| Wi-Fi station and access point | retry counter, `ip_obtained`, stored credentials | connect, disconnect, IP, portal form | reaches the network or the portal |
| boot | `ip_obtained`, `mqtt_connected` | start-up sequence | the services run once the network is there |
| MQTT session and dispatch | `mqtt_connected`, subscriptions | connect, disconnect, receive | each order is carried out |
| fountain | level of a pin | on, off, toggle | toggle inverts |
| image pipeline | frame in hand, upload semaphore | grab, publish, return | a frame is returned once, the pipeline does not stall |
| camera driver | ring of half buffers, event and frame queues, frames | interrupts, copying, queueing, taking, returning | a frame has one owner, a picture is one whole shot |
| camera set-up | memory, tasks, queues, interrupts, I2C port | `esp_camera_init` with its error paths | all is taken, or nothing is kept |
| camera sensors | registers, status, settings in flash | about 25 setters for each of 14 chips, save, load | status, registers and flash agree |
| local time | zone chosen at boot | `initialize_time` | the clock shows French time |
| credential page | 1024-byte page, 10 scan results (`wifi.c:18`) | render, scan | stays within its buffer |

## Modules

| module | models | builds on |
|---|---|---|
| `MealPlan` | the promise of the scheduled feeding, without timers or flash | |
| `FeedTimer` | the `check_dis_time` timer, the schedule and portions it reads, MQTT updates, SNTP steps, restarts | |
| `SteadyFeedTimer` | the conditions under which `FeedTimer` keeps `MealPlan`, and the mapping | `FeedTimer`, `MealPlan` |
| `ConfigSync` | settings stored by the MQTT task and announced by two tasks | |
| `SettingsText` | the texts in which times and portions travel | |
| `Scale` | weighing and taring by two tasks on one HX711 | |
| `Startup` | `app_main`, the Wi-Fi event handler, the portal | `CameraSetup` |
| `CameraSetup` | `esp_camera_init` step by step, with its error paths | |
| `Dispensing` | scheduled and instant feeds, reports and image uploads around the MQTT client's lock | |
| `OrderBook` | the promise about orders: at most once, in order, or never | |
| `OrderSession` | clean sessions, subscriptions, delivery, the branches of the handler | `OrderBook` |
| `FramePool` | the promise about frame buffers: one owner, oldest picture first | |
| `CameraDriver` | the running camera driver: sensor, DMA, interrupts, `cam_task`, the tasks that take pictures | `FramePool` |
| `SensorBus` | transfers over SCCB, the parts of a call, what a register tells of a field | |
| `OV2640`, `OV3660`, `OV5640`, `OV7670`, `OV7725`, `NT99141`, `GC2145`, `GC032A`, `GC0308`, `BF3005`, `BF20A6`, `SC101IOT`, `SC030IOT`, `SC031GS` | the setters of one driver (`lib/esp32-camera/sensors`), what its `reset` leaves and what its `init_status` reads | `SensorBus` |
| `Sensors` | the table of the drivers; how a call is carried out with a failing transfer, how registers are read back | the fourteen |
| `SensorControls` | setters in any order, saving, restart, loading | `Sensors` |
| `FeedTimerProofs`, `SettingsProofs` | theorems about `FeedTimer` and `SteadyFeedTimer`, about `ConfigSync` and `SettingsText` | |
| the other `*Proofs` | theorems about `Scale`, `Startup`, `Dispensing`, `OrderSession`, `CameraDriver`, `SensorControls` | |
| `MC*` | instances for TLC; `ConfigSync` and `Startup` need no definitions beyond their `.cfg` files and are run as they are. `MCSteadyFeedTimer` has TLC evaluate `SteadyAssumption` | |

The modules cut the system at its locks and queues, so that each can be checked by itself. Where one
module needs what another describes, it takes the weakest version of it:

- `FeedTimer` lets an MQTT update replace a blob at any moment; `ConfigSync` says when the MQTT task
  does so. A feed of `FeedTimer` ends with `left` ticks of wheel and report; `Dispensing` says
  what the feed does meanwhile and why it ends.
- `Dispensing` weighs in one step (`Weighed`); `Scale` shows that weighing ends (`WeighingEnds`).
- `OrderSession` carries an order out when the handler returns; `Dispensing`, `ConfigSync` and `Scale`
  have the handlers. All four rely on the same fact about esp-mqtt: the MQTT task holds the client's
  recursive lock from the arrival of a message until its handler has returned.
- `Startup` is over when the services run, which is where the other modules begin; `CameraSetup` leaves
  the camera in the state in which `CameraDriver` begins, and the registers in the one in which `SensorControls` begins.
- The image task of `Dispensing` takes and returns a frame as a taker of `CameraDriver` does; `FramePool` is what it may rely on.

### FeedTimer, SteadyFeedTimer, MealPlan (`src/time/time.c:123-165`, `src/quantity/portions.c:40-69`)

The wall clock is a minute and a tick in it; one tick is one rotation of the servo (two dwells of half
a second). The alarm of the periodic timer is kept as the wall-clock instant at which it falls due.
`distrib_time_check_callback` takes the alarm, re-arms it one period after the instant it was *due*
(ESP-IDF catches up on missed periods, `skip_unhandled_events` is not set) and reads the schedule.
`check_and_distribute_croquettes` is a later step, so that a tick or an MQTT update may come between the
two reads, as it can on the device. Reading portions that were never stored returns an
uninitialised struct: a choice over `Garbage`. `Rotate` and `Finish` are the feed; they
hold the one esp_timer task, so the next check is late if the feed is long. `Restart` may happen
anywhere; the timer is armed anew and the minute of the boot is not checked. `Adjust` is SNTP setting
the clock in immediate mode.

`SteadyFeedTimer` adds what a deployment must guarantee, because the code does not: no clock steps, a
boot that does not arm the timer in the last `MaxLate` ticks of a minute, and feeds that end before the
next alarm. These are `SteadyAssumption`, about the constants, a hypothesis of the theorems; TLC evaluates it on
those of the run. Under it the feeder implements `MealPlan`. With
feeds that overrun (`feed_timer_rough`), and until the clock is stepped, what remains true is that only minutes in which the servo turned go unchecked.

### ConfigSync (`src/com/mqtt/client.c:42-47,224-232`, `src/time/time.c:234-325`, `src/quantity/portions.c:18-38,71-192`)

A document is the number of the update that brought it. The MQTT task goes from idle to storing
(`Write` may fail and is only logged) to announcing; the announcement reads the flash
again, so after a failed write it is that of the old settings. The timer task formats its
payload first (`send_callback`) and publishes it later (`PublishReport`), when the MQTT task has let go of
the client's lock: this is how an older payload overtakes. The outbox may repeat, reorder and drop.

### SettingsText (`src/time/time.c:185-310`, `src/quantity/portions.c:71-177`)

Texts are sequences of digits with a colon and a minus sign; `snprintf` pads and cuts at five characters, `sscanf`
takes the longest prefix that is a number. Portions from `Debt` to `Ration` (-9999 to 99999) are those whose text is not cut. An "echo" is the application sending
back what was announced. The keys of the portions document differ in the two directions
(`quantity1` and `portion1`, `portions.c:165` and `85`); the model takes the renaming by the application for granted.

### Scale (`src/quantity/hx711.c`)

Each task is idle, probing, waiting or reading. `hx711_read_data` is one step, being a critical section
in the code; the wait before it is another. A timeout makes `hx711_read_average` return its error
code as if it were the average, and `tare` store it. Words read too early may be anything.

### Startup (`src/main.c`, `src/com/wifi/wifi.c:45-69,236-362`, `src/time/time.c:60-121`)

The main task prepares the flash (a full partition or a new version erases the stored credentials, `main.c:28-32`), sets up the
camera and goes from starting the station to polling, SNTP, MQTT and service, or is `gone` when 90 seconds pass
without an address. The event-loop task handles one event after the other and
pauses a second before a reconnect. Driver and network are the environment.

The camera's set-up (`CameraSetup`; `esp_camera.c:148-357`, `cam_hal.c:251-458`, `ll_cam.c`, `sccb.c`) is
one step per thing that `esp_camera_init` takes, from the driver's structure to the camera task, each of which may
fail. `camera` is a record of what is held, of the pointers that are set and of the step reached; giving back what is not held
is noted in `stray`. The module has the ways out as the code has them: `cam_init` frees its structure itself, without a DMA channel after
`cam_deinit` has freed it already; `cam_config` calls `cam_deinit` before `esp_camera_init` calls
`esp_camera_deinit`. A camera that cannot be set up blocks the main task (`vTaskDelay(portMAX_DELAY)`, `cam.c:80`: 497
days at 100 Hz), and the feeder neither joins the network nor feeds.

### Dispensing (`src/distrib/croquettes.c`, `src/distrib/motor.c:74-79`, `src/com/mqtt/client.c:63-67,200-238`, `src/camera/cam.c:84-110`)

Two tasks may be in `distribute_croquettes` at the same time: the timer task without the client's lock,
the MQTT task with it. `lock` is that lock, `step[t]` the place in the function. A feed is the number
of its beginning. The servo is always commanded to the same angle, so the commands of two feeds
cannot contradict each other and the model counts rotations only. The image task takes a frame, the upload semaphore and the lock, in this order.

### OrderSession, OrderBook (`src/com/mqtt/client.c:29-120,160-181`)

`queue` is the broker's session, `wire` what it has written to the connection. The connection may break
at any step and the feeder notices between two events. An order is acknowledged after its handler. `Connect` begins an
empty session (`disable_clean_session = false`), and the handler of the connected event subscribes one topic at a time. The branches of
`mqtt_process_received_data` are compared one after the other and are not exclusive, which matters for the pieces of a long message:
only the first one has a topic. A branch may match and do nothing (a document that cannot be read, a word the fountain does not know).
The refinement mapping takes `Unhandled` as `OrderBook`'s pending orders: the part of the broker's session that the
handler has not been through, which is nothing while the feeder does not know of a connection.
An order that asks for nothing is `OrderBook`'s `PassOver`, a new session its `Forget`.

### CameraDriver, FramePool (`lib/esp32-camera/driver/cam_hal.c:74-249,471-518`, `target/esp32s3/ll_cam.c:42-144`, `driver/esp_camera.c:359-404`)

The configuration is the application's (`cam.c:44-74`): JPEG, no DMA into PSRAM. The sensor sends shots and waits for nobody. DMA
writes into a ring of half buffers; the interrupts `HalfBufferFull` and `ShotEnds` queue an event each, and stop DMA
if the queue is full. `cam_task` is cut where the interrupts can come between: receiving an event, looking
at the state, copying, and starting DMA before it notes the state (`cam_hal.c:132-136`). The unit of data is
the half buffer; its content is its place in the shot that the capture began with, so that a picture that
is cut, mixed or begins in the middle can be told from a whole one. `cam_verify_jpeg_eoi`
asks for the end of a shot. `cam_verify_jpeg_soi` asks whether the first half buffer begins like a shot (`cam_hal.c:158`), whichever shot
that is: while DMA is still in slot 0, the start of an earlier shot may stand there (`SoiSeen` leaves it open). A frame is the driver's (`en`), on its way to or from the queue, in the queue, or a taker's. Under
`spare <- {frames the driver may fill or is about to queue}` the driver implements `FramePool`.

A history variable `clean` excludes two kinds of captures from `PicturesAreWhole`: those in which DMA ran over a half buffer
before it was copied, and those that began with an 'eof' of an earlier capture in the event queue. Neither stopping nor
starting DMA empties that queue, so the left-over 'eof' is taken for the new capture's first half buffer. If the former start is still in slot 0
the check passes, the capture goes on shifted by one half buffer, and its picture mixes two shots; otherwise the driver goes idle. The driver notices neither kind. The model
runs through both, and what is copied then counts as `Adrift`; no property claims anything about those pictures. Events
that are lost, because the queue is full, are not excluded. The manual VSYNC of
`ll_cam_do_vsync` is assumed to raise no interrupt, the driver disables it meanwhile.

### SensorBus, the drivers, Sensors, SensorControls (`lib/esp32-camera/sensors/*.c`, `driver/esp_camera.c:148-260,322-330,405-495`, `driver/sccb.c`)

A setter is a sequence of parts: transfers to registers, what becomes of an error (returned, collected, ignored, or
lost in one of several ways), and what is noted in `sensor->status`. `Perform` (of `Sensors`) carries a call out part by part, with at most
one failing transfer: a failed write leaves the register as it was, a failed read gives 255 or 0 and is not recognised
(`sccb.c:95-135`). The registers kept are those that `init_status` of the driver reads back and those the setters depend on; any other is `Other`,
and a register that the table of `reset` does not write is taken as 0. Pages and banks are kept, with what the driver believes
of them (`ov2640.c`, `set_bank`). `Readable` is `init_status`: the bits a field is made of.

`SensorControls` calls setters in any order with values inside, at and outside their limits, saves the status in
flash, restarts the device, and loads (`esp_camera_save_to_nvs`, `esp_camera_load_from_nvs`). The application itself calls no
setter; these modules are about the driver's interface. Where a driver does not do what the others do, its setter is listed in an operator of `SensorControls`, with the reason, and the
property holds for all the others:

- `Unfaithful`: the status is not what the registers say. OV2640's `set_framesize` clears the colour bar and switches DCW on, several setters of
  NT99141 send nothing, OV3660 and OV5640 note the quality before it is cut to six bits.
- `KeepsValue`: the setter reports a failed transfer, but the status has the new value (the second part of `StatusReadsBack`).
- `Silent`: a failed write is reported as success. OV7725 and BF3005 return the status in place of the
  result, others drop it or let a later one overwrite it.
- `Lost`: a load does not restore the field. The exposure of OV3660 and OV5640 is loaded before the frame size and
  cut to the lines of the smaller picture.
- `Incomplete`: drivers without some of the setters, which `esp_camera_load_from_nvs` calls all the same through a null pointer.

## Runs

| run | instance | shows |
|---|---|---|
| `feed_timer_rough` | overrunning feeds, clock steps, refused quantities | `MissedOnlyWhileFeeding`: the timer catches up |
| `feed_timer_steady` | assumptions of `SteadyFeedTimer` | `EveryMinuteChecked`, `NoDoubleFeed`, `ImplementsPlan` |
| `feed_first_boot` | schedule stored, portions not | counterexample to `FeedsStoredPortion` |
| `config_sync` | two blobs, two updates, one restart | `ShownWasStored`, `AtMostOneStaleReport`, `ShownConverges` |
| `scale` | two tasks, one of them tares | no overflow, averages between their samples, `WeighingEnds` |
| `startup` | three reconnects, four polls, a camera with two frames | `AccessPointOnce`, `OneReconnectChain`, `CameraAllOrNothing`, `LostStationRecovers`, `BootSettles` |
| `settings_text` | two slots, texts at the borders of the formats | `EchoKeepsSchedule`, `EchoKeepsPortions` |
| `dispensing` | three feeds of at most one rotation | `AnnouncedOnceEnded`, `ImageReturnsAll`, `FeedsEnd`, `FramesReturn` |
| `camera_driver` | two frames, a queue of one, a ring of three half buffers, shots that fit and that do not | `FrameHasOneOwner`, `CapturesIntoOwnFrame`, `PicturesAreWhole` (of clean captures), `ImplementsPool`, `CaptureResumes` |
| `sensor_controls` | all fourteen sensors, two calls, one failing transfer, save, restart and load | `StatusReadsBack`, `FailuresReported`, `LoadRestores`, `LoadSurvives` |
| `order_session` | three orders on five topics, one of which does nothing | `OrdersOnce`, `ImplementsBook`, `OrdersCarriedOut`, `ListensAgain` |
| `order_long` | one document of two pieces | counterexample to `FeedsOnlyOnOrder` |

### Bounds, and why they are enough

- Feed timer: a minute of three or four ticks is enough for every relation of alarm, check and end of minute
  (before, at, after); a day of two minutes makes the clock wrap; feeds of zero to more than a minute
  cover fitting and overrunning; two slots cover "first matching slot". The clock stops at
  `LastMinute`, so these runs end in a state without successor and do not check for deadlock.
  The theorems have no such bound: `LastMinute` is any number.
- ConfigSync: with two updates an older document can be overtaken by a newer one; one restart is enough to lose
  the outbox and a task's payload.
- Scale: two samples of two bits (words 0, 1 and -1) give sums of either sign with and without a
  remainder; the proofs cover any range and any number of samples.
- Startup: three reconnects reach the counter at 0, below and at its limit; the window of four polls
  lets the address come before, at and after its end. Every step of the camera's set-up fails in some behaviour; two frames make a loop that fails half-way. Power cuts and network failures are not bounded.
- SettingsText: texts of one, two, three, four digits, a sign, no number, a missing key, two colons;
  portions at both ends of five characters.
- Dispensing: three feeds let each task have one in hand while another has been announced.
- CameraDriver: the application has one frame (`cam.c:72`), and with one the queue never holds an old picture. Two frames and a
  queue of one are what `CAMERA_GRAB_LATEST` would give and reach every step of `cam_task`, also the one that takes
  a picture back. Three half buffers are the smallest ring in which the event queue (one shorter) holds two
  events; a frame of two halves is overrun by a shot of three. The proofs have any numbers.
- SensorControls: two calls show one setter undoing another and one that fails after one that did not; values are chosen at
  and beyond the limits of the controls. One transfer fails per behaviour, none while the device starts or
  loads. The run may stop after loading, so deadlock is not checked.
- OrderSession: the orders take five branches, on topics subscribed early and late, one of them without effect. Three orders allow one carried out, one on the wire and one in the queue when the
  connection breaks. Breaks are not bounded.

### Fairness

- `config_sync`: the tasks run (weak), the report timers go off again and again although the timer task
  may be busy at any given moment (strong), and a publication that stays in the outbox is delivered in
  the end (strong; esp-mqtt retransmits every five seconds, `client.c:164`).
- `scale`: tasks that wait or read go on (weak); a wait has a time limit in the code. Nothing is assumed of the converter.
- `camera_driver`: the sensor sends for ever and `cam_task` is scheduled (its priority is one below the highest, `cam_hal.c:402-410`), frames that were taken are
  returned (weak). How fast `cam_task` is, is not assumed.
- `startup`: both tasks run, and the driver answers every attempt to join (weak). Neither the network, the broker, the portal's user nor SNTP owe anything.
- `dispensing`: the feeding tasks and the image task go on (strong), because FreeRTOS
  gives a mutex to its most urgent waiter and the MQTT task releases it between two orders.
- `order_session`: the MQTT task runs and the broker writes what it has (weak). A break is never forced nor excluded.

## Proofs

Proved for every value of the constants, under the assumptions named in the modules (`ASSUME`), which
TLC evaluates in the runs:

| theorem | says | argument |
|---|---|---|
| `TypeCorrect` | `FeedTimer` stays in its types, steps and overruns included | one step per action; a rotation count is never negative because `Rotations` is 0 below 10 g |
| `OverrunsCaughtUp` | with feeds of any length, no minute goes unchecked but those in which the servo turned | `OverrunInv`: a minute that is not covered has its alarm to come, its check due in time, or has just begun when a feed ends (`CaughtUp`); assumes `Punctual`, that a boot does not arm the timer in the last `MaxLate` ticks of a minute |
| `NoMinuteMissed`, `NeverFedTwice` | every whole minute is checked; no minute is fed twice | `SteadyInv`: how far the alarm is ahead (`AlarmInTime`), which minutes are checked (`CheckedInOrder`), meals belong to served minutes (`FedWhenServed`) |
| `FeederImplementsPlan` | `SteadyFeedTimer` implements `MealPlan` | the same invariant; every action is a step of the plan or a stutter under `served <- LastServed` |
| `OnlyStoredShown`, `OneStaleReport` | the application is shown stored settings only; at most one announcement goes back in time | `ConfigInv`: what is on its way has been stored, documents are ordered, and a timer task that has published a stale payload has no other in hand |
| `ScheduleComesBack`, `PortionsComeBack` | a schedule of two-digit times and inactive slots, and portions from -9999 to 99999 g, come back from the application as they were | what the digits of a number are worth, by induction over the number (`DigitsWorth`), and how many there are (`DigitsLength`); that nothing of the text is cut, and the longest prefix that is a number ends where the number does (`HourIsFirst`, `WholeNumber`); `TextTypes` |
| `ScaleTypeCorrect`, `AverageIsBetween` | no overflow; an average lies between its samples | `ScaleInv` with `SumBetweenSamples`; lemmas about products and the division towards zero |
| `DispensingInvariance`, `EveryFeedAnnouncedOnce`, `UploadReturnsAll` | a feed that is over is announced once, after its wheel stopped; frame and semaphore are away only during an upload | `DispensingInv`: who holds the lock (`LockOwned`), what the tasks have in hand (`FeedsKnown`) |
| `OneAccessPoint`, `OneChain` | one access point per boot, one chain of reconnects | `ChainInv`: the right to try again is a token with six places (`NotStarted`, `InStart`, `WithDriver`, `InDisconnection`, `InPause`, `Spent`), and opening the access point uses it up |
| `TypesHold` and `AllOrNothingHolds` (`StartupProofs`) | attempts and polls keep their limits; a camera that cannot be set up holds nothing, at whichever step it failed, and has given back nothing that it did not hold but the DMA channel or the I2C driver that could not be had; Wi-Fi is on only with a camera that is set up | `BootInv` with `CameraInv`: a camera being set up holds exactly what the steps so far have taken (`Built`), and after an error nothing (`GivenUp`); lemmas follow each way out of `esp_camera_init` |
| `TypesHold` (`OrderSessionProofs`) | the wire holds the last of what the broker has written; an order in hand is on it | `TypeInv` |
| `OrdersInTurnHolds`, `ShortOrdersObeyedHolds` | with messages of any length: orders are carried out in the order of the sending, only a long one twice, one piece directly after the other, and none after a newer one or a reconnection; a short one does what its topic says | `OrderInv`: what is left of the session is increasing (`RestOK`), what was done never goes back (`HistoryOK`) and is older than what is left, but for a long order half done (`BeforeRest`, `HalfDone`); in hand is the head of the wire or the rest of it (`HandOK`) |
| `OrdersOnceHolds`, `FeedsOnlyOnOrderHolds` | an order is carried out at most once, in the order of the sending, and does what its topic says | the two above: with no long orders the history is strictly increasing |
| `SessionImplementsBook` | `OrderSession` implements `OrderBook` | `OrderInv`; each step appends to `Unhandled`, takes its head, empties it or leaves it alone |
| `DriverTypeCorrect`, `OneOwner`, `OwnFrameCaptured` | queues and frames keep their limits, a frame has one owner, `cam_task` fills only frames of the driver | `DriverInv`, which adds at which steps the capture is idle and a frame is taken back (`Phases`) |
| `DriverImplementsPool` | `CameraDriver` implements `FramePool` | the same invariant; each step changes one of queue, spare frames and takers as an action of the pool does, or none |
| `WholePicturesHold` | a picture of a clean capture (no overrun, no left-over 'eof') with an end is one shot from its first half buffer to its last | `CaptureInv`: while a clean capture lasts, DMA is ahead of `cam_task` by the half buffers announced and has left slot 0 when the first is copied, and each of them follows the one before (`Aligned`); lemmas about places in a ring, and about how many ends of shots a queue holds |
| `FailuresAreReported` | with any of the fourteen drivers, a setter whose write failed returns an error, except those listed in `Silent` | a fold is opened as a function over the prefixes of a call (`PerformSteps`); one lemma per driver says which kinds of parts its setters consist of (`SetterCalls`), and a call of `Loud` parts fails with its first failing transfer (`LoudFails`) |
| `LoadsSurvive` | loading saved settings calls no setter that the driver lacks, except the drivers of `Incomplete` | the same lemmas, and the load as a fold over calls (`PerformAllSteps`) |

`OrdersOnceHolds`, `FeedsOnlyOnOrderHolds` and `SessionImplementsBook` assume that no message exceeds the receive buffer
(`ShortOrders`), which the code does not enforce: `order_long` is the counterexample without it, a finding. What is left
without it are `OrdersInTurnHolds` and `ShortOrdersObeyedHolds`: the harm stays with the long document itself. Those about what an order does
assume that a topic has a name (`NamedOrders`), as MQTT demands. `TypesHold` and `OrdersInTurnHolds` assume neither.

`NoMinuteMissed`, `NeverFedTwice` and `FeederImplementsPlan` assume `SteadyAssumption`; `OverrunsCaughtUp` needs only its part about the boot.

The library's induction theorems take an operator as a parameter, which the provers cannot instantiate. The two inductions over
data (the digits of a number, the parts of a call) go by sets instead: among the numbers for which a claim fails there would be a least one
(`WFMin` and `NatLessThanWellFounded`). `Value` and `Perform` are folds of the community modules, which the lemmas
open as the one function that satisfies the recursion.

`WholePicturesHold` is about clean captures only: DMA did not run over a half buffer that was still to be copied, and no 'eof' of
an earlier capture was queued when the capture began. The driver cannot tell the others, and the theorem says nothing about their pictures.

The target properties are not inductive by themselves. `AnnouncedOnceEnded`, for instance, allows a
state in which two tasks hold the same unannounced feed, whose successors announce it twice; `FeedsKnown` excludes it.
`EveryMinuteChecked` says nothing about where the alarm is, and a late alarm breaks it one step later. `OrdersOnce` is about the past; without
`BeforeRest` the session could hold an order that was carried out. `PicturesAreWhole` is about pictures that are given out, and
the mistake that spoils one is made when a capture begins at the wrong place of the ring.

Only model-checked:

- all liveness properties (`ShownConverges`, `WeighingEnds`, `LostStationRecovers`, `BootSettles`, `FeedsEnd`, `FramesReturn`, `CaptureResumes`,
  `OrdersCarriedOut`, `ListensAgain`): the prover has neither fairness nor ENABLED;
- of the sensors `TypeOK`, `StatusReadsBack` and `LoadRestores`: they say what the bits of the registers are after each of the setters of
  fourteen drivers, which is case after case of arithmetic with powers of two. The tables that describe the drivers are
  built with `:>` and `@@` of the module `TLC`, which the prover knows no definition of. The run has all the drivers, with every place at which a transfer can fail;
- `FeedsStoredPortion`, which the code breaks.

`SteadyInv`, `ConfigInv`, `ScaleInv`, `BootInv`, `OrderInv`, `DriverInv` and `CaptureInv` are invariants of the proofs and not of a run.

## What the counterexamples show

- **Uninitialised portions** (`feed_first_boot`). `get_distrib_quantity` logs that nothing is stored and
  returns its uninitialised struct (`portions.c:60-68`); a planned meal then has an arbitrary size.
- **Long messages** (`order_long`). Pieces after the first have no topic, a comparison over zero characters
  succeeds, and the rest of a long document feeds, tares and toggles the fountain (`client.c:32-60`).

Behaviour the models contain and no property claims to be right or wrong:

- Two tasks may see the converter's data line low; one reads, and the other reads a converter that is converting, which
  `hx711.h:118-119` rules out. `AverageBetweenSamples` allows any word there.
- A slot whose text is "26:65", be it cut from "26:650" by the six bytes of `time.c:197`, is replaced by eight characters over seven (`time.c:226-229`), the separator included: the announcement is not JSON any more.
- DMA may overwrite a half buffer while `cam_task` is late; the picture is then queued as if it were whole.
- An 'eof' event of a capture that is over may still be queued when the next one starts; the start of the former shot in
  `dma_buffer[0]` passes the check of `cam_hal.c:158`, and the picture is put together from two shots.
- An update over MQTT between the reading of the schedule and that of the portions (`time.c:148,128`) pairs the old schedule with the new portions for one meal.
- Setters that note a value before they send it (`ov3660.c:394`, most of OV2640; `KeepsValue`) keep it when the transfer fails: the status then
  says what the sensor was never told, though the setter reports the failure. After a failed transfer nothing is claimed about the agreement of status and registers in the fields it concerned.
- A shot that does not fit into a frame, or fills less than one half buffer, gives no picture.
- Without a free DMA channel `cam_deinit` clears channel 0, another driver's (`stray` of `CameraSetup` has "dma_num").
- `SCCB_Init` notes the I2C port as its own before it is (`sccb.c:58`); if the driver cannot be installed, one that somebody else installed is deleted.
- The result of creating the camera task is not looked at (`cam_hal.c:402-410`): the camera is then set up and never gives a picture.
- `esp_camera_save_to_nvs` never commits and, after an error, does not close the handle.
- `esp_camera.h:201` promises `ESP_ERR_INVALID_STATE` for a camera that is not set up, `esp_camera_deinit` returns `ESP_FAIL`.
- A scheduled feed that ends while the MQTT task gives an instant feed is announced after it, and the retained
  "last ditribution" (`croquettes.c:26`) is then not the last one begun or ended.
- `hx711_read_average` returns error codes as averages (`hx711.h:133` documents a status instead), and a timeout becomes a weight or a tare.
- `app_main` waits 90 seconds for an address (`main.c:62`; the comment above says 60) and then returns for good: a later address starts nothing.
- After the portal has opened the station does not try again; `LostStationRecovers` counts the open portal as recovery.
- An order sent while the feeder is not connected is lost, also during the refresh of the connection every 65 seconds (`client.c:170`).

## Not modelled

- The fountain's pin. `toggle_fountain` makes the pin an input before it reads its level (`fountain.c:28-29`); what an undriven pin
  reads depends on the relay board. Its orders are in `OrderSession`.
- Taking a running camera down (the application never does), with what happens when `cam_task` on the other core starts DMA between `cam_stop` and
  `vTaskDelete`, and DMA straight into PSRAM (`CONFIG_CAMERA_PSRAM_DMA`, off).
- The pixel conversions of `lib/esp32-camera` (`conversions/`, `tjpgd.c`), which the application does not call, and the camera drivers of the ESP32 and ESP32-S2.
- Of the sensors: `get_reg`, `set_reg`, `set_res_raw`, `set_pll`, `set_xclk`, `detect`, and registers that no driver reads back.
- The page of the portal with its 1024-byte buffer, and the results of the scan.
- The choice of summer or winter time by the month of the boot (`time.c:96-121`).
- Formatting the weight into five bytes (`client.c:235`).
- Memory: allocations that fail (except that of the time string of a feed, `croquettes.c:15`), and the payloads that the reports never free (`client.c:224-232`).
- The receive buffer of the MQTT client, whose older bytes follow a payload that is handed to the JSON parser without its length.
- Vendored examples and headers, the build's output.

## Plan

1. `LocalTime` (`time.c:96-121`): the zone chosen at boot against the calendar; and the weight's text, as a third format of `SettingsText`.
2. `CredentialPage` (`wifi.c:121-234`): the length arithmetic of the page's buffer, the limit of 10 scan results.
3. Compositions: a feed of `FeedTimer` with the lock of `Dispensing`; settings of `ConfigSync` arriving through `OrderSession`;
   the image task of `Dispensing` over `FramePool`.
4. Proofs: with the compositions of (3), that a feed which overruns (`OverrunsCaughtUp`) is one that `Dispensing` announces, and that
   a picture uploaded by the image task is whole (`WholePicturesHold`).
