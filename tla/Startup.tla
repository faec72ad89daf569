------------------------------- MODULE Startup -------------------------------
(***************************************************************************)
(* From power-on to service: app_main (src/src/main.c) prepares the flash, *)
(* sets up the camera (CameraSetup) and the other peripherals, waits for   *)
(* an IP address, sets the clock, starts MQTT and the periodic services,   *)
(* while the event-loop task (wifi_event_handler, src/src/com/wifi/wifi.c) *)
(* joins the Wi-Fi network, retries, and after too many failures opens an  *)
(* access point with a form for new credentials.                           *)
(*                                                                         *)
(* The Wi-Fi driver and the network are the environment: they answer every *)
(* esp_wifi_connect with an event, and may lose the network at any time.   *)
(***************************************************************************)
EXTENDS Integers, Sequences

CONSTANTS
  MaxReconnects,   \* MAX_RECONNECT_ATTEMPTS (30 on the device)
  Window,          \* polls for an IP address (900 of 100 ms on the device)
  QueueBound,      \* bound: events waiting for the event-loop task
  FrameCnt         \* frames of the camera (1 on the device)

ASSUME StartupAssumption ==
  /\ MaxReconnects \in Nat
  /\ Window \in Nat \ {0}
  /\ QueueBound \in Nat \ {0}
  /\ FrameCnt \in Nat \ {0}

VARIABLES
  main,                \* the main task: its step of app_main
  camera,              \* the camera driver
  polls,               \* polls for an IP address so far
  credentials,         \* flash: credentials are stored
  driver,              \* the station: "off", "idle", "joining", "joined", "online"
  events,              \* events waiting for the event-loop task
  pausing,             \* the event-loop task delays a reconnect
  reconnect_attempts,
  ip_obtained,
  access_points,       \* history: calls of wifi_init_softap, this boot
  portal,              \* the form is being served
  mqtt_connected

vars == <<main, camera, polls, credentials, driver, events, pausing,
          reconnect_attempts, ip_obtained, access_points, portal, mqtt_connected>>

bootVars == <<main, camera, polls>>
wifiVars == <<pausing, reconnect_attempts, access_points, portal>>

Camera == INSTANCE CameraSetup

\* esp_wifi_connect: an idle station with a network to join begins to; in
\* any other state it reports an error, which nobody looks at.
esp_wifi_connect ==
  driver' = IF driver = "idle" /\ credentials THEN "joining" ELSE driver

Off ==
  /\ main' = "nvs"
  /\ camera' = Camera!Off
  /\ polls' = 0
  /\ driver' = "off"
  /\ events' = <<>>
  /\ pausing' = FALSE
  /\ reconnect_attempts' = 0
  /\ ip_obtained' = FALSE
  /\ access_points' = 0
  /\ portal' = FALSE
  /\ mqtt_connected' = FALSE

Init ==
  /\ main = "nvs"
  /\ Camera!Init
  /\ polls = 0
  /\ credentials \in BOOLEAN
  /\ driver = "off"
  /\ events = <<>>
  /\ pausing = FALSE
  /\ reconnect_attempts = 0
  /\ ip_obtained = FALSE
  /\ access_points = 0
  /\ portal = FALSE
  /\ mqtt_connected = FALSE

-----------------------------------------------------------------------------
\* Flash that is full or of another version is erased, with the credentials.
\* A semaphore that cannot be created stops the task.
nvs_flash_init ==
  /\ main = "nvs"
  /\ credentials' \in {credentials, FALSE}
  /\ main' \in {"camera", "blocked"}
  /\ UNCHANGED <<camera, polls, driver, events, wifiVars, ip_obtained, mqtt_connected>>

\* A step of init_camera; a camera that cannot be set up stops the task.
init_camera ==
  /\ main = "camera"
  /\ Camera!Next
  /\ main' = IF camera'.failed THEN "blocked" ELSE IF Camera!Ready' THEN "station" ELSE main
  /\ UNCHANGED <<polls, credentials, driver, events, wifiVars, ip_obtained, mqtt_connected>>

\* ESP_ERROR_CHECK: an error in the flash, the motor, the scale or the Wi-Fi
\* driver restarts the device.
Abort ==
  /\ main \in {"nvs", "station"}
  /\ Off
  /\ UNCHANGED credentials

\* wifi_init_softap: the access point, a scan and the web server.
wifi_init_softap ==
  /\ access_points' = access_points + 1
  /\ portal' = TRUE

\* The main task starts the station with the stored credentials, or the
\* access point when there are none; either start raises STA_START.
wifi_init_sta ==
  /\ main = "station"
  /\ main' = "polling"
  /\ driver' = "idle"
  /\ events' = Append(events, "START")
  /\ \/ credentials /\ UNCHANGED <<access_points, portal>>
     \/ ~credentials /\ wifi_init_softap
  /\ UNCHANGED <<camera, polls, credentials, pausing, reconnect_attempts,
                 ip_obtained, mqtt_connected>>

\* One poll for an IP address.  The loop ends with an address, or after the
\* window, and then app_main returns and nothing is started any more.
\* PollForEver: without the bound on the polls.
PollForEver ==
  /\ main = "polling"
  /\ polls' = polls + 1
  /\ main' = IF ip_obtained THEN "sntp" ELSE "polling"
  /\ UNCHANGED <<camera, credentials, driver, events, wifiVars, ip_obtained, mqtt_connected>>

Poll ==
  /\ main = "polling"
  /\ polls' = polls + 1
  /\ main' = IF ip_obtained THEN "sntp"
             ELSE IF polls + 1 < Window THEN "polling" ELSE "gone"
  /\ UNCHANGED <<camera, credentials, driver, events, wifiVars, ip_obtained, mqtt_connected>>

\* SNTP answers, the clock and the zone are set, MQTT and the feeding timer
\* are started.
initialize_sntp ==
  /\ main = "sntp"
  /\ driver = "online"
  /\ main' = "mqtt"
  /\ UNCHANGED <<camera, polls, credentials, driver, events, wifiVars, ip_obtained,
                 mqtt_connected>>

\* SNTP has not answered for 300 seconds: esp_restart.
\* StubbornSntp: without the bound on the attempts.
StubbornSntp == main = "sntp" /\ UNCHANGED vars

initialize_sntp_fails ==
  /\ main = "sntp"
  /\ Off
  /\ UNCHANGED credentials

\* The first MQTT connection starts the image task and the reports.
start_services ==
  /\ main = "mqtt"
  /\ mqtt_connected
  /\ main' = "serving"
  /\ UNCHANGED <<camera, polls, credentials, driver, events, wifiVars, ip_obtained,
                 mqtt_connected>>

\* The broker is reached, or lost (mqtt_event_handler).
MqttConnects ==
  /\ main \in {"mqtt", "serving"}
  /\ driver = "online"
  /\ ~mqtt_connected
  /\ mqtt_connected' = TRUE
  /\ UNCHANGED <<bootVars, credentials, driver, events, wifiVars, ip_obtained>>

MqttDisconnects ==
  /\ mqtt_connected
  /\ mqtt_connected' = FALSE
  /\ UNCHANGED <<bootVars, credentials, driver, events, wifiVars, ip_obtained>>

-----------------------------------------------------------------------------
\* The event-loop task takes the next event.
Take(e) ==
  /\ ~pausing
  /\ events # <<>>
  /\ Head(events) = e
  /\ events' = Tail(events)

HandleStart ==
  /\ Take("START")
  /\ esp_wifi_connect
  /\ UNCHANGED <<bootVars, credentials, wifiVars, ip_obtained, mqtt_connected>>

HandleConnected ==
  /\ Take("CONNECTED")
  /\ reconnect_attempts' = 0
  /\ UNCHANGED <<bootVars, credentials, driver, pausing, access_points, portal,
                 ip_obtained, mqtt_connected>>

\* After a disconnection the task waits a second; the next step reconnects.
\* EagerRetry: it also tries at once.
EagerRetry ==
  /\ Take("DISCONNECTED")
  /\ reconnect_attempts < MaxReconnects
  /\ pausing' = TRUE
  /\ esp_wifi_connect
  /\ UNCHANGED <<bootVars, credentials, reconnect_attempts, access_points,
                 portal, ip_obtained, mqtt_connected>>

HandleDisconnected ==
  /\ Take("DISCONNECTED")
  /\ reconnect_attempts < MaxReconnects
  /\ pausing' = TRUE
  /\ UNCHANGED <<bootVars, credentials, driver, reconnect_attempts,
                 access_points, portal, ip_obtained, mqtt_connected>>

\* RetryUncounted: without advancing the counter.
RetryUncounted ==
  /\ pausing
  /\ pausing' = FALSE
  /\ esp_wifi_connect
  /\ UNCHANGED <<bootVars, credentials, events, reconnect_attempts,
                 access_points, portal, ip_obtained, mqtt_connected>>

Reconnect ==
  /\ pausing
  /\ pausing' = FALSE
  /\ esp_wifi_connect
  /\ reconnect_attempts' = reconnect_attempts + 1
  /\ UNCHANGED <<bootVars, credentials, events, access_points, portal,
                 ip_obtained, mqtt_connected>>

\* Too many failures in a row: the access point is opened and the station
\* is left alone.  OpenPortalAndRetry: the station goes on trying.
OpenPortalAndRetry ==
  /\ Take("DISCONNECTED")
  /\ reconnect_attempts = MaxReconnects
  /\ reconnect_attempts' = 0
  /\ wifi_init_softap
  /\ esp_wifi_connect
  /\ UNCHANGED <<bootVars, credentials, pausing, ip_obtained, mqtt_connected>>

OpenPortal ==
  /\ Take("DISCONNECTED")
  /\ reconnect_attempts = MaxReconnects
  /\ reconnect_attempts' = 0
  /\ wifi_init_softap
  /\ UNCHANGED <<bootVars, credentials, driver, pausing, ip_obtained, mqtt_connected>>

HandleGotIp ==
  /\ Take("GOT_IP")
  /\ ip_obtained' = TRUE
  /\ reconnect_attempts' = 0
  /\ UNCHANGED <<bootVars, credentials, driver, pausing, access_points, portal,
                 mqtt_connected>>

-----------------------------------------------------------------------------
\* The driver and the network.
Raise(from, to, e) ==
  /\ driver \in from
  /\ Len(events) < QueueBound
  /\ driver' = to
  /\ events' = Append(events, e)
  /\ UNCHANGED <<bootVars, credentials, wifiVars, ip_obtained, mqtt_connected>>

JoinSucceeds == Raise({"joining"}, "joined", "CONNECTED")
JoinFails == Raise({"joining"}, "idle", "DISCONNECTED")
AddressAssigned == Raise({"joined"}, "online", "GOT_IP")
NetworkLost == Raise({"joined", "online"}, "idle", "DISCONNECTED")

\* The form is sent: the credentials are stored and the device restarts;
\* when storing fails nothing happens.
connect_post_handler ==
  /\ portal
  /\ credentials' = TRUE
  /\ Off

PowerCut ==
  /\ main # "nvs"
  /\ Off
  /\ UNCHANGED credentials

EventTask ==
  \/ HandleStart \/ HandleConnected \/ HandleDisconnected \/ Reconnect
  \/ OpenPortal \/ HandleGotIp

MainTask ==
  \/ nvs_flash_init \/ init_camera \/ Abort
  \/ wifi_init_sta \/ Poll \/ initialize_sntp \/ initialize_sntp_fails
  \/ start_services

Next ==
  \/ MainTask \/ EventTask
  \/ MqttConnects \/ MqttDisconnects
  \/ JoinSucceeds \/ JoinFails \/ AddressAssigned \/ NetworkLost
  \/ connect_post_handler \/ PowerCut

Spec == Init /\ [][Next]_vars

\* Both tasks are scheduled, and the driver answers every attempt to join.
FairSpec ==
  /\ Spec
  /\ WF_vars(MainTask)
  /\ WF_vars(EventTask)
  /\ WF_vars(JoinSucceeds \/ JoinFails)

-----------------------------------------------------------------------------
\* Type invariant.
TypeOK ==
  /\ main \in {"nvs", "camera", "blocked", "station", "polling", "sntp", "mqtt", "serving", "gone"}
  /\ camera.step \in 0..Len(Camera!Steps) /\ camera.held \subseteq Camera!Resources
  /\ camera.buffers \in 0..FrameCnt
  /\ polls \in 0..Window
  /\ credentials \in BOOLEAN
  /\ driver \in {"off", "idle", "joining", "joined", "online"}
  /\ events \in Seq({"START", "CONNECTED", "DISCONNECTED", "GOT_IP"})
  /\ pausing \in BOOLEAN
  /\ reconnect_attempts \in 0..MaxReconnects
  /\ ip_obtained \in BOOLEAN
  /\ access_points \in Nat
  /\ portal \in BOOLEAN
  /\ mqtt_connected \in BOOLEAN

\* wifi_init_softap runs at most once per boot: a second call would register
\* the same network interface again and abort (wifi.c:58-60, 288).
AccessPointOnce == access_points <= 1

Waiting(e) == {i \in DOMAIN events : events[i] = e}

\* There is one chain of reconnects, never two (wifi.c:46-61): as long as
\* the station is up or joining, no disconnection waits to be handled other
\* than the ones before it, and a pause belongs to an idle station.
OneReconnectChain ==
  /\ \A i, j \in Waiting("START") \cup Waiting("DISCONNECTED") : i = j
  /\ pausing => driver = "idle" /\ events = <<>>
  /\ driver \in {"joining", "joined", "online"}
       => Waiting("DISCONNECTED") = {} /\ Waiting("START") = {}

\* A station that has lost its network gets it back or opens the portal,
\* unless the device restarts (wifi.c:51-61).
LostStationRecovers ==
  driver = "idle" /\ credentials ~>
    driver \in {"joined", "online", "off"} \/ portal

\* The camera driver holds everything or nothing, and Wi-Fi is started only
\* with a camera that is set up (main.c:49-55, cam.c:76-82).
CameraAllOrNothing ==
  /\ Camera!AllOrNothing
  /\ driver # "off" => Camera!Ready /\ ~camera.failed

\* app_main does not stay in its first steps: it gets to starting MQTT, or
\* gives up, or restarts (main.c:25-70, time.c:67-78).
BootSettles ==
  main \in {"camera", "polling", "sntp"}
    ~> main \in {"station", "mqtt", "gone", "blocked", "nvs"}
=============================================================================
