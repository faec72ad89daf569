---------------------------- MODULE StartupProofs ----------------------------
(***************************************************************************)
(* Proofs about Startup, for any limit of the reconnects, any window and   *)
(* any number of waiting events: the right to try again is a token that is *)
(* in one place, so there is one chain of reconnects, and it ends in the   *)
(* one access point of the boot.  And, for any number of frames, what the  *)
(* camera's set-up holds at each step and after an error.                  *)
(***************************************************************************)
EXTENDS Startup, SequenceTheorems, TLAPS

Events == {"START", "CONNECTED", "DISCONNECTED", "GOT_IP"}

\* An event that makes the station try again.
Trigger(e) == e \in {"START", "DISCONNECTED"}
Calm(s) == \A i \in 1..Len(s) : ~Trigger(s[i])

\* Where the token is.
NotStarted ==
  /\ driver = "off" /\ events = <<>> /\ ~pausing /\ access_points = 0

\* In STA_START.  Without credentials the access point is open already, and
\* the station has nothing to join.
InStart ==
  /\ driver = "idle" /\ events = <<"START">> /\ ~pausing
  /\ access_points = 0 \/ (access_points = 1 /\ ~credentials)

WithDriver ==
  /\ driver \in {"joining", "joined", "online"} /\ Calm(events) /\ ~pausing
  /\ access_points = 0

InDisconnection ==
  /\ driver = "idle" /\ ~pausing /\ access_points = 0
  /\ Len(events) > 0 /\ events[Len(events)] = "DISCONNECTED"
  /\ \A i \in 1..Len(events) : i < Len(events) => ~Trigger(events[i])

InPause ==
  /\ driver = "idle" /\ events = <<>> /\ pausing /\ access_points = 0

Spent ==
  /\ driver = "idle" /\ events = <<>> /\ ~pausing /\ access_points \in {0, 1}

OneToken == NotStarted \/ InStart \/ WithDriver \/ InDisconnection \/ InPause \/ Spent

\* Wi-Fi is started after the first steps of the main task, which are the
\* only ones that may erase the credentials.
StartedLater == main \in {"nvs", "camera", "station"} => driver = "off"

ChainInv == events \in Seq(Events) /\ OneToken /\ StartedLater

-----------------------------------------------------------------------------
LEMMA ChainStarts == Init => ChainInv
  BY DEF Init, ChainInv, OneToken, NotStarted, StartedLater

\* Whatever switches the device off leaves the token nowhere.
LEMMA OffResets ==
  ASSUME Off PROVE ChainInv'
  BY DEF Off, ChainInv, OneToken, NotStarted, StartedLater

LEMMA UntouchedChain ==
  ASSUME ChainInv, StartedLater',
         UNCHANGED <<driver, events, pausing, access_points, credentials>>
  PROVE  ChainInv'
  BY DEF ChainInv, OneToken, NotStarted, InStart, WithDriver, InDisconnection, InPause, Spent

\* The rest of a queue that begins with no trigger, and the start of one.
LEMMA TailFacts ==
  ASSUME events \in Seq(Events), events # <<>>
  PROVE  /\ Tail(events) \in Seq(Events)
         /\ Len(Tail(events)) = Len(events) - 1
         /\ \A i \in 1..Len(Tail(events)) : Tail(events)[i] = events[i + 1]
         /\ Head(events) = events[1] /\ Len(events) \in Nat /\ Len(events) >= 1
  BY HeadTailProperties, EmptySeq, LenProperties, Z3

\* An event other than a trigger is handled: the token stays where it is.
LEMMA HarmlessEvent ==
  ASSUME ChainInv, NEW e, ~Trigger(e), Take(e),
         UNCHANGED <<main, driver, pausing, access_points, credentials>>
  PROVE  ChainInv'
  <1>1. events' = Tail(events) /\ events # <<>> /\ events[1] = e
    BY TailFacts DEF Take, ChainInv
  <1>2. events \in Seq(Events)
    BY DEF ChainInv
  <1>3. CASE WithDriver
    <2>1. Calm(events')
      BY <1>1, <1>2, <1>3, TailFacts DEF WithDriver, Calm
    <2> QED BY <1>1, <1>2, <1>3, <2>1, TailFacts DEF WithDriver, ChainInv, OneToken, StartedLater
  <1>4. CASE InDisconnection
    <2>1. Len(events) # 1
      BY <1>1, <1>4 DEF InDisconnection, Trigger
    <2>2. /\ Len(events') > 0 /\ events'[Len(events')] = "DISCONNECTED"
          /\ \A i \in 1..Len(events') : i < Len(events') => ~Trigger(events'[i])
      BY <1>1, <1>2, <1>4, <2>1, TailFacts DEF InDisconnection
    <2> QED BY <1>1, <1>2, <1>4, <2>2, TailFacts DEF InDisconnection, ChainInv, OneToken, StartedLater
  <1>5. ~InStart
    BY <1>1 DEF InStart, Trigger
  <1>6. ~NotStarted /\ ~InPause /\ ~Spent
    BY <1>1 DEF NotStarted, InPause, Spent
  <1> QED BY <1>3, <1>4, <1>5, <1>6 DEF ChainInv, OneToken

\* A disconnection is handled: it was the last event, and the token is here.
LEMMA DisconnectionTaken ==
  ASSUME ChainInv, Take("DISCONNECTED")
  PROVE  InDisconnection /\ events' = <<>>
  <1>1. events' = Tail(events) /\ events # <<>> /\ events[1] = "DISCONNECTED"
    BY TailFacts DEF Take, ChainInv
  <1>2. events \in Seq(Events)
    BY DEF ChainInv
  <1>3. Len(events) \in Nat /\ Len(events) >= 1
    BY <1>1, <1>2, TailFacts
  <1>4. ~WithDriver
    BY <1>1, <1>3 DEF WithDriver, Calm, Trigger
  <1>5. ~InStart /\ ~NotStarted /\ ~InPause /\ ~Spent
    BY <1>1 DEF InStart, NotStarted, InPause, Spent
  <1>6. InDisconnection
    BY <1>4, <1>5 DEF ChainInv, OneToken
  <1>7. Len(events) = 1
    <2>1. 1 < Len(events) => ~Trigger(events[1])
      BY <1>3, <1>6 DEF InDisconnection
    <2>2. Trigger(events[1])
      BY <1>1 DEF Trigger
    <2> QED BY <1>3, <2>1, <2>2
  <1>8. Tail(events) \in Seq(Events) /\ Len(Tail(events)) = 0
    BY <1>1, <1>2, <1>7, TailFacts
  <1> QED BY <1>1, <1>6, <1>8, EmptySeq

\* The driver raises an event.
LEMMA EventRaised ==
  ASSUME ChainInv, NEW from, NEW to, NEW e \in Events, Raise(from, to, e),
         from \subseteq {"joining", "joined", "online"},
         \/ to \in {"joined", "online"} /\ ~Trigger(e)
         \/ to = "idle" /\ e = "DISCONNECTED"
  PROVE  ChainInv'
  <1>1. events' = Append(events, e) /\ driver' = to /\ driver \in {"joining", "joined", "online"}
    BY DEF Raise
  <1>2. events \in Seq(Events)
    BY DEF ChainInv
  <1>3. WithDriver
    BY <1>1 DEF ChainInv, OneToken, NotStarted, InStart, InDisconnection, InPause, Spent
  <1>4. /\ events' \in Seq(Events) /\ Len(events') = Len(events) + 1 /\ Len(events) \in Nat
        /\ \A i \in 1..Len(events) : events'[i] = events[i]
        /\ events'[Len(events) + 1] = e
    BY <1>1, <1>2, AppendProperties, LenProperties
  <1>5. UNCHANGED <<main, pausing, access_points, credentials>>
    BY DEF Raise, bootVars, wifiVars
  <1>6. StartedLater'
    BY <1>1, <1>5 DEF ChainInv, StartedLater
  <1>7. CASE to \in {"joined", "online"} /\ ~Trigger(e)
    <2>1. Calm(events')
      BY <1>3, <1>4, <1>7 DEF WithDriver, Calm
    <2> QED BY <1>1, <1>3, <1>4, <1>5, <1>6, <1>7, <2>1 DEF WithDriver, ChainInv, OneToken
  <1>8. CASE to = "idle" /\ e = "DISCONNECTED"
    <2>1. \A i \in 1..Len(events') : i < Len(events') => ~Trigger(events'[i])
      BY <1>3, <1>4 DEF WithDriver, Calm
    <2>2. InDisconnection'
      BY <1>1, <1>3, <1>4, <1>5, <1>8, <2>1 DEF WithDriver, InDisconnection
    <2> QED BY <1>4, <1>6, <2>2 DEF ChainInv, OneToken
  <1> QED BY <1>7, <1>8

-----------------------------------------------------------------------------
(* The event-loop task                                                     *)

LEMMA StartKept == ASSUME ChainInv, HandleStart PROVE ChainInv'
  <1>1. events' = Tail(events) /\ events # <<>> /\ events[1] = "START"
    BY TailFacts DEF HandleStart, Take, ChainInv
  <1>2. events \in Seq(Events) /\ Len(events) \in Nat /\ Len(events) >= 1
    BY <1>1, TailFacts DEF ChainInv
  <1>3. InStart
    <2>1. ~WithDriver
      BY <1>1, <1>2 DEF WithDriver, Calm, Trigger
    <2>2. ~InDisconnection
      BY <1>1, <1>2 DEF InDisconnection, Trigger
    <2> QED BY <1>1, <2>1, <2>2 DEF ChainInv, OneToken, NotStarted, InPause, Spent
  <1>4. events' = <<>>
    BY <1>1, <1>3 DEF InStart
  <1>5. UNCHANGED <<main, pausing, access_points, credentials>>
    BY DEF HandleStart, bootVars, wifiVars
  <1>6. driver' = IF credentials THEN "joining" ELSE "idle"
    BY <1>3 DEF HandleStart, esp_wifi_connect, InStart
  <1>7. StartedLater'
    BY <1>3, <1>5 DEF ChainInv, StartedLater, InStart
  <1>8. events' \in Seq(Events)
    BY <1>4
  <1>9. CASE credentials
    <2>1. WithDriver'
      BY <1>3, <1>4, <1>5, <1>6, <1>9 DEF InStart, WithDriver, Calm
    <2> QED BY <1>7, <1>8, <2>1 DEF ChainInv, OneToken
  <1>10. CASE ~credentials
    <2>1. Spent'
      BY <1>3, <1>4, <1>5, <1>6, <1>10 DEF InStart, Spent
    <2> QED BY <1>7, <1>8, <2>1 DEF ChainInv, OneToken
  <1> QED BY <1>9, <1>10

LEMMA DisconnectedKept == ASSUME ChainInv, HandleDisconnected PROVE ChainInv'
  <1>1. InDisconnection /\ events' = <<>>
    BY DisconnectionTaken DEF HandleDisconnected
  <1>2. InPause' /\ UNCHANGED main
    BY <1>1 DEF HandleDisconnected, InDisconnection, InPause, bootVars
  <1> QED BY <1>1, <1>2 DEF ChainInv, OneToken, StartedLater, InDisconnection, InPause

LEMMA ReconnectKept == ASSUME ChainInv, Reconnect PROVE ChainInv'
  <1>1. InPause
    BY DEF Reconnect, ChainInv, OneToken, NotStarted, InStart, WithDriver, InDisconnection, Spent
  <1>2. UNCHANGED <<main, events, access_points>> /\ ~pausing'
    BY DEF Reconnect, bootVars
  <1>3. driver' \in {"joining", "idle"}
    BY <1>1 DEF Reconnect, esp_wifi_connect, InPause
  <1>4. WithDriver' \/ Spent'
    BY <1>1, <1>2, <1>3 DEF InPause, WithDriver, Spent, Calm
  <1> QED BY <1>1, <1>2, <1>4 DEF ChainInv, OneToken, StartedLater, InPause

LEMMA PortalKept == ASSUME ChainInv, OpenPortal PROVE ChainInv'
  <1>1. InDisconnection /\ events' = <<>>
    BY DisconnectionTaken DEF OpenPortal
  <1>2. Spent' /\ UNCHANGED main
    BY <1>1 DEF OpenPortal, wifi_init_softap, InDisconnection, Spent, bootVars
  <1> QED BY <1>1, <1>2 DEF ChainInv, OneToken, StartedLater, InDisconnection, Spent

LEMMA EventTaskKept == ASSUME ChainInv, EventTask PROVE ChainInv'
  <1>1. CASE HandleConnected
    <2>1. UNCHANGED <<main, driver, pausing, access_points, credentials>> /\ Take("CONNECTED")
      BY <1>1 DEF HandleConnected, bootVars
    <2> QED BY <2>1, HarmlessEvent DEF Trigger
  <1>2. CASE HandleGotIp
    <2>1. UNCHANGED <<main, driver, pausing, access_points, credentials>> /\ Take("GOT_IP")
      BY <1>2 DEF HandleGotIp, bootVars
    <2> QED BY <2>1, HarmlessEvent DEF Trigger
  <1> QED
    BY <1>1, <1>2, StartKept, DisconnectedKept, ReconnectKept, PortalKept DEF EventTask

-----------------------------------------------------------------------------
(* The main task                                                           *)

LEMMA StationStartKept == ASSUME ChainInv, wifi_init_sta PROVE ChainInv'
  <1>1. NotStarted
    BY DEF wifi_init_sta, ChainInv, StartedLater, OneToken, InStart, WithDriver,
           InDisconnection, InPause, Spent
  <1>2. events' = <<"START">> /\ driver' = "idle" /\ main' = "polling" /\ ~pausing'
    BY <1>1 DEF wifi_init_sta, NotStarted
  <1>3. access_points' = 0 \/ (access_points' = 1 /\ ~credentials')
    BY <1>1 DEF wifi_init_sta, wifi_init_softap, NotStarted
  <1>4. InStart' /\ StartedLater'
    BY <1>2, <1>3 DEF InStart, StartedLater
  <1> QED BY <1>2, <1>4 DEF ChainInv, OneToken, Events

\* The other steps of the main task leave Wi-Fi alone, or restart.
LEMMA MainTaskKept == ASSUME ChainInv, MainTask PROVE ChainInv'
  <1>1. CASE nvs_flash_init
    <2>1. driver = "off" /\ UNCHANGED <<driver, events, pausing, access_points>>
      BY <1>1 DEF nvs_flash_init, ChainInv, StartedLater, wifiVars
    <2>2. NotStarted
      BY <2>1 DEF ChainInv, OneToken, InStart, WithDriver, InDisconnection, InPause, Spent
    <2> QED BY <2>1, <2>2 DEF ChainInv, OneToken, NotStarted, StartedLater
  <1>2. CASE init_camera
    <2>1. driver = "off" /\ UNCHANGED <<driver, events, pausing, access_points, credentials>>
      BY <1>2 DEF init_camera, ChainInv, StartedLater, wifiVars
    <2> QED BY <2>1, UntouchedChain DEF StartedLater
  <1>3. CASE Abort \/ initialize_sntp_fails
    BY <1>3, OffResets DEF Abort, initialize_sntp_fails
  <1>4. CASE wifi_init_sta
    BY <1>4, StationStartKept
  <1>5. CASE Poll \/ initialize_sntp \/ start_services
    <2>1. /\ UNCHANGED <<driver, events, pausing, access_points, credentials>>
          /\ main' \notin {"nvs", "camera", "station"}
      BY <1>5 DEF Poll, initialize_sntp, start_services, wifiVars
    <2> QED BY <2>1, UntouchedChain DEF StartedLater
  <1> QED BY <1>1, <1>2, <1>3, <1>4, <1>5 DEF MainTask

LEMMA ChainInductive == ChainInv /\ [Next]_vars => ChainInv'
  <1> SUFFICES ASSUME ChainInv, [Next]_vars PROVE ChainInv'
    OBVIOUS
  <1>1. CASE MqttConnects \/ MqttDisconnects \/ UNCHANGED vars
    <2>1. UNCHANGED <<main, driver, events, pausing, access_points, credentials>>
      BY <1>1 DEF MqttConnects, MqttDisconnects, vars, bootVars, wifiVars
    <2> QED BY <2>1, UntouchedChain DEF ChainInv, StartedLater
  <1>2. CASE JoinSucceeds
    BY <1>2, EventRaised DEF JoinSucceeds, Events, Trigger
  <1>3. CASE JoinFails
    BY <1>3, EventRaised DEF JoinFails, Events
  <1>4. CASE AddressAssigned
    BY <1>4, EventRaised DEF AddressAssigned, Events, Trigger
  <1>5. CASE NetworkLost
    BY <1>5, EventRaised DEF NetworkLost, Events
  <1>6. CASE connect_post_handler \/ PowerCut
    BY <1>6, OffResets DEF connect_post_handler, PowerCut
  <1> QED
    BY <1>1, <1>2, <1>3, <1>4, <1>5, <1>6, MainTaskKept, EventTaskKept DEF Next

LEMMA ChainInvariance == Spec => []ChainInv
  BY ChainStarts, ChainInductive, PTL DEF Spec

-----------------------------------------------------------------------------
\* wifi_init_softap runs at most once per boot (wifi.c:51-61, 322-362): only
\* the station that has the token opens the access point, and gives it up.
THEOREM OneAccessPoint == Spec => []AccessPointOnce
  <1>1. ChainInv => AccessPointOnce
    BY DEF ChainInv, OneToken, NotStarted, InStart, WithDriver, InDisconnection, InPause, Spent,
           AccessPointOnce
  <1> QED BY <1>1, ChainInvariance, PTL

LEMMA ChainImplied == ChainInv => OneReconnectChain
  <1> SUFFICES ASSUME ChainInv PROVE OneReconnectChain
    OBVIOUS
  <1>1. events \in Seq(Events) /\ DOMAIN events = 1..Len(events) /\ Len(events) \in Nat
    BY LenProperties DEF ChainInv
  <1>2. \A i, j \in Waiting("START") \cup Waiting("DISCONNECTED") : i = j
    <2>1. CASE WithDriver
      BY <1>1, <2>1 DEF WithDriver, Calm, Trigger, Waiting
    <2>2. CASE InDisconnection
      BY <1>1, <2>2 DEF InDisconnection, Trigger, Waiting
    <2>3. CASE InStart
      BY <1>1, <2>3 DEF InStart, Waiting
    <2>4. CASE events = <<>>
      BY <1>1, <2>4 DEF Waiting
    <2> QED BY <2>1, <2>2, <2>3, <2>4 DEF ChainInv, OneToken, NotStarted, InPause, Spent
  <1>3. pausing => driver = "idle" /\ events = <<>>
    BY DEF ChainInv, OneToken, NotStarted, InStart, WithDriver, InDisconnection, InPause, Spent
  <1>4. driver \in {"joining", "joined", "online"}
          => Waiting("DISCONNECTED") = {} /\ Waiting("START") = {}
    <2> SUFFICES ASSUME driver \in {"joining", "joined", "online"}
                 PROVE  Waiting("DISCONNECTED") = {} /\ Waiting("START") = {}
      OBVIOUS
    <2>1. WithDriver
      BY DEF ChainInv, OneToken, NotStarted, InStart, InDisconnection, InPause, Spent
    <2> QED BY <1>1, <2>1 DEF WithDriver, Calm, Trigger, Waiting
  <1> QED BY <1>2, <1>3, <1>4 DEF OneReconnectChain

\* There is one chain of reconnects, never two (wifi.c:46-61), however often
\* the network fails and in whatever state the event-loop task is then.
THEOREM OneChain == Spec => []OneReconnectChain
  BY ChainImplied, ChainInvariance, PTL

-----------------------------------------------------------------------------
(* The camera: what it holds while it is set up                            *)

Cam(s, f, h, b, p, t) ==
  [step |-> s, failed |-> f, held |-> h, buffers |-> b, set |-> p, stray |-> t]

Empty(s, f, t) == Cam(s, f, {}, 0, {}, t)
Failing(s, h, b) ==
  Cam(s, FALSE, h, b, IF Camera!Steps[s + 1] = "sccb"
                      THEN Camera!Noted(h \cap Camera!Pointers, Camera!Steps[s + 1])
                      ELSE h \cap Camera!Pointers, {})
Filling(s, h, b) == Cam(s, FALSE, h, b, h \cap Camera!Pointers, {})

\* The steps that are done, and what is held then: what they have taken, but
\* for a task that could not be created.
Done(n) == {Camera!Steps[i] : i \in 1..n}

Built(n, h, b) ==
  /\ h \subseteq Done(n)
  /\ (Done(n) \cap Camera!Resources) \ {"cam_task"} \subseteq h
  /\ n < 6 => b = 0
  /\ n = 6 => b < FrameCnt
  /\ n > 6 => b = FrameCnt

\* The camera is being set up, or it is given up and nothing is left.
Building ==
  \E n \in 0..15, h \in SUBSET Camera!Resources, b \in 0..FrameCnt :
    Built(n, h, b) /\ camera = Filling(n, h, b)

GivenUp ==
  \E n \in 0..14, t \in SUBSET {"dma_num", "sccb"} : camera = Empty(n, TRUE, t)

CameraInv == Building \/ GivenUp

-----------------------------------------------------------------------------
LEMMA StepNames ==
  /\ Len(Camera!Steps) = 15 /\ DOMAIN Camera!Steps = 1..15
  /\ Camera!Steps[1] = "cam_obj" /\ Camera!Steps[2] = "dma_num"
  /\ Camera!Steps[3] = "s_state" /\ Camera!Steps[4] = "sccb"
  /\ Camera!Steps[5] = "sensor" /\ Camera!Steps[6] = "frames"
  /\ Camera!Steps[7] = "buffers" /\ Camera!Steps[8] = "dma_buffer"
  /\ Camera!Steps[9] = "dma" /\ Camera!Steps[10] = "event_queue"
  /\ Camera!Steps[11] = "frame_buffer_queue" /\ Camera!Steps[12] = "dma_intr_handle"
  /\ Camera!Steps[13] = "cam_intr_handle" /\ Camera!Steps[14] = "cam_task"
  /\ Camera!Steps[15] = "set_framesize"
  BY DEF Camera!Steps

LEMMA StepByName ==
  ASSUME NEW i \in 1..15
  PROVE  /\ Camera!Steps[i] = "cam_obj" <=> i = 1
         /\ Camera!Steps[i] = "dma_num" <=> i = 2
         /\ Camera!Steps[i] = "s_state" <=> i = 3
         /\ Camera!Steps[i] = "sccb" <=> i = 4
         /\ Camera!Steps[i] = "sensor" <=> i = 5
         /\ Camera!Steps[i] = "frames" <=> i = 6
         /\ Camera!Steps[i] = "buffers" <=> i = 7
         /\ Camera!Steps[i] = "cam_task" <=> i = 14
         /\ Camera!Steps[i] = "set_framesize" <=> i = 15
  <1>1. \/ i = 1 \/ i = 2 \/ i = 3 \/ i = 4 \/ i = 5 \/ i = 6 \/ i = 7 \/ i = 8 \/ i = 9
        \/ i = 10 \/ i = 11 \/ i = 12 \/ i = 13 \/ i = 14 \/ i = 15
    OBVIOUS
  <1> QED BY <1>1, StepNames

LEMMA ResourceNames ==
  /\ \A r : r \in Camera!Resources <=>
       (\E i \in 1..15 : r = Camera!Steps[i]) /\ r \notin {"sensor", "buffers", "set_framesize"}
  /\ {"cam_obj", "dma_num", "s_state", "sccb", "frames", "cam_task"} \subseteq Camera!Resources
  <1>1. \A r : r \in Camera!Resources <=>
       (\E i \in 1..15 : r = Camera!Steps[i]) /\ r \notin {"sensor", "buffers", "set_framesize"}
    BY StepNames DEF Camera!Resources
  <1> QED BY <1>1, StepNames

LEMMA DoneNext ==
  ASSUME NEW n \in 0..14
  PROVE  Done(n + 1) = Done(n) \cup {Camera!Steps[n + 1]}
  <1>1. 1..(n + 1) = 1..n \cup {n + 1}
    OBVIOUS
  <1> QED BY <1>1 DEF Done

LEMMA DoneNames ==
  ASSUME NEW n \in 0..15
  PROVE  /\ "cam_obj" \in Done(n) <=> n >= 1
         /\ "dma_num" \in Done(n) <=> n >= 2
         /\ "s_state" \in Done(n) <=> n >= 3
         /\ "sccb" \in Done(n) <=> n >= 4
         /\ "frames" \in Done(n) <=> n >= 6
  <1>1. 1..n \subseteq 1..15
    OBVIOUS
  <1> QED BY <1>1, StepByName, StepNames DEF Done

-----------------------------------------------------------------------------
LEMMA CamReads ==
  ASSUME NEW s, NEW f, NEW h, NEW b, NEW p, NEW t, NEW c, c = Cam(s, f, h, b, p, t)
  PROVE  /\ c.step = s /\ c.failed = f /\ c.held = h /\ c.buffers = b /\ c.set = p /\ c.stray = t
  BY DEF Cam

LEMMA CamFrees ==
  ASSUME NEW s, NEW f, NEW h, NEW b, NEW p, NEW t, NEW c, c = Cam(s, f, h, b, p, t),
         NEW X, NEW hh, hh = h \ X, NEW tt, tt = t \cup (X \ h)
  PROVE  Camera!Free(c, X) = Cam(s, f, hh, b, p, tt)
  <1> DEFINE d == [c EXCEPT !.held = hh]
  <1>1. c.held = h /\ c.stray = t
    BY CamReads
  <1>2. d.stray = t
    BY DEF Cam
  <1>3. Camera!Free(c, X) = [d EXCEPT !.stray = tt]
    BY <1>1, <1>2 DEF Camera!Free
  <1>4. d = Cam(s, f, hh, b, p, t)
    BY DEF Cam
  <1> HIDE DEF d
  <1>5. [d EXCEPT !.stray = tt] = Cam(s, f, hh, b, p, tt)
    BY <1>4 DEF Cam
  <1> QED BY <1>3, <1>5

LEMMA CamForgets ==
  ASSUME NEW s, NEW f, NEW h, NEW b, NEW p, NEW t, NEW c, c = Cam(s, f, h, b, p, t),
         NEW pointer, NEW pp, pp = p \ {pointer}
  PROVE  Camera!Forget(c, pointer) = Cam(s, f, h, b, pp, t)
  <1>1. c.set = p
    BY CamReads
  <1>2. Camera!Forget(c, pointer) = [c EXCEPT !.set = pp]
    BY <1>1 DEF Camera!Forget
  <1>3. [c EXCEPT !.set = pp] = Cam(s, f, h, b, pp, t)
    BY DEF Cam
  <1> QED BY <1>2, <1>3

LEMMA CamDeinit ==
  ASSUME NEW s, NEW f, NEW h, NEW b, NEW p, NEW t, NEW c, c = Cam(s, f, h, b, p, t), "cam_obj" \in p,
         NEW hh, hh = h \cap {"s_state", "sccb"}, NEW bb, bb = IF "frames" \in h THEN 0 ELSE b,
         NEW pp, pp = p \ {"cam_obj"}, NEW tt, tt = t \cup ({"cam_obj", "dma_num"} \ h)
  PROVE  Camera!cam_deinit(c) = Cam(s, f, hh, bb, pp, tt)
  <1> DEFINE X == Camera!Held(c) \cup {"cam_obj"}
             d == Camera!Free(c, X)
             e == Camera!FreeAll(c)
  <1>1. c.held = h /\ c.set = p /\ c.buffers = b
    BY CamReads
  <1>2. h \ X = hh /\ t \cup (X \ h) = tt
    BY <1>1 DEF Camera!Held
  <1>3. d = Cam(s, f, hh, b, p, tt)
    BY <1>2, CamFrees
  <1>4. d.buffers = b
    BY <1>3, CamReads
  <1>5. e = [d EXCEPT !.buffers = bb]
    BY <1>1, <1>4 DEF Camera!FreeAll
  <1> HIDE DEF d, e
  <1>6. e = Cam(s, f, hh, bb, p, tt)
    BY <1>3, <1>5 DEF Cam
  <1>7. Camera!cam_deinit(c) = Camera!Forget(e, "cam_obj")
    BY <1>1 DEF Camera!cam_deinit, e
  <1> QED BY <1>6, <1>7, CamForgets

LEMMA NoDeinit ==
  ASSUME NEW c, "cam_obj" \notin c.set
  PROVE  Camera!cam_deinit(c) = c
  BY DEF Camera!cam_deinit

\* esp_camera_deinit after cam_deinit.
LEMMA StateDeinit ==
  ASSUME NEW s, NEW f, NEW h, NEW b, NEW p, NEW t, NEW d, d = Cam(s, f, h, b, p, t),
         "cam_obj" \notin p, "s_state" \in p,
         NEW Y, Y = {"s_state"} \cup (p \cap {"sccb"}),
         NEW hh, hh = h \ Y, NEW pp, pp = p \ {"s_state", "sccb"}, NEW tt, tt = t \cup (Y \ h)
  PROVE  Camera!esp_camera_deinit(d) = Cam(s, f, hh, b, pp, tt)
  <1> DEFINE e == Camera!SCCB_Deinit(d)
             g == Camera!Free(e, {"s_state"})
             h1 == h \ (p \cap {"sccb"})
             p1 == p \ {"sccb"}
             t1 == t \cup ((p \cap {"sccb"}) \ h)
             d1 == Camera!Free(d, {"sccb"})
  <1>1. d.set = p
    BY CamReads
  <1>2. e = Cam(s, f, h1, b, p1, t1)
    <2>1. CASE "sccb" \in p
      <3>1. e = Camera!Forget(d1, "sccb") /\ h1 = h \ {"sccb"} /\ t1 = t \cup ({"sccb"} \ h)
        BY <1>1, <2>1 DEF Camera!SCCB_Deinit
      <3> HIDE DEF h1, t1, p1, e, d1
      <3>2. d1 = Cam(s, f, h1, b, p, t1)
        BY <3>1, CamFrees DEF d1
      <3>3. p1 = p \ {"sccb"}
        BY DEF p1
      <3> QED BY <3>1, <3>2, <3>3, CamForgets
    <2>2. CASE "sccb" \notin p
      <3>1. e = d /\ h1 = h /\ p1 = p /\ t1 = t
        BY <1>1, <2>2 DEF Camera!SCCB_Deinit
      <3> QED BY <3>1
    <2> QED BY <2>1, <2>2
  <1>3. Camera!esp_camera_deinit(d) = Camera!Forget(g, "s_state")
    BY <1>1, NoDeinit DEF Camera!esp_camera_deinit
  <1>4. hh = h1 \ {"s_state"} /\ tt = t1 \cup ({"s_state"} \ h1) /\ pp = p1 \ {"s_state"}
    OBVIOUS
  <1> HIDE DEF e, g, h1, p1, t1
  <1>5. g = Cam(s, f, hh, b, p1, tt)
    BY <1>2, <1>4, CamFrees DEF g
  <1> QED BY <1>3, <1>4, <1>5, CamForgets

-----------------------------------------------------------------------------
LEMMA SucceedKept ==
  ASSUME NEW n \in 0..14, NEW h0 \in SUBSET Camera!Resources, NEW b0 \in 0..FrameCnt,
         Built(n, h0, b0), camera = Filling(n, h0, b0), Camera!Succeed
  PROVE  Building'
  <1> DEFINE name == Camera!Steps[n + 1]
             again == name = "buffers" /\ b0 + 1 < FrameCnt
             s == IF again THEN n ELSE n + 1
             b == IF name = "buffers" THEN b0 + 1 ELSE b0
             h == h0 \cup ({name} \cap Camera!Resources)
             q == h0 \cap Camera!Pointers
  <1>1. camera.step = n /\ camera.buffers = b0 /\ camera.held = h0 /\ camera.set = q /\ camera.stray = {}
    BY DEF Filling, Cam
  <1>2. camera' = Cam(s, FALSE, h, b, q \cup ({name} \cap Camera!Pointers), {})
    BY <1>1 DEF Camera!Succeed, Camera!Noted, Cam
  <1>3. FrameCnt \in Nat \ {0} /\ (name = "buffers" <=> n = 6)
    BY StepByName, StartupAssumption DEF StartupAssumption
  <1>4. Done(s) = Done(n) \cup (IF again THEN {} ELSE {name}) /\ (again => name \notin Camera!Resources)
    BY DoneNext, ResourceNames
  <1>5. /\ h \subseteq Done(s) /\ (Done(s) \cap Camera!Resources) \ {"cam_task"} \subseteq h
        /\ h \subseteq Camera!Resources /\ q \cup ({name} \cap Camera!Pointers) = h \cap Camera!Pointers
    <2>1. Camera!Pointers \subseteq Camera!Resources
      BY ResourceNames DEF Camera!Pointers
    <2> HIDE DEF name, s
    <2> QED BY <1>4, <2>1 DEF Built
  <1>6. s \in 0..15 /\ b \in 0..FrameCnt
        /\ (s < 6 => b = 0) /\ (s = 6 => b < FrameCnt) /\ (s > 6 => b = FrameCnt)
    <2> HIDE DEF name
    <2> QED BY <1>3 DEF Built
  <1> HIDE DEF s, h, b
  <1>7. Built(s, h, b) /\ camera' = Filling(s, h, b)
    BY <1>2, <1>5, <1>6 DEF Built, Filling
  <1> QED BY <1>5, <1>6, <1>7 DEF Building

\* esp_camera_deinit of a camera that has got as far as the DMA channel, once
\* or after cam_deinit: nothing but, perhaps, the I2C driver was not held.
LEMMA AllDeinit ==
  ASSUME NEW n, NEW f, NEW h, NEW b, NEW p, NEW t, NEW c, c = Cam(n, f, h, b, p, t),
         "cam_obj" \in h, "dma_num" \in h, "cam_obj" \in p, "s_state" \in p <=> "s_state" \in h,
         "sccb" \in h => "sccb" \in p, "sccb" \in p => "s_state" \in p, p \subseteq Camera!Pointers,
         "frames" \notin h => b = 0
  PROVE  \E tt \in SUBSET (t \cup {"sccb"}) :
           /\ Camera!esp_camera_deinit(c) = Empty(n, f, tt)
           /\ Camera!esp_camera_deinit(Camera!cam_deinit(c)) = Empty(n, f, tt)
  <1> DEFINE d == Camera!cam_deinit(c)
             hh == h \cap {"s_state", "sccb"}
             pp == p \ {"cam_obj"}
             bb == IF "frames" \in h THEN 0 ELSE b
             t1 == t \cup ({"cam_obj", "dma_num"} \ h)
  <1>1. d = Cam(n, f, hh, bb, pp, t1)
    <2>1. /\ hh = h \cap {"s_state", "sccb"} /\ bb = IF "frames" \in h THEN 0 ELSE b
          /\ pp = p \ {"cam_obj"} /\ t1 = t \cup ({"cam_obj", "dma_num"} \ h)
      OBVIOUS
    <2> HIDE DEF hh, pp, bb, t1
    <2> QED BY <2>1, CamDeinit
  <1>2. bb = 0 /\ t1 = t
    OBVIOUS
  <1>3. d.set = pp
    BY <1>1 DEF Cam
  <1>4. Camera!cam_deinit(d) = d
    BY <1>3, NoDeinit
  <1>5. Camera!esp_camera_deinit(c) = Camera!esp_camera_deinit(d)
    BY <1>4 DEF Camera!esp_camera_deinit
  <1>6. \E tt \in SUBSET (t \cup {"sccb"}) : Camera!esp_camera_deinit(d) = Empty(n, f, tt)
    <2>1. CASE "s_state" \in p
      <3> DEFINE Y == {"s_state"} \cup (pp \cap {"sccb"})
                 h2 == hh \ Y
                 p2 == pp \ {"s_state", "sccb"}
                 t2 == t1 \cup (Y \ hh)
      <3>1. "cam_obj" \notin pp /\ "s_state" \in pp
        BY <2>1 DEF pp
      <3>2. /\ Y = {"s_state"} \cup (pp \cap {"sccb"}) /\ h2 = hh \ Y
            /\ p2 = pp \ {"s_state", "sccb"} /\ t2 = t1 \cup (Y \ hh)
        OBVIOUS
      <3>3. h2 = {} /\ p2 = {} /\ t2 \subseteq t \cup {"sccb"}
        BY <1>2, <2>1 DEF Camera!Pointers
      <3> HIDE DEF d, hh, pp, bb, t1, Y, h2, p2, t2
      <3>4. Camera!esp_camera_deinit(d) = Cam(n, f, h2, bb, p2, t2)
        BY <1>1, <3>1, <3>2, StateDeinit
      <3> QED BY <1>2, <3>3, <3>4 DEF Empty
    <2>2. CASE "s_state" \notin p
      <3>1. hh = {} /\ pp = {}
        BY <2>2 DEF Camera!Pointers
      <3>2. Camera!esp_camera_deinit(d) = d
        BY <1>3, <1>4, <3>1 DEF Camera!esp_camera_deinit
      <3> HIDE DEF d, bb, t1
      <3> QED BY <1>1, <1>2, <3>1, <3>2 DEF Empty
    <2> QED BY <2>1, <2>2
  <1> HIDE DEF d
  <1> QED BY <1>5, <1>6 DEF d

\* A step that fails leaves nothing behind.
LEMMA CleanedUp ==
  ASSUME NEW n \in 0..14, NEW h \in SUBSET Camera!Resources, NEW b \in 0..FrameCnt,
         Built(n, h, b), Camera!Steps[n + 1] # "cam_task",
         NEW x, x = Failing(n, h, b)
  PROVE  \E t \in SUBSET {"dma_num", "sccb"} :
           Camera!CleanUp(x, Camera!Steps[n + 1]) = Empty(n, FALSE, t)
  <1> DEFINE name == Camera!Steps[n + 1]
             p == h \cap Camera!Pointers
             q == IF name = "sccb" THEN Camera!Noted(p, name) ELSE p
             f == FALSE
             t0 == {}
  <1> SUFFICES \E t \in SUBSET {"dma_num", "sccb"} : Camera!CleanUp(x, name) = Empty(n, f, t)
    OBVIOUS
  <1>0. /\ name = Camera!Steps[n + 1] /\ name # "cam_task" /\ t0 = {} /\ p = h \cap Camera!Pointers
        /\ name = "sccb" => q = Camera!Noted(p, name)
        /\ name # "sccb" => q = p
        /\ x = Cam(n, f, h, b, q, t0)
    BY DEF Failing
  <1> HIDE DEF name, p, q, f, t0
  <1> USE <1>0
  <1>1. /\ (name = "cam_obj" <=> n = 0) /\ (name = "dma_num" <=> n = 1) /\ (name = "sccb" <=> n = 3)
        /\ (name = "s_state" <=> n = 2)
    BY StepByName
  <1>2. /\ n >= 1 => "cam_obj" \in h
        /\ n >= 2 => "dma_num" \in h
        /\ "s_state" \in h <=> n >= 3
        /\ "sccb" \in h <=> n >= 4
        /\ "frames" \notin h => b = 0
    <2>1. \A r \in {"cam_obj", "dma_num", "s_state", "sccb", "frames"} : r \in h <=> r \in Done(n)
      BY ResourceNames DEF Built
    <2>2. "frames" \notin Done(n) => b = 0
      BY DoneNames DEF Built
    <2> QED BY <2>1, <2>2, DoneNames
  <1>3. CASE n = 0
    <2>1. h = {} /\ b = 0 /\ q = {}
      BY <1>1, <1>3 DEF Built, Done
    <2>2. Camera!CleanUp(x, name) = x
      BY <1>1, <1>3 DEF Camera!CleanUp
    <2> QED BY <2>1, <2>2 DEF Empty
  <1>4. CASE n = 1
    <2>1. h = {"cam_obj"} /\ b = 0 /\ q = {"cam_obj"}
      <3>1. Done(1) = {"cam_obj"}
        BY StepNames DEF Done
      <3> QED BY <1>1, <1>2, <1>4, <3>1 DEF Built, Camera!Pointers
    <2> DEFINE d == Camera!cam_deinit(x)
    <2>2. d = Cam(n, f, h \cap {"s_state", "sccb"}, IF "frames" \in h THEN 0 ELSE b,
                  q \ {"cam_obj"}, t0 \cup ({"cam_obj", "dma_num"} \ h))
      <3>1. x = Cam(n, f, h, b, q, t0)
        OBVIOUS
      <3> DEFINE hh == h \cap {"s_state", "sccb"}
                 bb == IF "frames" \in h THEN 0 ELSE b
                 pp == q \ {"cam_obj"}
                 tt == t0 \cup ({"cam_obj", "dma_num"} \ h)
      <3>2. /\ hh = h \cap {"s_state", "sccb"} /\ bb = IF "frames" \in h THEN 0 ELSE b
            /\ pp = q \ {"cam_obj"} /\ tt = t0 \cup ({"cam_obj", "dma_num"} \ h)
        OBVIOUS
      <3> HIDE DEF hh, bb, pp, tt
      <3>3. "cam_obj" \in q
        BY <2>1
      <3>4. Camera!cam_deinit(x) = Cam(n, f, hh, bb, pp, tt)
        BY ONLY <3>1, <3>2, <3>3, CamDeinit
      <3> QED BY <3>2, <3>4
    <2>3. d = Empty(n, f, {"dma_num"})
      <3>1. /\ h \cap {"s_state", "sccb"} = {} /\ (IF "frames" \in h THEN 0 ELSE b) = 0
            /\ q \ {"cam_obj"} = {} /\ t0 \cup ({"cam_obj", "dma_num"} \ h) = {"dma_num"}
        BY <2>1
      <3> QED BY <2>2, <3>1 DEF Empty
    <2>4. d.set = {}
      BY <2>3 DEF Empty, Cam
    <2>5. Camera!CleanUp(x, name) = d
      BY <1>1, <1>4, <2>4 DEF Camera!CleanUp
    <2> QED BY <2>3, <2>5
  <1>5. CASE n >= 2
    <2>1. /\ "cam_obj" \in q /\ ("s_state" \in q <=> "s_state" \in h) /\ ("sccb" \in h => "sccb" \in q)
          /\ ("sccb" \in q => "s_state" \in q) /\ q \subseteq Camera!Pointers
      BY <1>1, <1>2, <1>5 DEF Camera!Noted, Camera!Pointers
    <2>3. PICK t \in SUBSET (t0 \cup {"sccb"}) :
            /\ Camera!esp_camera_deinit(x) = Empty(n, f, t)
            /\ Camera!esp_camera_deinit(Camera!cam_deinit(x)) = Empty(n, f, t)
      BY <1>2, <1>5, <2>1, AllDeinit
    <2>4. t \in SUBSET {"dma_num", "sccb"}
      OBVIOUS
    <2>5. name # "cam_obj" /\ name # "dma_num"
      BY <1>1, <1>5
    <2>6. CASE name \in {"s_state", "sccb", "sensor", "set_framesize"}
      <3>1. Camera!CleanUp(x, name) = Camera!esp_camera_deinit(x)
        BY <2>5, <2>6 DEF Camera!CleanUp
      <3> QED BY <2>3, <2>4, <3>1
    <2>7. CASE name \notin {"s_state", "sccb", "sensor", "set_framesize"}
      <3>1. Camera!CleanUp(x, name) = Camera!esp_camera_deinit(Camera!cam_deinit(x))
        BY <2>5, <2>7 DEF Camera!CleanUp
      <3> QED BY <2>3, <2>4, <3>1
    <2> QED BY <2>6, <2>7
  <1>6. n = 0 \/ n = 1 \/ n >= 2
    OBVIOUS
  <1> QED BY <1>3, <1>4, <1>5, <1>6, Zenon

LEMMA FailKept ==
  ASSUME NEW n \in 0..14, NEW h \in SUBSET Camera!Resources, NEW b \in 0..FrameCnt,
         Built(n, h, b), camera = Filling(n, h, b), Camera!Fail
  PROVE  CameraInv'
  <1> DEFINE name == Camera!Steps[n + 1]
             p == h \cap Camera!Pointers
             q == IF name = "sccb" THEN Camera!Noted(p, name) ELSE p
             x == IF name = "sccb" THEN [camera EXCEPT !.set = Camera!Noted(@, name)] ELSE camera
             f == FALSE
             t0 == {}
  <1>1. camera.step = n /\ camera.set = p /\ camera = Cam(n, f, h, b, p, t0)
    BY DEF Filling, Cam
  <1>2. CASE name = "cam_task"
    <2>1. n = 13
      BY <1>2, StepByName
    <2>2. camera' = Cam(n + 1, f, h, b, p, t0)
      <3>1. camera' = [camera EXCEPT !.step = n + 1]
        BY <1>1, <1>2, Zenon DEF Camera!Fail
      <3> DEFINE m == n + 1
      <3> HIDE DEF p, f, t0, m
      <3>2. [camera EXCEPT !.step = m] = Cam(m, f, h, b, p, t0)
        BY <1>1 DEF Cam
      <3> QED BY <3>1, <3>2 DEF m
    <2>3. Built(14, h, b) /\ camera' = Filling(14, h, b)
      <3>1. Done(14) = Done(13) \cup {"cam_task"}
        BY DoneNext, StepNames
      <3> QED BY <2>1, <2>2, <3>1 DEF Built, Filling
    <2>4. Building'
      BY <2>3 DEF Building
    <2> QED BY <2>4 DEF CameraInv
  <1>3. CASE name # "cam_task"
    <2>1. camera' = [Camera!CleanUp(x, name) EXCEPT !.failed = TRUE]
      BY <1>1, <1>3 DEF Camera!Fail
    <2>2. x = Cam(n, f, h, b, q, t0)
      <3>1. CASE name = "sccb"
        <4>1. x = [camera EXCEPT !.set = q]
          BY <1>1, <3>1
        <4> HIDE DEF x, q, p, f, t0
        <4>2. [camera EXCEPT !.set = q] = Cam(n, f, h, b, q, t0)
          BY <1>1 DEF Cam
        <4> QED BY <4>1, <4>2
      <3>2. CASE name # "sccb"
        BY <1>1, <3>2
      <3> QED BY <3>1, <3>2
    <2>3. PICK t \in SUBSET {"dma_num", "sccb"} : Camera!CleanUp(x, name) = Empty(n, f, t)
      <3>1. x = Failing(n, h, b) /\ Camera!Steps[n + 1] # "cam_task"
        BY <1>3, <2>2 DEF Failing
      <3> HIDE DEF x
      <3> QED BY <3>1, CleanedUp
    <2>4. camera' = Empty(n, TRUE, t)
      <3> DEFINE y == Camera!CleanUp(x, name)
      <3>1. y = Empty(n, f, t)
        BY <2>3
      <3> DEFINE g == TRUE
                 none == {}
      <3> HIDE DEF y, f, g, none
      <3>2. y = Cam(n, f, none, 0, none, t)
        BY <3>1 DEF Empty, none
      <3>3. [y EXCEPT !.failed = g] = Cam(n, g, none, 0, none, t)
        BY <3>2 DEF Cam
      <3> QED BY <2>1, <3>3 DEF y, g, none, Empty
    <2> QED BY <2>4 DEF CameraInv, GivenUp
  <1> QED BY <1>2, <1>3

LEMMA CameraStepKept == ASSUME CameraInv, Camera!Next PROVE CameraInv'
  <1>1. PICK n \in 0..15, h \in SUBSET Camera!Resources, b \in 0..FrameCnt :
          Built(n, h, b) /\ camera = Filling(n, h, b)
    <2>1. ~GivenUp
      BY DEF Camera!Next, Camera!Settled, GivenUp, Empty, Cam
    <2> QED BY <2>1 DEF CameraInv, Building
  <1>2. n \in 0..14
    BY <1>1, StepNames DEF Camera!Next, Camera!Settled, Camera!Ready, Filling, Cam
  <1> QED BY <1>1, <1>2, SucceedKept, FailKept DEF Camera!Next, CameraInv

LEMMA CameraImplied ==
  ASSUME CameraInv
  PROVE  /\ Camera!AllOrNothing
         /\ camera.step \in 0..15 /\ camera.held \subseteq Camera!Resources
         /\ camera.buffers \in 0..FrameCnt
  <1>1. CASE Building
    <2>1. PICK n \in 0..15, h \in SUBSET Camera!Resources, b \in 0..FrameCnt :
            Built(n, h, b) /\ camera = Filling(n, h, b)
      BY <1>1 DEF Building
    <2>2. /\ camera.step = n /\ camera.failed = FALSE /\ camera.held = h /\ camera.buffers = b
          /\ camera.stray = {}
      BY <2>1 DEF Filling, Cam
    <2>3. n = 15 => Camera!Resources \ {"cam_task"} \subseteq h /\ b = FrameCnt
      <3>1. Camera!Resources \subseteq Done(15)
        BY ResourceNames DEF Done
      <3> QED BY <2>1, <3>1 DEF Built
    <2> QED BY <2>2, <2>3, StepNames DEF Camera!AllOrNothing, Camera!Ready
  <1>2. CASE GivenUp
    <2>1. PICK n \in 0..14, t \in SUBSET {"dma_num", "sccb"} : camera = Empty(n, TRUE, t)
      BY <1>2 DEF GivenUp
    <2>2. /\ camera.step = n /\ camera.failed = TRUE /\ camera.held = {} /\ camera.buffers = 0
          /\ camera.set = {} /\ camera.stray = t
      BY <2>1 DEF Empty, Cam
    <2> QED
      BY <2>2, StepNames, StartupAssumption DEF Camera!AllOrNothing, Camera!Ready, StartupAssumption
  <1> QED BY <1>1, <1>2 DEF CameraInv

-----------------------------------------------------------------------------
(* The boot                                                                *)

Unready == {"nvs", "camera", "blocked"}

PollsInv ==
  /\ polls \in 0..Window
  /\ main \in {"nvs", "camera", "station"} => polls = 0
  /\ main = "polling" => polls < Window

AttemptsInv ==
  /\ reconnect_attempts \in 0..MaxReconnects
  /\ pausing => reconnect_attempts < MaxReconnects

ReadyInv ==
  /\ main \notin Unready => Camera!Ready /\ ~camera.failed
  /\ main = "blocked" => driver = "off"

FlagsOK ==
  /\ main \in {"nvs", "camera", "blocked", "station", "polling", "sntp", "mqtt", "serving", "gone"}
  /\ credentials \in BOOLEAN
  /\ driver \in {"off", "idle", "joining", "joined", "online"}
  /\ pausing \in BOOLEAN
  /\ ip_obtained \in BOOLEAN
  /\ access_points \in Nat
  /\ portal \in BOOLEAN
  /\ mqtt_connected \in BOOLEAN

BootInv == FlagsOK /\ PollsInv /\ AttemptsInv /\ ReadyInv /\ CameraInv

LEMMA CameraOff == ASSUME NEW c, c = Camera!Off PROVE c = Filling(0, {}, 0) /\ Built(0, {}, 0)
  <1>1. {} \cap Camera!Pointers = {}
    OBVIOUS
  <1> QED BY <1>1 DEF Camera!Off, Filling, Cam, Built, Done

LEMMA BootStarts == Init => BootInv
  <1> SUFFICES ASSUME Init PROVE BootInv
    OBVIOUS
  <1> USE StartupAssumption DEF StartupAssumption
  <1>1. CameraInv
    <2>1. camera = Filling(0, {}, 0) /\ Built(0, {}, 0)
      BY CameraOff DEF Init, Camera!Init
    <2> QED BY <2>1 DEF CameraInv, Building
  <1>2. PollsInv /\ AttemptsInv /\ ReadyInv
    BY DEF Init, PollsInv, AttemptsInv, ReadyInv, Unready
  <1>3. FlagsOK
    BY DEF Init, FlagsOK
  <1> QED BY <1>1, <1>2, <1>3 DEF BootInv

LEMMA OffBoots ==
  ASSUME Off, credentials' \in BOOLEAN PROVE BootInv'
  <1> USE StartupAssumption DEF StartupAssumption
  <1>1. CameraInv'
    <2>1. camera' = Filling(0, {}, 0) /\ Built(0, {}, 0)
      BY CameraOff DEF Off
    <2> QED BY <2>1 DEF CameraInv, Building
  <1>2. PollsInv' /\ AttemptsInv' /\ ReadyInv'
    BY DEF Off, PollsInv, AttemptsInv, ReadyInv, Unready
  <1>3. FlagsOK'
    BY DEF Off, FlagsOK
  <1> QED BY <1>1, <1>2, <1>3 DEF BootInv

\* A step that leaves the camera, the boot and the flash alone.
LEMMA AloneBoots ==
  ASSUME BootInv, UNCHANGED <<camera, polls, main, credentials>>, ReadyInv',
         AttemptsInv', driver' \in {"off", "idle", "joining", "joined", "online"},
         pausing' \in BOOLEAN, ip_obtained' \in BOOLEAN, access_points' \in Nat,
         portal' \in BOOLEAN, mqtt_connected' \in BOOLEAN
  PROVE  BootInv'
  <1>1. CameraInv'
    BY DEF BootInv, CameraInv, Building, GivenUp
  <1>2. PollsInv'
    BY DEF BootInv, PollsInv
  <1>3. FlagsOK'
    BY DEF BootInv, FlagsOK
  <1> QED BY <1>1, <1>2, <1>3 DEF BootInv

LEMMA EventTaskBoots == ASSUME BootInv, EventTask PROVE BootInv'
  <1> USE DEF BootInv, FlagsOK, AttemptsInv, ReadyInv
  <1>1. UNCHANGED <<camera, polls, main, credentials>>
    BY DEF EventTask, HandleStart, HandleConnected, HandleDisconnected, Reconnect, OpenPortal,
           HandleGotIp, bootVars
  <1>2. UNCHANGED <<ip_obtained, mqtt_connected>> \/ (ip_obtained' = TRUE /\ UNCHANGED mqtt_connected)
    BY DEF EventTask, HandleStart, HandleConnected, HandleDisconnected, Reconnect, OpenPortal,
           HandleGotIp
  <1>3. driver' \in {"off", "idle", "joining", "joined", "online"} /\ (driver = "off" => driver' = "off")
    BY DEF EventTask, HandleStart, HandleConnected, HandleDisconnected, Reconnect, OpenPortal,
           HandleGotIp, esp_wifi_connect
  <1>4. /\ UNCHANGED <<access_points, portal>> \/ (access_points' = access_points + 1 /\ portal' = TRUE)
        /\ pausing' \in BOOLEAN
    BY DEF EventTask, HandleStart, HandleConnected, HandleDisconnected, Reconnect, OpenPortal,
           HandleGotIp, wifi_init_softap, wifiVars
  <1>5. AttemptsInv'
    <2> USE StartupAssumption DEF StartupAssumption, Take
    <2>1. CASE HandleStart
      BY <2>1 DEF HandleStart, wifiVars
    <2>2. CASE HandleConnected
      BY <2>2 DEF HandleConnected
    <2>3. CASE HandleDisconnected
      BY <2>3 DEF HandleDisconnected
    <2>4. CASE Reconnect
      BY <2>4 DEF Reconnect
    <2>5. CASE OpenPortal
      BY <2>5 DEF OpenPortal
    <2>6. CASE HandleGotIp
      BY <2>6 DEF HandleGotIp
    <2> QED BY <2>1, <2>2, <2>3, <2>4, <2>5, <2>6 DEF EventTask
  <1>6. ReadyInv'
    BY <1>1, <1>3 DEF Camera!Ready, Unready
  <1>7. access_points' \in Nat /\ portal' \in BOOLEAN /\ ip_obtained' \in BOOLEAN
        /\ mqtt_connected' \in BOOLEAN
    <2>1. access_points' \in Nat
      BY <1>4
    <2>2. portal' \in BOOLEAN /\ ip_obtained' \in BOOLEAN /\ mqtt_connected' \in BOOLEAN
      BY <1>2, <1>4, Zenon
    <2> QED BY <2>1, <2>2
  <1> QED BY <1>1, <1>3, <1>4, <1>5, <1>6, <1>7, AloneBoots

\* A step of the main task that leaves the camera and Wi-Fi alone.
LEMMA MainAloneBoots ==
  ASSUME BootInv, UNCHANGED <<camera, driver, pausing, reconnect_attempts, access_points, portal,
                              ip_obtained, mqtt_connected>>,
         credentials' \in BOOLEAN, PollsInv', ReadyInv',
         main' \in {"nvs", "camera", "blocked", "station", "polling", "sntp", "mqtt", "serving", "gone"}
  PROVE  BootInv'
  <1>1. CameraInv'
    BY DEF BootInv, CameraInv, Building, GivenUp
  <1>2. AttemptsInv'
    BY DEF BootInv, AttemptsInv
  <1>3. FlagsOK'
    BY DEF BootInv, FlagsOK
  <1> QED BY <1>1, <1>2, <1>3 DEF BootInv

LEMMA CameraStepBoots == ASSUME BootInv, ChainInv, init_camera PROVE BootInv'
  <1>1. CameraInv'
    BY CameraStepKept DEF init_camera, BootInv
  <1>2. PollsInv' /\ AttemptsInv'
    BY DEF init_camera, BootInv, PollsInv, AttemptsInv, wifiVars
  <1>3. ReadyInv'
    BY DEF init_camera, ReadyInv, ChainInv, StartedLater, Unready
  <1>4. FlagsOK'
    BY DEF init_camera, BootInv, FlagsOK, wifiVars
  <1> QED BY <1>1, <1>2, <1>3, <1>4 DEF BootInv

LEMMA StationStartBoots == ASSUME BootInv, wifi_init_sta PROVE BootInv'
  <1>1. CameraInv'
    BY DEF wifi_init_sta, BootInv, CameraInv, Building, GivenUp
  <1>2. PollsInv' /\ AttemptsInv'
    BY StartupAssumption DEF wifi_init_sta, BootInv, PollsInv, AttemptsInv, StartupAssumption
  <1>3. ReadyInv'
    BY DEF wifi_init_sta, BootInv, ReadyInv, Unready, Camera!Ready
  <1>4. /\ credentials' \in BOOLEAN /\ pausing' \in BOOLEAN /\ ip_obtained' \in BOOLEAN
        /\ mqtt_connected' \in BOOLEAN /\ portal' \in BOOLEAN
    BY Zenon DEF wifi_init_sta, BootInv, FlagsOK, wifi_init_softap
  <1>5. main' = "polling" /\ driver' = "idle" /\ access_points' \in Nat
    BY DEF wifi_init_sta, BootInv, FlagsOK, wifi_init_softap
  <1>6. FlagsOK'
    BY <1>4, <1>5 DEF FlagsOK
  <1> QED BY <1>1, <1>2, <1>3, <1>6 DEF BootInv

LEMMA MainTaskBoots == ASSUME BootInv, ChainInv, MainTask PROVE BootInv'
  <1> USE DEF wifiVars
  <1>1. CASE nvs_flash_init
    <2>1. credentials' \in BOOLEAN
      BY <1>1, Zenon DEF nvs_flash_init, BootInv, FlagsOK
    <2>2. main' \in {"camera", "blocked"} /\ PollsInv'
      BY <1>1 DEF nvs_flash_init, BootInv, PollsInv
    <2>3. ReadyInv'
      BY <1>1 DEF nvs_flash_init, ReadyInv, ChainInv, StartedLater, Unready
    <2> QED BY <1>1, <2>1, <2>2, <2>3, MainAloneBoots DEF nvs_flash_init
  <1>2. CASE init_camera
    BY <1>2, CameraStepBoots
  <1>3. CASE Abort \/ initialize_sntp_fails
    BY <1>3, OffBoots DEF Abort, initialize_sntp_fails, BootInv, FlagsOK
  <1>4. CASE wifi_init_sta
    BY <1>4, StationStartBoots
  <1>5. CASE Poll
    <2>1. PollsInv'
      <3>1. polls \in 0..Window /\ polls < Window /\ Window \in Nat
        BY <1>5, StartupAssumption DEF Poll, BootInv, PollsInv, StartupAssumption
      <3>2. polls' = polls + 1 /\ main' \in {"sntp", "polling", "gone"}
            /\ (main' = "polling" => polls + 1 < Window)
        BY <1>5 DEF Poll
      <3> QED BY <3>1, <3>2 DEF PollsInv
    <2>2. ReadyInv'
      BY <1>5 DEF Poll, BootInv, ReadyInv, Unready, Camera!Ready
    <2> QED BY <1>5, <2>1, <2>2, MainAloneBoots DEF Poll, BootInv, FlagsOK
  <1>6. CASE initialize_sntp \/ start_services
    <2>1. PollsInv'
      BY <1>6 DEF initialize_sntp, start_services, BootInv, PollsInv
    <2>2. ReadyInv'
      BY <1>6 DEF initialize_sntp, start_services, BootInv, ReadyInv, Unready, Camera!Ready
    <2> QED
      BY <1>6, <2>1, <2>2, MainAloneBoots DEF initialize_sntp, start_services, BootInv, FlagsOK
  <1> QED BY <1>1, <1>2, <1>3, <1>4, <1>5, <1>6 DEF MainTask

LEMMA BootInductive == BootInv /\ ChainInv /\ [Next]_vars => BootInv'
  <1> SUFFICES ASSUME BootInv, ChainInv, [Next]_vars PROVE BootInv'
    OBVIOUS
  <1>1. CASE JoinSucceeds \/ JoinFails \/ AddressAssigned \/ NetworkLost
    <2>1. /\ UNCHANGED <<camera, polls, main, credentials, pausing, reconnect_attempts, access_points,
                         portal, ip_obtained, mqtt_connected>>
          /\ driver # "off" /\ driver' \in {"idle", "joined", "online"}
      BY <1>1 DEF JoinSucceeds, JoinFails, AddressAssigned, NetworkLost, Raise, bootVars, wifiVars
    <2>2. ReadyInv' /\ AttemptsInv'
      BY <2>1 DEF BootInv, ReadyInv, AttemptsInv, Unready, Camera!Ready
    <2> QED BY <2>1, <2>2, AloneBoots DEF BootInv, FlagsOK
  <1>2. CASE MqttConnects \/ MqttDisconnects \/ UNCHANGED vars
    <2>1. UNCHANGED <<camera, polls, main, credentials, driver, pausing, reconnect_attempts,
                      access_points, portal, ip_obtained>>
      BY <1>2 DEF MqttConnects, MqttDisconnects, vars, bootVars, wifiVars
    <2>2. mqtt_connected' \in BOOLEAN
      BY <1>2 DEF MqttConnects, MqttDisconnects, vars, BootInv, FlagsOK
    <2>3. ReadyInv' /\ AttemptsInv'
      BY <2>1 DEF BootInv, ReadyInv, AttemptsInv, Unready, Camera!Ready
    <2> QED BY <2>1, <2>2, <2>3, AloneBoots DEF BootInv, FlagsOK
  <1>3. CASE connect_post_handler \/ PowerCut
    BY <1>3, OffBoots DEF connect_post_handler, PowerCut, BootInv, FlagsOK
  <1> QED BY <1>1, <1>2, <1>3, MainTaskBoots, EventTaskBoots DEF Next

LEMMA BootInvariance == Spec => []BootInv
  BY BootStarts, BootInductive, ChainInvariance, PTL DEF Spec

\* Every variable has its type, and with it the counters their bounds
\* (wifi.c:53, main.c:62): the reconnects of a series and the polls of the
\* window cannot exceed their limits, whatever the network does.
THEOREM TypesHold == Spec => []TypeOK
  <1>1. BootInv /\ ChainInv => TypeOK
    <2> SUFFICES ASSUME BootInv, ChainInv PROVE TypeOK
      OBVIOUS
    <2>1. Len(Camera!Steps) = 15 /\ camera.step \in 0..15 /\ camera.held \subseteq Camera!Resources
          /\ camera.buffers \in 0..FrameCnt
      BY StepNames, CameraImplied DEF BootInv
    <2> QED BY <2>1 DEF TypeOK, BootInv, FlagsOK, PollsInv, AttemptsInv, ChainInv, Events
  <1> QED BY <1>1, BootInvariance, ChainInvariance, PTL

\* The camera driver holds everything or nothing, on whatever way out of
\* esp_camera_init (esp_camera.c:272-343, cam_hal.c:358-458), for any number
\* of frames; and Wi-Fi is started only with a camera that is set up.
THEOREM AllOrNothingHolds == Spec => []CameraAllOrNothing
  <1>1. BootInv /\ ChainInv => CameraAllOrNothing
    <2> SUFFICES ASSUME BootInv, ChainInv PROVE CameraAllOrNothing
      OBVIOUS
    <2>1. driver # "off" => main \notin Unready
      BY DEF BootInv, ReadyInv, ChainInv, StartedLater, Unready
    <2> QED BY <2>1, CameraImplied DEF CameraAllOrNothing, BootInv, ReadyInv
  <1> QED BY <1>1, BootInvariance, ChainInvariance, PTL
=============================================================================
