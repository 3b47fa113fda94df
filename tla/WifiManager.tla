----------------------------- MODULE WifiManager -----------------------------
(***************************************************************************)
(* components/wifi_manager/wifi_manager.c: the credentials of the station  *)
(* in NVS, the flags under s_status_mux, and three tasks that meet there:  *)
(* the web server's, which runs set and clear; the event task, which runs  *)
(* wifi_event_handler; and the Wi-Fi driver, which is external.            *)
(*                                                                         *)
(* Each call to the driver or to NVS and each critical section is a step,  *)
(* so the event task may run between any two steps of a call.  A pair has  *)
(* passed the length checks of wifi_manager_set_credentials.               *)
(***************************************************************************)
EXTENDS Integers, Sequences

CONSTANTS
  Ssids, Passwords,
  Absent,    \* a key that NVS does not hold, an empty s_sta_ssid
  Valid,     \* the pairs that some router in reach accepts
  MaxEvents  \* bound: the driver posts and a call starts only below it

Pairs == [ssid : Ssids, password : Passwords]

ASSUME ValidAssumption == Valid \subseteq Pairs
ASSUME AbsentAssumption == Absent \notin Ssids \cup Passwords
ASSUME EventsAssumption == MaxEvents \in Nat \ {0}

VARIABLES
  nvs,          \* the keys "ssid" and "password"
  nvs_open,     \* s_handle # 0 in nvs.c
  initialized,  \* s_initialized
  saved,        \* s_credentials_saved
  connected,    \* s_sta_connected, and an address in s_ip_address
  sta_ssid,     \* s_sta_ssid
  phase,        \* of the driver's station: "stopped", "idle", "connecting", "online"
  config,       \* the pair set with esp_wifi_set_config, or Absent
  events,       \* posted to the default event loop and not handled yet
  handler,      \* "wait", or "reconnect" inside WIFI_EVENT_STA_DISCONNECTED
  call          \* of the web server's task: its next step, its pair, and
                \* history: whether it has stored the pair

flags  == <<initialized, saved, connected, sta_ssid>>
driver == <<phase, config, events>>
vars   == <<nvs, nvs_open, flags, driver, handler, call>>

NoPair == [ssid |-> Absent, password |-> Absent]
NoCall == [step |-> "none", given |-> NoPair, stored |-> FALSE]

Step == {"none", "save_ssid", "save_password", "mark_unsaved", "disconnect", "set_config",
         "mark_saved", "connect", "erase", "reopen", "mark_cleared", "disconnect_cleared"}
Event == {"start", "got_ip", "disconnected"}

TypeOK ==
  /\ nvs \in [ssid : Ssids \cup {Absent}, password : Passwords \cup {Absent}]
  /\ nvs_open \in BOOLEAN /\ initialized \in BOOLEAN
  /\ saved \in BOOLEAN /\ connected \in BOOLEAN
  /\ sta_ssid \in Ssids \cup {Absent}
  /\ phase \in {"stopped", "idle", "connecting", "online"}
  /\ config \in Pairs \cup {NoPair}
  /\ events \in Seq(Event)
  /\ handler \in {"wait", "reconnect"}
  /\ call \in [step : Step, given : Pairs \cup {NoPair}, stored : BOOLEAN]

Off ==
  /\ nvs_open' = FALSE /\ initialized' = FALSE /\ saved' = FALSE
  /\ connected' = FALSE /\ sta_ssid' = Absent
  /\ phase' = "stopped" /\ config' = NoPair /\ events' = <<>>
  /\ handler' = "wait" /\ call' = NoCall

Init ==
  /\ nvs = NoPair /\ nvs_open = FALSE /\ initialized = FALSE /\ saved = FALSE
  /\ connected = FALSE /\ sta_ssid = Absent
  /\ phase = "stopped" /\ config = NoPair /\ events = <<>>
  /\ handler = "wait" /\ call = NoCall

-----------------------------------------------------------------------------
(* Start and power loss *)

\* Mutant: load_credentials does not look at the result of the second read.
Loadable_IgnoresPassword == nvs.ssid # Absent

\* load_credentials finds both strings.
Loadable == nvs.ssid # Absent /\ nvs.password # Absent

\* nvs_storage_init erases a partition that is full or of another version.
EraseAtStart ==
  /\ ~initialized
  /\ nvs' = NoPair
  /\ UNCHANGED <<nvs_open, flags, driver, handler, call>>

\* nvs_storage_init and wifi_manager_init; an error in either restarts the board.
\* Credentials that cannot be read, now or ever, are taken as absent.
WifiManagerInit ==
  /\ ~initialized
  /\ initialized' = TRUE /\ nvs_open' = TRUE
  /\ \/ Loadable /\ saved' = TRUE /\ config' = nvs /\ sta_ssid' = nvs.ssid
     \/ saved' = FALSE /\ config' = NoPair /\ sta_ssid' = Absent
  /\ phase' = "idle" /\ events' = <<"start">>
  /\ UNCHANGED <<nvs, connected, handler, call>>

PowerLoss == initialized /\ Off /\ UNCHANGED nvs

-----------------------------------------------------------------------------
(* The driver, as far as the code relies on it *)

Post(event) == events' = Append(events, event)

\* esp_wifi_connect starts an attempt only from an idle station.
EspWifiConnect == phase' = IF phase = "idle" THEN "connecting" ELSE phase

\* esp_wifi_disconnect: ESP_ERR_WIFI_NOT_CONNECT when there is nothing to end.
EspWifiDisconnect ==
  IF phase \in {"connecting", "online"}
  THEN phase' = "idle" /\ Post("disconnected")
  ELSE UNCHANGED <<phase, events>>

RouterAccepts ==
  /\ phase = "connecting" /\ config \in Valid /\ Len(events) < MaxEvents
  /\ phase' = "online" /\ Post("got_ip")
  /\ UNCHANGED <<nvs, nvs_open, flags, config, handler, call>>

LinkFails ==
  /\ phase \in {"connecting", "online"} /\ Len(events) < MaxEvents
  /\ phase' = "idle" /\ Post("disconnected")
  /\ UNCHANGED <<nvs, nvs_open, flags, config, handler, call>>

-----------------------------------------------------------------------------
(* The event task: wifi_event_handler *)

Handle(event) ==
  /\ handler = "wait" /\ events # <<>> /\ Head(events) = event
  /\ events' = Tail(events)
  /\ UNCHANGED <<nvs, nvs_open, initialized, saved, sta_ssid, config, call>>

\* The log between the test and the call comes before the web server is up, so
\* no other task is let in there.
HandleStart ==
  /\ Handle("start")
  /\ IF saved THEN EspWifiConnect ELSE UNCHANGED phase
  /\ UNCHANGED <<connected, handler>>

HandleGotIp ==
  /\ Handle("got_ip")
  /\ connected' = TRUE
  /\ UNCHANGED <<phase, handler>>

\* Mutant: the handler keeps the status.
HandleDisconnected_KeepsStatus ==
  /\ Handle("disconnected")
  /\ handler' = "reconnect"
  /\ UNCHANGED <<phase, connected>>

\* set_status_disconnected; then LED and log, where other tasks may run.
HandleDisconnected ==
  /\ Handle("disconnected")
  /\ connected' = FALSE /\ handler' = "reconnect"
  /\ UNCHANGED phase

\* Mutant: reconnects only when the status, cleared a moment ago, says connected.
Reconnect_IfConnected ==
  /\ handler = "reconnect" /\ handler' = "wait"
  /\ IF saved /\ connected THEN EspWifiConnect ELSE UNCHANGED phase
  /\ UNCHANGED <<nvs, nvs_open, flags, config, events, call>>

Reconnect ==
  /\ handler = "reconnect" /\ handler' = "wait"
  /\ IF saved THEN EspWifiConnect ELSE UNCHANGED phase
  /\ UNCHANGED <<nvs, nvs_open, flags, config, events, call>>

EventTask == HandleStart \/ HandleGotIp \/ HandleDisconnected \/ Reconnect

-----------------------------------------------------------------------------
(* The web server's task: wifi_manager_set_credentials *)

At(step)     == call.step = step
GoTo(step)   == call' = [call EXCEPT !.step = step]
Return       == GoTo("none")

SetCredentials(pair) ==
  /\ initialized /\ At("none")
  /\ call' = [step |-> "save_ssid", given |-> pair, stored |-> FALSE]
  /\ UNCHANGED <<nvs, nvs_open, flags, driver, handler>>

\* nvs_storage_set_str of one key: refused without a handle, may fail with one.
SaveSsid ==
  /\ At("save_ssid")
  /\ \/ nvs_open /\ nvs' = [nvs EXCEPT !.ssid = call.given.ssid] /\ GoTo("save_password")
     \/ Return /\ UNCHANGED nvs
  /\ UNCHANGED <<nvs_open, flags, driver, handler>>

SavePassword ==
  /\ At("save_password")
  /\ \/ /\ nvs_open /\ nvs' = [nvs EXCEPT !.password = call.given.password]
        /\ call' = [call EXCEPT !.step = "mark_unsaved", !.stored = TRUE]
     \/ Return /\ UNCHANGED nvs
  /\ UNCHANGED <<nvs_open, flags, driver, handler>>

\* Mutant: the first critical section leaves s_credentials_saved alone.
MarkUnsaved_KeepsSaved ==
  /\ At("mark_unsaved") /\ GoTo("disconnect")
  /\ connected' = FALSE
  /\ UNCHANGED <<nvs, nvs_open, initialized, saved, sta_ssid, driver, handler>>

MarkUnsaved ==
  /\ At("mark_unsaved") /\ GoTo("disconnect")
  /\ saved' = FALSE /\ connected' = FALSE
  /\ UNCHANGED <<nvs, nvs_open, initialized, sta_ssid, driver, handler>>

Disconnect ==
  /\ At("disconnect") /\ GoTo("set_config")
  /\ EspWifiDisconnect
  /\ UNCHANGED <<nvs, nvs_open, flags, config, handler>>

\* esp_wifi_set_config is refused while the station is connecting.
SetConfig ==
  /\ At("set_config")
  /\ IF phase = "connecting"
     THEN Return /\ UNCHANGED config
     ELSE GoTo("mark_saved") /\ config' = call.given
  /\ UNCHANGED <<nvs, nvs_open, flags, phase, events, handler>>

MarkSaved ==
  /\ At("mark_saved") /\ GoTo("connect")
  /\ saved' = TRUE /\ connected' = FALSE /\ sta_ssid' = call.given.ssid
  /\ UNCHANGED <<nvs, nvs_open, initialized, driver, handler>>

\* Mutant: leaves the connection to the handler of the disconnection.
Connect_LeftToHandler ==
  /\ At("connect") /\ Return
  /\ UNCHANGED <<nvs, nvs_open, flags, driver, handler>>

Connect ==
  /\ At("connect") /\ Return
  /\ EspWifiConnect
  /\ UNCHANGED <<nvs, nvs_open, flags, config, events, handler>>

-----------------------------------------------------------------------------
(* The web server's task: wifi_manager_clear_credentials *)

ClearCredentials ==
  /\ initialized /\ At("none")
  /\ call' = [NoCall EXCEPT !.step = "erase"]
  /\ UNCHANGED <<nvs, nvs_open, flags, driver, handler>>

\* nvs_storage_clear closes the handle, erases, and opens again; a failure of
\* either leaves the handle closed.
EraseNvs ==
  /\ At("erase")
  /\ nvs_open' = FALSE
  /\ \/ nvs' = NoPair /\ GoTo("reopen")
     \/ Return /\ UNCHANGED nvs
  /\ UNCHANGED <<flags, driver, handler>>

ReopenNvs ==
  /\ At("reopen")
  /\ \/ nvs_open' = TRUE /\ GoTo("mark_cleared")
     \/ Return /\ UNCHANGED nvs_open
  /\ UNCHANGED <<nvs, flags, driver, handler>>

MarkCleared ==
  /\ At("mark_cleared") /\ GoTo("disconnect_cleared")
  /\ saved' = FALSE /\ connected' = FALSE /\ sta_ssid' = Absent
  /\ UNCHANGED <<nvs, nvs_open, initialized, driver, handler>>

DisconnectCleared ==
  /\ At("disconnect_cleared") /\ Return
  /\ EspWifiDisconnect
  /\ UNCHANGED <<nvs, nvs_open, flags, config, handler>>

WebTask ==
  \/ SaveSsid \/ SavePassword \/ MarkUnsaved \/ Disconnect \/ SetConfig
  \/ MarkSaved \/ Connect
  \/ EraseNvs \/ ReopenNvs \/ MarkCleared \/ DisconnectCleared

Request ==
  /\ Len(events) < MaxEvents
  /\ ClearCredentials \/ \E pair \in Pairs : SetCredentials(pair)

Next ==
  \/ EraseAtStart \/ WifiManagerInit \/ PowerLoss
  \/ RouterAccepts \/ LinkFails
  \/ EventTask \/ WebTask \/ Request

Spec == Init /\ [][Next]_vars

\* The event task and the web server's task run when they have work; an attempt
\* repeated for ever meets a router that accepts the pair.
FairSpec == Spec /\ WF_vars(EventTask) /\ WF_vars(WebTask) /\ SF_vars(RouterAccepts)

-----------------------------------------------------------------------------
(* Properties *)

Idle  == initialized /\ At("none")
Quiet == Idle /\ handler = "wait" /\ events = <<>>

\* Once no call is running and every event has been handled, the status that the
\* web page and network_services_task read is the driver's, whatever stale events
\* the handler met during a call.
StatusTrue ==
  Quiet => (connected <=> phase = "online") /\ (saved => sta_ssid = config.ssid)

\* A station with credentials is never left idle: either the call that set them
\* or the handler of a disconnection has started an attempt.
NeverStalls == Quiet /\ saved => phase \in {"connecting", "online"}

\* Credentials that a call has written to NVS are the ones in use when it returns:
\* the handler never starts an attempt that makes the driver refuse them.
StoredIsUsed ==
  Idle /\ call.stored => saved /\ config = call.given /\ nvs = call.given

\* The station gets online again after any number of failures, unless a call or a
\* power cut comes in between.
Reconnects ==
  Idle /\ saved /\ config \in Valid ~> connected \/ ~Idle
=============================================================================
