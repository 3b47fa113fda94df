----------------------------- MODULE Wifi_proofs -----------------------------
(***************************************************************************)
(* WifiManager for every set of credentials and every router: after any    *)
(* interleaving of the web server, the event task and the driver, the      *)
(* status is true, the station is not left idle, and stored credentials    *)
(* are in use.                                                             *)
(***************************************************************************)
EXTENDS WifiManager, TLAPS

\* What holds inside a call.  From the first critical section of set to the
\* second s_credentials_saved is false, so the handler starts no attempt.
CallInv ==
  /\ initialized => phase # "stopped"
  /\ ~initialized => call = NoCall /\ ~connected /\ events = <<>> /\ phase = "stopped"
  /\ call.step \in {"disconnect", "set_config", "mark_saved", "disconnect_cleared"} => ~saved
  /\ call.step \in {"set_config", "mark_saved"} => phase = "idle"
  /\ call.step = "save_password" => nvs.ssid = call.given.ssid
  /\ call.step = "mark_saved" => config = call.given
  /\ call.stored =>
       /\ nvs = call.given
       /\ call.step \in {"none", "mark_unsaved", "disconnect", "set_config", "mark_saved", "connect"}
       /\ call.step \in {"none", "connect"} => saved /\ config = call.given

\* The status once the queued events are handled: the last one decides.
LastStatus == IF events = <<>> THEN connected ELSE events[Len(events)] = "got_ip"

\* It differs from the driver only between marking and ending a connection.
StatusInv ==
  /\ LastStatus => phase = "online"
  /\ phase = "online" => LastStatus \/ call.step \in {"disconnect", "disconnect_cleared"}
  /\ \A i \in 2..Len(events) : events[i] # "start"
  /\ events # <<>> /\ events[1] = "start" => ~connected
  /\ saved => sta_ssid = config.ssid

\* An idle station with credentials has someone left who will start an attempt.
StallInv ==
  saved /\ phase = "idle" =>
    \/ \E i \in 1..Len(events) : events[i] # "got_ip"
    \/ handler = "reconnect" \/ call.step = "connect"

IInv == TypeOK /\ CallInv /\ StatusInv /\ StallInv

-----------------------------------------------------------------------------
LEMMA NoCallType ==
  /\ NoPair \in [ssid : Ssids \cup {Absent}, password : Passwords \cup {Absent}]
  /\ NoCall \in [step : Step, given : Pairs \cup {NoPair}, stored : BOOLEAN]
  /\ \A step \in Step : [NoCall EXCEPT !.step = step]
                        \in [step : Step, given : Pairs \cup {NoPair}, stored : BOOLEAN]
<1>1. NoPair \in [ssid : Ssids \cup {Absent}, password : Passwords \cup {Absent}]
  BY DEF NoPair
<1>2. "none" \in Step
  BY DEF Step
<1>3. NoCall \in [step : Step, given : Pairs \cup {NoPair}, stored : BOOLEAN]
  BY <1>2 DEF NoCall
<1> QED
  BY <1>1, <1>3

LEMMA TypeInit == Init => TypeOK
<1> SUFFICES ASSUME Init PROVE TypeOK
  OBVIOUS
<1>1. events \in Seq(Event) /\ call \in [step : Step, given : Pairs \cup {NoPair}, stored : BOOLEAN]
  BY NoCallType DEF Init
<1>2. nvs \in [ssid : Ssids \cup {Absent}, password : Passwords \cup {Absent}]
  BY NoCallType DEF Init
<1> QED
  BY <1>1, <1>2 DEF Init, TypeOK

LEMMA TypeConnect ==
  ASSUME TypeOK, EspWifiConnect \/ UNCHANGED phase
  PROVE  phase' \in {"stopped", "idle", "connecting", "online"}
BY DEF TypeOK, EspWifiConnect

LEMMA TypeEvents == TypeOK /\ EventTask => TypeOK'
<1> SUFFICES ASSUME TypeOK, EventTask PROVE TypeOK'
  OBVIOUS
<1>1. events' \in Seq(Event)
  <2>1. events # <<>> => Tail(events) \in Seq(Event)
    BY DEF TypeOK
  <2> QED
    BY <2>1 DEF TypeOK, EventTask, HandleStart, HandleGotIp, HandleDisconnected, Reconnect, Handle
<1>2. phase' \in {"stopped", "idle", "connecting", "online"}
  BY TypeConnect DEF EventTask, HandleStart, HandleGotIp, HandleDisconnected, Reconnect
<1>3. connected' \in BOOLEAN /\ handler' \in {"wait", "reconnect"}
  BY DEF TypeOK, EventTask, HandleStart, HandleGotIp, HandleDisconnected, Reconnect, Handle, flags
<1>4. UNCHANGED <<nvs, nvs_open, initialized, saved, sta_ssid, config, call>>
  BY DEF EventTask, HandleStart, HandleGotIp, HandleDisconnected, Reconnect, Handle, flags
<1> QED
  BY <1>1, <1>2, <1>3, <1>4 DEF TypeOK

LEMMA TypeDriver == TypeOK /\ (RouterAccepts \/ LinkFails) => TypeOK'
<1> SUFFICES ASSUME TypeOK, RouterAccepts \/ LinkFails PROVE TypeOK'
  OBVIOUS
<1>1. events' \in Seq(Event) /\ phase' \in {"idle", "online"}
  BY DEF TypeOK, RouterAccepts, LinkFails, Post, Event
<1>2. UNCHANGED <<nvs, nvs_open, flags, config, handler, call>>
  BY DEF RouterAccepts, LinkFails
<1> QED
  BY <1>1, <1>2 DEF TypeOK, flags

LEMMA TypeDisconnect ==
  ASSUME TypeOK, EspWifiDisconnect
  PROVE  phase' \in {"stopped", "idle", "connecting", "online"} /\ events' \in Seq(Event)
BY DEF TypeOK, EspWifiDisconnect, Post, Event

\* A step of a call moves on to another step; its pair stays.
LEMMA TypeCall ==
  ASSUME TypeOK, NEW step \in Step, GoTo(step)
  PROVE  call' \in [step : Step, given : Pairs \cup {NoPair}, stored : BOOLEAN]
BY DEF TypeOK, GoTo

LEMMA WebGoes == TypeOK /\ WebTask =>
  call' \in [step : Step, given : Pairs \cup {NoPair}, stored : BOOLEAN]
<1> SUFFICES ASSUME TypeOK, WebTask
             PROVE  call' \in [step : Step, given : Pairs \cup {NoPair}, stored : BOOLEAN]
  OBVIOUS
<1>1. CASE call' = [call EXCEPT !.step = "mark_unsaved", !.stored = TRUE]
  BY <1>1 DEF TypeOK, Step
<1>2. CASE \E step \in Step : GoTo(step)
  BY <1>2, TypeCall
<1> QED
  BY <1>1, <1>2 DEF WebTask, SaveSsid, SavePassword, MarkUnsaved, Disconnect, SetConfig,
     MarkSaved, Connect, EraseNvs, ReopenNvs, MarkCleared, DisconnectCleared, Return, Step

LEMMA TypeWeb == TypeOK /\ WebTask => TypeOK'
<1> SUFFICES ASSUME TypeOK, WebTask PROVE TypeOK'
  OBVIOUS
<1> USE DEF flags, driver
<1>g. call' \in [step : Step, given : Pairs \cup {NoPair}, stored : BOOLEAN]
  BY WebGoes
<1>n. /\ call.given.ssid \in Ssids \cup {Absent}
      /\ call.given.password \in Passwords \cup {Absent}
      /\ call.given \in Pairs \cup {NoPair}
  BY DEF TypeOK, Pairs, NoPair
<1>1. CASE SaveSsid
  <2>1. nvs' \in [ssid : Ssids \cup {Absent}, password : Passwords \cup {Absent}]
    BY <1>1, <1>n DEF SaveSsid, TypeOK
  <2> QED
    BY <1>1, <1>g, <2>1 DEF SaveSsid, TypeOK
<1>2. CASE SavePassword
  <2>1. nvs' \in [ssid : Ssids \cup {Absent}, password : Passwords \cup {Absent}]
    BY <1>2, <1>n DEF SavePassword, TypeOK
  <2> QED
    BY <1>2, <1>g, <2>1 DEF SavePassword, TypeOK
<1>3. CASE MarkUnsaved \/ Disconnect \/ DisconnectCleared
  BY <1>3, <1>g, TypeDisconnect DEF MarkUnsaved, Disconnect, DisconnectCleared, TypeOK
<1>4. CASE SetConfig \/ MarkSaved
  BY <1>4, <1>g, <1>n DEF SetConfig, MarkSaved, TypeOK
<1>5. CASE Connect
  BY <1>5, <1>g, TypeConnect DEF Connect, TypeOK
<1>6. CASE EraseNvs
  BY <1>6, <1>g, NoCallType DEF EraseNvs, TypeOK
<1>7. CASE ReopenNvs \/ MarkCleared
  BY <1>7, <1>g DEF ReopenNvs, MarkCleared, TypeOK
<1> QED
  BY <1>1, <1>2, <1>3, <1>4, <1>5, <1>6, <1>7 DEF WebTask

LEMMA TypeStep == TypeOK /\ [Next]_vars => TypeOK'
<1> SUFFICES ASSUME TypeOK, [Next]_vars PROVE TypeOK'
  OBVIOUS
<1>1. CASE WifiManagerInit
  <2>1. Loadable => nvs \in Pairs
    BY AbsentAssumption DEF TypeOK, Loadable, Pairs
  <2>2. config' \in Pairs \cup {NoPair} /\ sta_ssid' \in Ssids \cup {Absent}
    BY <1>1, <2>1 DEF WifiManagerInit, TypeOK
  <2>3. saved' \in BOOLEAN
    BY <1>1 DEF WifiManagerInit
  <2> QED
    BY <1>1, <2>2, <2>3 DEF WifiManagerInit, TypeOK, Event
<1>2. CASE PowerLoss
  <2>1. /\ call' \in [step : Step, given : Pairs \cup {NoPair}, stored : BOOLEAN]
        /\ events' \in Seq(Event)
    BY <1>2, NoCallType DEF PowerLoss, Off
  <2> QED
    BY <1>2, <2>1 DEF PowerLoss, Off, TypeOK
<1>3. CASE Request
  <2>1. CASE ClearCredentials
    BY <2>1, NoCallType, "erase" \in Step DEF ClearCredentials, TypeOK, flags, driver, Step
  <2>2. ASSUME NEW pair \in Pairs, SetCredentials(pair) PROVE TypeOK'
    <3>1. call' \in [step : Step, given : Pairs \cup {NoPair}, stored : BOOLEAN]
      BY <2>2 DEF SetCredentials, Step
    <3> QED
      BY <2>2, <3>1 DEF SetCredentials, TypeOK, flags, driver
  <2> QED
    BY <1>3, <2>1, <2>2 DEF Request
<1>4. CASE EraseAtStart
  BY <1>4, NoCallType DEF EraseAtStart, flags, driver, TypeOK
<1>5. CASE UNCHANGED vars
  BY <1>5 DEF vars, flags, driver, TypeOK
<1> QED
  BY <1>1, <1>2, <1>3, <1>4, <1>5, TypeDriver, TypeEvents, TypeWeb DEF Next

-----------------------------------------------------------------------------
(* Calls *)

LEMMA Goes ==
  ASSUME TypeOK, NEW step, GoTo(step)
  PROVE  call'.step = step /\ call'.given = call.given /\ call'.stored = call.stored
BY DEF TypeOK, GoTo

LEMMA Stores ==
  ASSUME TypeOK, CallInv, SavePassword, call'.step # "none"
  PROVE  /\ call'.step = "mark_unsaved" /\ call'.given = call.given
         /\ initialized /\ nvs' = call'.given
<1>1. /\ call' = [call EXCEPT !.step = "mark_unsaved", !.stored = TRUE]
      /\ nvs' = [nvs EXCEPT !.password = call.given.password]
  BY Goes DEF SavePassword, Return
<1>2. call'.step = "mark_unsaved" /\ call'.given = call.given
  BY <1>1 DEF TypeOK
<1>3. nvs'.ssid = call.given.ssid /\ nvs'.password = call.given.password
  BY <1>1 DEF SavePassword, At, CallInv, TypeOK
<1>4. /\ nvs' = [ssid |-> nvs'.ssid, password |-> nvs'.password]
      /\ call.given = [ssid |-> call.given.ssid, password |-> call.given.password]
  BY <1>1 DEF TypeOK, Pairs, NoPair
<1>5. initialized
  BY DEF SavePassword, At, CallInv, NoCall
<1> QED
  BY <1>2, <1>3, <1>4, <1>5

LEMMA CallStep == TypeOK /\ CallInv /\ [Next]_vars => CallInv'
<1> SUFFICES ASSUME TypeOK, CallInv, [Next]_vars PROVE CallInv'
  OBVIOUS
<1> USE DEF At, Return, flags, driver
<1>1. CASE EraseAtStart \/ WifiManagerInit \/ PowerLoss
  BY <1>1 DEF EraseAtStart, WifiManagerInit, PowerLoss, Off, CallInv, NoCall
<1>2. CASE RouterAccepts \/ LinkFails
  BY <1>2 DEF RouterAccepts, LinkFails, CallInv
<1>3. CASE EventTask
  BY <1>3 DEF EventTask, HandleStart, HandleGotIp, HandleDisconnected, Reconnect, Handle,
     EspWifiConnect, CallInv
<1>4. CASE Request
  BY <1>4 DEF Request, ClearCredentials, SetCredentials, NoCall, CallInv
<1>5. CASE SaveSsid
  <2>1. nvs_open /\ GoTo("save_password") /\ nvs' = [nvs EXCEPT !.ssid = call.given.ssid]
        => nvs'.ssid = call'.given.ssid
    BY Goes DEF TypeOK
  <2>2. ~call.stored /\ initialized
    BY <1>5 DEF SaveSsid, CallInv, NoCall
  <2> QED
    BY <1>5, <2>1, <2>2, Goes DEF SaveSsid, CallInv
<1>6. CASE SavePassword
  <2>1. ~call.stored /\ initialized
    BY <1>6 DEF SavePassword, CallInv, NoCall
  <2>2. CASE call'.step = "none"
    <3>1. ~call'.stored
      BY <1>6, <2>1, <2>2, Goes DEF SavePassword, TypeOK
    <3> QED
      BY <1>6, <2>1, <2>2, <3>1 DEF SavePassword, CallInv
  <2>3. CASE call'.step # "none"
    BY <1>6, <2>3, Stores DEF SavePassword, CallInv
  <2> QED
    BY <2>2, <2>3
<1>7. CASE MarkUnsaved \/ Disconnect
  BY <1>7, Goes DEF MarkUnsaved, Disconnect, EspWifiDisconnect, CallInv, NoCall, TypeOK
<1>8. CASE SetConfig \/ MarkSaved \/ Connect
  BY <1>8, Goes DEF SetConfig, MarkSaved, Connect, EspWifiConnect, CallInv, NoCall, TypeOK
<1>9. CASE EraseNvs \/ ReopenNvs \/ MarkCleared \/ DisconnectCleared
  BY <1>9, Goes DEF EraseNvs, ReopenNvs, MarkCleared, DisconnectCleared, EspWifiDisconnect,
     CallInv, NoCall, TypeOK
<1>10. CASE UNCHANGED vars
  BY <1>10 DEF vars, CallInv
<1> QED
  BY <1>1, <1>2, <1>3, <1>4, <1>5, <1>6, <1>7, <1>8, <1>9, <1>10 DEF Next, WebTask

-----------------------------------------------------------------------------
(* The queue of events *)

LEMMA Posted ==
  ASSUME TypeOK, NEW event \in Event, Post(event)
  PROVE  /\ events' # <<>> /\ Len(events') = Len(events) + 1
         /\ events'[Len(events')] = event
         /\ \A i \in 1..Len(events) : events'[i] = events[i]
BY DEF TypeOK, Post

LEMMA Handled ==
  ASSUME TypeOK, NEW event, Handle(event)
  PROVE  /\ events # <<>> /\ events[1] = event /\ Len(events) >= 1
         /\ Len(events') = Len(events) - 1
         /\ \A i \in 1..Len(events') : events'[i] = events[i + 1]
         /\ events' = <<>> <=> Len(events) = 1
<1>1. events \in Seq(Event) /\ events # <<>> /\ Head(events) = event /\ events' = Tail(events)
  BY DEF TypeOK, Handle
<1>2. Len(events) \in Nat \ {0} /\ events[1] = event
  BY <1>1
<1>3. /\ Len(events') = Len(events) - 1
      /\ \A i \in 1..Len(events') : events'[i] = events[i + 1]
  BY <1>1, <1>2
<1>4. events' = <<>> <=> Len(events') = 0
  <2>1. events' \in Seq(Event)
    BY <1>1
  <2> QED
    BY <2>1
<1> QED
  BY <1>1, <1>2, <1>3, <1>4

\* Handling an event leaves the last one last.
LEMMA LastStays ==
  ASSUME TypeOK, StatusInv, NEW event, Handle(event)
  PROVE  /\ events' # <<>> => (LastStatus' <=> LastStatus)
         /\ events' = <<>> => (LastStatus' <=> connected') /\ (LastStatus <=> event = "got_ip")
         /\ \A i \in 2..Len(events') : events'[i] # "start"
         /\ events' # <<>> => events'[1] # "start"
<1>1. events' # <<>> => events'[Len(events')] = events[Len(events)]
  BY Handled DEF TypeOK
<1>2. events' = <<>> => events[Len(events)] = event
  BY Handled
<1>3. \A i \in 1..Len(events') : events'[i] # "start"
  BY Handled DEF StatusInv, TypeOK
<1>4. events' # <<>> => 1 \in 1..Len(events')
  BY Handled DEF TypeOK
<1> QED
  BY <1>1, <1>2, <1>3, <1>4, Handled DEF LastStatus

LEMMA StatusStep == TypeOK /\ CallInv /\ StatusInv /\ [Next]_vars => StatusInv'
<1> SUFFICES ASSUME TypeOK, CallInv, StatusInv, [Next]_vars PROVE StatusInv'
  OBVIOUS
<1> USE DEF flags, driver
<1>1. CASE WifiManagerInit \/ PowerLoss
  <2>0. saved' => sta_ssid' = config'.ssid
    BY <1>1 DEF WifiManagerInit, PowerLoss, Off
  <2>1. events' = <<>> \/ (events' = <<"start">> /\ ~connected')
    BY <1>1 DEF WifiManagerInit, PowerLoss, Off, CallInv
  <2> QED
    BY <1>1, <2>0, <2>1 DEF WifiManagerInit, PowerLoss, Off, StatusInv, LastStatus
<1>2. CASE RouterAccepts \/ LinkFails
  BY <1>2, Posted DEF RouterAccepts, LinkFails, StatusInv, LastStatus, TypeOK, Event
<1>3. CASE HandleStart
  BY <1>3, LastStays, Handled DEF HandleStart, Handle, EspWifiConnect, StatusInv
<1>4. CASE HandleGotIp
  BY <1>4, LastStays, Handled DEF HandleGotIp, Handle, StatusInv
<1>5. CASE HandleDisconnected
  BY <1>5, LastStays, Handled DEF HandleDisconnected, Handle, StatusInv
<1>6. CASE Reconnect \/ Connect
  BY <1>6, Goes DEF Reconnect, Connect, Return, At, EspWifiConnect, StatusInv, LastStatus
<1>7. CASE Request \/ SaveSsid \/ SavePassword \/ EraseNvs \/ ReopenNvs
  BY <1>7, Goes DEF Request, SetCredentials, ClearCredentials, SaveSsid, SavePassword,
     EraseNvs, ReopenNvs, At, StatusInv, LastStatus
<1>8. CASE MarkUnsaved \/ MarkCleared
  BY <1>8, Goes DEF MarkUnsaved, MarkCleared, At, StatusInv, LastStatus
<1>9. CASE Disconnect \/ DisconnectCleared
  <2>1. CASE phase \in {"connecting", "online"}
    BY <1>9, <2>1, Posted DEF Disconnect, DisconnectCleared, EspWifiDisconnect, CallInv, At,
       StatusInv, LastStatus, TypeOK, Event
  <2>2. CASE phase \notin {"connecting", "online"}
    BY <1>9, <2>2 DEF Disconnect, DisconnectCleared, EspWifiDisconnect, CallInv, At,
       StatusInv, LastStatus
  <2> QED
    BY <2>1, <2>2
<1>10. CASE SetConfig \/ MarkSaved
  BY <1>10 DEF SetConfig, MarkSaved, CallInv, At, StatusInv, LastStatus
<1>11. CASE EraseAtStart \/ UNCHANGED vars
  BY <1>11 DEF EraseAtStart, vars, StatusInv, LastStatus
<1> QED
  BY <1>1, <1>2, <1>3, <1>4, <1>5, <1>6, <1>7, <1>8, <1>9, <1>10, <1>11
  DEF Next, EventTask, WebTask

-----------------------------------------------------------------------------
(* No stall *)

LEMMA StallStep == TypeOK /\ CallInv /\ StallInv /\ [Next]_vars => StallInv'
<1> SUFFICES ASSUME TypeOK, CallInv, StallInv, [Next]_vars, saved', phase' = "idle"
             PROVE  \/ \E i \in 1..Len(events') : events'[i] # "got_ip"
                    \/ handler' = "reconnect" \/ call'.step = "connect"
  BY DEF StallInv
<1> USE DEF flags, driver
<1>1. CASE WifiManagerInit
  <2>1. events' = <<"start">>
    BY <1>1 DEF WifiManagerInit
  <2> QED
    BY <2>1
<1>2. CASE PowerLoss \/ MarkUnsaved \/ MarkCleared
  BY <1>2 DEF PowerLoss, Off, MarkUnsaved, MarkCleared
<1>3. CASE RouterAccepts
  BY <1>3 DEF RouterAccepts
<1>4. CASE LinkFails
  BY <1>4, Posted, "disconnected" \in Event DEF LinkFails, TypeOK, Event
<1>5. CASE HandleStart \/ Reconnect \/ Connect
  BY <1>5 DEF HandleStart, Handle, Reconnect, Connect, EspWifiConnect
<1>6. CASE HandleGotIp
  <2>1. Handle("got_ip") /\ phase = "idle" /\ saved
    BY <1>6 DEF HandleGotIp, Handle
  <2>2. \A i \in 1..Len(events) : events[i] # "got_ip" => i - 1 \in 1..Len(events') /\ events'[i - 1] = events[i]
    BY <2>1, Handled DEF TypeOK
  <2> QED
    BY <1>6, <2>1, <2>2 DEF HandleGotIp, Handle, StallInv
<1>7. CASE HandleDisconnected
  BY <1>7 DEF HandleDisconnected
<1>8. CASE Disconnect \/ DisconnectCleared
  BY <1>8 DEF Disconnect, DisconnectCleared, At, CallInv
<1>9. CASE Request \/ SaveSsid \/ SavePassword \/ EraseNvs \/ ReopenNvs
  BY <1>9 DEF Request, SetCredentials, ClearCredentials, SaveSsid, SavePassword, EraseNvs,
     ReopenNvs, At, StallInv
<1>10. CASE SetConfig
  BY <1>10 DEF SetConfig, At, CallInv
<1>11. CASE MarkSaved
  BY <1>11, Goes DEF MarkSaved
<1>12. CASE EraseAtStart \/ UNCHANGED vars
  BY <1>12 DEF EraseAtStart, vars, StallInv
<1> QED
  BY <1>1, <1>2, <1>3, <1>4, <1>5, <1>6, <1>7, <1>8, <1>9, <1>10, <1>11, <1>12
  DEF Next, EventTask, WebTask

-----------------------------------------------------------------------------
LEMMA Invariance == Spec => []IInv
<1>1. Init => IInv
  BY TypeInit DEF Init, IInv, CallInv, StatusInv, StallInv, LastStatus, NoCall, NoPair
<1>2. IInv /\ [Next]_vars => IInv'
  BY TypeStep, CallStep, StatusStep, StallStep DEF IInv
<1> QED
  BY <1>1, <1>2, PTL DEF Spec

\* The variables of the Wi-Fi manager keep their types.
THEOREM WifiTypes == Spec => []TypeOK
<1>1. IInv => TypeOK
  BY DEF IInv
<1> QED
  BY <1>1, Invariance, PTL

\* The status that other tasks read is the driver's once every event is handled,
\* for every interleaving of calls, events and link failures.
THEOREM StatusIsTrue == Spec => []StatusTrue
<1>1. IInv => StatusTrue
  BY DEF IInv, StatusInv, LastStatus, StatusTrue, Quiet, Idle, At
<1> QED
  BY <1>1, Invariance, PTL

\* A station with credentials is never left without an attempt.
THEOREM StationNeverStalls == Spec => []NeverStalls
<1>1. IInv => NeverStalls
  BY DEF IInv, TypeOK, CallInv, StallInv, NeverStalls, Quiet, Idle, At
<1> QED
  BY <1>1, Invariance, PTL

\* The driver never refuses credentials that a call has stored.
THEOREM StoredAreUsed == Spec => []StoredIsUsed
<1>1. IInv => StoredIsUsed
  BY DEF IInv, CallInv, StoredIsUsed, Idle, At
<1> QED
  BY <1>1, Invariance, PTL
=============================================================================
