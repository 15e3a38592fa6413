---------------------------- MODULE OnlineProofs -----------------------------
(***************************************************************************)
(* Proofs about the device's way online: the bring-up (DeviceStart) and the *)
(* station below it (StaConnect).                                           *)
(*                                                                          *)
(* DeviceStart: the p2p thread is created before the media info and the     *)
(* ring buffers exist; it meets them because every way to its flag leads    *)
(* through a running SDK, and the SDK runs only after them.                 *)
(*                                                                          *)
(* StaConnect: events are anonymous and late, but in order.  A CONNECTED on *)
(* the monitor socket is followed there by the loss of its link, if it was  *)
(* lost, and the event thread takes one event at a time.                    *)
(***************************************************************************)
EXTENDS DeviceStart, StaConnect, SequenceTheorems, TLAPS

\* The inductive form of StartTypeOK: a thread that still asks for the time has a
\* try left.
StartTypes ==
    /\ StartTypeOK
    /\ main = "create" => thread = "none"
    /\ thread \in {"wait", "none"} => tries = 0
    /\ thread = "sync" => tries < SyncTries

LEMMA StartTypesStep == ASSUME StartTypes, [StartNext]_startVars PROVE StartTypes'
<1> USE StartAssumption DEF StartTypes, StartTypeOK, bringUp, worker, station
<1>1. CASE CreateThread
  BY <1>1 DEF CreateThread
<1>2. CASE InitSdk
  BY <1>2 DEF InitSdk
<1>3. CASE SetMedia
  <2>1. media' \in BOOLEAN /\ ring' \in BOOLEAN
    BY <1>3, Zenon DEF SetMedia
  <2>2. main = "media" /\ main' \in {"start", "serving"}
        /\ UNCHANGED <<thread, tries, p2p, online, sdk, ssid, count, link, ap>>
    BY <1>3 DEF SetMedia
  <2>3. QED
    BY <2>1, <2>2
<1>4. CASE StartSdk
  <2>1. sdk' \in BOOLEAN
    BY <1>4, Zenon DEF StartSdk
  <2>2. main = "start" /\ main' \in {"sweeper", "serving"}
        /\ UNCHANGED <<thread, tries, p2p, online, media, ring, ssid, count, link, ap>>
    BY <1>4 DEF StartSdk
  <2>3. QED
    BY <2>1, <2>2
<1>5. CASE InitSweeper
  BY <1>5 DEF InitSweeper
<1>6. CASE StatusOnline
  BY <1>6 DEF StatusOnline
<1>7. CASE DPCommand
  BY <1>7 DEF DPCommand
<1>8. CASE WaitOnline
  BY <1>8 DEF WaitOnline
<1>9. CASE Sync
  BY <1>9 DEF Sync
<1>10. CASE InitP2p
  BY <1>10 DEF InitP2p
<1>11. CASE StationConnect
  <2>1. ssid' \in BOOLEAN /\ link' \in BOOLEAN
    BY <1>11, Zenon DEF StationConnect
  <2>2. UNCHANGED <<main, media, ring, thread, tries, p2p, online, sdk, count, ap>>
    BY <1>11 DEF StationConnect
  <2>3. QED
    BY <2>1, <2>2
<1>12. CASE PollDown
  BY <1>12 DEF PollDown
<1>13. CASE PollReconnects
  BY <1>13 DEF PollReconnects
<1>14. CASE Air
  <2>1. ap' \in BOOLEAN /\ link' \in BOOLEAN
    BY <1>14, Zenon DEF Air
  <2>2. UNCHANGED <<main, media, ring, thread, tries, p2p, online, sdk, ssid, count>>
    BY <1>14 DEF Air
  <2>3. QED
    BY <2>1, <2>2
<1>15. CASE UNCHANGED startVars
  BY <1>15 DEF startVars
<1>16. QED
  BY <1>1, <1>2, <1>3, <1>4, <1>5, <1>6, <1>7, <1>8, <1>9,
     <1>10, <1>11, <1>12, <1>13, <1>14, <1>15 DEF StartNext

\* Type correctness; in particular the time requests and the polls of a lost
\* link stay within their limits.
THEOREM StartTypeCorrect == StartSpec => []StartTypeOK
<1>1. StartInit => StartTypes
  <2> SUFFICES ASSUME StartInit PROVE StartTypes
    OBVIOUS
  <2>1. tries \in 0..SyncTries /\ count \in 0..Polls /\ tries = 0
    BY StartAssumption DEF StartInit
  <2>2. QED
    BY <2>1, Zenon DEF StartInit, StartTypes, StartTypeOK
<1>2. StartTypes /\ [StartNext]_startVars => StartTypes'
  BY StartTypesStep
<1>3. StartTypes => StartTypeOK
  BY DEF StartTypes
<1>4. QED
  BY <1>1, <1>2, <1>3, PTL DEF StartSpec

----------------------------------------------------------------------------
\* The inductive form of P2pSeesMedia: the flag implies a running SDK, and that
\* the media info and the ring buffers; nothing takes them away again.
MediaFirst ==
    /\ main \in {"start", "sweeper"} => media /\ ring
    /\ sdk => media /\ ring
    /\ online => sdk
    /\ thread \in {"sync", "p2p", "end"} => online
    /\ P2pSeesMedia

LEMMA MediaStep == ASSUME StartTypeOK, StartTypeOK', MediaFirst, [StartNext]_startVars PROVE MediaFirst'
<1> USE DEF StartTypeOK, MediaFirst, P2pSeesMedia, bringUp, worker, station
<1>1. CASE CreateThread
  BY <1>1 DEF CreateThread
<1>2. CASE InitSdk
  BY <1>2 DEF InitSdk
<1>3. CASE SetMedia
  BY <1>3 DEF SetMedia
<1>4. CASE StartSdk
  BY <1>4 DEF StartSdk
<1>5. CASE InitSweeper
  BY <1>5 DEF InitSweeper
<1>6. CASE StatusOnline
  BY <1>6 DEF StatusOnline
<1>7. CASE DPCommand
  BY <1>7 DEF DPCommand
<1>8. CASE WaitOnline
  BY <1>8 DEF WaitOnline
<1>9. CASE Sync
  BY <1>9 DEF Sync
<1>10. CASE InitP2p
  BY <1>10 DEF InitP2p
<1>11. CASE StationConnect
  BY <1>11 DEF StationConnect
<1>12. CASE PollDown
  BY <1>12 DEF PollDown
<1>13. CASE PollReconnects
  BY <1>13 DEF PollReconnects
<1>14. CASE Air
  BY <1>14 DEF Air
<1>15. CASE UNCHANGED startVars
  BY <1>15 DEF startVars
<1>16. QED
  BY <1>1, <1>2, <1>3, <1>4, <1>5, <1>6, <1>7, <1>8, <1>9,
     <1>10, <1>11, <1>12, <1>13, <1>14, <1>15 DEF StartNext

\* The p2p transfer is set up with media info and ring buffers in place, in any
\* interleaving of the start, its failures, the callbacks and the thread.
THEOREM P2pAfterMedia == StartSpec => []P2pSeesMedia
<1>1. StartInit => MediaFirst
  BY DEF StartInit, MediaFirst, P2pSeesMedia
<1>2. StartTypeOK /\ StartTypeOK' /\ MediaFirst /\ [StartNext]_startVars => MediaFirst'
  BY MediaStep
<1>3. MediaFirst => P2pSeesMedia
  BY DEF MediaFirst
<1>4. QED
  BY StartTypeCorrect, <1>1, <1>2, <1>3, PTL DEF StartSpec

----------------------------------------------------------------------------
(* StaConnect.                                                              *)

SupEvents == Events \ {"DHCP_START", "DHCP_SUCCESS", "DHCP_TIMEOUT"}
Connecting == {"exist", "already", "remove", "clear", "select", "read", "finish"}

\* The inductive form of TypeOK: a connect call has a target, and the monitor
\* socket brings what wpa_supplicant sends.
StaTypes ==
    /\ TypeOK
    /\ wpc \in Connecting => target \in APs
    /\ mon \in Seq(SupEvents)

IsLoss(e) == e \in {"DISCONNECTED", "TERMINATING"}

\* The station is associated, or an event that says it is not comes after
\* the first n of the monitor socket.
LinkedAfter(n) == assoc # NoAP \/ \E i \in DOMAIN mon : i > n /\ IsLoss(mon[i])

\* The event thread works on a CONNECTED event, up to the state it ends in.
Following ==
    \/ epc \in {"sleep", "dhcp"}
    \/ epc \in {"send", "state"} /\ ev \in {"CONNECTED", "DHCP_START", "DHCP_SUCCESS"}

\* The inductive form of NetConnectedReal.  A DHCP_SUCCESS may be sent without
\* asking the network (DhcpKeep), so the argument starts with the CONNECTED
\* that led to it: the loss of that link, if it is lost, is an event behind it.
Linked ==
    /\ \A i \in DOMAIN mon : mon[i] = "CONNECTED" => LinkedAfter(i)
    /\ Following => LinkedAfter(0)
    /\ NetConnectedReal

\* The inductive form of SuccessIsNews: from evt_socket_clear on, a DHCP_SUCCESS
\* on the socket was sent during the call, and nothing else makes it succeed.
Answered ==
    /\ wpc \in Connecting \ {"finish"} => ret # "SUCCESS"
    /\ wpc \in {"select", "read"} => \A i \in DOMAIN sock : sock[i] = "DHCP_SUCCESS" => news
    /\ wpc = "finish" /\ ret = "SUCCESS" => news

\* The events of the monitor socket after a step of anyone but its reader: they
\* have grown, by a CONNECTED only with an association and by the news of a
\* loss when the association went.
Grown ==
    /\ Len(mon') \in Nat /\ Len(mon') >= Len(mon)
    /\ \A i \in 1..Len(mon) : mon'[i] = mon[i]
    /\ \A i \in 1..Len(mon') : i > Len(mon) /\ mon'[i] = "CONNECTED" => assoc' # NoAP
    /\ assoc # NoAP /\ assoc' = NoAP =>
          \E i \in 1..Len(mon') : i > Len(mon) /\ IsLoss(mon'[i])

\* The types of what wpa_supplicant owns.
SuppTypes ==
    /\ mon \in Seq(SupEvents) /\ nets \subseteq APs
    /\ sel \in Anywhere /\ assoc \in Anywhere /\ halted \in BOOLEAN

\* A sequence with one more event.
LEMMA OneMore ==
  ASSUME NEW S, NEW s \in Seq(S), NEW e \in S
  PROVE  /\ Append(s, e) \in Seq(S)
         /\ Len(s) \in Nat /\ Len(Append(s, e)) = Len(s) + 1
         /\ \A i \in 1..Len(s) : Append(s, e)[i] = s[i]
         /\ Append(s, e)[Len(s) + 1] = e
BY AppendProperties, LenProperties

\* A sequence without its first event.
LEMMA OneLess ==
  ASSUME NEW S, NEW s \in Seq(S), s # << >>
  PROVE  /\ Head(s) \in S /\ Tail(s) \in Seq(S)
         /\ Len(s) \in Nat /\ Len(s) >= 1 /\ Len(Tail(s)) = Len(s) - 1
         /\ \A i \in 1..Len(Tail(s)) : Tail(s)[i] = s[i + 1]
         /\ Head(s) = s[1]
BY HeadTailProperties, LenProperties, EmptySeq

\* One event of wpa_supplicant.
LEMMA EventSent ==
  ASSUME mon \in Seq(SupEvents), NEW e \in SupEvents, mon' = Append(mon, e),
         e = "CONNECTED" => assoc' # NoAP,
         assoc # NoAP /\ assoc' = NoAP => IsLoss(e)
  PROVE  mon' \in Seq(SupEvents) /\ Grown
<1> HIDE DEF SupEvents
<1>1. /\ mon' \in Seq(SupEvents)
      /\ Len(mon) \in Nat /\ Len(mon') = Len(mon) + 1
      /\ \A i \in 1..Len(mon) : mon'[i] = mon[i]
      /\ mon'[Len(mon) + 1] = e
  BY OneMore
<1>2. \A i \in 1..Len(mon') : i > Len(mon) => i = Len(mon) + 1
  BY <1>1
<1>3. Len(mon) + 1 \in 1..Len(mon') /\ Len(mon) + 1 > Len(mon)
  BY <1>1
<1>4. QED
  BY <1>1, <1>2, <1>3 DEF Grown

LEMMA NothingSent ==
  ASSUME mon \in Seq(SupEvents), mon' = mon, assoc = NoAP \/ assoc' # NoAP
  PROVE  mon' \in Seq(SupEvents) /\ Grown
<1>1. Len(mon) \in Nat
  BY LenProperties
<1>2. QED
  BY <1>1 DEF Grown

\* What a command does to wpa_supplicant's state and to its events.
LEMMA Dropped ==
  ASSUME SuppTypes, Drop \/ UNCHANGED <<mon, assoc>>
  PROVE  mon' \in Seq(SupEvents) /\ Grown /\ assoc' \in Anywhere
<1>1. "DISCONNECTED" \in SupEvents /\ IsLoss("DISCONNECTED")
  BY DEF SupEvents, Events, IsLoss
<1>2. CASE Drop /\ assoc # NoAP
  BY <1>1, <1>2, EventSent DEF Drop, SuppTypes, Anywhere
<1>3. CASE ~(Drop /\ assoc # NoAP)
  BY <1>3, NothingSent DEF Drop, SuppTypes, Anywhere
<1>4. QED
  BY <1>2, <1>3

LEMMA NamedCommand ==
  ASSUME SuppTypes, NEW a \in APs, CmdSelect(a) \/ CmdRemove(a)
  PROVE  SuppTypes' /\ Grown
<1>1. mon' \in Seq(SupEvents) /\ Grown /\ assoc' \in Anywhere
  BY Dropped DEF CmdSelect, CmdRemove
<1>2. nets' \subseteq APs /\ sel' \in Anywhere
  BY DEF SuppTypes, Anywhere, CmdSelect, CmdRemove
<1>3. halted' \in BOOLEAN
  BY DEF SuppTypes, CmdSelect, CmdRemove
<1>4. QED
  BY <1>1, <1>2, <1>3 DEF SuppTypes

LEMMA PlainCommand ==
  ASSUME SuppTypes, CmdDisconnect \/ CmdReconnect \/ NoCmd
  PROVE  SuppTypes' /\ Grown
<1>1. mon' \in Seq(SupEvents) /\ Grown /\ assoc' \in Anywhere
  BY Dropped DEF CmdDisconnect, CmdReconnect, NoCmd
<1>2. nets' \subseteq APs /\ sel' \in Anywhere /\ halted' \in BOOLEAN
  BY DEF SuppTypes, CmdDisconnect, CmdReconnect, NoCmd
<1>3. QED
  BY <1>1, <1>2 DEF SuppTypes

LEMMA TypeFacts ==
  ASSUME StaTypes
  PROVE  SuppTypes /\ (wpc \in Connecting => target \in APs)
BY DEF StaTypes, TypeOK, SuppTypes

\* The steps of a call that is under way, and of a call that begins.
CallStep == ConnectStep \/ DisconnectStep \/ AutoStep \/ ScanStep

\* A step of anyone but the reader of the monitor socket lets its events grow.
LEMMA SupplicantStep ==
  ASSUME StaTypes, [Next]_vars
  PROVE  SuppTypes' /\ (Take \/ Grown)
<1> USE TypeFacts
<1>q. ASSUME UNCHANGED supp PROVE SuppTypes' /\ Grown
  <2>1. UNCHANGED <<mon, nets, sel, assoc, halted>>
    BY <1>q DEF supp
  <2>2. QED
    BY <2>1, NothingSent DEF SuppTypes
<1>1. CASE Supplicant
  <2> USE DEF SuppTypes, QuietSupp
  <2>1. /\ {"SCAN_RESULTS", "NETWORK_NOT_FOUND", "PASSWORD_INCORRECT", "ASSOC_REJECT", "CONNECTED",
            "DISCONNECTED", "TERMINATING"} \subseteq SupEvents
        /\ Noise \subseteq SupEvents \ {"CONNECTED"}
        /\ IsLoss("DISCONNECTED") /\ IsLoss("TERMINATING")
    BY StaAssumption DEF SupEvents, Events, IsLoss
  <2>2. CASE SupNotFound
    <3>1. mon' = Append(Append(mon, "SCAN_RESULTS"), "NETWORK_NOT_FOUND")
      BY <2>2 DEF SupNotFound
    <3>2. PICK m \in Seq(SupEvents) : m = Append(mon, "SCAN_RESULTS") /\ mon' = Append(m, "NETWORK_NOT_FOUND")
      BY <2>1, <3>1, OneMore
    <3>3. /\ Len(mon) \in Nat /\ Len(m) = Len(mon) + 1
          /\ \A i \in 1..Len(mon) : m[i] = mon[i]
          /\ m[Len(mon) + 1] = "SCAN_RESULTS"
      BY <2>1, <3>2, OneMore
    <3>4. /\ mon' \in Seq(SupEvents) /\ Len(mon') = Len(m) + 1
          /\ \A i \in 1..Len(m) : mon'[i] = m[i]
          /\ mon'[Len(m) + 1] = "NETWORK_NOT_FOUND"
      BY <2>1, <3>2, OneMore
    <3>5. UNCHANGED <<nets, sel, assoc, halted>>
      BY <2>2 DEF SupNotFound
    <3>6. \A i \in 1..Len(mon') : i > Len(mon) => mon'[i] # "CONNECTED"
      <4>1. \A i \in 1..Len(mon') : i > Len(mon) => i = Len(mon) + 1 \/ i = Len(m) + 1
        BY <3>3, <3>4
      <4>2. mon'[Len(mon) + 1] = "SCAN_RESULTS"
        BY <3>3, <3>4
      <4>3. QED
        BY <3>4, <4>1, <4>2
    <3>7. QED
      BY <3>3, <3>4, <3>5, <3>6 DEF Grown
  <2>3. CASE SupScan
    BY <2>1, <2>3, EventSent DEF SupScan
  <2>4. CASE SupReject
    BY <2>1, <2>4, EventSent DEF SupReject
  <2>5. CASE SupAssociate
    BY <2>1, <2>5, EventSent DEF SupAssociate, Trying
  <2>6. CASE SupLost
    BY <2>1, <2>6, EventSent DEF SupLost, Anywhere
  <2>7. CASE SupDies
    BY <2>1, <2>7, EventSent DEF SupDies, Anywhere
  <2>8. QED
    BY <1>1, <2>2, <2>3, <2>4, <2>5, <2>6, <2>7 DEF Supplicant
<1>2. CASE EventThread
  <2>1. CASE Take
    BY <2>1, OneLess DEF Take, SuppTypes
  <2>2. CASE Reconnect
    BY <2>2, PlainCommand DEF Reconnect
  <2>3. CASE Reject
    BY <2>3, PlainCommand DEF Reject
  <2>4. CASE Send \/ State \/ Lost \/ Sleep \/ DhcpKeep \/ DhcpRun \/ CopySsid
    BY <1>q, <2>4 DEF Send, State, Lost, Sleep, DhcpKeep, DhcpRun, CopySsid
  <2>5. QED
    BY <1>2, <2>1, <2>2, <2>3, <2>4 DEF EventThread
<1>3. CASE CallStep
  <2>1. CASE Remove \/ Finish \/ Select
    BY <2>1, NamedCommand, PlainCommand DEF Remove, Finish, Select, Connecting
  <2>2. CASE SelectFails
    <3>1. mon' \in Seq(SupEvents) /\ Grown
      BY <2>2, NothingSent DEF SelectFails, SuppTypes
    <3>2. QED
      BY <2>2, <3>1 DEF SelectFails, SuppTypes, Connecting
  <2>3. CASE DisconnectCmd \/ AutoOn \/ StopScan
    BY <2>3, PlainCommand DEF DisconnectCmd, AutoOn, StopScan
  <2>4. CASE \/ Exist \/ Already \/ Clear \/ Read \/ ReadTimeout \/ ReadEnds
             \/ DisconnectStatus \/ DisconnectNoAuto \/ AutoOff \/ ScanStep
    BY <1>q, <2>4 DEF Exist, Already, Clear, Read, ReadTimeout, ReadEnds, DisconnectStatus,
       DisconnectNoAuto, AutoOff, ScanStep, ScanOnce, ScanRead, ScanGivesUp, ScanResults
  <2>5. QED
    BY <1>3, <2>1, <2>2, <2>3, <2>4 DEF CallStep, ConnectStep, DisconnectStep, AutoStep
<1>4. CASE Application
  BY <1>q, <1>4 DEF Application, ConnectBusy, Connect, DisconnectUnhandled, Disconnect,
     AutoReconnect, ScanBusy, Scan, Refuse
<1>5. CASE UNCHANGED vars
  BY <1>q, <1>5 DEF vars
<1>6. QED
  BY <1>1, <1>2, <1>3, <1>4, <1>5 DEF Next, CallStep

LEMMA SupEventsAreEvents ==
  ASSUME NEW s \in Seq(SupEvents)
  PROVE  s \in Seq(Events)
<1>1. Len(s) \in Nat /\ s \in [1..Len(s) -> SupEvents]
  BY LenProperties
<1>2. s \in [1..Len(s) -> Events]
  BY <1>1 DEF SupEvents
<1>3. QED
  BY <1>1, <1>2, SeqDef

\* The types of what the program's two threads own.
SockTypes == sock \in Seq(Events) /\ Len(sock) <= SockCap
LibTypes ==
    /\ sta_state \in States /\ new_ssid \in Anywhere /\ old_ssid \in Anywhere
    /\ lease \in Anywhere
CallTypes ==
    /\ wpc \in {"idle", "exist", "already", "remove", "clear", "select", "read", "finish",
               "status", "discmd", "noauto", "autoon", "autooff", "stopscan",
               "scan", "scanwait", "results"}
    /\ op \in Ops \cup {"none"} /\ target \in Anywhere
    /\ try_cnt \in 0..TryMax /\ calls \in 0..MaxCalls
    /\ ret \in {"NONE", "SUCCESS", "FAIL", "NOT_READY", "UNHANDLED"}
    /\ wpc \in Connecting => target \in APs
ThreadTypes ==
    /\ epc \in {"idle", "send", "state", "lost", "reconnect", "reject", "sleep", "dhcp",
               "copy", "dead"}
    /\ ev \in Events
FlagTypes ==
    /\ auto_reconn \in BOOLEAN /\ copy \in BOOLEAN /\ alive \in BOOLEAN
    /\ reached \in BOOLEAN /\ news \in BOOLEAN

LEMMA TypeParts ==
  StaTypes <=> SockTypes /\ LibTypes /\ CallTypes /\ ThreadTypes /\ FlagTypes /\ SuppTypes
BY SupEventsAreEvents, Zenon DEF StaTypes, TypeOK, SockTypes, LibTypes, CallTypes, ThreadTypes,
   FlagTypes, SuppTypes

LEMMA SockStep == ASSUME StaTypes, [Next]_vars PROVE SockTypes'
<1> USE StaAssumption, TypeParts
<1>1. Len(sock) \in Nat
  BY LenProperties DEF SockTypes
<1>2. ASSUME sock' = << >> PROVE SockTypes'
  BY <1>2 DEF SockTypes
<1>3. ASSUME sock # << >>, sock' = Tail(sock) PROVE SockTypes'
  BY <1>1, <1>3, OneLess DEF SockTypes
<1>4. ASSUME UNCHANGED sock PROVE SockTypes'
  BY <1>4 DEF SockTypes
<1>5. CASE Supplicant
  BY <1>4, <1>5 DEF Supplicant, SupNotFound, SupScan, SupReject, SupAssociate, SupLost, SupDies,
     QuietSupp
<1>6. CASE EventThread
  <2>1. CASE Send
    BY <1>1, <2>1, OneMore DEF Send, SockTypes, ThreadTypes
  <2>2. CASE ~Send
    BY <1>4, <1>6, <2>2 DEF EventThread, Take, State, Lost, Reconnect, Reject, Sleep, DhcpKeep,
       DhcpRun, CopySsid
  <2>3. QED
    BY <2>1, <2>2
<1>7. CASE CallStep
  <2>1. CASE Clear \/ ScanOnce
    BY <1>2, <2>1 DEF Clear, ScanOnce
  <2>2. CASE Read \/ ScanRead
    BY <1>3, <1>4, <2>2 DEF Read, ScanRead
  <2>3. CASE \/ Exist \/ Already \/ Remove \/ Select \/ SelectFails \/ ReadTimeout \/ ReadEnds
             \/ Finish \/ DisconnectStep \/ AutoStep \/ ScanGivesUp \/ ScanResults
    BY <1>4, <2>3 DEF Exist, Already, Remove, Select, SelectFails, ReadTimeout, ReadEnds, Finish,
       DisconnectStep, DisconnectStatus, DisconnectCmd, DisconnectNoAuto, AutoStep, AutoOn,
       AutoOff, StopScan, ScanGivesUp, ScanResults
  <2>4. QED
    BY <1>7, <2>1, <2>2, <2>3 DEF CallStep, ConnectStep, ScanStep
<1>8. CASE Application
  BY <1>4, <1>8 DEF Application, ConnectBusy, Connect, DisconnectUnhandled, Disconnect,
     AutoReconnect, ScanBusy, Scan, Refuse
<1>9. CASE UNCHANGED vars
  BY <1>4, <1>9 DEF vars
<1>10. QED
  BY <1>5, <1>6, <1>7, <1>8, <1>9 DEF Next, CallStep

LEMMA StateAfterTypes ==
  ASSUME NEW e \in Events, NEW s \in States
  PROVE  StateAfter(e, s) \in States
BY DEF StateAfter, States, Events

\* Supplicant steps leave the program's own variables alone.
LEMMA SupplicantFrame ==
  ASSUME Supplicant
  PROVE  UNCHANGED <<sta_state, lib, sock, work, evth, lease>>
BY DEF Supplicant, SupNotFound, SupScan, SupReject, SupAssociate, SupLost, SupDies, QuietSupp

LEMMA EventThreadStep ==
  ASSUME StaTypes, EventThread
  PROVE  LibTypes' /\ ThreadTypes' /\ UNCHANGED work
<1> USE TypeParts
<1>1. CASE Take
  <2>1. Head(mon) \in Events
    BY <1>1, OneLess DEF Take, SuppTypes, SupEvents
  <2>2. QED
    BY <1>1, <2>1 DEF Take, LibTypes, ThreadTypes, lib, work
<1>2. CASE Send
  BY <1>2 DEF Send, LibTypes, ThreadTypes, lib, work
<1>3. CASE State
  <2>1. sta_state' \in States
    BY <1>3, StateAfterTypes DEF State, LibTypes, ThreadTypes
  <2>2. QED
    BY <1>3, <2>1 DEF State, LibTypes, ThreadTypes, lib, work
<1>4. CASE Lost
  BY <1>4 DEF Lost, LibTypes, ThreadTypes, lib, work
<1>5. CASE Reconnect
  BY <1>5 DEF Reconnect, LibTypes, ThreadTypes, lib, work
<1>6. CASE Reject
  BY <1>6 DEF Reject, LibTypes, ThreadTypes, lib, work
<1>7. CASE Sleep
  BY <1>7 DEF Sleep, LibTypes, ThreadTypes, lib, work, Events
<1>8. CASE DhcpKeep
  BY <1>8 DEF DhcpKeep, LibTypes, ThreadTypes, lib, work, Events
<1>9. CASE DhcpRun
  BY <1>9 DEF DhcpRun, LibTypes, ThreadTypes, SuppTypes, lib, work, Events, Anywhere
<1>10. CASE CopySsid
  BY <1>10 DEF CopySsid, LibTypes, ThreadTypes, lib, work
<1>11. QED
  BY <1>1, <1>2, <1>3, <1>4, <1>5, <1>6, <1>7, <1>8, <1>9, <1>10 DEF EventThread

LEMMA CallTypesStep ==
  ASSUME StaTypes, CallStep
  PROVE  LibTypes' /\ CallTypes' /\ UNCHANGED evth
<1> USE StaAssumption, TypeParts DEF LibTypes, CallTypes, Connecting, lib
<1>1. StateAfter("CONNECTED", sta_state) \in States /\ StateAfter("DISCONNECTED", sta_state) \in States
  BY StateAfterTypes DEF Events
<1>2. CASE Exist
  BY <1>2 DEF Exist
<1>3. CASE Already
  BY <1>1, <1>3 DEF Already, Return
<1>4. CASE Remove
  BY <1>1, <1>4 DEF Remove, Return
<1>5. CASE Clear
  BY <1>5 DEF Clear
<1>6. CASE Select
  BY <1>6 DEF Select
<1>7. CASE SelectFails
  BY <1>1, <1>7 DEF SelectFails, Return
<1>8. CASE Read
  BY <1>8 DEF Read
<1>9. CASE ReadTimeout
  BY <1>9 DEF ReadTimeout
<1>10. CASE ReadEnds
  BY <1>10 DEF ReadEnds
<1>11. CASE Finish
  BY <1>11 DEF Finish, Return
<1>12. CASE DisconnectStatus
  BY <1>12 DEF DisconnectStatus
<1>13. CASE DisconnectCmd
  BY <1>13 DEF DisconnectCmd
<1>14. CASE DisconnectNoAuto
  BY <1>14 DEF DisconnectNoAuto, Anywhere
<1>15. CASE AutoOn
  BY <1>15 DEF AutoOn
<1>16. CASE AutoOff
  BY <1>16 DEF AutoOff
<1>17. CASE StopScan
  BY <1>17 DEF StopScan
<1>18. CASE ScanOnce
  BY <1>18 DEF ScanOnce
<1>19. CASE ScanRead
  BY <1>19 DEF ScanRead
<1>20. CASE ScanGivesUp
  BY <1>20 DEF ScanGivesUp, Return
<1>21. CASE ScanResults
  BY <1>21 DEF ScanResults, Return
<1>22. QED
  BY <1>2, <1>3, <1>4, <1>5, <1>6, <1>7, <1>8, <1>9, <1>10, <1>11, <1>12, <1>13, <1>14, <1>15,
     <1>16, <1>17, <1>18, <1>19, <1>20, <1>21
     DEF CallStep, ConnectStep, DisconnectStep, AutoStep, ScanStep

LEMMA ApplicationStep ==
  ASSUME StaTypes, Application
  PROVE  LibTypes' /\ CallTypes' /\ UNCHANGED evth
<1> USE StaAssumption, TypeParts DEF LibTypes, CallTypes, Connecting, lib, Begin, Refuse
<1>1. CASE ConnectBusy
  BY <1>1 DEF ConnectBusy
<1>2. CASE \E a \in APs : Connect(a)
  BY <1>2 DEF Connect, States, Anywhere
<1>3. CASE DisconnectUnhandled
  BY <1>3 DEF DisconnectUnhandled
<1>4. CASE Disconnect
  BY <1>4 DEF Disconnect, States
<1>5. CASE \E on \in BOOLEAN : AutoReconnect(on)
  BY <1>5 DEF AutoReconnect
<1>6. CASE ScanBusy
  BY <1>6 DEF ScanBusy
<1>7. CASE Scan
  BY <1>7 DEF Scan
<1>8. QED
  BY <1>1, <1>2, <1>3, <1>4, <1>5, <1>6, <1>7 DEF Application

LEMMA FlagStep == ASSUME StaTypes, [Next]_vars PROVE FlagTypes'
<1> USE TypeParts DEF FlagTypes, lib, evth, supp, hist
<1>1. CASE Supplicant
  BY <1>1 DEF Supplicant, SupNotFound, SupScan, SupReject, SupAssociate, SupLost, SupDies, QuietSupp
<1>2. CASE EventThread
  BY <1>2 DEF EventThread, Take, Send, State, Lost, Reconnect, Reject, Sleep, DhcpKeep,
     DhcpRun, CopySsid
<1>3. CASE ConnectStep
  BY <1>3 DEF ConnectStep, Exist, Already, Remove, Clear, Select, SelectFails, Read, ReadTimeout,
     ReadEnds, Finish
<1>4. CASE DisconnectStep
  BY <1>4 DEF DisconnectStep, DisconnectStatus, DisconnectCmd, DisconnectNoAuto
<1>5. CASE AutoStep
  BY <1>5 DEF AutoStep, AutoOn, AutoOff, StopScan
<1>6. CASE ScanStep
  BY <1>6 DEF ScanStep, ScanOnce, ScanRead, ScanGivesUp, ScanResults
<1>7. CASE Application
  BY <1>7 DEF Application, ConnectBusy, Connect, DisconnectUnhandled, Disconnect,
     AutoReconnect, ScanBusy, Scan, Refuse
<1>8. CASE UNCHANGED vars
  BY <1>8 DEF vars
<1>9. QED
  BY <1>1, <1>2, <1>3, <1>4, <1>5, <1>6, <1>7, <1>8 DEF Next

LEMMA StaTypesStep == ASSUME StaTypes, [Next]_vars PROVE StaTypes'
<1>1. SockTypes' /\ FlagTypes' /\ SuppTypes'
  BY SockStep, FlagStep, SupplicantStep
<1>2. LibTypes' /\ CallTypes' /\ ThreadTypes'
  <2> USE TypeParts
  <2>1. ASSUME UNCHANGED work PROVE CallTypes'
    BY <2>1 DEF work, CallTypes
  <2>2. ASSUME UNCHANGED evth PROVE ThreadTypes'
    BY <2>2 DEF evth, ThreadTypes
  <2>3. ASSUME UNCHANGED <<sta_state, lib, lease>> PROVE LibTypes'
    BY <2>3 DEF lib, LibTypes
  <2>4. CASE Supplicant \/ UNCHANGED vars
    BY <2>1, <2>2, <2>3, <2>4, SupplicantFrame DEF vars
  <2>5. CASE EventThread
    BY <2>1, <2>5, EventThreadStep
  <2>6. CASE CallStep \/ Application
    BY <2>2, <2>6, CallTypesStep, ApplicationStep
  <2>7. QED
    BY <2>4, <2>5, <2>6 DEF Next, CallStep
<1>3. (StaTypes <=> SockTypes /\ LibTypes /\ CallTypes /\ ThreadTypes /\ FlagTypes /\ SuppTypes)'
  BY TypeParts, PTL
<1>4. QED
  BY <1>1, <1>2, <1>3

LEMMA StaInitTypes == Init => StaTypes
<1> SUFFICES ASSUME Init PROVE StaTypes
  OBVIOUS
<1> USE StaAssumption DEF Init
<1>1. SockTypes /\ LibTypes /\ CallTypes /\ ThreadTypes
  BY DEF SockTypes, LibTypes, CallTypes, ThreadTypes, Anywhere, Events, States, Connecting
<1>2. FlagTypes
  BY Zenon DEF FlagTypes
<1>3. SuppTypes
  <2>1. mon \in Seq(SupEvents)
    OBVIOUS
  <2>2. nets \subseteq APs /\ sel \in Anywhere /\ assoc \in Anywhere
    BY DEF Anywhere
  <2>3. halted \in BOOLEAN
    OBVIOUS
  <2>4. QED
    BY <2>1, <2>2, <2>3 DEF SuppTypes
<1>4. QED
  BY <1>1, <1>2, <1>3, TypeParts

\* Type correctness of the station: no counter, index or queue leaves its range,
\* and every network wpa_supplicant is given is an access point.
THEOREM StaTypeCorrect == Spec => []TypeOK
<1>1. Init => StaTypes
  BY StaInitTypes
<1>2. StaTypes /\ [Next]_vars => StaTypes'
  BY StaTypesStep
<1>3. StaTypes => TypeOK
  BY DEF StaTypes
<1>4. QED
  BY <1>1, <1>2, <1>3, PTL DEF Spec

----------------------------------------------------------------------------
\* The news of a loss is in the event thread's hands.
LossInHand == epc \in {"send", "state"} /\ IsLoss(ev)

LEMMA LossPendingParts ==
  LossPending <=> LossInHand \/ \E i \in DOMAIN mon : IsLoss(mon[i])
BY DEF LossPending, LossInHand, IsLoss

\* What steps other than Take make of the event in hand and of the state.
LEMMA InHandStep ==
  ASSUME StaTypes, [Next]_vars, ~Take
  PROVE  /\ Following' => Following
         /\ sta_state' = "NET_CONNECTED" => sta_state = "NET_CONNECTED" \/ Following
         /\ sta_state' = "NET_CONNECTED" /\ LossInHand => LossInHand'
<1> USE DEF Following, LossInHand, IsLoss
<1>1. CASE UNCHANGED <<sta_state, evth>>
  BY <1>1 DEF evth
<1>2. CASE EventThread
  <2>1. CASE State
    BY <2>1 DEF State, StateAfter
  <2>2. CASE Send
    BY <2>2 DEF Send
  <2>3. CASE Lost \/ Reconnect \/ Reject \/ CopySsid
    BY <2>3 DEF Lost, Reconnect, Reject, CopySsid
  <2>4. CASE Sleep \/ DhcpKeep \/ DhcpRun
    BY <2>4 DEF Sleep, DhcpKeep, DhcpRun
  <2>5. QED
    BY <1>2, <2>1, <2>2, <2>3, <2>4 DEF EventThread
<1>3. CASE CallStep \/ Application
  <2>1. UNCHANGED evth
    BY <1>3, CallTypesStep, ApplicationStep
  <2>2. sta_state' = "NET_CONNECTED" => sta_state' = sta_state
    <3>1. StateAfter("CONNECTED", sta_state) # "NET_CONNECTED"
          /\ StateAfter("DISCONNECTED", sta_state) # "NET_CONNECTED"
      BY DEF StateAfter
    <3>2. CASE CallStep
      BY <3>1, <3>2 DEF CallStep, ConnectStep, DisconnectStep, AutoStep, ScanStep, Exist, Already,
         Remove, Clear, Select, SelectFails, Read, ReadTimeout, ReadEnds, Finish, DisconnectStatus,
         DisconnectCmd, DisconnectNoAuto, AutoOn, AutoOff, StopScan, ScanOnce, ScanRead,
         ScanGivesUp, ScanResults
    <3>3. CASE Application
      BY <3>3 DEF Application, ConnectBusy, Connect, DisconnectUnhandled, Disconnect,
         AutoReconnect, ScanBusy, Scan, Refuse
    <3>4. QED
      BY <1>3, <3>2, <3>3
  <2>3. QED
    BY <2>1, <2>2 DEF evth
<1>4. QED
  BY <1>1, <1>2, <1>3, SupplicantFrame DEF Next, CallStep, vars

LEMMA LinkedGrows ==
  ASSUME SuppTypes, SuppTypes', Grown, NEW n \in Nat, n <= Len(mon), LinkedAfter(n)
  PROVE  LinkedAfter(n)'
<1>1. /\ Len(mon) \in Nat /\ DOMAIN mon = 1..Len(mon)
      /\ Len(mon') \in Nat /\ DOMAIN mon' = 1..Len(mon')
  BY LenProperties DEF SuppTypes
<1>2. CASE assoc # NoAP
  BY <1>1, <1>2 DEF LinkedAfter, Grown
<1>3. CASE \E i \in DOMAIN mon : i > n /\ IsLoss(mon[i])
  <2>1. PICK i \in 1..Len(mon) : i > n /\ IsLoss(mon[i])
    BY <1>1, <1>3
  <2>2. i \in 1..Len(mon') /\ mon'[i] = mon[i]
    BY <1>1, <2>1 DEF Grown
  <2>3. QED
    BY <1>1, <2>1, <2>2 DEF LinkedAfter, IsLoss
<1>4. QED
  BY <1>2, <1>3 DEF LinkedAfter

LEMMA LinkedStep == ASSUME StaTypes, StaTypes', Linked, [Next]_vars PROVE Linked'
<1>1. SuppTypes /\ SuppTypes'
  BY TypeFacts, SupplicantStep
<1>2. /\ Len(mon) \in Nat /\ DOMAIN mon = 1..Len(mon)
      /\ Len(mon') \in Nat /\ DOMAIN mon' = 1..Len(mon')
  BY <1>1, LenProperties DEF SuppTypes
<1>3. CASE Take
  <2>1. /\ epc = "idle" /\ epc' = "send" /\ ev' = mon[1]
        /\ UNCHANGED <<assoc, sta_state>>
        /\ Len(mon) >= 1 /\ Len(mon') = Len(mon) - 1
        /\ \A i \in 1..Len(mon') : mon'[i] = mon[i + 1]
        /\ mon[1] \in SupEvents
    BY <1>1, <1>3, OneLess DEF Take, SuppTypes
  <2>2. \A i \in 1..Len(mon) : i = 1 \/ (i - 1 \in 1..Len(mon') /\ mon'[i - 1] = mon[i])
    BY <1>2, <2>1
  <2>3. ASSUME NEW n \in Nat, LinkedAfter(n + 1) PROVE LinkedAfter(n)'
    <3>1. CASE assoc # NoAP
      BY <2>1, <3>1 DEF LinkedAfter
    <3>2. CASE \E i \in DOMAIN mon : i > n + 1 /\ IsLoss(mon[i])
      <4>1. PICK i \in 1..Len(mon) : i > n + 1 /\ IsLoss(mon[i])
        BY <1>2, <3>2
      <4>2. i - 1 \in DOMAIN mon' /\ i - 1 > n /\ mon'[i - 1] = mon[i]
        BY <1>2, <2>2, <4>1
      <4>3. QED
        BY <4>1, <4>2 DEF LinkedAfter, IsLoss
    <3>3. QED
      BY <2>3, <3>1, <3>2 DEF LinkedAfter
  <2>4. ASSUME NEW i \in DOMAIN mon', mon'[i] = "CONNECTED" PROVE LinkedAfter(i)'
    <3>1. i \in Nat /\ i + 1 \in DOMAIN mon /\ mon[i + 1] = "CONNECTED"
      BY <1>2, <2>1, <2>4
    <3>2. LinkedAfter(i + 1)
      BY <3>1 DEF Linked
    <3>3. QED
      BY <2>3, <3>1, <3>2
  <2>5. Following' => LinkedAfter(0)'
    <3> SUFFICES ASSUME Following' PROVE LinkedAfter(0)'
      OBVIOUS
    <3>1. 1 \in DOMAIN mon /\ mon[1] = "CONNECTED"
      BY <1>2, <2>1 DEF Following, SupEvents
    <3>2. LinkedAfter(0 + 1)
      BY <3>1 DEF Linked
    <3>3. QED
      BY <2>3, <3>2
  <2>6. NetConnectedReal'
    <3> SUFFICES ASSUME sta_state' = "NET_CONNECTED", assoc' = NoAP PROVE LossPending'
      BY DEF NetConnectedReal
    <3>1. ~LossInHand
      BY <2>1 DEF LossInHand
    <3>2. PICK i \in 1..Len(mon) : IsLoss(mon[i])
      BY <1>2, <2>1, <3>1, LossPendingParts DEF Linked, NetConnectedReal
    <3>3. CASE i = 1
      BY <2>1, <3>2, <3>3 DEF LossPending, IsLoss
    <3>4. CASE i # 1
      BY <1>2, <2>2, <3>2, <3>4 DEF LossPending, IsLoss
    <3>5. QED
      BY <3>3, <3>4
  <2>7. QED
    BY <2>4, <2>5, <2>6 DEF Linked
<1>4. CASE ~Take
  <2>1. Grown
    BY <1>4, SupplicantStep
  <2>2. ASSUME NEW i \in DOMAIN mon', mon'[i] = "CONNECTED" PROVE LinkedAfter(i)'
    <3>1. CASE i > Len(mon)
      BY <1>2, <2>1, <2>2, <3>1 DEF Grown, LinkedAfter
    <3>2. CASE ~(i > Len(mon))
      <4>1. i \in Nat /\ i <= Len(mon) /\ i \in DOMAIN mon /\ mon[i] = "CONNECTED"
        BY <1>2, <2>1, <2>2, <3>2 DEF Grown
      <4>2. QED
        BY <1>1, <2>1, <4>1, LinkedGrows DEF Linked
    <3>3. QED
      BY <3>1, <3>2
  <2>3. LinkedAfter(0) => LinkedAfter(0)'
    BY <1>1, <1>2, <2>1, LinkedGrows
  <2>4. Following' => LinkedAfter(0)'
    BY <1>4, <2>3, InHandStep DEF Linked
  <2>5. NetConnectedReal'
    <3> SUFFICES ASSUME sta_state' = "NET_CONNECTED" PROVE assoc' # NoAP \/ LossPending'
      BY DEF NetConnectedReal
    <3>1. ASSUME LinkedAfter(0)' PROVE assoc' # NoAP \/ LossPending'
      BY <3>1 DEF LinkedAfter, LossPending, IsLoss
    <3>2. ASSUME LossInHand PROVE LossPending'
      BY <1>4, <3>2, InHandStep DEF LossInHand, LossPending, IsLoss
    <3>3. sta_state = "NET_CONNECTED" => LossInHand \/ LinkedAfter(0)
      BY <1>2, LossPendingParts DEF Linked, NetConnectedReal, LinkedAfter
    <3>4. QED
      BY <1>4, <2>3, <3>1, <3>2, <3>3, InHandStep DEF Linked
  <2>6. QED
    BY <2>2, <2>4, <2>5 DEF Linked
<1>5. QED
  BY <1>3, <1>4

\* However late the event thread is, and whatever was kept of an old lease:
\* NET_CONNECTED means a link, or its loss is waiting to be noticed.
THEOREM StaNetConnectedReal == Spec => []NetConnectedReal
<1>1. Init => StaTypes /\ Linked
  <2> SUFFICES ASSUME Init PROVE Linked
    BY StaInitTypes
  <2>1. mon = << >> /\ epc = "idle" /\ sta_state # "NET_CONNECTED"
    BY DEF Init
  <2>2. QED
    BY <2>1 DEF Linked, Following, NetConnectedReal
<1>2. StaTypes /\ Linked /\ [Next]_vars => (StaTypes /\ Linked)'
  BY StaTypesStep, LinkedStep
<1>3. Linked => NetConnectedReal
  BY DEF Linked
<1>4. QED
  BY <1>1, <1>2, <1>3, PTL DEF Spec

----------------------------------------------------------------------------
LEMMA AnsweredStep == ASSUME StaTypes, Answered, [Next]_vars PROVE Answered'
<1> USE DEF Answered, Connecting, work, hist
<1>1. sock \in Seq(Events) /\ Len(sock) \in Nat /\ DOMAIN sock = 1..Len(sock)
  BY TypeParts, LenProperties DEF SockTypes
<1>2. CASE UNCHANGED <<work, sock, news>>
  BY <1>2
<1>3. CASE Send
  <2>1. sock' = Append(sock, ev) /\ UNCHANGED work /\ news' = (news \/ ev = "DHCP_SUCCESS")
    BY <1>3 DEF Send
  <2>2. /\ DOMAIN sock' = 1..(Len(sock) + 1) /\ \A i \in 1..Len(sock) : sock'[i] = sock[i]
        /\ sock'[Len(sock) + 1] = ev
    BY <1>1, <2>1, OneMore, TypeParts, LenProperties DEF ThreadTypes
  <2>3. (\A i \in DOMAIN sock : sock[i] = "DHCP_SUCCESS" => news)
           => (\A i \in DOMAIN sock' : sock'[i] = "DHCP_SUCCESS" => news')
    <3>1. \A i \in 1..(Len(sock) + 1) : i \in 1..Len(sock) \/ i = Len(sock) + 1
      BY <1>1
    <3>2. QED
      BY <1>1, <2>1, <2>2, <3>1
  <2>4. QED
    BY <2>1, <2>3
<1>4. CASE Read
  <2>1. /\ sock # << >> /\ sock' = Tail(sock) /\ wpc = "read" /\ UNCHANGED news
        /\ wpc' \in {"read", "finish"}
        /\ ret' = "SUCCESS" => ret = "SUCCESS" \/ (Head(sock) = "DHCP_SUCCESS" /\ wpc' = "finish")
    BY <1>4 DEF Read
  <2>2. /\ Len(sock) >= 1 /\ Len(sock') = Len(sock) - 1 /\ DOMAIN sock' = 1..Len(sock')
        /\ \A i \in 1..Len(sock') : sock'[i] = sock[i + 1]
        /\ Head(sock) = sock[1]
    BY <1>1, <2>1, OneLess, LenProperties
  <2>3. \A i \in DOMAIN sock' : sock'[i] = "DHCP_SUCCESS" => news'
    BY <1>1, <2>1, <2>2
  <2>4. Head(sock) = "DHCP_SUCCESS" => news'
    BY <1>1, <2>1, <2>2
  <2>5. QED
    BY <2>1, <2>3, <2>4
<1>5. CASE Supplicant
  <2>1. UNCHANGED news
    BY <1>5 DEF Supplicant, SupNotFound, SupScan, SupReject, SupAssociate, SupLost, SupDies
  <2>2. QED
    BY <1>2, <1>5, <2>1, SupplicantFrame
<1>6. CASE EventThread /\ ~Send
  <2>1. UNCHANGED <<sock, news>>
    BY <1>6 DEF EventThread, Take, State, Lost, Reconnect, Reject, Sleep, DhcpKeep, DhcpRun, CopySsid
  <2>2. QED
    BY <1>2, <1>6, <2>1, EventThreadStep
<1>7. CASE ConnectStep /\ ~Read
  <2>1. CASE Clear
    BY <2>1 DEF Clear
  <2>2. CASE \/ Exist \/ Already \/ Remove \/ Select \/ SelectFails \/ ReadTimeout \/ ReadEnds
             \/ Finish
    BY <2>2 DEF Exist, Already, Remove, Select, SelectFails, ReadTimeout, ReadEnds, Finish, Return
  <2>3. QED
    BY <1>7, <2>1, <2>2 DEF ConnectStep
<1>8. CASE DisconnectStep \/ AutoStep \/ ScanStep
  <2>1. wpc' \notin Connecting
    BY <1>8 DEF DisconnectStep, DisconnectStatus, DisconnectCmd, DisconnectNoAuto, AutoStep, AutoOn,
       AutoOff, StopScan, ScanStep, ScanOnce, ScanRead, ScanGivesUp, ScanResults, Return
  <2>2. QED
    BY <2>1
<1>9. CASE Application
  BY <1>9 DEF Application, ConnectBusy, Connect, DisconnectUnhandled, Disconnect,
     AutoReconnect, ScanBusy, Scan, Refuse, Begin
<1>10. QED
  BY <1>2, <1>3, <1>4, <1>5, <1>6, <1>7, <1>8, <1>9 DEF Next, vars

\* A connect call succeeds only on an event sent during the call, in whatever
\* order the two threads run: evt_socket_clear leaves no older one.
THEOREM StaSuccessIsNews == Spec => []SuccessIsNews
<1>1. Init => StaTypes /\ Answered
  <2> SUFFICES ASSUME Init PROVE Answered
    BY StaInitTypes
  <2>1. QED
    BY DEF Init, Answered, Connecting
<1>2. StaTypes /\ Answered /\ [Next]_vars => (StaTypes /\ Answered)'
  BY StaTypesStep, AnsweredStep
<1>3. Answered => SuccessIsNews
  BY DEF Answered, SuccessIsNews
<1>4. QED
  BY <1>1, <1>2, <1>3, PTL DEF Spec

=============================================================================
