------------------------------ MODULE StaConnect ------------------------------
(***************************************************************************)
(* The station side of the Wi-Fi manager: wmg_sta.c, the wpa_supplicant     *)
(* client linux_wpa.c, event.c and udhcpc.c.                                *)
(*                                                                          *)
(* Three parties.  The worker thread of ActTransfer runs one station call   *)
(* at a time.  The event thread (wpas_event_thread) takes the events of     *)
(* wpa_supplicant one by one; wpas_event_notify first writes the event to   *)
(* the socket a waiting call reads, then updates sta_state, and after       *)
(* CONNECTED the same thread sleeps, runs udhcpc and reports DHCP events    *)
(* the same way, while further supplicant events queue up.  wpa_supplicant  *)
(* itself is external: a command is answered at once, or refused by a dead  *)
(* process.                                                                 *)
(*                                                                          *)
(* The station is enabled throughout.  All networks use the same security.  *)
(* Events that no branch of the client names (SCAN_STARTED, AUTH_REJECT,    *)
(* WIFI_UNKNOWN) are "OTHER".                                               *)
(***************************************************************************)
EXTENDS Integers, Sequences, FiniteSets

CONSTANTS
    APs,        \* access points (ssids)
    NoAP,       \* no access point; the empty ssid; no address
    TryMax,     \* EVENT_TRY_MAX and SCAN_TRY_MAX
    SockCap,    \* events the socket pair of event.c holds before write() blocks
    Ops,        \* the calls the application makes
    Noise,      \* the scan events wpa_supplicant sends on its own
    MayDie,     \* whether wpa_supplicant may terminate
    MonCap,     \* bound: supplicant events waiting for the event thread
    MaxCalls    \* bound: calls the application makes

ASSUME StaAssumption ==
    /\ NoAP \notin APs
    /\ TryMax \in Nat \ {0} /\ SockCap \in Nat \ {0}
    /\ Ops \subseteq {"connect", "disconnect", "auto", "scan"}
    /\ Noise \subseteq {"OTHER", "SCAN_RESULTS", "SCAN_FAILED"}
    /\ MayDie \in BOOLEAN /\ MonCap \in Nat \ {0} /\ MaxCalls \in Nat

VARIABLES
    (* wmg_sta.c, linux_wpa.c *)
    sta_state,  \* sta_object.sta_state
    auto_reconn,\* sta_wpa_inf_object.sta_wpa_auto_reconn
    new_ssid,   \* private_data->new_ssid
    old_ssid,   \* private_data->old_ssid
    sock,       \* evt_socket: events sent and not read
    (* the worker *)
    wpc,        \* where the current call is, "idle" if none
    op,         \* the current or last call
    target,     \* ssid of the current or last connect
    try_cnt,
    ret,        \* what the current call will return, or the last one returned
    calls,      \* calls made so far
    (* the event thread *)
    epc,        \* where it is, "idle" in wifi_wait_on_socket
    ev,         \* the event being notified
    copy,       \* old_ssid is to be set after this DHCP_SUCCESS
    (* wpa_supplicant and the interface *)
    alive,      \* the process runs
    mon,        \* events on the monitor socket
    nets,       \* configured networks
    sel,        \* the network it tries to be connected to
    assoc,      \* the access point it is associated with
    halted,     \* DISCONNECT was the last order: no attempts
    lease,      \* the access point behind which wlan0 got its address
    (* history of the current or last connect *)
    reached,    \* target was associated at some time during the call
    news        \* DHCP_SUCCESS was sent during the call

lib == <<auto_reconn, new_ssid, old_ssid>>
work == <<wpc, op, target, try_cnt, ret, calls>>
evth == <<epc, ev, copy>>
supp == <<alive, mon, nets, sel, assoc, halted>>
hist == <<reached, news>>
vars == <<sta_state, lib, sock, work, evth, supp, lease, hist>>

Anywhere == APs \cup {NoAP}
Events == {"CONNECTED", "DISCONNECTED", "PASSWORD_INCORRECT", "ASSOC_REJECT",
           "NETWORK_NOT_FOUND", "SCAN_RESULTS", "SCAN_FAILED", "OTHER", "TERMINATING",
           "DHCP_START", "DHCP_SUCCESS", "DHCP_TIMEOUT"}
States == {"IDLE", "CONNECTING", "CONNECTED", "OBTAINING_IP", "NET_CONNECTED",
           "DHCP_TIMEOUT", "DISCONNECTING", "DISCONNECTED"}

\* linux_supplicant_init and linux_connect_to_supplicant.  wpa_supplicant was
\* started, and tries a saved network if there is one, or it was running and
\* connected; its STATUS gives the first state.
Init ==
    /\ auto_reconn \in BOOLEAN
    /\ new_ssid = NoAP /\ old_ssid = NoAP /\ sock = << >>
    /\ wpc = "idle" /\ op = "none" /\ target = NoAP /\ try_cnt = 0 /\ ret = "NONE" /\ calls = 0
    /\ epc = "idle" /\ ev = "OTHER" /\ copy = FALSE
    /\ alive = TRUE /\ mon = << >> /\ halted = FALSE
    /\ sel \in Anywhere /\ nets = {sel} \ {NoAP}
    /\ \/ assoc = NoAP /\ lease = NoAP /\ sta_state \in {"IDLE", "DISCONNECTED"}
       \/ assoc = sel /\ sel # NoAP /\ lease \in {NoAP, sel} /\ sta_state = "CONNECTED"
    /\ reached = FALSE /\ news = FALSE

-----------------------------------------------------------------------------
(* wpa_supplicant (external) *)

Room(n) == Len(mon) + n <= MonCap
Trying == alive /\ sel # NoAP /\ ~halted /\ assoc = NoAP
QuietSupp == <<sta_state, lib, sock, work, evth, alive, nets, sel, halted, lease>>

\* The scan did not find the network.
SupNotFound ==
    /\ Trying /\ Room(2)
    /\ mon' = mon \o <<"SCAN_RESULTS", "NETWORK_NOT_FOUND">>
    /\ UNCHANGED <<QuietSupp, assoc, hist>>

SupScan ==
    /\ alive /\ Room(1)
    /\ \E e \in Noise : mon' = Append(mon, e)
    /\ UNCHANGED <<QuietSupp, assoc, hist>>

SupReject ==
    /\ Trying /\ Room(1)
    /\ \E e \in {"PASSWORD_INCORRECT", "ASSOC_REJECT"} : mon' = Append(mon, e)
    /\ UNCHANGED <<QuietSupp, assoc, hist>>

SupAssociate ==
    /\ Trying /\ Room(1)
    /\ assoc' = sel
    /\ mon' = Append(mon, "CONNECTED")
    /\ reached' = (reached \/ sel = target)
    /\ UNCHANGED <<QuietSupp, news>>

\* The access point goes away, or throws the station out.
SupLost ==
    /\ alive /\ assoc # NoAP /\ Room(1)
    /\ assoc' = NoAP
    /\ mon' = Append(mon, "DISCONNECTED")
    /\ UNCHANGED <<QuietSupp, hist>>

SupDies ==
    /\ MayDie /\ alive /\ Room(1)
    /\ alive' = FALSE /\ assoc' = NoAP
    /\ mon' = Append(mon, "TERMINATING")
    /\ UNCHANGED <<sta_state, lib, sock, work, evth, nets, sel, halted, lease, hist>>

\* The commands, to a process that is alive.  Each drops the association, if
\* there is one it does not keep, with an event.  SELECT_NETWORK disables the
\* other networks.
Drop == /\ assoc' = NoAP
        /\ mon' = IF assoc # NoAP THEN Append(mon, "DISCONNECTED") ELSE mon
CmdSelect(a)  == Drop /\ sel' = a /\ nets' = nets \cup {a} /\ halted' = FALSE
CmdRemove(a)  == /\ nets' = nets \ {a}
                 /\ sel' = IF sel = a THEN NoAP ELSE sel
                 /\ IF assoc = a THEN Drop ELSE UNCHANGED <<assoc, mon>>
                 /\ UNCHANGED halted
CmdDisconnect == Drop /\ halted' = TRUE /\ UNCHANGED <<sel, nets>>
CmdReconnect  == halted' = FALSE /\ UNCHANGED <<sel, nets, assoc, mon>>
NoCmd == UNCHANGED <<nets, sel, assoc, halted, mon>>

-----------------------------------------------------------------------------
(* wpas_event_thread *)

\* wifi_wait_on_socket.
Take ==
    /\ epc = "idle" /\ mon # << >>
    /\ ev' = Head(mon) /\ mon' = Tail(mon)
    /\ epc' = "send"
    /\ UNCHANGED <<sta_state, lib, sock, work, copy, alive, nets, sel, assoc, halted, lease, hist>>

\* wpas_event_notify, first half: evt_send, a blocking write.
Send ==
    /\ epc = "send" /\ Len(sock) < SockCap
    /\ sock' = Append(sock, ev)
    /\ epc' = "state"
    /\ news' = (news \/ ev = "DHCP_SUCCESS")
    /\ UNCHANGED <<sta_state, lib, work, ev, copy, supp, lease, reached>>

\* Mutant: a lost link is noticed only by the application.
StateAfterKeeps(e, s) ==
    CASE e = "CONNECTED"    -> "CONNECTED"
      [] e = "DHCP_START"   -> "OBTAINING_IP"
      [] e = "DHCP_TIMEOUT" -> "DHCP_TIMEOUT"
      [] e = "DHCP_SUCCESS" -> "NET_CONNECTED"
      [] e \in {"TERMINATING", "ASSOC_REJECT", "NETWORK_NOT_FOUND",
                "PASSWORD_INCORRECT"} -> "DISCONNECTED"
      [] OTHER -> s

\* What sta_wpa_event_notify makes of an event.
StateAfter(e, s) ==
    CASE e = "CONNECTED"    -> "CONNECTED"
      [] e = "DHCP_START"   -> "OBTAINING_IP"
      [] e = "DHCP_TIMEOUT" -> "DHCP_TIMEOUT"
      [] e = "DHCP_SUCCESS" -> "NET_CONNECTED"
      [] e \in {"TERMINATING", "DISCONNECTED", "ASSOC_REJECT", "NETWORK_NOT_FOUND",
                "PASSWORD_INCORRECT"} -> "DISCONNECTED"
      [] OTHER -> s

\* wpas_event_notify, second half: sta_wpa_event_notify; then what
\* wpas_dispatch_event or try_start_udhcpc does next.
State ==
    /\ epc = "state"
    /\ sta_state' = StateAfter(ev, sta_state)
    /\ epc' = CASE ev = "CONNECTED"    -> "sleep"
                [] ev = "DHCP_START"   -> "dhcp"
                [] ev = "TERMINATING"  -> "dead"
                [] ev = "DISCONNECTED" -> "lost"
                [] ev = "ASSOC_REJECT" -> "reject"
                [] ev = "DHCP_SUCCESS" /\ copy -> "copy"
                [] OTHER -> "idle"
    /\ UNCHANGED <<lib, sock, work, ev, copy, supp, lease, hist>>

\* The flag is read ...
Lost ==
    /\ epc = "lost"
    /\ epc' = IF auto_reconn THEN "reconnect" ELSE "idle"
    /\ UNCHANGED <<sta_state, lib, sock, work, ev, copy, supp, lease, hist>>

\* ... and RECONNECT sent.
Reconnect ==
    /\ epc = "reconnect"
    /\ IF alive THEN CmdReconnect ELSE NoCmd
    /\ epc' = "idle"
    /\ UNCHANGED <<sta_state, lib, sock, work, ev, copy, alive, lease, hist>>

\* DISCONNECT after ASSOC-REJECT.
Reject ==
    /\ epc = "reject"
    /\ IF alive THEN CmdDisconnect ELSE NoCmd
    /\ epc' = "idle"
    /\ UNCHANGED <<sta_state, lib, sock, work, ev, copy, alive, lease, hist>>

\* try_start_udhcpc: one second later.
Sleep ==
    /\ epc = "sleep"
    /\ ev' = "DHCP_START" /\ epc' = "send"
    /\ UNCHANGED <<sta_state, lib, sock, work, copy, supp, lease, hist>>

\* There is an address, it is recent and, as far as the two ssids tell, of this
\* network: it is kept.
DhcpKeep ==
    /\ epc = "dhcp" /\ lease # NoAP /\ old_ssid = new_ssid
    /\ ev' = "DHCP_SUCCESS" /\ copy' = FALSE /\ epc' = "send"
    /\ UNCHANGED <<sta_state, lib, sock, work, supp, lease, hist>>

\* No address, another ssid, or an old lease: udhcpc runs.  It needs a network.
DhcpRun ==
    /\ epc = "dhcp"
    /\ \E got \in BOOLEAN :
          /\ got => assoc # NoAP
          /\ lease' = IF got THEN assoc ELSE NoAP
          /\ ev' = IF got THEN "DHCP_SUCCESS" ELSE "DHCP_TIMEOUT"
    /\ copy' = (lease = NoAP \/ old_ssid # new_ssid)
    /\ epc' = "send"
    /\ UNCHANGED <<sta_state, lib, sock, work, supp, hist>>

\* strcpy(old_ssid, new_ssid).
CopySsid ==
    /\ epc = "copy"
    /\ old_ssid' = new_ssid
    /\ epc' = "idle"
    /\ UNCHANGED <<sta_state, auto_reconn, new_ssid, sock, work, ev, copy, supp, lease, hist>>

-----------------------------------------------------------------------------
(* sta_connect, linux_supplicant_connect_to_ap *)

\* A new call of the application.
Begin(o, pc) ==
    /\ wpc = "idle" /\ calls < MaxCalls /\ o \in Ops
    /\ op' = o
    /\ calls' = calls + 1
    /\ wpc' = pc

Return(r) == wpc' = "idle" /\ ret' = r

\* A call that ends in the handler of wmg_sta.c.
Refuse(o) ==
    /\ Begin(o, "idle")
    /\ ret' = "UNHANDLED"
    /\ UNCHANGED <<sta_state, lib, sock, target, try_cnt, evth, supp, lease, hist>>

ConnectBusy == sta_state \in {"CONNECTING", "OBTAINING_IP"} /\ Refuse("connect")

Connect(a) ==
    /\ Begin("connect", "exist")
    /\ sta_state \notin {"CONNECTING", "OBTAINING_IP"}
    /\ sta_state' = "CONNECTING"
    /\ target' = a /\ try_cnt' = 0 /\ ret' = "FAIL"
    /\ reached' = (assoc = a) /\ news' = FALSE
    /\ UNCHANGED <<lib, sock, evth, supp, lease>>

\* wpa_conf_is_ap_exist: already current, configured, or neither (or no answer).
Exist ==
    /\ wpc = "exist"
    /\ wpc' = CASE alive /\ target \in nets /\ assoc = target -> "already"
                [] alive /\ target \in nets /\ assoc # target -> "remove"
                [] OTHER -> "clear"
    /\ UNCHANGED <<sta_state, lib, sock, op, target, try_cnt, ret, calls, evth, supp, lease, hist>>

Already ==
    /\ wpc = "already"
    /\ sta_state' = StateAfter("CONNECTED", sta_state)
    /\ Return("SUCCESS")
    /\ UNCHANGED <<lib, sock, op, target, try_cnt, calls, evth, supp, lease, hist>>

\* The old entry is removed first; failing that, the call fails.
Remove ==
    /\ wpc = "remove"
    /\ IF alive
       THEN CmdRemove(target) /\ wpc' = "clear" /\ UNCHANGED <<sta_state, ret>>
       ELSE sta_state' = StateAfter("DISCONNECTED", sta_state) /\ Return("FAIL") /\ NoCmd
    /\ UNCHANGED <<lib, sock, op, target, try_cnt, calls, evth, alive, lease, hist>>

\* Mutant: the events of the previous attempt are not thrown away.
ClearNot ==
    /\ wpc = "clear"
    /\ new_ssid' = target
    /\ wpc' = "select"
    /\ UNCHANGED <<sta_state, auto_reconn, old_ssid, sock, op, target, try_cnt, ret, calls,
                   evth, supp, lease, hist>>

\* evt_socket_clear, new_ssid.
Clear ==
    /\ wpc = "clear"
    /\ sock' = << >>
    /\ new_ssid' = target
    /\ wpc' = "select"
    /\ UNCHANGED <<sta_state, auto_reconn, old_ssid, op, target, try_cnt, ret, calls,
                   evth, supp, lease, hist>>

\* wpas_select_network up to SELECT_NETWORK.
Select ==
    /\ wpc = "select" /\ alive
    /\ CmdSelect(target)
    /\ wpc' = "read"
    /\ UNCHANGED <<sta_state, lib, sock, op, target, try_cnt, ret, calls, evth, alive, lease, hist>>

\* wpas_select_network fails after ADD_NETWORK (a bad password) or before it.
SelectFails ==
    /\ wpc = "select"
    /\ nets' = IF alive THEN nets \cup {target} ELSE nets
    /\ sta_state' = StateAfter("DISCONNECTED", sta_state)
    /\ Return("FAIL")
    /\ UNCHANGED <<lib, sock, op, target, try_cnt, calls, evth, alive, mon, sel, assoc, halted,
                   lease, hist>>

\* The loop around evt_read: one event.
Read ==
    /\ wpc = "read" /\ try_cnt < TryMax /\ sock # << >>
    /\ sock' = Tail(sock)
    /\ LET e == Head(sock) IN
          /\ ret' = CASE e \in {"CONNECTED", "DHCP_START"} -> "NOT_READY"
                      [] e = "DHCP_TIMEOUT" -> "FAIL"
                      [] e = "DHCP_SUCCESS" -> "SUCCESS"
                      [] OTHER -> ret
          /\ wpc' = IF e \in {"DHCP_TIMEOUT", "DHCP_SUCCESS", "PASSWORD_INCORRECT", "ASSOC_REJECT"}
                    THEN "finish" ELSE "read"
          /\ try_cnt' = IF e \in {"DISCONNECTED", "SCAN_RESULTS", "SCAN_FAILED", "OTHER", "TERMINATING"}
                        THEN try_cnt + 1 ELSE try_cnt
    /\ UNCHANGED <<sta_state, lib, op, target, calls, evth, supp, lease, hist>>

\* Mutant: a time-out is not counted as a try.
ReadTimeoutFree ==
    /\ wpc = "read" /\ try_cnt < TryMax /\ sock = << >>
    /\ UNCHANGED vars

\* Mutant: one try too many.
ReadTimeoutLate ==
    /\ wpc = "read" /\ try_cnt <= TryMax /\ sock = << >>
    /\ try_cnt' = try_cnt + 1
    /\ UNCHANGED <<sta_state, lib, sock, wpc, op, target, ret, calls, evth, supp, lease, hist>>

\* 70 seconds without an event.
ReadTimeout ==
    /\ wpc = "read" /\ try_cnt < TryMax /\ sock = << >>
    /\ try_cnt' = try_cnt + 1
    /\ UNCHANGED <<sta_state, lib, sock, wpc, op, target, ret, calls, evth, supp, lease, hist>>

\* The tries are used up.
ReadEnds ==
    /\ wpc = "read" /\ try_cnt >= TryMax
    /\ wpc' = "finish"
    /\ UNCHANGED <<sta_state, lib, sock, op, target, try_cnt, ret, calls, evth, supp, lease, hist>>

\* SAVE_CONFIG, or REMOVE_NETWORK for an attempt that did not succeed.
Finish ==
    /\ wpc = "finish"
    /\ Return(ret)
    /\ IF ret # "SUCCESS" /\ alive THEN CmdRemove(target) ELSE NoCmd
    /\ UNCHANGED <<sta_state, lib, sock, op, target, try_cnt, calls, evth, alive, lease, hist>>

-----------------------------------------------------------------------------
(* sta_disconnect, linux_supplicant_disconnect_to_ap *)

DisconnectUnhandled == sta_state = "DISCONNECTED" /\ Refuse("disconnect")

Disconnect ==
    /\ Begin("disconnect", "status") /\ sta_state # "DISCONNECTED"
    /\ sta_state' = "DISCONNECTING"
    /\ ret' = "SUCCESS"
    /\ UNCHANGED <<lib, sock, target, try_cnt, evth, supp, lease, hist>>

\* STATUS: nothing more to do unless it says COMPLETED.
DisconnectStatus ==
    /\ wpc = "status"
    /\ wpc' = IF alive /\ assoc # NoAP THEN "discmd" ELSE "idle"
    /\ UNCHANGED <<sta_state, lib, sock, op, target, try_cnt, ret, calls, evth, supp, lease, hist>>

\* DISCONNECT; a failure ends the handler, which returns SUCCESS all the same.
DisconnectCmd ==
    /\ wpc = "discmd"
    /\ IF alive THEN CmdDisconnect /\ wpc' = "noauto" ELSE NoCmd /\ wpc' = "idle"
    /\ UNCHANGED <<sta_state, lib, sock, op, target, try_cnt, ret, calls, evth, alive, lease, hist>>

\* ifconfig 0.0.0.0, and last the automatic reconnection is switched off.
DisconnectNoAuto ==
    /\ wpc = "noauto"
    /\ lease' = NoAP
    /\ auto_reconn' = FALSE
    /\ wpc' = "idle"
    /\ UNCHANGED <<sta_state, new_ssid, old_ssid, sock, op, target, try_cnt, ret, calls,
                   evth, supp, hist>>

-----------------------------------------------------------------------------
(* sta_auto_reconnect, wpa_set_auto_reconn *)

AutoReconnect(on) ==
    /\ Begin("auto", IF on THEN "autoon" ELSE "autooff")
    /\ auto_reconn' = on
    /\ ret' = "SUCCESS"
    /\ UNCHANGED <<sta_state, new_ssid, old_ssid, sock, target, try_cnt, evth, supp, lease, hist>>

\* On: RECONNECT.
AutoOn ==
    /\ wpc = "autoon"
    /\ IF alive THEN CmdReconnect ELSE NoCmd
    /\ wpc' = "idle"
    /\ UNCHANGED <<sta_state, lib, sock, op, target, try_cnt, ret, calls, evth, alive, lease, hist>>

\* Off: STATUS; when it says SCANNING (an attempt also has other states) ...
AutoOff ==
    /\ wpc = "autooff"
    /\ \E scanning \in BOOLEAN :
          /\ scanning => Trying
          /\ wpc' = IF scanning THEN "stopscan" ELSE "idle"
    /\ UNCHANGED <<sta_state, lib, sock, op, target, try_cnt, ret, calls, evth, supp, lease, hist>>

\* ... DISCONNECT.
StopScan ==
    /\ wpc = "stopscan"
    /\ IF alive THEN CmdDisconnect ELSE NoCmd
    /\ wpc' = "idle"
    /\ UNCHANGED <<sta_state, lib, sock, op, target, try_cnt, ret, calls, evth, alive, lease, hist>>

-----------------------------------------------------------------------------
(* sta_get_scan_results, wpa_get_scan_results *)

ScanBusy == sta_state = "OBTAINING_IP" /\ Refuse("scan")

Scan ==
    /\ Begin("scan", "scan") /\ sta_state # "OBTAINING_IP"
    /\ try_cnt' = 0 /\ ret' = "FAIL"
    /\ UNCHANGED <<sta_state, lib, sock, target, evth, supp, lease, hist>>

\* scan_once: the socket is cleared, SCAN is sent: accepted, FAIL-BUSY, or failed.
ScanOnce ==
    /\ wpc = "scan"
    /\ sock' = << >>
    /\ wpc' \in (IF alive THEN {"scanwait", "results"} ELSE {"idle"})
    /\ UNCHANGED <<sta_state, lib, op, target, try_cnt, ret, calls, evth, supp, lease, hist>>

\* One event, or a time-out.
ScanRead ==
    /\ wpc = "scanwait" /\ try_cnt < TryMax
    /\ LET e == IF sock = << >> THEN "TIMEOUT" ELSE Head(sock) IN
          /\ sock' = IF sock = << >> THEN sock ELSE Tail(sock)
          /\ wpc' = CASE e = "SCAN_RESULTS" -> "results"
                      [] e = "SCAN_FAILED" /\ try_cnt >= 2 -> "idle"
                      [] e = "SCAN_FAILED" /\ try_cnt < 2 -> "scan"
                      [] OTHER -> "scanwait"
          /\ try_cnt' = IF e = "SCAN_RESULTS" \/ (e = "SCAN_FAILED" /\ try_cnt >= 2)
                        THEN try_cnt ELSE try_cnt + 1
    /\ UNCHANGED <<sta_state, lib, op, target, ret, calls, evth, supp, lease, hist>>

ScanGivesUp ==
    /\ wpc = "scanwait" /\ try_cnt >= TryMax
    /\ Return("FAIL")
    /\ UNCHANGED <<sta_state, lib, sock, op, target, try_cnt, calls, evth, supp, lease, hist>>

\* SCAN_RESULTS is sent until it is answered: the label that the retry jumps
\* back to resets the counter the retry is limited by.
ScanResults ==
    /\ wpc = "results"
    /\ IF alive THEN Return("SUCCESS") /\ UNCHANGED try_cnt
                ELSE try_cnt' = 0 /\ UNCHANGED <<wpc, ret>>
    /\ UNCHANGED <<sta_state, lib, sock, op, target, calls, evth, supp, lease, hist>>

-----------------------------------------------------------------------------
EventThread ==
    Take \/ Send \/ State \/ Lost \/ Reconnect \/ Reject \/ Sleep \/ DhcpKeep \/ DhcpRun \/ CopySsid

ConnectStep ==
    Exist \/ Already \/ Remove \/ Clear \/ Select \/ SelectFails
      \/ Read \/ ReadTimeout \/ ReadEnds \/ Finish
DisconnectStep == DisconnectStatus \/ DisconnectCmd \/ DisconnectNoAuto
AutoStep == AutoOn \/ AutoOff \/ StopScan
ScanStep == ScanOnce \/ ScanRead \/ ScanGivesUp \/ ScanResults

Supplicant == SupNotFound \/ SupScan \/ SupReject \/ SupAssociate \/ SupLost \/ SupDies

Application ==
    \/ ConnectBusy \/ \E a \in APs : Connect(a)
    \/ DisconnectUnhandled \/ Disconnect
    \/ \E on \in BOOLEAN : AutoReconnect(on)
    \/ ScanBusy \/ Scan

Next == \/ Supplicant \/ EventThread
        \/ ConnectStep \/ DisconnectStep \/ AutoStep \/ ScanStep
        \/ Application

Spec == Init /\ [][Next]_vars

\* The two threads of the program run when they can; nothing is assumed of the
\* supplicant, the access points or the application.
FairSpec ==
    /\ Spec
    /\ WF_vars(EventThread)
    /\ WF_vars(ConnectStep) /\ WF_vars(DisconnectStep) /\ WF_vars(AutoStep) /\ WF_vars(ScanStep)

-----------------------------------------------------------------------------
TypeOK ==
    /\ sta_state \in States /\ auto_reconn \in BOOLEAN
    /\ new_ssid \in Anywhere /\ old_ssid \in Anywhere
    /\ sock \in Seq(Events) /\ Len(sock) <= SockCap
    /\ wpc \in {"idle", "exist", "already", "remove", "clear", "select", "read", "finish",
               "status", "discmd", "noauto", "autoon", "autooff", "stopscan",
               "scan", "scanwait", "results"}
    /\ op \in Ops \cup {"none"} /\ target \in Anywhere
    /\ try_cnt \in 0..TryMax /\ calls \in 0..MaxCalls
    /\ ret \in {"NONE", "SUCCESS", "FAIL", "NOT_READY", "UNHANDLED"}
    /\ epc \in {"idle", "send", "state", "lost", "reconnect", "reject", "sleep", "dhcp",
               "copy", "dead"}
    /\ ev \in Events /\ copy \in BOOLEAN
    /\ alive \in BOOLEAN /\ mon \in Seq(Events)
    /\ nets \subseteq APs /\ sel \in Anywhere /\ assoc \in Anywhere
    /\ halted \in BOOLEAN /\ lease \in Anywhere
    /\ reached \in BOOLEAN /\ news \in BOOLEAN

\* The news that the link is gone is on its way to sta_state.
LossPending ==
    \/ \E i \in DOMAIN mon : mon[i] \in {"DISCONNECTED", "TERMINATING"}
    \/ epc \in {"send", "state"} /\ ev \in {"DISCONNECTED", "TERMINATING"}

\* NET_CONNECTED is never left standing without a link: either the station is
\* associated, or the event that will change the state is on its way
\* (wmg_sta.c:62, 66-71).
NetConnectedReal == sta_state = "NET_CONNECTED" => assoc # NoAP \/ LossPending

\* A connect call that ends in success was told so by an event sent during the
\* call: evt_socket_clear (linux_wpa.c:1604) removed the older ones.
SuccessIsNews == op = "connect" /\ wpc = "finish" /\ ret = "SUCCESS" => news

\* Every call other than a scan returns to the worker.
CallsReturn == (wpc # "idle" /\ op # "scan") ~> wpc = "idle"

-----------------------------------------------------------------------------
(* What wifimg.h says of the calls and states, and the code does not keep. *)

\* wifimg.h:412: "return: 0 - sta connect to ap success".  A connect call that
\* returned success was associated with its target at some time during the call.
ConnectSuccessMeansConnected ==
    op = "connect" /\ wpc = "idle" /\ ret = "SUCCESS" => reached

\* wifimg.h:419: "return: 0 - sta disconnect from ap success".  After it, and
\* until the next call, the station is not associated.
DisconnectSticks ==
    op = "disconnect" /\ wpc = "idle" /\ ret = "SUCCESS" => assoc = NoAP

\* A scan answers, if only with "others - fail" (wifimg.h:523).
ScanReturns == (wpc # "idle" /\ op = "scan") ~> wpc = "idle"
=============================================================================
