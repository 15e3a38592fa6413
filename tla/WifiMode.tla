------------------------------- MODULE WifiMode -------------------------------
(***************************************************************************)
(* The mode manager of the Wi-Fi library: wmg_common.c (wifimg_object), the *)
(* enable and disable halves of wmg_sta.c, wmg_ap.c and wmg_monitor.c, and  *)
(* the platform code they call in linux_wpa.c, linux_hapd.c and linux_nl.c. *)
(*                                                                          *)
(* The worker of ActTransfer runs one call at a time, so nothing else       *)
(* writes this state; wifi_on and wifi_off are still split at every mode    *)
(* they disable or enable, because get_current_mode is called from other    *)
(* threads in between.  A bitmap is the set of its modes.                   *)
(*                                                                          *)
(* wpa_supplicant, hostapd and the netlink socket are external; Faults      *)
(* names the ways in which they may fail.  They do not die on their own.    *)
(***************************************************************************)
EXTENDS Integers, FiniteSets

CONSTANTS
    Switchable, \* the values of wifi_mode_t the application passes to wifi_on
    Faults,     \* what may fail: see FaultKinds
    MaxCalls    \* bound: calls the application makes

Modes == {"STA", "AP", "MON"}
\* What tuya_adapter_wifi_set_work_mode passes to wifi_on.
OneMode == {"STATION", "AP", "MONITOR"}
FaultKinds == {"init",      \* allocation or nl80211_init in wifimg_init
               "kill",      \* the other daemon survives kill -9
               "start",     \* the daemon does not come up
               "socket",    \* its control socket cannot be opened
               "command",   \* hostapd refuses a command
               "netlink"}   \* nl_send_auto_complete

ASSUME ModeAssumption ==
    /\ Switchable \subseteq {"STATION", "AP", "MONITOR", "AP_STATION", "AP_MONITOR"}
    /\ Faults \subseteq FaultKinds
    /\ MaxCalls \in Nat

VARIABLES
    (* wifimg_object *)
    init_flag,
    current,        \* current_mode_bitmap
    (* sta_object, ap_object, monitor_object *)
    inited,         \* modes with init_flag set
    enabled,        \* modes with sta_enable, ap_enable, monitor_enable set
    run,            \* modes with wpas_run, hapd_run, nl_run set
    ap_state,       \* ap_state is WIFI_AP_ENABLE
    monitor_state,  \* monitor_state is WIFI_MONITOR_ENABLE
    msg_cb,         \* modes with a message callback
    (* the platform objects *)
    pid,            \* modes whose sta_pid, ap_pid, monitor_pid is not -1
    threads,        \* threads created and not cancelled, per mode
    nl_enable,      \* monitor_nl_inf_object.monitor_enable
    supplicant,     \* wpa_supplicant runs
    hostapd,        \* "dead", or running and "up" or "down"
    (* the call in progress *)
    call,           \* "none", "wifi_off" or the mode wifi_on was given
    off, on,        \* modes still to be disabled, to be enabled
    (* what the application saw *)
    ret,            \* the last call that returned, and its status
    told,           \* wifi_register_msg_cb has returned SUCCESS since the last init
    single,         \* wifi_on was never given a concurrent mode
    calls           \* calls made so far

flags == <<inited, enabled, run, ap_state, monitor_state, msg_cb>>
plat == <<pid, threads, nl_enable, supplicant, hostapd>>
todo == <<call, off, on>>
seen == <<ret, told, single, calls>>
vars == <<init_flag, current, flags, plat, todo, seen>>

\* wmg_wifi_mode_to_bitmap
Bitmap(mode) ==
    CASE mode = "STATION"    -> {"STA"}
      [] mode = "AP"         -> {"AP"}
      [] mode = "MONITOR"    -> {"MON"}
      [] mode = "AP_STATION" -> {"AP", "STA"}
      [] mode = "AP_MONITOR" -> {"AP", "MON"}

\* wmg_wifi_bitmap_to_mode and back: a bitmap of no mode reads as UNKNOWN.
Known(bits) == IF bits = {"STA", "MON"} \/ bits = Modes THEN {} ELSE bits

Statuses == {"SUCCESS", "FAIL", "NOT_READY"}
Calls == {"none", "init", "wifi_on", "wifi_off", "ap_enable", "ap_disable",
          "monitor_enable", "monitor_disable", "set_channel", "register_msg_cb"}

Init ==
    /\ init_flag = FALSE /\ current = {}
    /\ inited = {} /\ enabled = {} /\ run = {} /\ msg_cb = {}
    /\ ap_state = FALSE /\ monitor_state = FALSE
    /\ pid = {} /\ threads = [m \in Modes |-> 0] /\ nl_enable = FALSE
    /\ supplicant \in BOOLEAN /\ hostapd \in {"dead", "up"} /\ ~(supplicant /\ hostapd = "up")
    /\ call = "none" /\ off = {} /\ on = {}
    /\ ret = [op |-> "none", status |-> "SUCCESS"] /\ told = FALSE
    /\ single = TRUE /\ calls = 0

-----------------------------------------------------------------------------
(* Calls that return at once *)

Idle == call = "none"
Return(op, s) == ret' = [op |-> op, status |-> s]
CallMade == Idle /\ calls < MaxCalls /\ calls' = calls + 1

\* wifimg_init goes through the modes in order; one that fails leaves the
\* earlier ones initialised.
InitModes ==
    \/ inited' = Modes /\ init_flag' = TRUE
    \/ /\ "init" \in Faults
       /\ \E done \in {{}, {"STA"}, {"STA", "AP"}} : inited' = inited \cup done
       /\ UNCHANGED init_flag

\* tuya_wifi_init
AppInit ==
    /\ CallMade /\ ~init_flag
    /\ InitModes
    /\ Return("init", IF init_flag' THEN "SUCCESS" ELSE "FAIL")
    /\ UNCHANGED <<current, enabled, run, ap_state, monitor_state, msg_cb, plat, todo, told, single>>

\* wifi_register_msg_cb: mode_ctl of a mode that is not enabled says SUCCESS
\* and does nothing.
RegisterMsgCb ==
    /\ CallMade
    /\ msg_cb' = IF init_flag THEN msg_cb \cup enabled ELSE msg_cb
    /\ told' = (told \/ init_flag)
    /\ Return("register_msg_cb", IF init_flag THEN "SUCCESS" ELSE "NOT_READY")
    /\ UNCHANGED <<init_flag, current, inited, enabled, run, ap_state, monitor_state, plat, todo,
                   single>>

-----------------------------------------------------------------------------
(* wifi_on and wifi_off *)

\* __wifi_on up to the first mode to change.  current = Bitmap(mode) returns
\* UNHANDLED from wifimg_switch_mode, which __wifi_on turns into SUCCESS.
WifiOn(mode) ==
    /\ CallMade
    /\ IF init_flag THEN UNCHANGED <<init_flag, inited>> ELSE InitModes
    /\ \/ ~init_flag' /\ Return("wifi_on", "FAIL") /\ UNCHANGED todo
       \/ init_flag' /\ current = Bitmap(mode) /\ Return("wifi_on", "SUCCESS") /\ UNCHANGED todo
       \/ /\ init_flag' /\ current # Bitmap(mode)
          /\ call' = mode
          /\ off' = Known(current) \ Bitmap(mode)
          /\ on' = Bitmap(mode) \ Known(current)
          /\ UNCHANGED ret
    /\ single' = (single /\ mode \in OneMode)
    /\ UNCHANGED <<current, enabled, run, ap_state, monitor_state, msg_cb, plat, told>>

\* __wifi_off
WifiOff ==
    /\ CallMade
    /\ IF init_flag
       THEN call' = "wifi_off" /\ off' = current /\ UNCHANGED <<on, ret>>
       ELSE Return("wifi_off", "SUCCESS") /\ UNCHANGED todo
    /\ UNCHANGED <<init_flag, current, flags, plat, told, single>>

\* The bitmap after a successful disable: "current_mode_bitmap &= (!STA_BITMAP)"
\* is a logical not, so every bit goes.
ClearedNothing(bits, m) == bits
Cleared(bits, m) == {}

Disabled(m) == off' = off \ {m} /\ current' = Cleared(current, m) /\ UNCHANGED <<call, on>>

\* A mode to disable is in the bitmap, so initialised and enabled (CurrentEnabled).
\* sta_mode_disable: DISCONNECT is sent, the daemon and the thread stay.
DisableSta ==
    /\ "STA" \in off
    /\ Disabled("STA")
    /\ enabled' = enabled \ {"STA"}
    /\ UNCHANGED <<init_flag, inited, run, ap_state, monitor_state, msg_cb, plat, seen>>

\* linux_ap_hapd_disable: with hostapd up the command may be refused.
HapdDisable ==
    \/ hostapd' = IF hostapd = "up" THEN "down" ELSE hostapd
    \/ "command" \in Faults /\ UNCHANGED hostapd

\* ap_mode_disable: ap_state and hapd_run are left.
DisableAp ==
    /\ "AP" \in off /\ "STA" \notin off
    /\ Disabled("AP")
    /\ HapdDisable /\ enabled' = enabled \ {"AP"}
    /\ UNCHANGED <<init_flag, inited, run, ap_state, monitor_state, msg_cb,
                   pid, threads, nl_enable, supplicant, seen>>

\* linux_monitor_nl_disable: a refused netlink message leaves all as it is.
NlDisable ==
    \/ ~nl_enable /\ UNCHANGED <<pid, threads, nl_enable>>
    \/ /\ nl_enable
       /\ nl_enable' = FALSE /\ pid' = pid \ {"MON"}
       /\ threads' = [threads EXCEPT !["MON"] = IF "MON" \in pid THEN @ - 1 ELSE @]
    \/ "netlink" \in Faults /\ nl_enable /\ UNCHANGED <<pid, threads, nl_enable>>

\* monitor_mode_disable: monitor_state is left.
DisableMon ==
    /\ off = {"MON"}
    /\ Disabled("MON")
    /\ NlDisable /\ enabled' = enabled \ {"MON"} /\ run' = run \ {"MON"}
    /\ UNCHANGED <<init_flag, inited, ap_state, monitor_state, msg_cb, supplicant, hostapd, seen>>

\* The modes are initialised here, so mode_enable never refuses for that.
Switching == ~Idle /\ call # "wifi_off" /\ off = {}
Tried(m) == on' = on \ {m} /\ UNCHANGED <<call, off>>
FlagForgotten(m) == current' = current \cup {m} /\ run' = run \cup {m} /\ UNCHANGED enabled
Enabled(m) == current' = current \cup {m} /\ enabled' = enabled \cup {m} /\ run' = run \cup {m}
NotEnabled == UNCHANGED <<current, enabled, run>>
NewThread(m) == threads' = [threads EXCEPT ![m] = @ + 1] /\ pid' = pid \cup {m}

\* linux_connect_to_supplicant: stop hostapd, start wpa_supplicant unless it
\* runs, connect, create the event thread.
ConnectToSupplicant == hostapd' = "dead" /\ supplicant' = TRUE /\ NewThread("STA")

NoSupplicant ==
    /\ \/ "kill" \in Faults /\ hostapd # "dead" /\ UNCHANGED <<supplicant, hostapd>>
       \/ "start" \in Faults /\ ~supplicant /\ hostapd' = "dead" /\ UNCHANGED supplicant
       \/ "socket" \in Faults /\ hostapd' = "dead" /\ supplicant' = TRUE
    /\ UNCHANGED <<threads, pid>>

\* sta_mode_enable
EnableSta ==
    /\ Switching /\ "STA" \in on
    /\ Tried("STA")
    /\ \/ /\ "STA" \in enabled
          /\ current' = current \cup {"STA"}
          /\ UNCHANGED <<enabled, run, supplicant, hostapd, threads, pid>>
       \/ "STA" \notin enabled /\ ConnectToSupplicant /\ Enabled("STA")
       \/ "STA" \notin enabled /\ NoSupplicant /\ NotEnabled
    /\ UNCHANGED <<init_flag, inited, ap_state, monitor_state, msg_cb, nl_enable, seen>>

\* hostapd after start_hostapd: a running one is used as it is.
Started == IF hostapd = "dead" THEN "up" ELSE hostapd

\* What stopping wpa_supplicant in linux_connect_to_hostapd leaves of it.
StoppedNot(running) == running
Stopped(running) == FALSE

\* linux_connect_to_hostapd: stop wpa_supplicant, start hostapd unless it runs,
\* connect, create the event thread.
ConnectToHostapd == supplicant' = Stopped(supplicant) /\ hostapd' = Started /\ NewThread("AP")

NoHostapd ==
    /\ \/ "kill" \in Faults /\ supplicant /\ UNCHANGED <<supplicant, hostapd>>
       \/ "start" \in Faults /\ hostapd = "dead" /\ supplicant' = FALSE /\ UNCHANGED hostapd
       \/ "socket" \in Faults /\ supplicant' = FALSE /\ hostapd' = Started
    /\ UNCHANGED <<threads, pid>>

\* ap_mode_enable
EnableAp ==
    /\ Switching /\ "AP" \in on /\ "STA" \notin on
    /\ Tried("AP")
    /\ \/ /\ "AP" \in enabled
          /\ current' = current \cup {"AP"}
          /\ UNCHANGED <<enabled, run, ap_state, supplicant, hostapd, threads, pid>>
       \/ "AP" \notin enabled /\ ConnectToHostapd /\ Enabled("AP") /\ ap_state' = TRUE
       \/ "AP" \notin enabled /\ NoHostapd /\ NotEnabled /\ UNCHANGED ap_state
    /\ UNCHANGED <<init_flag, inited, monitor_state, msg_cb, nl_enable, seen>>

\* monitor_mode_enable and linux_connect_to_nl, which cannot fail.
EnableMon ==
    /\ Switching /\ on = {"MON"}
    /\ Tried("MON")
    /\ Enabled("MON")
    /\ UNCHANGED <<init_flag, inited, ap_state, monitor_state, msg_cb, plat, seen>>

\* The end of wifimg_switch_mode and __wifi_on.
Switched ==
    /\ Switching /\ on = {}
    /\ Return("wifi_on", IF current = Bitmap(call) THEN "SUCCESS" ELSE "FAIL")
    /\ call' = "none"
    /\ UNCHANGED <<init_flag, current, flags, plat, off, on, told, single, calls>>

\* os_net_thread_delete of the thread in pid, if there is one.
Cancelled(m) == threads[m] - (IF m \in pid THEN 1 ELSE 0)

\* The end of wifimg_deinit: sta_mode_deinit, ap_mode_deinit and
\* monitor_mode_deinit, with linux_supplicant_deinit, linux_ap_hapd_deinit and
\* linux_monitor_nl_deinit.  The enable flags are not among what is reset.
DeInit ==
    /\ call = "wifi_off" /\ off = {}
    /\ init_flag' = FALSE /\ current' = {} /\ inited' = {}
    /\ run' = run \ {"STA"} /\ msg_cb' = {}
    /\ threads' = [m \in Modes |-> IF m = "MON" THEN threads[m] ELSE Cancelled(m)]
    /\ pid' = pid \cap {"MON"}
    /\ \/ supplicant' = FALSE
       \/ "kill" \in Faults /\ UNCHANGED supplicant
    /\ \/ hostapd' = "dead"
       \/ "kill" \in Faults /\ UNCHANGED hostapd
    /\ call' = "none"
    /\ Return("wifi_off", "SUCCESS")
    /\ told' = FALSE
    /\ UNCHANGED <<enabled, ap_state, monitor_state, nl_enable, off, on, single, calls>>

-----------------------------------------------------------------------------
(* Calls of one mode.  The handler wants that mode and no other to be the    *)
(* current one.                                                              *)

Refused(m, op) ==
    /\ CallMade
    /\ ~init_flag \/ current # {m}
    /\ Return(op, "NOT_READY")
    /\ UNCHANGED <<init_flag, current, flags, plat, todo, told, single>>

\* What wifimg_*, mode_ctl and the operation test next (the enable flag, hapd_run,
\* nl_run) follows: see CurrentEnabled.
Admitted(m) == CallMade /\ init_flag /\ current = {m} /\ m \in enabled \cap run

\* linux_ap_hapd_enable: DISABLE if it is up, the settings, ENABLE; a refused
\* command ends it there.
HapdEnable == hostapd # "dead" /\ hostapd' = "up"
HapdEnableFails ==
    \/ (hostapd = "dead" \/ "command" \in Faults) /\ UNCHANGED hostapd
    \/ hostapd # "dead" /\ "command" \in Faults /\ hostapd' = "down"

\* ap_enable with a configuration
ApEnable ==
    /\ Admitted("AP")
    /\ \/ HapdEnable /\ ap_state' = TRUE /\ Return("ap_enable", "SUCCESS")
       \/ HapdEnableFails /\ UNCHANGED ap_state /\ Return("ap_enable", "FAIL")
    /\ UNCHANGED <<init_flag, current, inited, enabled, run, monitor_state, msg_cb,
                   pid, threads, nl_enable, supplicant, todo, told, single>>

\* ap_disable: whatever linux_ap_hapd_disable says, the state is DISABLE.
ApDisable ==
    /\ Admitted("AP")
    /\ \/ ~ap_state /\ Return("ap_disable", "SUCCESS") /\ UNCHANGED hostapd
       \/ /\ ap_state /\ hostapd # "dead"
          /\ hostapd' = "down"
          /\ Return("ap_disable", "SUCCESS")
       \/ /\ ap_state /\ (hostapd = "dead" \/ "command" \in Faults)
          /\ UNCHANGED hostapd
          /\ Return("ap_disable", "FAIL")
    /\ ap_state' = FALSE
    /\ UNCHANGED <<init_flag, current, inited, enabled, run, monitor_state, msg_cb,
                   pid, threads, nl_enable, supplicant, todo, told, single>>

\* linux_monitor_nl_enable: the thread is created before anything can fail.
NlEnable ==
    /\ NewThread("MON")
    /\ \/ nl_enable' = TRUE /\ Return("monitor_enable", "SUCCESS")
       \/ "netlink" \in Faults /\ UNCHANGED nl_enable /\ Return("monitor_enable", "FAIL")

\* monitor_enable
MonitorEnable ==
    /\ Admitted("MON")
    /\ \/ /\ monitor_state
          /\ Return("monitor_enable", "SUCCESS")
          /\ UNCHANGED <<monitor_state, threads, pid, nl_enable>>
       \/ ~monitor_state /\ NlEnable /\ monitor_state' = (ret'.status = "SUCCESS")
    /\ UNCHANGED <<init_flag, current, inited, enabled, run, ap_state, msg_cb,
                   supplicant, hostapd, todo, told, single>>

\* monitor_disable: whatever linux_monitor_nl_disable says, the state is DISABLE.
MonitorDisable ==
    /\ Admitted("MON")
    /\ IF monitor_state
       THEN /\ NlDisable
            /\ Return("monitor_disable", IF nl_enable' THEN "FAIL" ELSE "SUCCESS")
       ELSE Return("monitor_disable", "SUCCESS") /\ UNCHANGED <<pid, threads, nl_enable>>
    /\ monitor_state' = FALSE
    /\ UNCHANGED <<init_flag, current, inited, enabled, run, ap_state, msg_cb,
                   supplicant, hostapd, todo, told, single>>

\* monitor_set_channel and linux_monitor_nl_set_channel
MonitorSetChannel ==
    /\ Admitted("MON")
    /\ \/ monitor_state /\ nl_enable /\ Return("set_channel", "SUCCESS")
       \/ /\ ~(monitor_state /\ nl_enable) \/ "netlink" \in Faults
          /\ Return("set_channel", "FAIL")
    /\ UNCHANGED <<init_flag, current, flags, plat, todo, told, single>>

Next ==
    \/ AppInit \/ RegisterMsgCb
    \/ \E mode \in Switchable : WifiOn(mode)
    \/ WifiOff \/ DeInit
    \/ DisableSta \/ DisableAp \/ DisableMon
    \/ EnableSta \/ EnableAp \/ EnableMon \/ Switched
    \/ \E op \in {"ap_enable", "ap_disable"} : Refused("AP", op)
    \/ \E op \in {"monitor_enable", "monitor_disable", "set_channel"} : Refused("MON", op)
    \/ ApEnable \/ ApDisable
    \/ MonitorEnable \/ MonitorDisable \/ MonitorSetChannel

Spec == Init /\ [][Next]_vars

-----------------------------------------------------------------------------
(* Properties *)

FlagTypes ==
    /\ init_flag \in BOOLEAN /\ ap_state \in BOOLEAN /\ monitor_state \in BOOLEAN
    /\ current \subseteq Modes /\ inited \subseteq Modes /\ enabled \subseteq Modes
    /\ run \subseteq Modes /\ msg_cb \subseteq Modes
PlatTypes ==
    /\ pid \subseteq Modes /\ threads \in [Modes -> Nat] /\ nl_enable \in BOOLEAN
    /\ supplicant \in BOOLEAN /\ hostapd \in {"dead", "up", "down"}
CallTypes ==
    /\ call \in Switchable \cup {"none", "wifi_off"}
    /\ off \subseteq Modes /\ on \subseteq Modes
    /\ ret \in [op : Calls, status : Statuses]
    /\ told \in BOOLEAN /\ single \in BOOLEAN /\ calls \in 0 .. MaxCalls

\* Every variable keeps its type; a thread is never cancelled twice, which
\* would make its count negative.
TypeOK == FlagTypes /\ PlatTypes /\ CallTypes

\* wpa_supplicant and hostapd never run at the same time: each of
\* linux_connect_to_supplicant and linux_connect_to_hostapd stops the other
\* daemon first, and gives up when it cannot.
OneDaemon == ~(supplicant /\ hostapd # "dead")

\* A mode in current_mode_bitmap has its enable flag, and softap and monitor mode
\* have hapd_run and nl_run: a call that __wifi_ap_* and __wifi_monitor_* admit
\* never meets mode_ctl's "already disabled", which reports SUCCESS and does nothing.
CurrentEnabled ==
    /\ current \subseteq enabled
    /\ current \ {"STA"} \subseteq run
    /\ current # {} => init_flag

Served ==
    /\ "STA" \in current => supplicant /\ threads["STA"] > 0
    /\ "AP" \in current => hostapd # "dead" /\ threads["AP"] > 0

\* As long as the application asks for one mode at a time, as
\* tuya_adapter_wifi_set_work_mode does, a mode that wifimg_switch_mode left in
\* current_mode_bitmap is served: its daemon runs and a thread takes the
\* daemon's events, whatever failed before.
ModeServed == single => Served

-----------------------------------------------------------------------------
(* What wifimg.h says of the calls, and the code does not keep. *)

\* wifimg.h:75: "@WIFI_AP_STATION: concurrent mode of station and softap".  Both
\* modes of the bitmap are served (for Faults = {}).
ConcurrentServed == Idle => Served

\* wifimg.h:397: "return: 0 - wifi manager init success, others - fail": wifi_on
\* returns SUCCESS when nothing fails (for Faults = {}).
WifiOnSucceeds == ret.op = "wifi_on" => ret.status = "SUCCESS"

\* wifimg.h:505: "return: 0 - register callback function success".  Once
\* wifi_register_msg_cb returned SUCCESS, the messages of the current mode reach
\* the callback.
RegisteredHears == told /\ Idle => current \subseteq msg_cb
=============================================================================
