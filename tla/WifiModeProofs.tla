---------------------------- MODULE WifiModeProofs ----------------------------
(***************************************************************************)
(* Proofs about WifiMode, for every Faults, MaxCalls and set of modes the     *)
(* application switches between.                                              *)
(***************************************************************************)
EXTENDS WifiMode, TLAPS

USE DEF Modes, Idle

\* A mode whose pid is set has a thread to cancel.
PidThreads == \A m \in pid : threads[m] > 0

\* What is still to be disabled is in the bitmap until the first disable clears
\* it, and is enabled; hapd_run and nl_run come with the enable flags.
PendingOff ==
    /\ off \subseteq enabled /\ enabled \ {"STA"} \subseteq run
    /\ call = "none" => off = {}
    /\ call # "none" => init_flag

ModeInv == TypeOK /\ PidThreads /\ PendingOff /\ OneDaemon /\ CurrentEnabled

LEMMA BitmapType == \A mode \in Switchable : Bitmap(mode) \subseteq Modes
  BY ModeAssumption DEF Bitmap

LEMMA SwitchableCalls == "none" \notin Switchable /\ "wifi_off" \notin Switchable
  BY ModeAssumption

\* Threads and pids together: what creating and cancelling threads keeps.
ThreadsOK == pid \subseteq Modes /\ threads \in [Modes -> Nat] /\ PidThreads

\* os_net_thread_create
LEMMA NewThreadOK == \A m \in Modes : ThreadsOK /\ NewThread(m) => ThreadsOK'
<1> HIDE DEF Modes
<1> SUFFICES ASSUME NEW m \in Modes, ThreadsOK, NewThread(m) PROVE ThreadsOK'
  OBVIOUS
<1>1. threads' = [threads EXCEPT ![m] = threads[m] + 1] /\ pid' = pid \cup {m}
  BY DEF NewThread
<1>2. threads' \in [Modes -> Nat]
  BY <1>1 DEF ThreadsOK
<1>3. \A k \in Modes : threads'[k] = IF k = m THEN threads[k] + 1 ELSE threads[k]
  BY <1>1 DEF ThreadsOK
<1>4. \A k \in Modes : threads[k] \in Nat
  BY DEF ThreadsOK
<1>5. PidThreads'
  BY <1>1, <1>3, <1>4 DEF ThreadsOK, PidThreads
<1> QED
  BY <1>1, <1>2, <1>5 DEF ThreadsOK

\* linux_monitor_nl_disable
LEMMA NlDisableOK == ThreadsOK /\ NlDisable => ThreadsOK' /\ (nl_enable \in BOOLEAN => nl_enable' \in BOOLEAN)
<1> SUFFICES ASSUME ThreadsOK, NlDisable PROVE ThreadsOK' /\ (nl_enable \in BOOLEAN => nl_enable' \in BOOLEAN)
  OBVIOUS
<1>1. CASE UNCHANGED <<pid, threads, nl_enable>>
  BY <1>1 DEF ThreadsOK, PidThreads
<1>2. CASE /\ nl_enable' = FALSE /\ pid' = pid \ {"MON"}
           /\ threads' = [threads EXCEPT !["MON"] = IF "MON" \in pid THEN @ - 1 ELSE @]
  <2>1. \A k \in Modes : threads'[k] =
          IF k = "MON" /\ "MON" \in pid THEN threads[k] - 1 ELSE threads[k]
    BY <1>2 DEF ThreadsOK
  <2>2. \A k \in Modes : threads[k] \in Nat /\ (k \in pid => threads[k] > 0)
    BY DEF ThreadsOK, PidThreads
  <2>3. \A k \in Modes : threads'[k] \in Nat
    BY <2>1, <2>2
  <2>4. threads' \in [Modes -> Nat]
    BY <1>2, <2>3 DEF ThreadsOK
  <2> QED
    BY <1>2, <2>1, <2>2, <2>4 DEF ThreadsOK, PidThreads
<1> QED
  BY <1>1, <1>2 DEF NlDisable

\* The cancellations of the deinit functions.
LEMMA CancelOK ==
  ASSUME ThreadsOK, pid' = pid \cap {"MON"},
         threads' = [m \in Modes |-> IF m = "MON" THEN threads[m] ELSE Cancelled(m)]
  PROVE  ThreadsOK'
<1>1. \A k \in Modes : threads[k] \in Nat /\ (k \in pid => threads[k] > 0)
  BY DEF ThreadsOK, PidThreads
<1>2. \A k \in Modes : Cancelled(k) \in Nat
  BY <1>1 DEF Cancelled
<1>3. threads' \in [Modes -> Nat] /\ threads'["MON"] = threads["MON"]
  BY <1>1, <1>2
<1> QED
  BY <1>1, <1>3 DEF ThreadsOK, PidThreads

\* ModeInv holds initially.
LEMMA ModeInit == Init => ModeInv
<1> SUFFICES ASSUME Init PROVE ModeInv
  OBVIOUS
<1>1. TypeOK
  <2>1. FlagTypes
    BY DEF Init, FlagTypes
  <2>2. PlatTypes
    BY DEF Init, PlatTypes
  <2>3. CallTypes
    <3>1. ret \in [op : Calls, status : Statuses]
      BY DEF Init, Calls, Statuses
    <3>2. calls \in 0 .. MaxCalls
      BY ModeAssumption DEF Init
    <3> QED
      BY <3>1, <3>2 DEF Init, CallTypes
  <2> QED
    BY <2>1, <2>2, <2>3 DEF TypeOK
<1> QED
  BY <1>1 DEF Init, ModeInv, PidThreads, PendingOff, OneDaemon, CurrentEnabled

\* ModeInv is kept by every step.
LEMMA ModeStep == ModeInv /\ [Next]_vars => ModeInv'
<1> SUFFICES ASSUME ModeInv, [Next]_vars PROVE ModeInv'
  OBVIOUS
<1> TypeOK /\ PidThreads /\ PendingOff /\ OneDaemon /\ CurrentEnabled
  BY DEF ModeInv
<1> ThreadsOK
  BY DEF ThreadsOK, TypeOK, PlatTypes
<1> USE ModeAssumption DEF PidThreads, PendingOff, OneDaemon, CurrentEnabled, TypeOK,
         FlagTypes, PlatTypes, CallTypes
<1> USE DEF CallMade, Return, flags, plat, todo, seen, Calls, Statuses
<1>1. CASE AppInit
  <2>1. FlagTypes'
    BY <1>1 DEF AppInit, InitModes
  <2>2. PlatTypes'
    BY <1>1 DEF AppInit, InitModes
  <2>3. CallTypes'
    BY <1>1 DEF AppInit, InitModes
  <2>4. PidThreads'
    BY <1>1 DEF AppInit, InitModes
  <2>5. PendingOff'
    BY <1>1 DEF AppInit, InitModes
  <2>6. OneDaemon'
    BY <1>1 DEF AppInit, InitModes
  <2>7. CurrentEnabled'
    BY <1>1 DEF AppInit, InitModes
  <2> QED
    BY <2>1, <2>2, <2>3, <2>4, <2>5, <2>6, <2>7 DEF ModeInv, TypeOK
<1>2. CASE RegisterMsgCb
  BY <1>2 DEF ModeInv, RegisterMsgCb
<1>3. ASSUME NEW mode \in Switchable, WifiOn(mode) PROVE ModeInv'
  <2>1. FlagTypes'
    BY <1>3, BitmapType, SwitchableCalls DEF WifiOn, InitModes, Known
  <2>2. PlatTypes'
    BY <1>3, BitmapType, SwitchableCalls DEF WifiOn, InitModes, Known
  <2>3. CallTypes'
    <3>1. ret' \in [op : Calls, status : Statuses]
      BY <1>3 DEF WifiOn
    <3>2. calls' \in 0 .. MaxCalls
      BY <1>3 DEF WifiOn
    <3>3. off' \subseteq Modes /\ on' \subseteq Modes
      BY <1>3, BitmapType DEF WifiOn, Known
    <3> QED
      BY <1>3, <3>1, <3>2, <3>3 DEF WifiOn
  <2>4. PidThreads'
    BY <1>3, BitmapType, SwitchableCalls DEF WifiOn, InitModes, Known
  <2>5. PendingOff'
    BY <1>3, BitmapType, SwitchableCalls DEF WifiOn, InitModes, Known
  <2>6. OneDaemon'
    BY <1>3, BitmapType, SwitchableCalls DEF WifiOn, InitModes, Known
  <2>7. CurrentEnabled'
    BY <1>3, BitmapType, SwitchableCalls DEF WifiOn, InitModes, Known
  <2> QED
    BY <2>1, <2>2, <2>3, <2>4, <2>5, <2>6, <2>7 DEF ModeInv, TypeOK
<1>4. CASE WifiOff
  <2>1. FlagTypes'
    BY <1>4, SwitchableCalls DEF WifiOff
  <2>2. PlatTypes'
    BY <1>4, SwitchableCalls DEF WifiOff
  <2>3. CallTypes'
    <3>1. ret' \in [op : Calls, status : Statuses]
      BY <1>4 DEF WifiOff
    <3>2. calls' \in 0 .. MaxCalls
      BY <1>4 DEF WifiOff
    <3>3. off' \subseteq Modes /\ on' \subseteq Modes
      BY <1>4 DEF WifiOff
    <3>4. call' \in Switchable \cup {"none", "wifi_off"}
      BY <1>4 DEF WifiOff
    <3> QED
      BY <1>4, <3>1, <3>2, <3>3, <3>4 DEF WifiOff
  <2>4. PidThreads'
    BY <1>4, SwitchableCalls DEF WifiOff
  <2>5. PendingOff'
    BY <1>4, SwitchableCalls DEF WifiOff
  <2>6. OneDaemon'
    BY <1>4, SwitchableCalls DEF WifiOff
  <2>7. CurrentEnabled'
    BY <1>4, SwitchableCalls DEF WifiOff
  <2> QED
    BY <2>1, <2>2, <2>3, <2>4, <2>5, <2>6, <2>7 DEF ModeInv, TypeOK
<1>5. CASE DeInit
  <2>0. ThreadsOK'
    BY <1>5, CancelOK DEF DeInit, ThreadsOK
  <2>1. FlagTypes'
    BY <1>5 DEF DeInit, Cancelled
  <2>2. PlatTypes'
    BY <1>5, <2>0 DEF DeInit, ThreadsOK
  <2>3. CallTypes'
    BY <1>5 DEF DeInit, Cancelled
  <2>4. PidThreads'
    BY <2>0 DEF ThreadsOK
  <2>5. PendingOff'
    BY <1>5 DEF DeInit, Cancelled
  <2>6. OneDaemon'
    BY <1>5 DEF DeInit, Cancelled
  <2>7. CurrentEnabled'
    BY <1>5 DEF DeInit, Cancelled
  <2> QED
    BY <2>1, <2>2, <2>3, <2>4, <2>5, <2>6, <2>7 DEF ModeInv, TypeOK
<1>6. CASE DisableSta
  BY <1>6 DEF ModeInv, DisableSta, Disabled, Cleared
<1>7. CASE DisableAp
  <2>1. FlagTypes'
    BY <1>7 DEF DisableAp, Disabled, Cleared, HapdDisable
  <2>2. PlatTypes'
    BY <1>7 DEF DisableAp, Disabled, Cleared, HapdDisable
  <2>3. CallTypes'
    BY <1>7 DEF DisableAp, Disabled, Cleared, HapdDisable
  <2>4. PidThreads'
    BY <1>7 DEF DisableAp, Disabled, Cleared, HapdDisable
  <2>5. PendingOff'
    BY <1>7 DEF DisableAp, Disabled, Cleared, HapdDisable
  <2>6. OneDaemon'
    BY <1>7 DEF DisableAp, Disabled, Cleared, HapdDisable
  <2>7. CurrentEnabled'
    BY <1>7 DEF DisableAp, Disabled, Cleared, HapdDisable
  <2> QED
    BY <2>1, <2>2, <2>3, <2>4, <2>5, <2>6, <2>7 DEF ModeInv, TypeOK
<1>8. CASE DisableMon
  <2>0. ThreadsOK'
    BY <1>8, NlDisableOK DEF DisableMon, ThreadsOK
  <2>1. FlagTypes'
    BY <1>8 DEF DisableMon, Disabled, Cleared, NlDisable
  <2>2. PlatTypes'
    BY <1>8, <2>0, NlDisableOK DEF DisableMon, Disabled, Cleared, ThreadsOK
  <2>3. CallTypes'
    BY <1>8 DEF DisableMon, Disabled, Cleared, NlDisable
  <2>4. PidThreads'
    BY <2>0 DEF ThreadsOK
  <2>5. PendingOff'
    BY <1>8 DEF DisableMon, Disabled, Cleared, NlDisable
  <2>6. OneDaemon'
    BY <1>8 DEF DisableMon, Disabled, Cleared, NlDisable
  <2>7. CurrentEnabled'
    BY <1>8 DEF DisableMon, Disabled, Cleared, NlDisable
  <2> QED
    BY <2>1, <2>2, <2>3, <2>4, <2>5, <2>6, <2>7 DEF ModeInv, TypeOK
<1>9. CASE EnableSta
  <2>0. ThreadsOK'
    BY <1>9, NewThreadOK DEF EnableSta, ConnectToSupplicant, NoSupplicant, ThreadsOK
  <2>1. FlagTypes'
    BY <1>9 DEF EnableSta, Switching, Tried, Enabled, NotEnabled, NewThread,
         ConnectToSupplicant, NoSupplicant
  <2>2. PlatTypes'
    BY <1>9, <2>0 DEF EnableSta, ConnectToSupplicant, NoSupplicant, ThreadsOK
  <2>3. CallTypes'
    BY <1>9 DEF EnableSta, Switching, Tried, Enabled, NotEnabled, NewThread,
         ConnectToSupplicant, NoSupplicant
  <2>4. PidThreads'
    BY <2>0 DEF ThreadsOK
  <2>5. PendingOff'
    BY <1>9 DEF EnableSta, Switching, Tried, Enabled, NotEnabled, NewThread,
         ConnectToSupplicant, NoSupplicant
  <2>6. OneDaemon'
    BY <1>9 DEF EnableSta, Switching, Tried, Enabled, NotEnabled, NewThread,
         ConnectToSupplicant, NoSupplicant
  <2>7. CurrentEnabled'
    BY <1>9 DEF EnableSta, Switching, Tried, Enabled, NotEnabled, NewThread,
         ConnectToSupplicant, NoSupplicant
  <2> QED
    BY <2>1, <2>2, <2>3, <2>4, <2>5, <2>6, <2>7 DEF ModeInv, TypeOK
<1>10. CASE EnableAp
  <2>0. ThreadsOK'
    BY <1>10, NewThreadOK DEF EnableAp, ConnectToHostapd, NoHostapd, ThreadsOK
  <2>1. FlagTypes'
    BY <1>10 DEF EnableAp, Switching, Tried, Enabled, NotEnabled, NewThread, Started, Stopped,
         ConnectToHostapd, NoHostapd
  <2>2. PlatTypes'
    BY <1>10, <2>0 DEF EnableAp, ConnectToHostapd, NoHostapd, Started, Stopped, ThreadsOK
  <2>3. CallTypes'
    BY <1>10 DEF EnableAp, Switching, Tried, Enabled, NotEnabled, NewThread, Started, Stopped,
         ConnectToHostapd, NoHostapd
  <2>4. PidThreads'
    BY <2>0 DEF ThreadsOK
  <2>5. PendingOff'
    BY <1>10 DEF EnableAp, Switching, Tried, Enabled, NotEnabled, NewThread, Started, Stopped,
         ConnectToHostapd, NoHostapd
  <2>6. OneDaemon'
    BY <1>10 DEF EnableAp, Switching, Tried, Enabled, NotEnabled, NewThread, Started, Stopped,
         ConnectToHostapd, NoHostapd
  <2>7. CurrentEnabled'
    <3>1. init_flag'
      BY <1>10 DEF EnableAp, Switching
    <3>2. current' \subseteq current \cup {"AP"} /\ enabled \subseteq enabled' /\ run \subseteq run'
      BY <1>10 DEF EnableAp, Enabled, NotEnabled
    <3>3. CASE "AP" \in enabled
      BY <1>10, <3>1, <3>2, <3>3 DEF EnableAp
    <3>4. CASE "AP" \notin enabled
      BY <1>10, <3>1, <3>2, <3>4 DEF EnableAp, Enabled, NotEnabled
    <3> QED
      BY <3>3, <3>4
  <2> QED
    BY <2>1, <2>2, <2>3, <2>4, <2>5, <2>6, <2>7 DEF ModeInv, TypeOK
<1>11. CASE EnableMon
  BY <1>11 DEF ModeInv, EnableMon, Switching, Tried, Enabled
<1>12. CASE Switched
  BY <1>12 DEF ModeInv, Switched, Switching
<1>13. ASSUME NEW m \in Modes, NEW op \in Calls, Refused(m, op) PROVE ModeInv'
  BY <1>13 DEF ModeInv, Refused
<1>14. CASE ApEnable
  <2>1. FlagTypes'
    BY <1>14 DEF ApEnable, Admitted, HapdEnable, HapdEnableFails
  <2>2. PlatTypes'
    BY <1>14 DEF ApEnable, Admitted, HapdEnable, HapdEnableFails
  <2>3. CallTypes'
    BY <1>14 DEF ApEnable, Admitted, HapdEnable, HapdEnableFails
  <2>4. PidThreads'
    BY <1>14 DEF ApEnable, Admitted, HapdEnable, HapdEnableFails
  <2>5. PendingOff'
    BY <1>14 DEF ApEnable, Admitted, HapdEnable, HapdEnableFails
  <2>6. OneDaemon'
    BY <1>14 DEF ApEnable, Admitted, HapdEnable, HapdEnableFails
  <2>7. CurrentEnabled'
    BY <1>14 DEF ApEnable, Admitted, HapdEnable, HapdEnableFails
  <2> QED
    BY <2>1, <2>2, <2>3, <2>4, <2>5, <2>6, <2>7 DEF ModeInv, TypeOK
<1>15. CASE ApDisable
  <2>1. FlagTypes'
    BY <1>15 DEF ApDisable, Admitted
  <2>2. PlatTypes'
    BY <1>15 DEF ApDisable, Admitted
  <2>3. CallTypes'
    BY <1>15 DEF ApDisable, Admitted
  <2>4. PidThreads'
    BY <1>15 DEF ApDisable, Admitted
  <2>5. PendingOff'
    BY <1>15 DEF ApDisable, Admitted
  <2>6. OneDaemon'
    BY <1>15 DEF ApDisable, Admitted
  <2>7. CurrentEnabled'
    BY <1>15 DEF ApDisable, Admitted
  <2> QED
    BY <2>1, <2>2, <2>3, <2>4, <2>5, <2>6, <2>7 DEF ModeInv, TypeOK
<1>16. CASE MonitorEnable
  <2>0. ThreadsOK'
    BY <1>16, NewThreadOK DEF MonitorEnable, NlEnable, ThreadsOK
  <2>1. FlagTypes'
    BY <1>16 DEF MonitorEnable, Admitted, NlEnable, NewThread
  <2>2. PlatTypes'
    BY <1>16, <2>0 DEF MonitorEnable, NlEnable, Admitted, ThreadsOK
  <2>3. CallTypes'
    BY <1>16 DEF MonitorEnable, Admitted, NlEnable, NewThread
  <2>4. PidThreads'
    BY <2>0 DEF ThreadsOK
  <2>5. PendingOff'
    BY <1>16 DEF MonitorEnable, Admitted, NlEnable, NewThread
  <2>6. OneDaemon'
    BY <1>16 DEF MonitorEnable, Admitted, NlEnable, NewThread
  <2>7. CurrentEnabled'
    BY <1>16 DEF MonitorEnable, Admitted, NlEnable, NewThread
  <2> QED
    BY <2>1, <2>2, <2>3, <2>4, <2>5, <2>6, <2>7 DEF ModeInv, TypeOK
<1>17. CASE MonitorDisable
  <2>0. ThreadsOK'
    BY <1>17, NlDisableOK DEF MonitorDisable, ThreadsOK
  <2>1. FlagTypes'
    BY <1>17 DEF MonitorDisable, Admitted, NlDisable
  <2>2. PlatTypes'
    BY <1>17, <2>0, NlDisableOK DEF MonitorDisable, Admitted, ThreadsOK
  <2>3. CallTypes'
    BY <1>17 DEF MonitorDisable, Admitted, NlDisable
  <2>4. PidThreads'
    BY <2>0 DEF ThreadsOK
  <2>5. PendingOff'
    BY <1>17 DEF MonitorDisable, Admitted, NlDisable
  <2>6. OneDaemon'
    BY <1>17 DEF MonitorDisable, Admitted, NlDisable
  <2>7. CurrentEnabled'
    BY <1>17 DEF MonitorDisable, Admitted, NlDisable
  <2> QED
    BY <2>1, <2>2, <2>3, <2>4, <2>5, <2>6, <2>7 DEF ModeInv, TypeOK
<1>18. CASE MonitorSetChannel
  BY <1>18 DEF ModeInv, MonitorSetChannel, Admitted
<1>19. CASE UNCHANGED vars
  BY <1>19 DEF ModeInv, vars
<1> QED
  BY <1>1, <1>2, <1>3, <1>4, <1>5, <1>6, <1>7, <1>8, <1>9, <1>10, <1>11, <1>12, <1>13,
     <1>14, <1>15, <1>16, <1>17, <1>18, <1>19 DEF Next

\* The inductive invariant of the mode manager.
THEOREM ModeInvariant == Spec => []ModeInv
  BY ModeInit, ModeStep, PTL DEF Spec

\* The variables keep their types, whatever fails.
THEOREM ModeTypeOK == Spec => []TypeOK
  BY ModeInvariant, PTL DEF ModeInv

\* wpa_supplicant and hostapd never run together.
THEOREM ModeOneDaemon == Spec => []OneDaemon
  BY ModeInvariant, PTL DEF ModeInv

\* A mode in the bitmap is enabled and, where it is tested, marked running.
THEOREM ModeCurrentEnabled == Spec => []CurrentEnabled
  BY ModeInvariant, PTL DEF ModeInv

-----------------------------------------------------------------------------
(* The modes the application uses.  With one mode at a time, clearing the     *)
(* whole bitmap clears exactly the mode that was disabled.                    *)

AtMostOne(bits) == bits \in {{}, {"STA"}, {"AP"}, {"MON"}}

\* The enable flags agree with the bitmap; the mode in it has its daemon and its
\* thread; nothing is enabled before the old mode is out of the bitmap.
ServeInv ==
    /\ enabled = current /\ AtMostOne(current) /\ AtMostOne(on)
    /\ "STA" \in current => supplicant /\ "STA" \in pid
    /\ "AP" \in current => hostapd # "dead" /\ "AP" \in pid
    /\ off # {} => current = off
    /\ Switching /\ on # {} => current = {}
    /\ call = "wifi_off" => current = off
    /\ call \in {"none", "wifi_off"} => on = {}

LEMMA OneModeBitmap == \A mode \in OneMode : AtMostOne(Bitmap(mode)) /\ Bitmap(mode) # {}
  BY DEF OneMode, AtMostOne, Bitmap

\* A concurrent mode once asked for is never forgotten.
LEMMA SingleStays == ModeInv /\ [Next]_vars => single \in BOOLEAN /\ (single' => single)
  BY DEF ModeInv, TypeOK, CallTypes, Next, vars, seen, AppInit, RegisterMsgCb, WifiOn, WifiOff, DeInit,
     DisableSta, DisableAp, DisableMon, EnableSta, EnableAp, EnableMon, Switched, Refused,
     ApEnable, ApDisable, MonitorEnable, MonitorDisable, MonitorSetChannel

LEMMA ServeStep == ModeInv /\ (single => ServeInv) /\ [Next]_vars => (single' => ServeInv')
<1> SUFFICES ASSUME ModeInv, single => ServeInv, [Next]_vars, single' PROVE ServeInv'
  OBVIOUS
<1>0. ServeInv
  <2>1. single \in BOOLEAN /\ (single' => single)
    BY SingleStays
  <2> QED
    BY <2>1
<1> USE <1>0 DEF ServeInv, AtMostOne, CallMade, Return, Switching, flags, plat, todo, seen
<1> TypeOK /\ PendingOff
  BY DEF ModeInv
<1>1. CASE AppInit
  BY <1>1 DEF AppInit
<1>2. CASE RegisterMsgCb
  BY <1>2 DEF RegisterMsgCb
<1>3. ASSUME NEW mode \in Switchable, WifiOn(mode) PROVE ServeInv'
  <2>1. CASE UNCHANGED todo
    BY <1>3, <2>1 DEF WifiOn
  <2>2. CASE /\ current # Bitmap(mode) /\ call' = mode
             /\ off' = Known(current) \ Bitmap(mode) /\ on' = Bitmap(mode) \ Known(current)
    <3>1. Known(current) = current
      BY DEF Known
    <3>2. AtMostOne(Bitmap(mode)) /\ Bitmap(mode) # {}
      BY <1>3, OneModeBitmap DEF WifiOn
    <3>3. off' = current /\ on' = Bitmap(mode)
      BY <2>2, <3>1, <3>2
    <3>4. UNCHANGED <<current, enabled, pid, threads, supplicant, hostapd>>
      BY <1>3 DEF WifiOn
    <3> QED
      BY <2>2, <3>2, <3>3, <3>4, SwitchableCalls
  <2> QED
    BY <1>3, <2>1, <2>2 DEF WifiOn
<1>4. CASE WifiOff
  BY <1>4, SwitchableCalls DEF WifiOff
<1>5. CASE DeInit
  BY <1>5, SwitchableCalls DEF DeInit
<1>6. CASE DisableSta
  BY <1>6 DEF DisableSta, Disabled, Cleared
<1>7. CASE DisableAp
  BY <1>7 DEF DisableAp, Disabled, Cleared
<1>8. CASE DisableMon
  BY <1>8 DEF DisableMon, Disabled, Cleared
<1>9. CASE EnableSta
  BY <1>9 DEF EnableSta, Tried, Enabled, NotEnabled, NewThread, ConnectToSupplicant, NoSupplicant
<1>10. CASE EnableAp
  BY <1>10 DEF EnableAp, Tried, Enabled, NotEnabled, NewThread, Started, ConnectToHostapd, NoHostapd
<1>11. CASE EnableMon
  BY <1>11 DEF EnableMon, Tried, Enabled
<1>12. CASE Switched
  BY <1>12 DEF Switched
<1>13. ASSUME NEW m \in Modes, NEW op \in Calls, Refused(m, op) PROVE ServeInv'
  BY <1>13 DEF Refused
<1>14. CASE ApEnable
  BY <1>14 DEF ApEnable, Admitted, HapdEnable, HapdEnableFails
<1>15. CASE ApDisable
  BY <1>15 DEF ApDisable, Admitted
<1>16. CASE MonitorEnable
  BY <1>16 DEF MonitorEnable, Admitted, NlEnable, NewThread
<1>17. CASE MonitorDisable
  BY <1>17 DEF MonitorDisable, Admitted, NlDisable
<1>18. CASE MonitorSetChannel
  BY <1>18 DEF MonitorSetChannel, Admitted
<1>19. CASE UNCHANGED vars
  BY <1>19 DEF vars
<1> QED
  BY <1>1, <1>2, <1>3, <1>4, <1>5, <1>6, <1>7, <1>8, <1>9, <1>10, <1>11, <1>12, <1>13,
     <1>14, <1>15, <1>16, <1>17, <1>18, <1>19 DEF Next, Calls

\* As long as wifi_on is given one mode at a time, a mode in the bitmap has its
\* daemon and its event thread, after any calls and any failures.
THEOREM OneModeServed == Spec => []ModeServed
<1>1. Init => (single => ServeInv)
  BY DEF Init, ServeInv, AtMostOne
<1>2. ModeInv /\ (single => ServeInv) /\ [Next]_vars => (single => ServeInv)'
  BY ServeStep
<1>3. ModeInv /\ (single => ServeInv) => ModeServed
  BY DEF ModeInv, ServeInv, PidThreads, ModeServed, Served
<1> QED
  BY <1>1, <1>2, <1>3, ModeInvariant, PTL DEF Spec
=============================================================================
