---------------------------- MODULE DeviceStart ------------------------------
(***************************************************************************)
(* Bring-up of the device process and its way back to the network:         *)
(* tuya_ipc_sdk_start creates a thread that waits for the cloud and then   *)
(* starts what needs it (clock, p2p, skills), initialises and starts the   *)
(* SDK; status callbacks and DP commands, on the SDK's threads, set the    *)
(* flag the thread waits for; the SDK's polls of the station status        *)
(* reconnect a lost access point. main ignores the result of the start.    *)
(*                                                                         *)
(* The SDK (a binary), the access point and the time server are external:  *)
(* the SDK calls back once tuya_ipc_start_sdk runs, and keeps polling.     *)
(***************************************************************************)
EXTENDS Naturals

CONSTANTS SyncTries,   \* tries to get the server's time (1000 in the code)
          Polls        \* polls of a lost link before a reconnect (20)

ASSUME StartAssumption == SyncTries \in Nat \ {0} /\ Polls \in Nat

VARIABLES main,      \* what tuya_ipc_sdk_start does next
          thread,    \* what the online thread does next
          online,    \* s_mqtt_online_status
          tries,     \* time requests made
          media,     \* s_media_info is set
          ring,      \* the ring buffers exist
          sdk,       \* the SDK runs (external)
          p2p,       \* the transfer: "off", "ready", or "blind" (no media info)
          ssid,      \* an access point is configured (_ssid)
          count,     \* polls of a lost link
          link,      \* the link is up (external)
          ap         \* the access point is on the air (external)

startVars == <<main, thread, online, tries, media, ring, sdk, p2p, ssid, count,
               link, ap>>
bringUp == <<main, media, ring>>
worker == <<thread, tries, p2p>>
station == <<ssid, count, link, ap>>

StartInit ==
    /\ main = "create" /\ thread = "none" /\ online = FALSE /\ tries = 0
    /\ media = FALSE /\ ring = FALSE /\ sdk = FALSE
    /\ p2p = "off"
    /\ ssid = FALSE /\ count = 0 /\ link = FALSE /\ ap \in BOOLEAN

----------------------------------------------------------------------------
(* tuya_ipc_sdk_start: a step that fails ends it, and main goes on.         *)

\* pthread_create reports failure with a positive number, which "op_ret < 0"
\* does not see: without the thread the start goes on.
CreateThread ==
    /\ main = "create" /\ main' = "init"
    /\ thread' \in {"wait", "none"}
    /\ UNCHANGED <<online, tries, media, ring, sdk, p2p, station>>

InitSdk ==
    /\ main = "init" /\ main' \in {"media", "serving"}
    /\ UNCHANGED <<worker, online, media, ring, sdk, station>>

\* Mutant: the media info is left for later.
SetNoMedia ==
    /\ main = "media"
    /\ \/ ring' = TRUE /\ main' = "start"
       \/ UNCHANGED ring /\ main' = "serving"
    /\ UNCHANGED <<worker, online, media, sdk, station>>

SetMedia ==
    /\ main = "media" /\ media' = TRUE
    /\ \/ ring' = TRUE /\ main' = "start"
       \/ UNCHANGED ring /\ main' = "serving"
    /\ UNCHANGED <<worker, online, sdk, station>>

\* The SDK calls back from here on, also before tuya_ipc_start_sdk returns.
StartSdk ==
    /\ main = "start"
    /\ \/ sdk' = TRUE /\ main' = "sweeper"
       \/ UNCHANGED sdk /\ main' = "serving"
    /\ UNCHANGED <<worker, online, media, ring, station>>

\* tuya_sweeper_init_sdk; its failure leaves a running SDK.
InitSweeper ==
    /\ main = "sweeper" /\ main' = "serving"
    /\ UNCHANGED <<worker, online, media, ring, sdk, station>>

----------------------------------------------------------------------------
(* Callbacks of the running SDK.                                            *)

\* tuya_ipc_sdk_net_status_change_cb: STAT_CLOUD_CONN falls through to
\* STAT_MQTT_ONLINE, which sets the flag; no status resets it. The cloud is
\* reached over a link that is up.
StatusOnline ==
    /\ sdk /\ link
    /\ online' = TRUE
    /\ UNCHANGED <<bringUp, worker, sdk, station>>

\* A DP command, which the LAN may bring before the cloud does.
DPCommand ==
    /\ sdk /\ link
    /\ online' = TRUE
    /\ UNCHANGED <<bringUp, worker, sdk, station>>

----------------------------------------------------------------------------
(* tuya_ipc_sdk_mqtt_online_proc.                                           *)

WaitOnline ==
    /\ thread = "wait" /\ online
    /\ thread' = "sync"
    /\ UNCHANGED <<bringUp, tries, p2p, online, sdk, station>>

\* Mutant: the clock must be right first.
SyncUntilDone ==
    /\ thread = "sync"
    /\ \/ thread' = "p2p" /\ UNCHANGED tries
       \/ tries' = 1 - tries /\ UNCHANGED thread
    /\ UNCHANGED <<bringUp, p2p, online, sdk, station>>

\* The time server answers, or the next try is made; after the last one the
\* thread goes on without.
Sync ==
    /\ thread = "sync"
    /\ \/ thread' = "p2p" /\ UNCHANGED tries
       \/ /\ tries' = tries + 1
          /\ thread' = IF tries + 1 = SyncTries THEN "p2p" ELSE "sync"
    /\ UNCHANGED <<bringUp, p2p, online, sdk, station>>

\* tuya_ipc_sdk_p2p_init copies the media info; then the skills are uploaded.
InitP2p ==
    /\ thread = "p2p" /\ thread' = "end"
    /\ p2p' = IF media /\ ring THEN "ready" ELSE "blind"
    /\ UNCHANGED <<bringUp, tries, online, sdk, station>>

----------------------------------------------------------------------------
(* The adapter's station functions, called by the SDK.                      *)

\* tuya_adapter_wifi_station_connect with the network of the phone or of the
\* SDK's store; the link comes up if the access point is there.
StationConnect ==
    /\ sdk /\ ~link
    /\ ssid' = TRUE
    /\ link' \in {FALSE, ap}
    /\ UNCHANGED <<bringUp, worker, online, sdk, count, ap>>

\* Mutant: the count goes on after the reconnect (it stays past Polls).
PollNoReset ==
    /\ sdk /\ ~link
    /\ count' = IF count > Polls THEN count ELSE count + 1
    /\ UNCHANGED <<bringUp, worker, online, sdk, ssid, link, ap>>

\* A poll of a lost link counts; after Polls of them it tries to connect.
PollDown ==
    /\ sdk /\ ~link
    /\ count' = IF count = Polls THEN 0 ELSE count + 1
    /\ UNCHANGED <<bringUp, worker, online, sdk, ssid, link, ap>>

\* The reconnect succeeds.
PollReconnects ==
    /\ sdk /\ ~link /\ count = Polls /\ ssid /\ ap
    /\ link' = TRUE /\ count' = 0
    /\ UNCHANGED <<bringUp, worker, online, sdk, ssid, ap>>

\* The access point comes and goes, the link with it or by itself.
Air ==
    /\ \/ ap' = ~ap /\ link' = (link /\ ap')
       \/ link /\ link' = FALSE /\ UNCHANGED ap
    /\ UNCHANGED <<bringUp, worker, online, sdk, ssid, count>>

StartNext ==
    \/ CreateThread \/ InitSdk \/ SetMedia \/ StartSdk \/ InitSweeper
    \/ StatusOnline \/ DPCommand
    \/ WaitOnline \/ Sync \/ InitP2p
    \/ StationConnect \/ PollDown \/ PollReconnects \/ Air

StartSpec == StartInit /\ [][StartNext]_startVars

\* The threads run; the SDK keeps polling; a reconnect that is tried again and
\* again with the access point there succeeds once (what the station itself
\* does with a connect call is the subject of StaConnect).
FairStart ==
    /\ StartSpec
    /\ WF_startVars(WaitOnline) /\ WF_startVars(Sync) /\ WF_startVars(InitP2p)
    /\ WF_startVars(PollDown) /\ SF_startVars(PollReconnects)

----------------------------------------------------------------------------
(* Properties.                                                              *)

\* Type invariant.
StartTypeOK ==
    /\ main \in {"create", "init", "media", "start", "sweeper", "serving"}
    /\ thread \in {"none", "wait", "sync", "p2p", "end"}
    /\ online \in BOOLEAN /\ media \in BOOLEAN /\ ring \in BOOLEAN /\ sdk \in BOOLEAN
    /\ ssid \in BOOLEAN /\ link \in BOOLEAN /\ ap \in BOOLEAN
    /\ tries \in 0..SyncTries /\ count \in 0..Polls
    /\ p2p \in {"off", "ready", "blind"}

\* The p2p transfer is set up with the media info and the ring buffers in
\* place, though its thread was created before either: the flag it waits for
\* is only set by a running SDK, which is started last, and no failing step of
\* the start leaves the SDK running without them.
P2pSeesMedia == p2p # "blind"

\* Once the device was online, p2p is set up, whatever the time server does.
OnlineStartsP2p == (online /\ thread # "none") ~> (thread = "end")

\* A network that is configured and stays on the air gets its station back:
\* every lost link is repaired by the polls, however many reconnects failed
\* before.
LinkRepaired == <>[](sdk /\ ssid /\ ap) => []<>link
============================================================================
