# A TLA+ model of the tuya robot application

`arm_app` is the process that connects a cleaning robot to the Tuya cloud and
to the owner's phone. It brings up Wi-Fi, starts the Tuya SDK, translates data
points (DPs) between phone and robot, keeps maps on the robot, in files and in
the cloud, and streams map files to the phone. This directory holds TLA+
modules translated from its source, the TLC configurations that check them on
small instances, and TLAPS proofs for all instances.

Paths below are relative to `src/arm_app/apps/src/`; `wifi/` stands for
`wifi/wifi/`.

## 1. Inventory

| Component | Source | State | Operations | What is hard |
|---|---|---|---|---|
| Byte ring | `wifi/ring_buff.c`, `wifi/queue.c` | buffer, two pointers, byte count, enable and quit flags | init, start, stop, signal, put, get | flags written without the lock, a signal sent after unlock, wrap-around |
| API action transfer | `wifi/api_action.c`, `wifi/sem.c` | mutex, semaphore, queue, handler tables | act_init, act_register_handler, act_transfer, the worker loop | one semaphore for all requests, messages shared between two threads, calls made from handlers |
| Station client | `wifi/wmg_sta.c`, `wifi/linux_wpa.c`, `wifi/event.c`, `wifi/udhcpc.c` | sta_state, auto_reconn, old/new ssid, event socket | connect, disconnect, auto-reconnect, scan; event thread; DHCP | two threads and a daemon, results as anonymous events, time-outs, retries, a daemon that dies |
| Mode manager | `wifi/wmg_common.c`, `wifi/wmg_ap.c`, `wifi/wmg_monitor.c`, `wifi/linux_hapd.c`, `wifi/linux_nl.c` | mode bitmap, enable/run flags, thread ids, two daemons | wifi_on, wifi_off, register_msg_cb, ap and monitor calls | long sequences of calls, failure half-way through a switch |
| Album transfer | `tuya_ipc_sweeper_demo.c` | SWEEPER_CTRL per p2p session | QUERY, START, CANCEL; sender thread | two threads, no lock |
| Tuya Wi-Fi adapter | `tuya_wifi.c` | work mode, saved ssid, poll counter, sniffer state | set/get_work_mode, station_connect, status polls, sniffer | calls into the library from SDK threads, unlocked reads, a reconnect that hangs on a counter |
| DP dispatch | `tuya_ops.cpp`, `tuya_robot.cpp`, `tuya_dp_function.cpp` | last status, last parts life | command batches, status and life broadcasts, ReportAll | three threads report the same data points without a lock; MQTT comes and goes |
| Map synchronisation | `tuya_dp_function.cpp`, `tuya_robot.cpp` | the robot's map directory, archive and picture in `/tmp`, cloud maps, the id file | save, delete, use; the robot's save and update events | several shell commands and remote calls, any of which fails; two threads on the same files |
| Raw frames | `tuya_dp_function.cpp`, `tuya_utils.cpp` | map resolution | decode a setting, report it, answer a query | widths, signs, counts, a resolution that another thread changes |
| Voice packs | `tuya_dp_function.cpp` | `/data/voice`: packs, version files, the link `now` | download, verify, unpack, use | files that survive a power cut between any two commands, exit codes that are added up |
| SDK bring-up | `tuya.cpp`, `tuya_ops.cpp`, `tuya_wifi.c` | online flag, media information | start, online thread, clock, p2p init | callbacks that arrive before the start is over |
| Link daemon | `wifi/linkd.c` | result_state | start a provisioning protocol, wait for its result | compiled, but nothing in the program calls it |
| Timed tasks | `timed_task.cpp` | task table, do-not-disturb time | add, delete, check | not part of the executable |
| Bluetooth, live media, vendored code | `tuya_os_adapt_bt.c`, `tuya_ipc_media_demo.c`, `bluez/`, `lz4/`, `utils/` | - | - | not initialised, pure I/O, or third-party |

How they interact. Every public Wi-Fi call (`wifi/wifimg.c`) is an
`act_transfer` to one worker thread; the transfer's queue is the byte ring. The
worker runs the handlers of `wmg_common.c`, which drive the mode manager and
the station client. The station client talks to wpa_supplicant over a command
socket; a second thread takes the supplicant's events, writes them to a socket
pair the worker reads while a call is waiting, and runs DHCP itself. The SDK
calls the adapter (`tuya_wifi.c`), the DP handlers and the album callbacks from
threads of its own. The robot's algorithm process is reached through LCM
messages with time-outs.

What makes each correct:

* ring: bytes leave in the order they came, whole chunks at a time; no reader
  sleeps while there is data;
* transfer: an answer belongs to the request, nothing is used after it was
  freed, every call returns;
* station: reported states and answers are about the present link, and every
  call returns although events are lost, late or repeated;
* modes: one daemon at a time, flags and bitmap in agreement, a mode that is
  reported as on is served;
* album: data goes to the right phone, a request is finished once, a
  cancelled transfer stops;
* maps: what is answered as saved or in use was saved or installed, an archive
  in the cloud names itself, and the phone is answered;
* data points: the cloud shows the robot's state once everything under way has
  ended, and a command's start comes after its settings;
* frames: length and checksum are right, the robot gets what the phone meant,
  and the phone is shown what was set;
* voice packs: a version file is written only for a verified pack, a pack
  reported in use is whole;
* bring-up: p2p starts once the device was online and never without its media
  information; a lost access point is tried again for ever.

## 2. Modules

| Module | Models | Extended by |
|---|---|---|
| `ByteFifo` | what the ring promises: a FIFO of whole chunks with a stop | instanced by `RingBuff` |
| `RingBuff` | `ring_buff.c` as `queue.c` uses it | `MCRingBuff`, `RingBuffProofs` |
| `ActTransfer` | `api_action.c` | `MCActTransfer`, `ActTransferProofs` |
| `StaConnect` | `wmg_sta.c`, `linux_wpa.c`, `event.c`, `udhcpc.c` | `MCStaConnect`, `OnlineProofs` |
| `WifiMode` | `wmg_common.c` and the enable/disable halves of the modes | `MCWifiMode`, `WifiModeProofs` |
| `AlbumTransfer` | album callbacks and sender of `tuya_ipc_sweeper_demo.c` | `MCAlbumTransfer`, `AlbumTransferProofs` |
| `MapSync` | map commands of `TuyaHandleExtentedFuction`, `OnSaveMap`, `OnUpdateMap` | `MCMapSync`, `MapSyncProofs` |
| `DpSync` | `IPC_APP_handle_dp_cmd_objs`, the `DP_Handle*` functions, status reports | `MCDpSync`, `DpSyncProofs` |
| `RawDp` | `TuyaHandleStandardFunction`, `TuyaReport*`, `To*Data`, `tonb16` and relatives | `MCRawDp`, `DpFunctionProofs` |
| `VoicePack` | request 0x34 of `TuyaHandleExtentedFuction` | `MCVoicePack`, `DpFunctionProofs` |
| `DeviceStart` | `tuya_ipc_sdk_start`, the online thread, the reconnecting poll | `MCDeviceStart`, `OnlineProofs` |

Conventions. Variables keep the names of the C fields. A step is a stretch of
code no other thread can tell apart from an atomic one; program counters (`pc`,
`wpc`, `epc`, `cb`) name the places between. An operator whose comment begins
with "Mutant:" is a deliberately wrong variant of the definition after it and
is not part of the specification. History variables (`reached`, `news`,
`single`, `told`, `asked`, `cancelled`, `early`, `kept`, `tried`; in the newer modules
`quiet`, `want`, `report`, `suspect`, `done`, `heard`, `scale`, `verified`, `unpacked`)
are never read by an action's guard. `PROJECT.json` maps every definition to the lines it stands for.

**RingBuff.** Pointers are offsets. Put and get each have a call step (the test
of `enable`, without the lock) and a locked step; stop writes its flags without
the lock and signals later. The lock is held across steps only between the
reader's test for data and `pthread_cond_wait`. The producer-side wait is dead
code, because `queue.c` passes time-out 0.

**ActTransfer.** A caller locks, posts a pointer, waits, unlocks, frees. The
queue is the message view of the ring. A call from a handler runs on the
worker's thread and takes the direct path. `act_deinit` is not called, and
`sem_wait` does not fail (it could only be interrupted by a signal handler, and
the threads have none).

**StaConnect.** The worker, the event thread and wpa_supplicant (external). A
command to a live supplicant is answered at once; the supplicant associates,
loses the link, rejects, does not find the network, or dies, whenever it likes.
`evt_send` blocks on a full socket. The station is enabled throughout. A network
marked CURRENT in the supplicant's list counts as associated.

**WifiMode.** A bitmap is a set of modes. `wifi_on` and `wifi_off` are split at
each mode they disable or enable. `Faults` names what may fail: allocation,
killing the other daemon, starting a daemon, its socket, a hostapd command, a
netlink message. `Cleared` returns the empty set because the code clears bits
with a logical not. Daemons do not die by themselves here.

**AlbumTransfer.** One control block per session, written by the SDK's
callbacks and by the sender without a lock; the four writes of a START are four
steps. Callbacks of one session are sequential and come in any order: like the
code, START and CANCEL do not ask whether the session was ever queried. `early`
remembers one that came first. Then the first QUERY, which writes `used` before
`session_id`, opens a window in which the sender serves the session under the
zero `session_id` starts with; `RightPhone` excepts this window and nothing else.

**MapSync.** The SDK's DP thread runs the three commands, the LCM thread the two
events; they share `/tmp/map.bin`, `/tmp/mm_map_<id>.bin`, `/tmp/0.tar.gz` and
`/data/xd/maps/0` without a lock. Every shell command, cloud call and LCM request
is a step with its failures. A map is a value and a directory says, for each file
name, which map the file belongs to, so that mixtures show. `quiet` tells whether
anything failed, or the other thread or the robot wrote meanwhile, and `want` is
the map `ty_save_map` wrote. The robot and the cloud are external.

**DpSync.** Three threads: the SDK's command thread, the LCM thread, and the
network thread that runs `ReportAll`. The handlers are classed by what they
report after the request (nothing, the value asked for, the same if the answer's
code is 0, the value in the answer, or a value the robot is never told); the
assignment of classes is a constant that the runs vary. `suspect` collects the
data points to which one of the races listed at `CloudIsCurrent` happened, and
`ReportAll` takes them out again. A part starts with any life, and the robot may
broadcast any life at any time, the same one again included. A command for DP 19
(`DP_HandleRollBrushLife`) asks the robot for a new part (`ResetLife`) and reports
the received bool as the life (`EchoLife`). `heard` tells whether the cache still
holds the zero it starts with. Cleaning info works like the parts' life and is left
out. So are the reset data points (18, 20, 22, 24), which report their own bool, and
the log upload (166), whose detached thread reports a data point that has no
counterpart on the robot.

**RawDp.** A setting is a header and items. Three tables, written down separately,
say where each field lies: the phone's order in a request (`PhoneHead`,
`PhoneItems`; external), the handler's offsets and the order of its cursor
(`HeadAt`, `ItemsAt`, `ItemFields`), and the `push_back` calls of the report
(`ReportHead`, `ReportItems`). A wrong offset in the handler makes it disagree with
the phone's table. The decoder walks an item with a cursor, as the handler walks its
pointer: how far a field reaches may depend on a count read from the body.
Coordinates pass through the map resolution, a global the LCM thread writes without a
lock. `OnMap` is `ToTuyaMap` between two steps of the handler. While a request is
read, the maps of a member of `Arrivals` come in, each at a byte of the body, and
`ResAt` says which resolution a point is scaled with; `scale` remembers all that were
in force. The resolution is 0 when a cleaning record is made before the first map;
what dividing by it yields is left to the build (`ByZero`). Encoding a report is one
step, so a map in the middle of it is not represented. `SettingsAssumption` says what
a request can carry at all: words fit 16 bits with a sign, counts of items, points
and rooms fit their byte, names their 19 bytes, a kind that has a version carries
that version, and zone requests name at least one zone. The specification is called
`RawSpec`, with variables of its own names, so that one module can reason about it
and about `VoicePack`.

**VoicePack.** One handler, one step per shell command, each of which may fail; a
power cut may come between two steps and while an archive is being unpacked
(`Torn`). Files survive it, the handler does not; what a command wrote is durable
when it returns, and a relinking replaces the link or leaves it.

**DeviceStart.** The start, the online thread, the SDK's callbacks and its polls
of the station status. The outcome of a station connect is a choice here; how it
comes about is `StaConnect`. Its specification is `StartSpec` and its definitions
have names of their own, so that one module can reason about both.

## 3. Runs

| Run | Instance | Checked |
|---|---|---|
| `ring` | 3 bytes, chunks of 1-2, two producers | `LengthMatchesPointers`, `NoLostWakeup`, `ImplementsFifo` (refinement of `ByteFifo`) |
| `act_transfer` | 3 callers, 2 calls each, queue of 1 | `OneRequest`, `NoUseAfterFree`, `OkMeansServed`, `PostNeverFails`, `EveryCallReturns` |
| `sta` | 2 access points, 2 calls, 2 tries, socket and monitor queue of 2 | `TypeOK`, `NetConnectedReal`, `SuccessIsNews` |
| `sta_returns` | 1 access point, 2 calls of every kind, 3 tries, socket of 1 | `CallsReturn` (every call but a scan) |
| `modes` | all five modes, all faults, 7 calls | `OneDaemon`, `CurrentEnabled`, `ModeServed` |
| `album` | 2 sessions, 2 files and a stream, 5 callbacks (1,122,368 states) | `RightPhone`, `FinishAnswers`, `NoFileForgotten`, `CancelSilences` |
| `maps` | 2 maps of different files, 2 cloud ids, 2 commands or events, 1 change by the robot (870,276 states) | `TypeOK`, `ReportedIsReal`, `SelfNamed`, `SaveFaithful`, `UseFaithful`, `PhoneAnswered` |
| `dp` | MQTT up twice and one command, with either one change by the robot and a setting of any of four classes, or two broadcasts of a life of 0 to 2 minutes, of which two make a unit (1,084,623 states) | `CloudIsCurrent`, `LifeIsCurrent`, `StartLast`, `ChangesArrive` |
| `frames` | fifteen kinds with settings at their limits, 2 resolutions and 0, 3 requests, 2 maps, also while a request is read (36,963 states) | `FrameExact`, `TakenIsMeant`, `ReportMirrorsRequest`, `QueryShowsHeld` |
| `voice` | 2 languages, 2 versions, 3 requests, 2 faults, 2 power cuts (157,352 states) | `VersionEarned`, `FirstInstallCrashSafe`, `InstalledIsInUse`, `DownloadAnswered` |
| `start` | 10 time requests, 20 polls (4,730 states) | `P2pSeesMedia`, `OnlineStartsP2p`, `LinkRepaired` |

What the newer runs show. `maps`: an answer of success to a save means the second
upload reached the cloud, and no interleaving of a command with an event puts the
placeholder back; the undisturbed save and use are exact whatever the directory
held before. Disturbed ones are not, and the properties say how far they go.
`dp`: the listed races are all there are; without one of them, the cloud agrees
with the robot when everything is over. Neither the cache nor jumps,
repetitions and resets of a life leave the cloud behind, but for the exceptions
listed at `LifeIsCurrent`, and each of these ends with the next ReportAll that is
answered or the next broadcast that differs and gets through. `frames`: the
handler finds each field where the phone put it, and a map that comes in while it
reads moves the points after it and nothing else; word order, signs and
rounding of both directions cancel for nine kinds, and the length byte is right
for every report that `LengthFits` names: those of a request whose own length fitted
a byte (without room names, whose NULs come on top), of walls and of areas with up
to four corners whatever their number, and answers to queries. `voice`: `ver.txt`, by which later
requests decide, is earned under any failures and power cuts. `start`: the online
thread, created first, cannot overtake the media information.

One run shows the code not keeping what its header says: `sta_success`
(`ConnectSuccessMeansConnected`), in which the DHCP_SUCCESS of the previous
association ends the new connect call with success. It is a finding in
`PROJECT.json`.

Why the bounds are enough. Three bytes are the least with which a chunk of two
can wrap, leave a gap and fill the ring; the ring's runs have no bound on the
number of operations. Three callers let one hold the mutex, one wait for it and
one finish, twice. Two calls let a call meet the leftovers of the one before,
which is how every station counterexample arises; two access points let the
leftovers be of another network; three tries reach the scan's limit
(`try_cnt == 2`). Seven mode calls are enough to enter, leave and re-enter
every mode with a failure in between, and reach every branch. Five callbacks
let one phone start, query, restart and cancel while the other acts once, or query
and start while the other does. Two commands or events of maps put one on each thread, or a save before
a use, with a map change in between; one change of the robot is what a race needs,
and the second ReportAll follows a lost connection. Data points and the life share only the
threads, so a behaviour is generous with one of them (`Balanced`). Two broadcasts of
lives 0 to 2, the first life being any, include a repetition, a fall to 0 and a jump
within one unit, and a command for DP 19 adds a third, before, between or after them. One command of two entries is
the least in which the start can be out of order (`StartIsLast` is proved for any
length). The frames' settings hold counts of walls and areas at 0, at the limit and past
it, words at -32768, -1 and 32767, names of 0 to 19 bytes, and resolutions that
do not divide each other; maps come in before the first point of a body and
behind some of them. Three voice requests are an installation, an upgrade
that goes wrong, and a retry. The 1000 time requests of the online thread are
cut to 10; the 20 polls are the code's.

Fairness. Each thread of the program that can take a step eventually does
(weak fairness per thread); in `ActTransfer` a handler that may call the
interface again and again eventually ends (strong fairness of `Run`). In `MapSync`
and `DpSync` every request to the robot and every cloud call has a time-out, and
`HandleForever` polls the broadcasts without end; in `VoicePack` commands end. In
`DeviceStart` the SDK keeps polling (weak), and a reconnect that is tried again
and again with the access point on the air succeeds once (strong fairness of
`PollReconnects`, an assumption about the radio). Otherwise nothing is
assumed of wpa_supplicant, access points, phones or the application: no
property needs them to act. The mutex promises no order, so
`EveryCallReturns` holds because every other caller makes finitely many calls.
`CHECK_DEADLOCK FALSE` is given where the system may stop because the bounded
application makes no more calls.

## 4. Proofs

All theorems hold for every value of the constants allowed by the modules'
ASSUMEs (sizes at least 1, distinguished values outside the sets). TLC had found
the inductive invariants to hold on the instances of section 3 before they were
proved.

* `RingBuffProofs`: `RingLengthMatchesPointers`, `RingNoLostWakeup`,
  `RingImplementsFifo`. The inductive invariant adds `SleepsOnEmpty`: the reader
  on its way into `pthread_cond_wait` still holds the lock, so the ring it saw
  empty is empty, and a producer's signal cannot fall in between. `RoomAndAvail`
  shows that the code's two case distinctions compute free and used space. The
  refinement maps the buffer, the get pointer and the byte count to the sequence
  of stored bytes (`Contents`): `StoreAppends` shows that a put, wrapped or not,
  appends its chunk to it, `LoadTakes` that a get takes its prefix, and
  `StepImplementsFifo` that every other step is a step on the flags or a stutter.
* `ActTransferProofs`: `ActOneRequest`, `ActNoUseAfterFree`, `ActOkMeansServed`,
  `ActPostNeverFails`. The invariant says who owns the mutex (the only caller
  past `Lock`), that queue, worker and semaphore hold together exactly one
  request while the owner waits and none otherwise, and that the owner's
  record is allocated. The queue is therefore empty at every post.
* `OnlineProofs` on `StaConnect`: `StaTypeCorrect`, `StaNetConnectedReal`,
  `StaSuccessIsNews`. The state NET_CONNECTED comes from a DHCP_SUCCESS that may
  have been sent without asking the network (a kept lease), so `NetConnectedReal`
  has to be followed back to the CONNECTED event: `Linked` says that behind every
  CONNECTED on the monitor socket, and behind the one the event thread is working
  on, the station is still associated or the news of the loss is in the queue.
  `Grown` states what keeps this true of every supplicant step and command: events
  are only appended, a CONNECTED with an association, a loss with its event.
  `Answered` says that between `evt_socket_clear` and the end of the call every
  DHCP_SUCCESS on the event socket was written during the call.
* `OnlineProofs` on `DeviceStart`: `StartTypeCorrect`, `P2pAfterMedia`.
  `MediaFirst` says that the thread's progress implies the online flag, the flag a
  running SDK, and a running SDK the media information and the ring buffers, which
  nothing takes away.
* `WifiModeProofs`: `ModeOneDaemon`, `ModeCurrentEnabled`, `ModeTypeOK`,
  `OneModeServed`. The first invariant needs that modes still to be disabled
  are enabled (`PendingOff`) and that a set pid has a thread (`PidThreads`). The
  second (`ServeInv`) holds as long as one mode at a time is asked for: then
  clearing the whole bitmap clears the one mode that was disabled, and flags
  and bitmap stay equal.
* `AlbumTransferProofs`: `AlbumRightPhone`, `AlbumFinishAnswers`,
  `AlbumNoFileForgotten`. `Known` says that `session_id` is written before
  anything of a session can be served, unless a START or CANCEL came before the QUERY
  that is about to write it, `Asked` that a status other than NULL
  stands for a request unless it is about to be reset, `Scanned` and
  `KeptWanted` follow the scan past the files.
* `MapSyncProofs`: `TypeCorrect`, `ReportedStaysReal`, `ArchivesNameThemselves`,
  `SavesAreFaithful`, `UsesAreFaithful`. `Program` ties each place in the code to
  the commands that reach it. `Real` is the argument about the placeholder: what a
  thread reported, or is about to report, was replaced by an archive, and nobody
  writes a placeholder over an existing id; it needs no assumption about the other
  thread. The other three are about undisturbed commands: `Alone` says that a quiet
  command under way is the only one under way, so `Carry` may say what the shared
  files hold at each place (the map the robot saved, its picture, the id file of
  this upload, the installed archive) and what of it has reached the cloud; `Sound`
  says that what is used was a whole archive, disturbed or not.
* `DpSyncProofs`: `StartIsLast`, `TypeCorrect`, `CloudStaysCurrent`,
  `LifeStaysCurrent`. `Cursor` follows the command thread, which walks a batch from
  its last entry to its first: `done` is at every moment the part behind the
  cursor, so nothing but the first entry is left when the first is sent. Nothing
  the LCM or network thread does moves the cursor; `Rest` types the other
  variables. `CloudIsCurrent` speaks of states in which nothing is under way; its
  inductive form, `LastWord`, says of every state who will report a data point
  last, and that he holds the robot's value: a broadcast that waits (`Broadcasts`:
  the last of its kind shows the robot as it is), the LCM thread on its way through
  the list (`HeldByLcm`), the command thread, the network thread, or nobody, and
  then the cloud has it. `LifeWord` does the same for the parts' life, where a
  report is suppressed when the remembered value equals the new one: the cache holds
  the last broadcast handled, the last one that waits shows the life as it is, and
  unless a waiting broadcast will be reported (`NoReportDue`) or the network thread
  is about to report the life, the cloud has it. Nothing is assumed of the lives,
  nor of an hour but that it has minutes.
* `DpFunctionProofs` on `VoicePack`: `TypeCorrect`, `VersionsAreEarned`,
  `InstalledPacksAreInUse` and `FirstInstallIsCrashSafe`. `Earning` says that past
  the comparison of sums the pair is verified; `Installing` that `err = 0` at a step
  means the commands before it did their work; `FirstInv` that a pack is unpacked
  only when its `ver.txt` does not name it and that what a `ver.txt` names was
  unpacked, so that unpacking over a named version makes a second one.
* `DpFunctionProofs` on `RawDp`: `TakenMeant`, `ReportMirrors`, `QueryShows`,
  `FramesExact`, for every setting `SettingsAssumption` allows and every resolution
  that is even in the unit chosen (at most 2000 of them). They need induction over
  the bytes of a frame. `Induct` gives it for a set of numbers instead of an
  operator: the least number outside the set is the counterexample. `Recursion`
  shows in the same way that a function with a given first value and step exists,
  which is what lets the `CHOOSE` behind a recursive function be used (`JoinedExists`,
  `WalkExists`, `SumExists`). On these stand
  - decoding: `FlattenJoined` and `JoinedAt` say where each part of a concatenation
    lies, `ReadField` that each kind of field is read back from where it lies,
    `CursorReads` that the cursor is there, `ItemsRead` the same for the items, and
    `DecodeMeant` puts header and items together. `ReadingAt` says that every byte is
    read at a resolution that was in force while the request was read. `RawInv`
    carries the result (what was taken, and what the robot holds, is a setting in
    which every length stands for the phone's word times such a resolution) to the
    answer;
  - reporting: `ScaleBack` says that dividing by the resolution, if it is not 0, with
    rounding undoes the multiplication, `BodyMirrors` that the bodies are then the same, `Rounds`
    that with another resolution the error is at most half a unit;
  - length and sum: `SumIsByte` says that the checksum is a byte, `SameLengths` and
    `ReportBytes` that a report is as long as its request (plus the NULs), and
    `FrameInv` that every frame was made from a body whose length fits.

  The proof found that the guards of the `CASE` that chose the form of a spot's
  report overlapped; `Form` now decides as `TuyaReportSpotClean` does.

Every invariant and action property of the passing runs is proved. Only
model-checked is liveness (`EveryCallReturns`, `CallsReturn`, `CancelSilences`,
`PhoneAnswered`, `ChangesArrive`, `DownloadAnswered`, `OnlineStartsP2p`,
`LinkRepaired`), which this prover does not handle.

## 5. Known behaviour without a run

The models reproduce these unless stated otherwise. Where the repository says
something against one, the line is quoted and the formula is in the module, under
the name given, as something the code does not keep.

Station and modes:

* A disconnect during an attempt answers success and stops nothing, and with
  auto-reconnect RECONNECT may follow DISCONNECT (`linux_wpa.c:1681`;
  `wifimg.h:419` "return: 0 - sta disconnect from ap success, others - fail";
  `DisconnectSticks`).
* A failing SCAN_RESULTS command is repeated for ever (`linux_wpa.c:1215`;
  `wifimg.h:523` "return: 0 - get scan results success, others - fail";
  `ScanReturns`).
* Softap kills wpa_supplicant in AP_STATION mode (`linux_hapd.c:853`;
  `wifimg.h:75` "concurrent mode of station and softap"; `ConcurrentServed`).
* Leaving a concurrent mode for one of its parts fails, the bitmap being cleared
  as a whole (`wmg_common.c:1043`; `wifimg.h:397`; `WifiOnSucceeds`).
* The callback that `tuya_wifi_init` registers before any mode is on reaches no
  mode (`wmg_sta.c:458`; `wifimg.h:505` "return: 0 - register callback function
  success, others - fail"; `RegisteredHears`).
* A connect whose tries run out leaves `WIFI_STA_CONNECTING`
  (`linux_wpa.c:1663`); later connects are refused until the supplicant sends
  an event.
* A connect with a bad password while connected reports DISCONNECTED and leaves
  the old association and a half-configured network (`linux_wpa.c:1613`).
* A connect during DHCP books the old network's address on the new ssid
  (`linux_wpa.c:1283`).
* Each entry to station or softap mode creates a thread; `wifi_off` cancels the
  last one only (`linux_wpa.c:1536`).
* AP_MONITOR, then AP, then `wifi_off` leaves `ap_enable` set; the next
  `wifi_on(WIFI_AP)` succeeds without hostapd (`wmg_common.c:912`).
* Monitor mode left without `wifi_monitor_disable` makes the next
  `wifi_monitor_enable` a no-op that succeeds (`wmg_monitor.c:285`).
* Not modelled: the provisioning wait of the link daemon does not notice its own
  time-out (`linkd.c:157`).

Album: a START or CANCEL before a session's first QUERY is taken (121, 161); when the
QUERY then comes, the sender may send to session 0 between the writes of `used` and
`session_id` (96, 97). A START between a finish and the reset of `album_status` is lost
(`tuya_ipc_sweeper_demo.c:330, 338`). A request for all three plain files has no
transfer mode and is ignored (`tuya_ipc_sweeper_demo.c:142` tests `== 0`).

Data points. A command for DP 19 leaves its bool in the cloud as the life of the roll
brush (`tuya_dp_function.cpp:465`; its comment at 450 calls DP 19 the remaining life,
"默认区间为 0min—18000min"; `LifeIsTold`). A first broadcast of life
0 is not reported, since it equals the cache's initial value (`tuya_robot.cpp:464-485`);
ReportAll reports it.

Maps (`tuya_dp_function.cpp`):

* tar's exit code is not looked at (2835), so a torn archive may be reported saved
  (`ReportedSaveIsWhole`, against the comment at 3054).
* A save the robot refuses is not answered at all (3047), nor is a failed upload
  of a robot event.
* A failed second upload leaves the placeholder in the cloud (2820).
* Installing a map empties a directory of another name (3158): files of the old
  map that the new one lacks stay.

Voice packs (`tuya_dp_function.cpp`):

* After a failed unpacking `ver.txt` is written all the same (3285); the retry
  finds it and reports the torn pack in use.
* An archive of unknown kind is reported in use without having been unpacked; a
  failed download is not reported; the codes of relinking are ignored.
* A power cut while a newer version is unpacked leaves the older `ver.txt` with
  torn files.
* Requests with version 0 share the file content "0" and count as one version.

Bring-up (`tuya_ops.cpp`): `pthread_create` reports failure with a positive
number, which `op_ret < 0` (543) does not see; `main` ignores the result of the
start; a DP command over the LAN sets the online flag too. Not modelled: fopen and
fwrite of the OTA file are unchecked (322, 360).

Frames (`tuya_dp_function.cpp`). A map of another resolution that comes in while a
request is read gives the robot a polygon part of whose corners lie at one scale and
part at the other (`tuya_utils.cpp:22, 386`). Before the first map a cleaning record
sets the resolution to 0 (`tuya_robot.cpp:722`); from then until a map comes, settings
have all corners at 0, and a report divides by 0. More than about 250 bytes of body (twelve names
of 19 bytes, seven named areas) overflow the length byte. The reports of named
kinds, of the do-not-disturb time with a switch and of several rooms' properties
do not have the request's layout. A setting is reported whatever code the robot
answered, and `if (ret = 0x00)` makes the results of mapping and reset always
success. Not modelled, because the encoders are unfinished: walls of version 1
(0x48, a header only), zones of version 2 (both blocks are sent) and 3 (no body),
alerts of version 1 (0x44), zone requests with count 0 (1449 reads the first element of an empty vector), the query of walls (0x13,
nothing is sent).

## 6. Plan

1. A supplicant command that times out in `StaConnect` and ends the event thread
   (`linux_wpa.c:183`), and with it `NetConnectedReal` restated for a thread that
   may be gone.
2. A composition of `WifiMode` and `StaConnect` with more than one event thread.
3. The coding of map and path files as operators checked against a reference.
4. Proofs: the reports of named kinds and of room properties against a decoder of
   the phone's side, once the repository says how the phone reads them.

Not modelled and not planned:

* the public Wi-Fi functions (argument checks and one `act_transfer` each), the
  link daemon (no caller), timed tasks (not compiled in), Bluetooth (never
  initialised in the default build);
* log and shell output, parsing of scan results and status texts, live media,
  OTA (one file written by one thread), the sniffer;
* the Tuya SDK (headers and a binary, which make up most of the tree), the
  vendored libraries, and the code outside `arm_app/apps/src`.
