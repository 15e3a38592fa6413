------------------------------- MODULE MapSync -------------------------------
(***************************************************************************)
(* The synchronisation of the robot's map with the cloud: the three map    *)
(* commands of the extended raw DP (TuyaHandleExtentedFuction: 0x2A save,  *)
(* 0x2C delete, 0x2E use) and the two robot events that upload a map       *)
(* (TuyaComm::OnSaveMap, TuyaComm::OnUpdateMap), in the ALL_CLOUD_MAP      *)
(* build that tuya_dp_function.cpp selects.                                *)
(*                                                                         *)
(* The commands run on the SDK's DP thread, the events on the LCM thread.  *)
(* They share, without a lock, the files /tmp/map.bin (view),              *)
(* /tmp/mm_map_<currId>.bin (comb), /tmp/0.tar.gz (tarball), the robot's   *)
(* directory /data/xd/maps/0 (dir, with tuya_map_id.txt as dirId) and the  *)
(* cloud's maps. Every shell command, cloud call and LCM request is one    *)
(* step, so that the steps of the two threads interleave.                  *)
(*                                                                         *)
(* A map is a model value; a directory records, for each file name, the    *)
(* map the file belongs to. The robot (behind the LCM requests) and the    *)
(* cloud are external: modelled from the calls and from the results the    *)
(* code tests.                                                             *)
(*                                                                         *)
(* quiet, want and report are history variables: no guard reads them.      *)
(***************************************************************************)
EXTENDS Naturals, FiniteSets, Functions

CONSTANTS Maps,          \* maps the robot may hold
          Files,         \* names of the files in a map directory
          FilesOf,       \* FilesOf[m]: the files map m consists of
          Ids,           \* ids the cloud may give out, each once
          Earlier,       \* ids it may have given out before this run
          CurrIds,       \* values of currId (the robot's own map number)
          NoMap, NoId,
          MaxCommands,   \* bound: commands and events started
          MaxRobot       \* bound: steps the robot takes of its own accord

ASSUME MapAssumption ==
    /\ FilesOf \in [Maps -> SUBSET Files \ {{}}]
    /\ NoMap \notin Maps /\ NoId \notin Ids
    /\ Earlier \subseteq Ids
    /\ 0 \in CurrIds
    /\ MaxCommands \in Nat /\ MaxRobot \in Nat

VARIABLES live,      \* the map the robot drives on (external)
          dir,       \* file name -> map it belongs to, in /data/xd/maps/0
          dirId,     \* content of /data/xd/maps/0/tuya_map_id.txt
          view,      \* map drawn in /tmp/map.bin
          comb,      \* currId -> map drawn in /tmp/mm_map_<currId>.bin
          tarball,   \* /tmp/0.tar.gz
          cloud,     \* id -> state of that map in the cloud (external)
          th,        \* thread -> where it is and its locals
          started,   \* number of commands and events started
          moved,     \* number of steps the robot took of its own accord
          quiet,     \* thread -> nothing failed or interfered so far
          want,      \* thread -> the map ty_save_map wrote for it
          report     \* thread -> the answer of its last command

vars == <<live, dir, dirId, view, comb, tarball, cloud, th, started,
          moved, quiet, want, report>>

shared == <<live, dir, dirId, view, comb, tarball, cloud>>

Threads == {"sdk", "lcm"}
Dirs == [Files -> Maps \cup {NoMap}]
EmptyDir == [f \in Files |-> NoMap]

\* An archive as it lies in /tmp or in the cloud. "stub" is the one-byte file
\* /tmp/0.txt, "torn" an archive tar could not finish.
Archives == [kind : {"none", "stub", "torn", "whole"},
             files : Dirs, id : Ids \cup {NoId}]
NoArchive == [kind |-> "none", files |-> EmptyDir, id |-> NoId]
Stub == [kind |-> "stub", files |-> EmptyDir, id |-> NoId]

\* A map in the cloud: the picture, the archive, and whether the upload that
\* produced the archive ran undisturbed (history).
CloudMaps == [state : {"unused", "stored", "deleted"},
              bin : Maps \cup {NoMap}, data : Archives, quiet : BOOLEAN]

Cmds == {"save", "delete", "use", "saveEvent", "updateEvent"}
Pcs == {"idle", "robot", "view", "combine", "upload", "writeId", "tar",
        "send", "return", "connect", "delete", "download", "install",
        "change", "answer"}
Locals == [pc : Pcs, cmd : Cmds, curr : CurrIds, id : Ids \cup {NoId},
           ret : {0, 1}, got : Archives]
Outcomes == {"none", "ok", "fail"}

Holds(d, m) == \A f \in FilesOf[m] : d[f] = m

\* Moving the files S of archive a over directory d; what is not moved stays.
Overwrite(d, a, S) ==
    [f \in Files |-> IF f \in S /\ a.files[f] # NoMap THEN a.files[f] ELSE d[f]]

\* Writing map m into the directory, file by file, as the robot saves it.
WriteMap(d, m) == [f \in Files |-> IF f \in FilesOf[m] THEN m ELSE d[f]]

\* Boot: /tmp is empty but for the first map broadcast, the directory and the
\* cloud keep what earlier runs saved: nothing, or map m under id old, which
\* the directory names if the robot still uses it.
StoredBefore(old, m) ==
    [i \in Ids |->
        IF i = old
        THEN [state |-> "stored", bin |-> m, quiet |-> TRUE,
              data |-> [kind |-> "whole", files |-> WriteMap(EmptyDir, m),
                        id |-> i]]
        ELSE [state |-> "unused", bin |-> NoMap, quiet |-> FALSE,
              data |-> NoArchive]]

Init ==
    /\ live \in Maps
    /\ dir = WriteMap(EmptyDir, live)
    /\ \E old \in Earlier \cup {NoId}, m \in Maps :
          /\ cloud = StoredBefore(old, m)
          /\ dirId \in {NoId, old}
    /\ view \in {live, NoMap}
    /\ comb = [c \in CurrIds |-> NoMap]
    /\ tarball = NoArchive
    /\ th = [t \in Threads |-> [pc |-> "idle", cmd |-> "save", curr |-> 0,
                                id |-> NoId, ret |-> 0, got |-> NoArchive]]
    /\ started = 0
    /\ moved = 0
    /\ quiet = [t \in Threads |-> TRUE]
    /\ want = [t \in Threads |-> live]
    /\ report = [t \in Threads |-> "none"]

----------------------------------------------------------------------------
(* Steps of the robot and of the LCM thread's map subscription.             *)

Disturb == quiet' = [t \in Threads |-> quiet[t] /\ th[t].pc = "idle"]

\* External: the robot drives on another map.
RobotMoves(m) ==
    /\ moved < MaxRobot
    /\ m # live
    /\ live' = m
    /\ moved' = moved + 1
    /\ Disturb
    /\ UNCHANGED <<dir, dirId, view, comb, tarball, cloud, th, started, want,
                   report>>

\* External: the robot writes its map to its directory of its own accord.
RobotSaves ==
    /\ moved < MaxRobot
    /\ dir # WriteMap(dir, live)
    /\ dir' = WriteMap(dir, live)
    /\ moved' = moved + 1
    /\ Disturb
    /\ UNCHANGED <<live, dirId, view, comb, tarball, cloud, th, started, want,
                   report>>

\* TuyaComm::OnMap: the LCM thread writes the broadcast map to /tmp/map.bin.
OnMap ==
    /\ th["lcm"].pc = "idle"
    /\ view # live
    /\ view' = live
    /\ UNCHANGED <<live, dir, dirId, comb, tarball, cloud, th, started, moved,
                   quiet, want, report>>

----------------------------------------------------------------------------
(* Control of a thread.                                                     *)

Goto(t, p) == th' = [th EXCEPT ![t].pc = p]
Fault(t) == quiet' = [quiet EXCEPT ![t] = FALSE]

\* A command or event begins. Both threads stop being quiet when they overlap.
Start(t, p, c, cur, i) ==
    /\ th[t].pc = "idle"
    /\ started < MaxCommands
    /\ started' = started + 1
    /\ th' = [th EXCEPT ![t].pc = p, ![t].cmd = c, ![t].curr = cur,
                        ![t].id = i, ![t].ret = 0]
    /\ LET alone == \A u \in Threads \ {t} : th[u].pc = "idle"
       IN quiet' = IF alone THEN [quiet EXCEPT ![t] = TRUE]
                   ELSE [u \in Threads |-> FALSE]
    /\ report' = [report EXCEPT ![t] = "none"]
    /\ UNCHANGED <<shared, moved, want>>

SaveCommand == Start("sdk", "robot", "save", 0, NoId)
DeleteCommand(i) == Start("sdk", "delete", "delete", 0, i)
UseCommand(i) == Start("sdk", "download", "use", 0, i)
OnSaveMap(c) == Start("lcm", "robot", "saveEvent", c, NoId)

\* OnUpdateMap reads the id from the directory first (TuyaUpdateMapFile); a
\* missing file ends the event before anything is uploaded.
OnUpdateMap(c) ==
    /\ dirId # NoId
    /\ Start("lcm", "view", "updateEvent", c, dirId)

----------------------------------------------------------------------------
(* TuyaUploadMapFile2, step by step, and the requests around it.            *)

Returns(t, r) == th' = [th EXCEPT ![t].pc = "return", ![t].ret = r]
Ends(t, r) == th' = [th EXCEPT ![t].pc = "answer", ![t].ret = r]

\* Send("ty_save_map"): the robot writes its map, or refuses, or answers too
\* late (the map is written all the same). OnSaveMap reports a failure; the
\* save command of the phone ends without an answer.
RobotSaved(t) ==
    /\ th[t].pc = "robot"
    /\ dir' = WriteMap(dir, live)
    /\ want' = [want EXCEPT ![t] = live]
    /\ Goto(t, "view")
    /\ UNCHANGED <<live, dirId, view, comb, tarball, cloud, started, moved,
                   quiet, report>>

RobotRefuses(t) ==
    /\ th[t].pc = "robot"
    /\ dir' \in {dir, WriteMap(dir, live)}
    /\ IF th[t].cmd = "saveEvent" THEN Ends(t, 1) ELSE Goto(t, "idle")
    /\ UNCHANGED <<live, dirId, view, comb, tarball, cloud, started, moved,
                   quiet, want, report>>

\* Mutant: the picture is not fetched, the last broadcast one is uploaded.
GetMapLater(t) ==
    /\ th[t].pc = "view"
    /\ Goto(t, "combine")
    /\ UNCHANGED <<shared, started, moved, quiet, want, report>>

\* Send("ty_get_map"): on a time-out only a log line, and the upload goes on
\* with whatever /tmp/map.bin holds.
GetMap(t) ==
    /\ th[t].pc = "view"
    /\ \/ view' = live /\ UNCHANGED quiet
       \/ view' = view /\ Fault(t)
    /\ Goto(t, "combine")
    /\ UNCHANGED <<live, dir, dirId, comb, tarball, cloud, started, moved,
                   want, report>>

\* Reading /tmp/map.bin and writing it, with the walls and areas the robot
\* still answers for, to /tmp/mm_map_<currId>.bin.
Combine(t) ==
    /\ th[t].pc = "combine"
    /\ view # NoMap
    /\ comb' = [comb EXCEPT ![th[t].curr] = view]
    /\ Goto(t, IF th[t].cmd = "updateEvent" THEN "tar" ELSE "upload")
    /\ UNCHANGED <<live, dir, dirId, view, tarball, cloud, started, moved,
                   quiet, want, report>>

CombineFails(t) ==
    /\ th[t].pc = "combine"
    /\ Returns(t, 1)
    /\ UNCHANGED <<shared, started, moved, quiet, want, report>>

\* What the cloud stores in answer to the first upload.
FirstUpload(t) ==
    [state |-> "stored", bin |-> comb[th[t].curr], data |-> Stub,
     quiet |-> FALSE]

CanUpload(t, i) ==
    /\ th[t].pc = "upload"
    /\ cloud[i].state = "unused"
    /\ comb[th[t].curr] # NoMap

\* Mutant: the local mapId, not the one the call returned, is used from here on.
UploadOwnId(t, i) ==
    /\ CanUpload(t, i)
    /\ cloud' = [cloud EXCEPT ![i] = FirstUpload(t)]
    /\ th' = [th EXCEPT ![t].pc = "writeId", ![t].id = 0]
    /\ UNCHANGED <<live, dir, dirId, view, comb, tarball, started, moved, quiet,
                   want, report>>

\* Mutant: the id is not written to the directory before it is packed.
UploadPacksAtOnce(t, i) ==
    /\ CanUpload(t, i)
    /\ cloud' = [cloud EXCEPT ![i] = FirstUpload(t)]
    /\ th' = [th EXCEPT ![t].pc = "tar", ![t].id = i]
    /\ UNCHANGED <<live, dir, dirId, view, comb, tarball, started, moved, quiet,
                   want, report>>

\* Mutant: the first upload is taken for the whole save.
UploadOnce(t, i) ==
    /\ CanUpload(t, i)
    /\ cloud' = [cloud EXCEPT ![i] = FirstUpload(t)]
    /\ th' = [th EXCEPT ![t].pc = "return", ![t].ret = 0, ![t].id = i]
    /\ UNCHANGED <<live, dir, dirId, view, comb, tarball, started, moved, quiet,
                   want, report>>

\* tuya_iot_map_upload_files with the placeholder /tmp/0.txt: the cloud stores
\* the picture under a new id.
Upload(t, i) ==
    /\ CanUpload(t, i)
    /\ cloud' = [cloud EXCEPT ![i] = FirstUpload(t)]
    /\ th' = [th EXCEPT ![t].pc = "writeId", ![t].id = i]
    /\ UNCHANGED <<live, dir, dirId, view, comb, tarball, started, moved,
                   quiet, want, report>>

\* The upload fails; the combined file is removed and the error returned.
UploadFails(t) ==
    /\ th[t].pc = "upload"
    /\ comb' = [comb EXCEPT ![th[t].curr] = NoMap]
    /\ Returns(t, 1)
    /\ UNCHANGED <<live, dir, dirId, view, tarball, cloud, started, moved,
                   quiet, want, report>>

\* tuya_map_id.txt; that it cannot be opened is only logged.
WriteId(t) ==
    /\ th[t].pc = "writeId"
    /\ \/ dirId' = th[t].id /\ UNCHANGED quiet
       \/ dirId' = dirId /\ Fault(t)
    /\ Goto(t, "tar")
    /\ UNCHANGED <<live, dir, view, comb, tarball, cloud, started, moved, want,
                   report>>

\* rm -f /tmp/0.tar.gz; tar -czf /tmp/0.tar.gz 0. Neither exit code is read:
\* on a full /tmp the archive is torn or missing.
Tar(t) ==
    /\ th[t].pc = "tar"
    /\ \/ /\ tarball' = [kind |-> "whole", files |-> dir, id |-> dirId]
          /\ UNCHANGED quiet
       \/ /\ tarball' \in {NoArchive,
                           [kind |-> "torn", files |-> dir, id |-> dirId]}
          /\ Fault(t)
    /\ Goto(t, "send")
    /\ UNCHANGED <<live, dir, dirId, view, comb, cloud, started, moved, want,
                   report>>

\* tuya_iot_map_update_files: replaces picture and archive of the map with this
\* id; both files must exist, and the map must still be there.
Sendable(t) ==
    /\ tarball.kind # "none"
    /\ comb[th[t].curr] # NoMap
    /\ cloud[th[t].id].state = "stored"

Replace(t) ==
    cloud' = [cloud EXCEPT ![th[t].id] = [state |-> "stored",
                                          bin |-> comb[th[t].curr],
                                          data |-> tarball,
                                          quiet |-> quiet[t]]]

UpdateFiles(t) ==
    /\ th[t].pc = "send"
    /\ \/ /\ Sendable(t) /\ Replace(t)
          /\ Returns(t, 0)
       \* the call fails, or its answer is lost after the cloud has taken it
       \/ /\ UNCHANGED cloud \/ (Sendable(t) /\ Replace(t))
          /\ Returns(t, 1)
    /\ comb' = [comb EXCEPT ![th[t].curr] = NoMap]
    /\ UNCHANGED <<live, dir, dirId, view, tarball, started, moved, quiet,
                   want, report>>

\* Mutant: only a success is answered.
UploadReturnsOk(t) ==
    /\ th[t].pc = "return"
    /\ Goto(t, CASE th[t].ret = 1 -> "idle"
                 [] th[t].cmd = "save" -> "answer"
                 [] th[t].cmd = "saveEvent" -> "connect"
                 [] OTHER -> "idle")
    /\ UNCHANGED <<shared, started, moved, quiet, want, report>>

\* What the caller does with TuyaUploadMapFile2's result.
UploadReturns(t) ==
    /\ th[t].pc = "return"
    /\ Goto(t, CASE th[t].cmd = "save" -> "answer"
                 [] th[t].cmd = "saveEvent" /\ th[t].ret = 0 -> "connect"
                 [] OTHER -> "idle")
    /\ UNCHANGED <<shared, started, moved, quiet, want, report>>

\* Send("ty_connect_tuya_id"): the robot learns the id; its result decides the
\* answer.
Connect(t) ==
    /\ th[t].pc = "connect"
    /\ \E r \in {0, 1} : Ends(t, r)
    /\ UNCHANGED <<shared, started, moved, quiet, want, report>>

----------------------------------------------------------------------------
(* 0x2C and 0x2E.                                                           *)

\* tuya_iot_map_delete; the answer may be lost after the map is gone.
Deleted(t) ==
    /\ cloud[th[t].id].state = "stored"
    /\ cloud' = [cloud EXCEPT ![th[t].id].state = "deleted"]

Delete(t) ==
    /\ th[t].pc = "delete"
    /\ \/ Deleted(t) /\ Ends(t, 0)
       \/ (UNCHANGED cloud \/ Deleted(t)) /\ Ends(t, 1)
    /\ UNCHANGED <<live, dir, dirId, view, comb, tarball, started, moved,
                   quiet, want, report>>

\* download_file: curl reports success for any body the server sends.
Download(t) ==
    /\ th[t].pc = "download"
    /\ \/ th' = [th EXCEPT ![t].pc = "install",
                           ![t].got = IF cloud[th[t].id].state = "stored"
                                      THEN cloud[th[t].id].data
                                      ELSE Stub]
       \/ Ends(t, 1)
    /\ UNCHANGED <<shared, started, moved, quiet, want, report>>

\* tar -zxf, rm -rf /data/xd/map/0/* (a directory nobody writes, so old files
\* stay), mv /tmp/0/* /data/xd/maps/0/: the four exit codes are summed.
Move(t, S, withId) ==
    /\ dir' = Overwrite(dir, th[t].got, S)
    /\ dirId' = IF withId /\ th[t].got.id # NoId THEN th[t].got.id ELSE dirId

Install(t) ==
    /\ th[t].pc = "install"
    /\ th[t].got.kind = "whole"
    /\ Move(t, Files, TRUE)
    /\ Goto(t, "change")
    /\ UNCHANGED <<live, view, comb, tarball, cloud, started, moved, quiet,
                   want, report>>

\* Mutant: the exit codes of the shell commands are not looked at.
InstallAnyway(t) ==
    /\ th[t].pc = "install"
    /\ \E S \in SUBSET Files, withId \in BOOLEAN : Move(t, S, withId)
    /\ Goto(t, "change")
    /\ UNCHANGED <<live, view, comb, tarball, cloud, started, moved, quiet,
                   want, report>>

\* A command fails, but the ones after it still run: some files are moved.
InstallFails(t) ==
    /\ th[t].pc = "install"
    /\ \E S \in SUBSET Files, withId \in BOOLEAN : Move(t, S, withId)
    /\ Ends(t, 1)
    /\ UNCHANGED <<live, view, comb, tarball, cloud, started, moved, quiet,
                   want, report>>

\* Send("ty_change_map_by_tuya_id"): the robot loads the directory and answers
\* with code 0, or refuses, or answers too late.
Change(t) ==
    /\ th[t].pc = "change"
    /\ \/ live' \in {m \in Maps : Holds(dir, m)} /\ \E r \in {0, 1} : Ends(t, r)
       \/ UNCHANGED live /\ Ends(t, 1)
    /\ UNCHANGED <<dir, dirId, view, comb, tarball, cloud, started, moved,
                   quiet, want, report>>

\* TuyaReportMapSaveResult: the answer goes out and the command is over.
TuyaReportMapSaveResult(t) ==
    /\ th[t].pc = "answer"
    /\ report' = [report EXCEPT ![t] = IF th[t].ret = 0 THEN "ok" ELSE "fail"]
    /\ th' = [th EXCEPT ![t].pc = "idle", ![t].got = NoArchive]
    /\ UNCHANGED <<shared, started, moved, quiet, want>>

----------------------------------------------------------------------------

Step(t) ==
    \/ RobotSaved(t) \/ RobotRefuses(t) \/ GetMap(t)
    \/ Combine(t) \/ CombineFails(t)
    \/ \E i \in Ids : Upload(t, i)
    \/ UploadFails(t) \/ WriteId(t) \/ Tar(t) \/ UpdateFiles(t)
    \/ UploadReturns(t) \/ Connect(t)
    \/ Delete(t) \/ Download(t) \/ Install(t) \/ InstallFails(t) \/ Change(t)
    \/ TuyaReportMapSaveResult(t)

\* The phone names maps the cloud has listed to it.
Listed == {i \in Ids : cloud[i].state # "unused"}

Requests ==
    \/ SaveCommand
    \/ \E i \in Listed : DeleteCommand(i) \/ UseCommand(i)
    \/ \E c \in CurrIds : OnSaveMap(c) \/ OnUpdateMap(c)

Robot == RobotSaves \/ OnMap \/ \E m \in Maps : RobotMoves(m)

Next == Requests \/ Robot \/ \E t \in Threads : Step(t)

Spec == Init /\ [][Next]_vars

\* Every LCM request and cloud call of a command has a time-out.
FairSpec == Spec /\ \A t \in Threads : WF_vars(Step(t))

----------------------------------------------------------------------------

\* The type invariant.
TypeOK ==
    /\ live \in Maps
    /\ dir \in Dirs
    /\ dirId \in Ids \cup {NoId}
    /\ view \in Maps \cup {NoMap}
    /\ comb \in [CurrIds -> Maps \cup {NoMap}]
    /\ tarball \in Archives
    /\ cloud \in [Ids -> CloudMaps]
    /\ th \in [Threads -> Locals]
    /\ started \in 0..MaxCommands
    /\ moved \in 0..MaxRobot
    /\ quiet \in [Threads -> BOOLEAN]
    /\ want \in [Threads -> Maps]
    /\ report \in [Threads -> Outcomes]

Saves == {"save", "saveEvent"}

\* A map the phone was told is saved is never left as the placeholder that
\* obtained its id: the second upload did reach the cloud, and no later command
\* of either thread puts the placeholder back.
ReportedIsReal ==
    \A t \in Threads :
        report[t] = "ok" /\ th[t].cmd \in Saves /\ th[t].pc = "idle"
        => cloud[th[t].id].data.kind \notin {"none", "stub"}

\* An archive uploaded while nothing failed and nobody interfered carries its
\* own id: a robot that installs it and later updates its map updates this map
\* and no other.
SelfNamed ==
    \A i \in Ids : cloud[i].quiet
        => cloud[i].data.kind = "whole" /\ cloud[i].data.id = i

\* A save that is answered with 0x01, undisturbed and without a fault, has put
\* into the cloud the very map the robot saved, as picture and as files.
SaveFaithful ==
    \A t \in Threads :
        th[t].pc = "answer" /\ th[t].cmd \in Saves /\ th[t].ret = 0 /\ quiet[t]
        => /\ Holds(cloud[th[t].id].data.files, want[t])
           /\ cloud[th[t].id].bin = want[t]
           /\ dirId = th[t].id

\* A use that is answered with 0x01 installed a whole archive; undisturbed, all
\* its files and its id are in the robot's directory when the answer goes out,
\* whatever the directory held before.
UseFaithful ==
    \A t \in Threads :
        th[t].pc = "answer" /\ th[t].cmd = "use" /\ th[t].ret = 0
        => /\ th[t].got.kind = "whole"
           /\ quiet[t] =>
                /\ \A f \in Files : th[t].got.files[f] \in {NoMap, dir[f]}
                /\ th[t].got.id \in {NoId, dirId}

\* Once the robot has saved, and from the start of a delete or use command, the
\* phone is answered; an event never holds the LCM thread for ever.
PhoneAnswered ==
    /\ th["sdk"].pc \in {"view", "delete", "download"}
          ~> th["sdk"].pc = "answer"
    /\ th["lcm"].pc # "idle" ~> th["lcm"].pc = "idle"

\* 0x01 in the answer to a save is documented as "saved", with 0x02 for a full
\* local disk: a map reported saved is a whole archive.
ReportedSaveIsWhole ==
    \A t \in Threads :
        th[t].pc = "answer" /\ th[t].cmd \in Saves /\ th[t].ret = 0
        => cloud[th[t].id].data.kind = "whole"

=============================================================================
