---------------------------- MODULE MapSyncProofs ----------------------------
(***************************************************************************)
(* Proofs about MapSync. A thread that is quiet is alone, so what it has   *)
(* put into the shared files is still there when it uses it; and the       *)
(* cloud never goes back from an archive to the placeholder, whoever       *)
(* uploads.                                                                *)
(***************************************************************************)
EXTENDS MapSync, TLAPS

\* Where a command can be, and when it has an id of the cloud.
Program(t) ==
    /\ th[t].pc \in {"robot", "upload", "writeId", "connect"} => th[t].cmd \in Saves
    /\ th[t].pc \in {"view", "combine", "tar", "send", "return"}
          => th[t].cmd \in Saves \cup {"updateEvent"}
    /\ th[t].pc = "delete" => th[t].cmd = "delete"
    /\ th[t].pc \in {"download", "install", "change"} => th[t].cmd = "use"
    /\ th[t].pc \in {"writeId", "tar", "send", "delete", "download"} => th[t].id \in Ids
    /\ th[t].pc \in {"view", "combine"} /\ th[t].cmd = "updateEvent" => th[t].id \in Ids
    /\ th[t].pc = "connect" => th[t].ret = 0
    /\ th[t].pc # "idle" => report[t] = "none"

\* A map of the cloud with an archive that is not the placeholder.
IsReal(m) == m.state # "unused" /\ m.data.kind \notin {"none", "stub"}

\* The upload of a save has succeeded.
Uploaded(t) ==
    /\ th[t].cmd \in Saves
    /\ \/ th[t].pc \in {"return", "connect", "answer"} /\ th[t].ret = 0
       \/ th[t].pc = "idle" /\ report[t] = "ok"

Real == \A t \in Threads : Uploaded(t) => th[t].id \in Ids /\ IsReal(cloud[th[t].id])

\* A quiet thread under way is the only one under way.
Alone ==
    \A t, u \in Threads :
        quiet[t] /\ th[t].pc # "idle" /\ u # t => th[u].pc = "idle"

\* What a quiet upload has put where it will look for it.
Carried(t) ==
    /\ th[t].pc \in {"view", "combine", "upload", "writeId", "tar"} /\ th[t].cmd \in Saves
          => Holds(dir, want[t])
    /\ th[t].pc \in {"view", "combine"} /\ th[t].cmd \in Saves => want[t] = live
    /\ th[t].pc = "combine" /\ th[t].cmd \in Saves => view = want[t]
    /\ th[t].pc \in {"upload", "writeId", "tar", "send"} /\ th[t].cmd \in Saves
          => comb[th[t].curr] = want[t]
    /\ th[t].pc \in {"view", "combine"} /\ th[t].cmd = "updateEvent" => dirId = th[t].id
    /\ th[t].pc \in {"tar", "send"} => dirId = th[t].id
    /\ th[t].pc = "send" =>
          /\ tarball.kind = "whole" /\ tarball.id = th[t].id
          /\ th[t].cmd \in Saves => Holds(tarball.files, want[t])
    /\ th[t].pc \in {"return", "connect", "answer"} /\ th[t].ret = 0 /\ th[t].cmd \in Saves
          => /\ Holds(cloud[th[t].id].data.files, want[t])
             /\ cloud[th[t].id].bin = want[t]
             /\ dirId = th[t].id
    /\ th[t].cmd = "use" /\ (th[t].pc = "change" \/ (th[t].pc = "answer" /\ th[t].ret = 0))
          => /\ \A f \in Files : th[t].got.files[f] \in {NoMap, dir[f]}
             /\ th[t].got.id \in {NoId, dirId}

\* Only a whole archive is put to use.
Installed(t) ==
    th[t].cmd = "use" /\ (th[t].pc = "change" \/ (th[t].pc = "answer" /\ th[t].ret = 0))
    => th[t].got.kind = "whole"

Control == \A t \in Threads : Program(t)
Carry == \A t \in Threads : quiet[t] => Carried(t)
Sound == \A t \in Threads : Installed(t)

\* The archive packed in /tmp is never the placeholder, which has its own name.
Packed == tarball.kind # "stub"

----------------------------------------------------------------------------
(* What a step does to the threads.                                         *)

\* The threads other than t stay where they are.
Others(t) == \A u \in Threads \ {t} : th'[u] = th[u]

\* Thread t goes to p; its locals stay.
Went(t, p) ==
    /\ th'[t].pc = p /\ th'[t].cmd = th[t].cmd /\ th'[t].curr = th[t].curr
    /\ th'[t].id = th[t].id /\ th'[t].got = th[t].got

LEMMA GotoFacts ==
  ASSUME th \in [Threads -> Locals], NEW t \in Threads, NEW p \in Pcs, Goto(t, p)
  PROVE  /\ th' \in [Threads -> Locals] /\ Others(t)
         /\ Went(t, p) /\ th'[t].ret = th[t].ret
<1> USE DEF Goto, Others, Went
<1>1. th[t] \in Locals
  OBVIOUS
<1>2. [th[t] EXCEPT !.pc = p] \in Locals
  BY <1>1 DEF Locals
<1>3. QED
  BY <1>1, <1>2 DEF Locals

LEMMA ReturnsFacts ==
  ASSUME th \in [Threads -> Locals], NEW t \in Threads, NEW r \in {0, 1}, Returns(t, r)
  PROVE  /\ th' \in [Threads -> Locals] /\ Others(t)
         /\ Went(t, "return") /\ th'[t].ret = r
<1> USE DEF Returns, Others, Went
<1>1. th[t] \in Locals
  OBVIOUS
<1>2. [th[t] EXCEPT !.pc = "return", !.ret = r] \in Locals
  BY <1>1 DEF Locals, Pcs
<1>3. QED
  BY <1>1, <1>2 DEF Locals

LEMMA EndsFacts ==
  ASSUME th \in [Threads -> Locals], NEW t \in Threads, NEW r \in {0, 1}, Ends(t, r)
  PROVE  /\ th' \in [Threads -> Locals] /\ Others(t)
         /\ Went(t, "answer") /\ th'[t].ret = r
<1> USE DEF Ends, Others, Went
<1>1. th[t] \in Locals
  OBVIOUS
<1>2. [th[t] EXCEPT !.pc = "answer", !.ret = r] \in Locals
  BY <1>1 DEF Locals, Pcs
<1>3. QED
  BY <1>1, <1>2 DEF Locals

\* A directory written by the robot or from an archive is a directory.
LEMMA DirsClosed ==
  ASSUME NEW d \in Dirs
  PROVE  /\ \A m \in Maps : WriteMap(d, m) \in Dirs
         /\ \A a \in Archives, S \in SUBSET Files : Overwrite(d, a, S) \in Dirs
BY DEF Dirs, WriteMap, Overwrite, Archives

LEMMA EmptyArchives ==
  /\ EmptyDir \in Dirs /\ NoArchive \in Archives /\ Stub \in Archives
  /\ NoArchive.kind = "none" /\ Stub.kind = "stub"
<1>1. EmptyDir \in Dirs
  BY DEF EmptyDir, Dirs
<1>2. QED
  BY <1>1 DEF NoArchive, Stub, Archives

----------------------------------------------------------------------------
(* Types.                                                                   *)

\* The parts of the type invariant one by one.
FilesTyped ==
    /\ live \in Maps /\ dir \in Dirs /\ dirId \in Ids \cup {NoId}
    /\ view \in Maps \cup {NoMap} /\ comb \in [CurrIds -> Maps \cup {NoMap}]
    /\ tarball \in Archives
CloudTyped == cloud \in [Ids -> CloudMaps]
ThreadsTyped == th \in [Threads -> Locals]
HistoryTyped ==
    /\ quiet \in [Threads -> BOOLEAN] /\ want \in [Threads -> Maps]
    /\ report \in [Threads -> Outcomes]
BoundsTyped == started \in 0..MaxCommands /\ moved \in 0..MaxRobot

LEMMA TypeParts ==
  TypeOK <=> FilesTyped /\ CloudTyped /\ ThreadsTyped /\ HistoryTyped /\ BoundsTyped
BY DEF TypeOK, FilesTyped, CloudTyped, ThreadsTyped, HistoryTyped, BoundsTyped

\* A thread's locals.
LEMMA LocalsTyped ==
  ASSUME ThreadsTyped, NEW t \in Threads
  PROVE  /\ th[t].pc \in Pcs /\ th[t].cmd \in Cmds /\ th[t].curr \in CurrIds
         /\ th[t].id \in Ids \cup {NoId} /\ th[t].ret \in {0, 1} /\ th[t].got \in Archives
BY DEF ThreadsTyped, Locals

\* What every step of a command or event does to the threads and to the history.
LEMMA StepFrame ==
  ASSUME TypeOK, Control, NEW t \in Threads, Step(t)
  PROVE  /\ ThreadsTyped' /\ Others(t) /\ HistoryTyped' /\ BoundsTyped'
         /\ th[t].pc # "idle" /\ th'[t].cmd = th[t].cmd /\ th'[t].curr = th[t].curr
         /\ \A u \in Threads : quiet'[u] => quiet[u]
         /\ \A u \in Threads \ {t} : want'[u] = want[u] /\ report'[u] = report[u]
<1> DEFINE Framed ==
         /\ ThreadsTyped' /\ Others(t)
         /\ th[t].pc # "idle" /\ th'[t].cmd = th[t].cmd /\ th'[t].curr = th[t].curr
           Kept == quiet' = quiet /\ want' = want /\ report' = report
           Bounds == started' = started /\ moved' = moved
<1>0. FilesTyped /\ CloudTyped /\ ThreadsTyped /\ HistoryTyped /\ BoundsTyped
  BY TypeParts
<1>l. /\ th[t] \in Locals
      /\ th[t].pc \in Pcs /\ th[t].cmd \in Cmds /\ th[t].curr \in CurrIds
      /\ th[t].id \in Ids \cup {NoId} /\ th[t].ret \in {0, 1} /\ th[t].got \in Archives
  BY <1>0, LocalsTyped DEF ThreadsTyped
<1>g. ASSUME NEW p \in Pcs, Goto(t, p), th[t].pc # "idle" PROVE Framed
  BY <1>0, <1>g, GotoFacts DEF ThreadsTyped, Went
<1>r. ASSUME NEW r \in {0, 1}, Returns(t, r), th[t].pc # "idle" PROVE Framed
  BY <1>0, <1>r, ReturnsFacts DEF ThreadsTyped, Went
<1>e. ASSUME NEW r \in {0, 1}, Ends(t, r), th[t].pc # "idle" PROVE Framed
  BY <1>0, <1>e, EndsFacts DEF ThreadsTyped, Went
<1>f. ASSUME Fault(t) PROVE /\ quiet' \in [Threads -> BOOLEAN]
                            /\ \A u \in Threads : quiet'[u] => quiet[u]
  BY <1>0, <1>f DEF Fault, HistoryTyped
<1>p. {"idle", "view", "combine", "tar", "upload", "send", "connect", "answer", "change"}
         \subseteq Pcs
  BY DEF Pcs
<1> DEFINE Goal == Framed /\ HistoryTyped' /\ BoundsTyped'
                   /\ (\A u \in Threads : quiet'[u] => quiet[u])
                   /\ \A u \in Threads \ {t} : want'[u] = want[u] /\ report'[u] = report[u]
<1>k. ASSUME Framed, Kept, Bounds PROVE Goal
  BY <1>0, <1>k DEF HistoryTyped, BoundsTyped
<1> SUFFICES Goal
  OBVIOUS
<1> HIDE DEF Framed
<1>1. CASE RobotSaved(t)
  <2>1. Framed
    BY <1>1, <1>g, <1>p DEF RobotSaved
  <2>2. live \in Maps /\ want \in [Threads -> Maps]
    BY <1>0 DEF FilesTyped, HistoryTyped
  <2>3. /\ want' = [want EXCEPT ![t] = live]
        /\ quiet' = quiet /\ report' = report /\ Bounds
    BY <1>1 DEF RobotSaved
  <2>4. QED
    BY <1>0, <2>1, <2>2, <2>3 DEF HistoryTyped, BoundsTyped
<1>2. CASE RobotRefuses(t)
  <2>1. Framed
    BY <1>2, <1>g, <1>e, <1>p DEF RobotRefuses
  <2>2. QED
    BY <1>2, <1>k, <2>1 DEF RobotRefuses
<1>3. CASE GetMap(t)
  <2>1. Framed
    BY <1>3, <1>g, <1>p DEF GetMap
  <2>2. want' = want /\ report' = report /\ Bounds /\ (quiet' = quiet \/ Fault(t))
    BY <1>3 DEF GetMap
  <2>3. QED
    BY <1>0, <1>f, <2>1, <2>2 DEF HistoryTyped, BoundsTyped
<1>4. CASE Combine(t)
  <2>1. Framed
    BY <1>4, <1>g, <1>p DEF Combine
  <2>2. QED
    BY <1>4, <1>k, <2>1 DEF Combine
<1>5. CASE CombineFails(t)
  <2>1. Framed
    BY <1>5, <1>r DEF CombineFails
  <2>2. QED
    BY <1>5, <1>k, <2>1 DEF CombineFails
<1>6. ASSUME NEW i \in Ids, Upload(t, i) PROVE Goal
  <2>1. /\ th' = [th EXCEPT ![t].pc = "writeId", ![t].id = i] /\ th[t].pc # "idle"
    BY <1>6 DEF Upload, CanUpload
  <2>2. [th[t] EXCEPT !.pc = "writeId", !.id = i] \in Locals
    BY <1>l DEF Locals, Pcs
  <2>3. Framed
    BY <1>0, <1>l, <2>1, <2>2 DEF Framed, ThreadsTyped, Others, Locals
  <2>4. QED
    BY <1>6, <1>k, <2>3 DEF Upload
<1>7. CASE UploadFails(t)
  <2>1. Framed
    BY <1>7, <1>r DEF UploadFails
  <2>2. QED
    BY <1>7, <1>k, <2>1 DEF UploadFails
<1>8. CASE WriteId(t)
  <2>1. Framed
    BY <1>8, <1>g, <1>p DEF WriteId
  <2>2. want' = want /\ report' = report /\ Bounds /\ (quiet' = quiet \/ Fault(t))
    BY <1>8 DEF WriteId
  <2>3. QED
    BY <1>0, <1>f, <2>1, <2>2 DEF HistoryTyped, BoundsTyped
<1>9. CASE Tar(t)
  <2>1. Framed
    BY <1>9, <1>g, <1>p DEF Tar
  <2>2. want' = want /\ report' = report /\ Bounds /\ (quiet' = quiet \/ Fault(t))
    BY <1>9 DEF Tar
  <2>3. QED
    BY <1>0, <1>f, <2>1, <2>2 DEF HistoryTyped, BoundsTyped
<1>10. CASE UpdateFiles(t)
  <2>1. Framed
    BY <1>10, <1>r DEF UpdateFiles
  <2>2. QED
    BY <1>10, <1>k, <2>1 DEF UpdateFiles
<1>11. CASE UploadReturns(t)
  <2>1. \E p \in {"answer", "connect", "idle"} : Goto(t, p)
    BY <1>11 DEF UploadReturns
  <2>2. Framed
    BY <1>11, <1>g, <1>p, <2>1 DEF UploadReturns
  <2>3. QED
    BY <1>11, <1>k, <2>2 DEF UploadReturns
<1>12. CASE Connect(t)
  <2>1. Framed
    BY <1>12, <1>e DEF Connect
  <2>2. QED
    BY <1>12, <1>k, <2>1 DEF Connect
<1>13. CASE Delete(t)
  <2>1. Framed
    BY <1>13, <1>e DEF Delete
  <2>2. QED
    BY <1>13, <1>k, <2>1 DEF Delete
<1>14. CASE Download(t)
  <2>1. CASE Ends(t, 1)
    <3>1. Framed
      BY <1>14, <1>e, <2>1 DEF Download
    <3>2. QED
      BY <1>14, <1>k, <3>1 DEF Download
  <2> DEFINE a == IF cloud[th[t].id].state = "stored" THEN cloud[th[t].id].data ELSE Stub
  <2>2. CASE th' = [th EXCEPT ![t].pc = "install", ![t].got = a]
    <3>1. a \in Archives
      <4>1. th[t].id \in Ids
        BY <1>14 DEF Download, Control, Program
      <4>2. cloud[th[t].id].data \in Archives
        BY <1>0, <4>1 DEF CloudTyped, CloudMaps
      <4>3. QED
        BY <4>2, EmptyArchives
    <3> HIDE DEF a
    <3>2. [th[t] EXCEPT !.pc = "install", !.got = a] \in Locals
      BY <1>l, <3>1 DEF Locals, Pcs
    <3>3. Framed
      BY <1>0, <1>l, <1>14, <2>2, <3>2 DEF Framed, ThreadsTyped, Others, Locals, Download
    <3>4. QED
      BY <1>14, <1>k, <3>3 DEF Download
  <2>3. QED
    BY <1>14, <2>1, <2>2 DEF Download
<1>15. CASE Install(t)
  <2>1. Framed
    BY <1>15, <1>g, <1>p DEF Install
  <2>2. QED
    BY <1>15, <1>k, <2>1 DEF Install
<1>16. CASE InstallFails(t)
  <2>1. Framed
    BY <1>16, <1>e DEF InstallFails
  <2>2. QED
    BY <1>16, <1>k, <2>1 DEF InstallFails
<1>17. CASE Change(t)
  <2>1. Framed
    BY <1>17, <1>e DEF Change
  <2>2. QED
    BY <1>17, <1>k, <2>1 DEF Change
<1>18. CASE TuyaReportMapSaveResult(t)
  <2>1. /\ th' = [th EXCEPT ![t].pc = "idle", ![t].got = NoArchive]
        /\ th[t].pc # "idle" /\ quiet' = quiet /\ want' = want /\ Bounds
        /\ report' = [report EXCEPT ![t] = IF th[t].ret = 0 THEN "ok" ELSE "fail"]
    BY <1>18 DEF TuyaReportMapSaveResult
  <2>2. [th[t] EXCEPT !.pc = "idle", !.got = NoArchive] \in Locals
    BY <1>l, EmptyArchives DEF Locals, Pcs
  <2>3. Framed
    BY <1>0, <1>l, <2>1, <2>2 DEF Framed, ThreadsTyped, Others, Locals
  <2>4. QED
    BY <1>0, <2>1, <2>3 DEF HistoryTyped, BoundsTyped, Outcomes
<1>19. QED
  BY <1>1, <1>2, <1>3, <1>4, <1>5, <1>6, <1>7, <1>8, <1>9, <1>10, <1>11, <1>12,
     <1>13, <1>14, <1>15, <1>16, <1>17, <1>18 DEF Step

\* A command or event begins.
LEMMA StartFacts ==
  ASSUME TypeOK, NEW t \in Threads, NEW p \in Pcs, NEW c \in Cmds, NEW cur \in CurrIds,
         NEW i \in Ids \cup {NoId}, Start(t, p, c, cur, i)
  PROVE  /\ TypeOK' /\ Others(t) /\ UNCHANGED shared /\ UNCHANGED want
         /\ th[t].pc = "idle" /\ th'[t].pc = p /\ th'[t].cmd = c /\ th'[t].curr = cur
         /\ th'[t].id = i
         /\ \A u \in Threads \ {t} :
               /\ quiet'[t] => th[u].pc = "idle"
               /\ quiet'[u] => quiet[u] /\ th[u].pc = "idle"
               /\ report'[u] = report[u]
         /\ report'[t] = "none"
<1>0. FilesTyped /\ CloudTyped /\ ThreadsTyped /\ HistoryTyped /\ BoundsTyped
  BY TypeParts
<1>1. /\ th[t].pc = "idle" /\ started < MaxCommands /\ started' = started + 1
      /\ th' = [th EXCEPT ![t].pc = p, ![t].cmd = c, ![t].curr = cur,
                          ![t].id = i, ![t].ret = 0]
      /\ report' = [report EXCEPT ![t] = "none"]
      /\ UNCHANGED <<shared, moved, want>>
  BY DEF Start
<1>2. [th[t] EXCEPT !.pc = p, !.cmd = c, !.curr = cur, !.id = i, !.ret = 0] \in Locals
  BY <1>0 DEF ThreadsTyped, Locals
<1>3. /\ ThreadsTyped' /\ Others(t)
      /\ th'[t].pc = p /\ th'[t].cmd = c /\ th'[t].curr = cur /\ th'[t].id = i
  BY <1>0, <1>1, <1>2 DEF ThreadsTyped, Others, Locals
<1>4. /\ report' \in [Threads -> Outcomes] /\ report'[t] = "none"
      /\ \A u \in Threads \ {t} : report'[u] = report[u]
  BY <1>0, <1>1 DEF HistoryTyped, Outcomes
<1>5. /\ quiet' \in [Threads -> BOOLEAN]
      /\ \A u \in Threads \ {t} : /\ quiet'[t] => th[u].pc = "idle"
                                  /\ quiet'[u] => quiet[u] /\ th[u].pc = "idle"
  <2> DEFINE alone == \A u \in Threads \ {t} : th[u].pc = "idle"
  <2>1. quiet' = IF alone THEN [quiet EXCEPT ![t] = TRUE] ELSE [u \in Threads |-> FALSE]
    BY DEF Start
  <2>2. CASE alone
    <3>1. quiet' = [quiet EXCEPT ![t] = TRUE]
      BY <2>1, <2>2
    <3>2. QED
      BY <1>0, <2>2, <3>1 DEF HistoryTyped
  <2>3. CASE ~alone
    <3>1. quiet' = [u \in Threads |-> FALSE]
      BY <2>1, <2>3
    <3>2. QED
      BY <3>1
  <2>4. QED
    BY <2>2, <2>3
<1>6. BoundsTyped'
  BY <1>0, <1>1, MapAssumption DEF BoundsTyped
<1>7. FilesTyped' /\ CloudTyped' /\ HistoryTyped'
  BY <1>0, <1>1, <1>4, <1>5 DEF FilesTyped, CloudTyped, HistoryTyped, shared
<1>8. TypeOK'
  BY <1>3, <1>6, <1>7, TypeParts DEF TypeOK, FilesTyped, CloudTyped, ThreadsTyped,
     HistoryTyped, BoundsTyped
<1>9. QED
  BY <1>1, <1>3, <1>4, <1>5, <1>8

\* The five requests.
LEMMA RequestCases ==
  ASSUME TypeOK, Requests
  PROVE  \/ Start("sdk", "robot", "save", 0, NoId)
         \/ \E i \in Ids : /\ cloud[i].state # "unused"
                           /\ \/ Start("sdk", "delete", "delete", 0, i)
                              \/ Start("sdk", "download", "use", 0, i)
         \/ \E c \in CurrIds : \/ Start("lcm", "robot", "saveEvent", c, NoId)
                               \/ /\ dirId \in Ids
                                  /\ Start("lcm", "view", "updateEvent", c, dirId)
BY DEF TypeOK, Requests, SaveCommand, DeleteCommand, UseCommand, OnSaveMap, OnUpdateMap, Listed

\* A command or event begins in a state its program allows.
LEMMA Begins ==
  ASSUME TypeOK, Requests
  PROVE  \E t \in Threads, p \in {"robot", "delete", "download", "view"}, c \in Cmds,
            cur \in CurrIds, i \in Ids \cup {NoId} :
            /\ Start(t, p, c, cur, i)
            /\ p = "robot" => c \in Saves
            /\ p = "view" => c = "updateEvent" /\ dirId = i
            /\ p = "delete" => c = "delete"
            /\ p = "download" => c = "use"
            /\ p # "robot" => i \in Ids
<1>0. 0 \in CurrIds /\ {"sdk", "lcm"} = Threads
      /\ {"save", "delete", "use", "saveEvent", "updateEvent"} = Cmds
      /\ Saves = {"save", "saveEvent"}
  BY MapAssumption DEF Threads, Cmds, Saves
<1>1. CASE Start("sdk", "robot", "save", 0, NoId)
  BY <1>0, <1>1
<1>2. CASE \E i \in Ids : Start("sdk", "delete", "delete", 0, i)
  BY <1>0, <1>2
<1>3. CASE \E i \in Ids : Start("sdk", "download", "use", 0, i)
  BY <1>0, <1>3
<1>4. CASE \E c \in CurrIds : Start("lcm", "robot", "saveEvent", c, NoId)
  BY <1>0, <1>4
<1>5. CASE \E c \in CurrIds : dirId \in Ids /\ Start("lcm", "view", "updateEvent", c, dirId)
  BY <1>0, <1>5
<1>6. QED
  BY <1>1, <1>2, <1>3, <1>4, <1>5, RequestCases

\* What the robot and the map subscription do.
LEMMA RobotFacts ==
  ASSUME TypeOK, Robot
  PROVE  /\ TypeOK' /\ UNCHANGED <<dirId, comb, tarball, cloud, th, want, report>>
         /\ \A t \in Threads :
               quiet'[t] =>
                  /\ quiet[t]
                  /\ th[t].pc # "idle" =>
                        /\ live' = live /\ dir' = dir
                        /\ view' \in {view, live}
<1>d. ASSUME Disturb
      PROVE  /\ quiet' \in [Threads -> BOOLEAN]
             /\ \A t \in Threads : quiet'[t] => quiet[t] /\ th[t].pc = "idle"
  BY <1>d DEF Disturb, TypeOK
<1>b. moved < MaxRobot /\ moved' = moved + 1 => moved' \in 0..MaxRobot
  BY MapAssumption DEF TypeOK
<1>1. ASSUME NEW m \in Maps, RobotMoves(m)
      PROVE  /\ TypeOK' /\ UNCHANGED <<dirId, comb, tarball, cloud, th, want, report>>
             /\ \A t \in Threads : quiet'[t] => quiet[t] /\ th[t].pc = "idle"
  BY <1>1, <1>b, <1>d DEF RobotMoves, TypeOK
<1>2. CASE RobotSaves
  <2>1. dir' \in Dirs
    BY <1>2, DirsClosed DEF RobotSaves, TypeOK
  <2>2. QED
    BY <1>2, <1>b, <1>d, <2>1 DEF RobotSaves, TypeOK
<1>3. CASE OnMap
  BY <1>3 DEF OnMap, TypeOK
<1>4. QED
  BY <1>1, <1>2, <1>3 DEF Robot

----------------------------------------------------------------------------
(* The cloud.                                                               *)

\* The three calls that change the cloud.
LEMMA ReplaceFacts ==
  ASSUME TypeOK, Packed, NEW t \in Threads, th[t].id \in Ids, Sendable(t), Replace(t)
  PROVE  /\ CloudTyped'
         /\ \A i \in Ids \ {th[t].id} : cloud'[i] = cloud[i]
         /\ cloud'[th[t].id].bin = comb[th[t].curr]
         /\ cloud'[th[t].id].data = tarball
         /\ cloud'[th[t].id].quiet = quiet[t]
         /\ IsReal(cloud'[th[t].id])
<1> DEFINE m == [state |-> "stored", bin |-> comb[th[t].curr], data |-> tarball,
                 quiet |-> quiet[t]]
<1>1. cloud \in [Ids -> CloudMaps] /\ cloud' = [cloud EXCEPT ![th[t].id] = m]
  BY DEF TypeOK, Replace
<1>2. th[t].curr \in CurrIds
  BY LocalsTyped, TypeParts
<1>3. m \in CloudMaps
  BY <1>2 DEF TypeOK, CloudMaps
<1>4. /\ m.bin = comb[th[t].curr] /\ m.data = tarball /\ m.quiet = quiet[t]
      /\ m.state = "stored" /\ tarball.kind \notin {"none", "stub"}
  BY DEF Sendable, Packed
<1> HIDE DEF m
<1>5. CloudTyped' /\ cloud'[th[t].id] = m /\ \A i \in Ids \ {th[t].id} : cloud'[i] = cloud[i]
  BY <1>1, <1>3 DEF CloudTyped
<1>6. QED
  BY <1>4, <1>5 DEF IsReal

LEMMA DeletedFacts ==
  ASSUME TypeOK, NEW t \in Threads, th[t].id \in Ids, Deleted(t)
  PROVE  /\ CloudTyped'
         /\ \A i \in Ids : /\ cloud'[i].data = cloud[i].data
                           /\ cloud'[i].quiet = cloud[i].quiet
                           /\ IsReal(cloud[i]) => IsReal(cloud'[i])
<1> DEFINE j == th[t].id
           m == [cloud[j] EXCEPT !.state = "deleted"]
<1>1. cloud \in [Ids -> CloudMaps] /\ cloud' = [cloud EXCEPT ![j] = m]
  BY DEF TypeOK, Deleted
<1>2. /\ m \in CloudMaps /\ m.data = cloud[j].data /\ m.quiet = cloud[j].quiet
      /\ m.state = "deleted"
  BY <1>1 DEF CloudMaps
<1> HIDE DEF m
<1>3. CloudTyped' /\ cloud'[j] = m /\ \A i \in Ids \ {j} : cloud'[i] = cloud[i]
  BY <1>1, <1>2 DEF CloudTyped
<1>4. QED
  BY <1>2, <1>3 DEF IsReal

LEMMA UploadFacts ==
  ASSUME TypeOK, NEW t \in Threads, NEW i \in Ids, Upload(t, i)
  PROVE  /\ CloudTyped' /\ cloud[i].state = "unused" /\ ~cloud'[i].quiet
         /\ \A j \in Ids \ {i} : cloud'[j] = cloud[j]
<1>1. /\ cloud \in [Ids -> CloudMaps] /\ cloud' = [cloud EXCEPT ![i] = FirstUpload(t)]
      /\ cloud[i].state = "unused"
  BY DEF TypeOK, Upload, CanUpload
<1>2. th[t].curr \in CurrIds
  BY LocalsTyped, TypeParts
<1>3. comb[th[t].curr] \in Maps \cup {NoMap}
  BY <1>2 DEF TypeOK
<1>4. FirstUpload(t) \in CloudMaps /\ ~FirstUpload(t).quiet
  BY <1>3, EmptyArchives DEF FirstUpload, CloudMaps
<1> HIDE DEF FirstUpload
<1>5. QED
  BY <1>1, <1>4 DEF CloudTyped

\* No step of a command or event takes a real archive back, and none spoils the
\* types of the files.
LEMMA StorageStep ==
  ASSUME TypeOK, Control, Packed, NEW t \in Threads, Step(t)
  PROVE  /\ FilesTyped' /\ CloudTyped' /\ Packed'
         /\ \A i \in Ids : IsReal(cloud[i]) => IsReal(cloud'[i])
<1> DEFINE Goal == /\ FilesTyped' /\ CloudTyped' /\ Packed'
                   /\ \A i \in Ids : IsReal(cloud[i]) => IsReal(cloud'[i])
<1>0. FilesTyped /\ CloudTyped /\ ThreadsTyped /\ NoMap \in Maps \cup {NoMap}
  BY TypeParts
<1>l. /\ th[t].curr \in CurrIds /\ th[t].id \in Ids \cup {NoId} /\ th[t].got \in Archives
  BY <1>0, LocalsTyped
<1>s. ASSUME UNCHANGED shared PROVE Goal
  BY <1>0, <1>s DEF shared, FilesTyped, CloudTyped, Packed
<1>c. UNCHANGED cloud => CloudTyped' /\ \A i \in Ids : IsReal(cloud[i]) => IsReal(cloud'[i])
  BY <1>0 DEF CloudTyped
<1>p. UNCHANGED tarball => Packed'
  BY DEF Packed
<1>w. WriteMap(dir, live) \in Dirs
  BY <1>0, DirsClosed DEF FilesTyped
<1>1. CASE RobotSaved(t)
  BY <1>1, <1>0, <1>c, <1>p, <1>w DEF RobotSaved, FilesTyped
<1>2. CASE RobotRefuses(t)
  BY <1>2, <1>0, <1>c, <1>p, <1>w DEF RobotRefuses, FilesTyped
<1>3. CASE GetMap(t)
  BY <1>3, <1>0, <1>c, <1>p DEF GetMap, FilesTyped
<1>4. CASE Combine(t)
  BY <1>4, <1>0, <1>c, <1>p, <1>l DEF Combine, FilesTyped
<1>5. CASE CombineFails(t) \/ UploadReturns(t) \/ Connect(t) \/ Download(t)
           \/ TuyaReportMapSaveResult(t)
  BY <1>5, <1>s DEF CombineFails, UploadReturns, Connect, Download, TuyaReportMapSaveResult
<1>6. ASSUME NEW i \in Ids, Upload(t, i) PROVE Goal
  <2>1. FilesTyped' /\ Packed'
    BY <1>0, <1>6, <1>p DEF Upload, FilesTyped
  <2>2. QED
    BY <1>6, <2>1, UploadFacts DEF IsReal
<1>7. CASE UploadFails(t)
  BY <1>7, <1>0, <1>c, <1>p, <1>l DEF UploadFails, FilesTyped
<1>8. CASE WriteId(t)
  BY <1>8, <1>0, <1>c, <1>p, <1>l DEF WriteId, FilesTyped
<1>9. CASE Tar(t)
  <2>1. /\ [kind |-> "whole", files |-> dir, id |-> dirId] \in Archives
        /\ [kind |-> "torn", files |-> dir, id |-> dirId] \in Archives
    BY <1>0 DEF FilesTyped, Archives
  <2>2. tarball' \in Archives /\ tarball'.kind # "stub"
    BY <1>9, <2>1, EmptyArchives DEF Tar
  <2>3. QED
    BY <1>9, <1>0, <1>c, <2>2 DEF Tar, FilesTyped, Packed
<1>10. CASE UpdateFiles(t)
  <2>1. th[t].id \in Ids
    BY <1>10 DEF UpdateFiles, Control, Program
  <2>2. FilesTyped' /\ Packed'
    BY <1>10, <1>0, <1>p, <1>l DEF UpdateFiles, FilesTyped
  <2>3. UNCHANGED cloud \/ (Sendable(t) /\ Replace(t))
    BY <1>10 DEF UpdateFiles
  <2>4. CloudTyped' /\ \A i \in Ids : IsReal(cloud[i]) => IsReal(cloud'[i])
    BY <1>c, <2>1, <2>3, ReplaceFacts
  <2>5. QED
    BY <2>2, <2>4
<1>11. CASE Delete(t)
  <2>1. th[t].id \in Ids
    BY <1>11 DEF Delete, Control, Program
  <2>2. FilesTyped' /\ Packed'
    BY <1>11, <1>0, <1>p DEF Delete, FilesTyped
  <2>3. UNCHANGED cloud \/ Deleted(t)
    BY <1>11 DEF Delete
  <2>4. QED
    BY <1>c, <2>1, <2>2, <2>3, DeletedFacts
<1>m. ASSUME NEW S \in SUBSET Files, NEW withId \in BOOLEAN, Move(t, S, withId)
      PROVE  dir' \in Dirs /\ dirId' \in Ids \cup {NoId}
  <2>1. dir' \in Dirs
    BY <1>0, <1>l, <1>m, DirsClosed DEF Move, FilesTyped
  <2>2. th[t].got.id \in Ids \cup {NoId}
    BY <1>l DEF Archives
  <2>3. QED
    BY <1>0, <1>m, <2>1, <2>2 DEF Move, FilesTyped
<1>12. CASE Install(t)
  <2>1. Move(t, Files, TRUE) /\ UNCHANGED <<live, view, comb, tarball, cloud>>
    BY <1>12 DEF Install
  <2>2. dir' \in Dirs /\ dirId' \in Ids \cup {NoId}
    BY <1>m, <2>1
  <2>3. QED
    BY <1>0, <1>c, <1>p, <2>1, <2>2 DEF FilesTyped
<1>13. CASE InstallFails(t)
  <2>1. /\ \E S \in SUBSET Files, withId \in BOOLEAN : Move(t, S, withId)
        /\ UNCHANGED <<live, view, comb, tarball, cloud>>
    BY <1>13 DEF InstallFails
  <2>2. dir' \in Dirs /\ dirId' \in Ids \cup {NoId}
    BY <1>m, <2>1
  <2>3. QED
    BY <1>0, <1>c, <1>p, <2>1, <2>2 DEF FilesTyped
<1>14. CASE Change(t)
  BY <1>14, <1>0, <1>c, <1>p DEF Change, FilesTyped
<1>15. QED
  BY <1>1, <1>2, <1>3, <1>4, <1>5, <1>6, <1>7, <1>8, <1>9, <1>10, <1>11, <1>12,
     <1>13, <1>14 DEF Step

----------------------------------------------------------------------------
(* Where each thread goes.                                                  *)

\* Where a step takes the thread that makes it.
Moves(t) ==
    \/ th[t].pc = "robot" /\ th'[t].pc = "view"
    \/ th[t].pc = "robot" /\ th'[t].pc = "answer" /\ th'[t].ret = 1
    \/ th[t].pc = "robot" /\ th'[t].pc = "idle"
    \/ th[t].pc = "view" /\ th'[t].pc = "combine"
    \/ th[t].pc = "combine" /\ th[t].cmd \in Saves /\ th'[t].pc = "upload"
    \/ th[t].pc = "combine" /\ th[t].cmd = "updateEvent" /\ th'[t].pc = "tar"
    \/ th[t].pc \in {"combine", "upload"} /\ th'[t].pc = "return" /\ th'[t].ret = 1
    \/ th[t].pc = "writeId" /\ th'[t].pc = "tar"
    \/ th[t].pc = "tar" /\ th'[t].pc = "send"
    \/ th[t].pc = "send" /\ th'[t].pc = "return"
    \/ th[t].pc = "return" /\ th[t].cmd = "save" /\ th'[t].pc = "answer" /\ th'[t].ret = th[t].ret
    \/ /\ th[t].pc = "return" /\ th[t].cmd = "saveEvent" /\ th[t].ret = 0
       /\ th'[t].pc = "connect" /\ th'[t].ret = 0
    \/ th[t].pc = "return" /\ th'[t].pc = "idle"
    \/ th[t].pc = "connect" /\ th'[t].pc = "answer"
    \/ th[t].pc = "delete" /\ th'[t].pc = "answer"
    \/ th[t].pc = "download" /\ th'[t].pc = "answer" /\ th'[t].ret = 1
    \/ th[t].pc = "install" /\ th'[t].pc = "change"
    \/ th[t].pc = "install" /\ th'[t].pc = "answer" /\ th'[t].ret = 1
    \/ th[t].pc = "change" /\ th'[t].pc = "answer"

\* The steps of a thread: they keep its id and its answer, except for the upload
\* that gives it an id, the download and the answer itself.
LEMMA StepMoves ==
  ASSUME TypeOK, Control, NEW t \in Threads, Step(t)
  PROVE  \/ Moves(t) /\ th'[t].id = th[t].id /\ th'[t].got = th[t].got /\ report' = report
         \/ /\ \E i \in Ids : Upload(t, i) /\ th'[t].id = i
            /\ th[t].pc = "upload" /\ th'[t].pc = "writeId" /\ report' = report
         \/ /\ Download(t) /\ th[t].pc = "download" /\ th'[t].pc = "install"
            /\ report' = report
         \/ /\ th[t].pc = "answer" /\ th'[t].pc = "idle" /\ th'[t].id = th[t].id
            /\ report'[t] = IF th[t].ret = 0 THEN "ok" ELSE "fail"
<1>0. ThreadsTyped /\ th \in [Threads -> Locals]
  BY TypeParts DEF ThreadsTyped
<1>p. {"idle", "view", "combine", "tar", "upload", "send", "connect", "answer", "change"}
         \subseteq Pcs
  BY DEF Pcs
<1>g. ASSUME NEW p \in Pcs, Goto(t, p)
      PROVE  /\ th'[t].pc = p /\ th'[t].ret = th[t].ret
             /\ th'[t].id = th[t].id /\ th'[t].got = th[t].got
  BY <1>0, <1>g, GotoFacts DEF Went
<1>r. ASSUME NEW r \in {0, 1}, Returns(t, r)
      PROVE  /\ th'[t].pc = "return" /\ th'[t].ret = r
             /\ th'[t].id = th[t].id /\ th'[t].got = th[t].got
  BY <1>0, <1>r, ReturnsFacts DEF Went
<1>e. ASSUME NEW r \in {0, 1}, Ends(t, r)
      PROVE  /\ th'[t].pc = "answer" /\ th'[t].ret = r
             /\ th'[t].id = th[t].id /\ th'[t].got = th[t].got
  BY <1>0, <1>e, EndsFacts DEF Went
<1>c. Program(t)
  BY DEF Control
<1>1. CASE RobotSaved(t)
  BY <1>1, <1>g, <1>p DEF RobotSaved, Moves
<1>2. CASE RobotRefuses(t)
  BY <1>2, <1>g, <1>e, <1>p DEF RobotRefuses, Moves
<1>3. CASE GetMap(t)
  BY <1>3, <1>g, <1>p DEF GetMap, Moves
<1>4. CASE Combine(t)
  <2>1. /\ th[t].pc = "combine" /\ th[t].cmd \in Saves \cup {"updateEvent"} /\ report' = report
        /\ Goto(t, IF th[t].cmd = "updateEvent" THEN "tar" ELSE "upload")
    BY <1>4, <1>c DEF Combine, Program
  <2>2. QED
    BY <1>g, <1>p, <2>1 DEF Moves
<1>5. CASE CombineFails(t)
  BY <1>5, <1>r DEF CombineFails, Moves
<1>6. ASSUME NEW i \in Ids, Upload(t, i)
      PROVE  /\ th'[t].id = i /\ report' = report
             /\ th[t].pc = "upload" /\ th'[t].pc = "writeId"
  BY <1>6, <1>0 DEF Upload, CanUpload, Locals
<1>7. CASE UploadFails(t)
  BY <1>7, <1>r DEF UploadFails, Moves
<1>8. CASE WriteId(t)
  BY <1>8, <1>g, <1>p DEF WriteId, Moves
<1>9. CASE Tar(t)
  BY <1>9, <1>g, <1>p DEF Tar, Moves
<1>10. CASE UpdateFiles(t)
  BY <1>10, <1>r DEF UpdateFiles, Moves
<1>11. CASE UploadReturns(t)
  <2>1. th[t].pc = "return" /\ report' = report
    BY <1>11 DEF UploadReturns
  <2>2. \/ th[t].cmd = "save" /\ Goto(t, "answer")
        \/ th[t].cmd = "saveEvent" /\ th[t].ret = 0 /\ Goto(t, "connect")
        \/ Goto(t, "idle")
    BY <1>11 DEF UploadReturns
  <2>3. QED
    BY <1>g, <1>p, <2>1, <2>2 DEF Moves
<1>12. CASE Connect(t)
  BY <1>12, <1>e DEF Connect, Moves
<1>13. CASE Delete(t)
  BY <1>13, <1>e DEF Delete, Moves
<1>14. CASE Download(t)
  <2>1. CASE Ends(t, 1)
    BY <1>14, <1>e, <2>1 DEF Download, Moves
  <2> DEFINE a == IF cloud[th[t].id].state = "stored" THEN cloud[th[t].id].data ELSE Stub
  <2>2. CASE th' = [th EXCEPT ![t].pc = "install", ![t].got = a]
    <3> HIDE DEF a
    <3>1. th'[t].pc = "install"
      BY <1>0, <2>2 DEF Locals
    <3>2. QED
      BY <1>14, <3>1 DEF Download
  <2>3. QED
    BY <1>14, <2>1, <2>2 DEF Download
<1>15. CASE Install(t)
  BY <1>15, <1>g, <1>p DEF Install, Moves
<1>16. CASE InstallFails(t)
  BY <1>16, <1>e DEF InstallFails, Moves
<1>17. CASE Change(t)
  BY <1>17, <1>e DEF Change, Moves
<1>18. CASE TuyaReportMapSaveResult(t)
  <2>1. th[t].pc = "answer" /\ th'[t].pc = "idle" /\ th'[t].id = th[t].id
    BY <1>18, <1>0 DEF TuyaReportMapSaveResult, Locals
  <2>2. report'[t] = IF th[t].ret = 0 THEN "ok" ELSE "fail"
    BY <1>18 DEF TuyaReportMapSaveResult, TypeOK
  <2>3. QED
    BY <2>1, <2>2
<1>19. QED
  BY <1>1, <1>2, <1>3, <1>4, <1>5, <1>6, <1>7, <1>8, <1>9, <1>10, <1>11, <1>12,
     <1>13, <1>14, <1>15, <1>16, <1>17, <1>18 DEF Step

\* Every step keeps the types and the threads in their programs.
LEMMA ControlStep ==
  ASSUME TypeOK, Control, Packed, [Next]_vars
  PROVE  TypeOK' /\ Control' /\ Packed'
<1>1. ASSUME NEW t \in Threads, Step(t) PROVE TypeOK' /\ Control' /\ Packed'
  <2>1. TypeOK' /\ Packed'
    BY <1>1, StepFrame, StorageStep DEF TypeOK, FilesTyped, CloudTyped, ThreadsTyped,
       HistoryTyped, BoundsTyped
  <2>2. /\ Others(t) /\ th'[t].cmd = th[t].cmd
        /\ \A u \in Threads \ {t} : report'[u] = report[u]
    BY <1>1, StepFrame
  <2>3. ASSUME NEW u \in Threads \ {t} PROVE Program(u)'
    BY <2>2 DEF Others, Control, Program
  <2>4. Program(t)'
    <3>1. Program(t)
      BY DEF Control
    <3>2. CASE Moves(t) /\ th'[t].id = th[t].id /\ report' = report
      BY <2>2, <3>1, <3>2 DEF Moves, Program, Saves
    <3>3. CASE /\ \E i \in Ids : th'[t].id = i
               /\ th[t].pc = "upload" /\ th'[t].pc = "writeId" /\ report' = report
      BY <2>2, <3>1, <3>3 DEF Program
    <3>4. CASE th[t].pc = "download" /\ th'[t].pc = "install" /\ report' = report
      BY <2>2, <3>1, <3>4 DEF Program
    <3>5. CASE th'[t].pc = "idle"
      BY <2>2, <3>1, <3>5 DEF Program
    <3>6. QED
      BY <1>1, <3>2, <3>3, <3>4, <3>5, StepMoves
  <2>5. QED
    BY <2>1, <2>3, <2>4 DEF Control
<1>2. CASE Requests
  <2>1. PICK t \in Threads, p \in {"robot", "delete", "download", "view"}, c \in Cmds,
             cur \in CurrIds, i \in Ids \cup {NoId} :
            /\ Start(t, p, c, cur, i)
            /\ p = "robot" => c \in Saves
            /\ p = "view" => c = "updateEvent" /\ dirId = i
            /\ p = "delete" => c = "delete"
            /\ p = "download" => c = "use"
            /\ p # "robot" => i \in Ids
    BY <1>2, Begins
  <2>2. p \in Pcs
    BY DEF Pcs
  <2>3. /\ TypeOK' /\ Others(t) /\ UNCHANGED shared
        /\ th'[t].pc = p /\ th'[t].cmd = c /\ th'[t].id = i /\ report'[t] = "none"
        /\ \A u \in Threads \ {t} : report'[u] = report[u]
    BY <2>1, <2>2, StartFacts
  <2>4. ASSUME NEW u \in Threads \ {t} PROVE Program(u)'
    BY <2>3 DEF Others, Control, Program
  <2>5. Program(t)'
    BY <2>1, <2>3 DEF Program
  <2>6. QED
    BY <2>3, <2>4, <2>5 DEF Control, Packed, shared
<1>3. CASE Robot
  BY <1>3, RobotFacts DEF Control, Program, Packed
<1>4. CASE UNCHANGED vars
  BY <1>4 DEF vars, TypeOK, Control, Program, Packed
<1>5. QED
  BY <1>1, <1>2, <1>3, <1>4 DEF Next

\* The initial states.
LEMMA Boots == Init => TypeOK /\ Control /\ Packed
<1>0. /\ EmptyDir \in Dirs /\ NoArchive \in Archives /\ 0 \in CurrIds
      /\ NoArchive.kind # "stub" /\ 0 \in 0..MaxCommands /\ 0 \in 0..MaxRobot
  BY EmptyArchives, MapAssumption
<1>1. ASSUME NEW m \in Maps PROVE WriteMap(EmptyDir, m) \in Dirs
  BY <1>0, DirsClosed
<1>2. ASSUME NEW old \in Earlier \cup {NoId}, NEW m \in Maps
      PROVE  StoredBefore(old, m) \in [Ids -> CloudMaps]
  <2> DEFINE Whole(i) == [kind |-> "whole", files |-> WriteMap(EmptyDir, m), id |-> i]
  <2>1. \A i \in Ids : Whole(i) \in Archives
    BY <1>1 DEF Archives
  <2> HIDE DEF Whole
  <2>2. ASSUME NEW i \in Ids
        PROVE  /\ [state |-> "stored", bin |-> m, quiet |-> TRUE, data |-> Whole(i)] \in CloudMaps
               /\ [state |-> "unused", bin |-> NoMap, quiet |-> FALSE, data |-> NoArchive]
                     \in CloudMaps
    BY <1>0, <2>1 DEF CloudMaps
  <2>3. QED
    BY <2>2 DEF StoredBefore, Whole
<1>3. ASSUME Init PROVE TypeOK
  <2>1. live \in Maps /\ dir \in Dirs
    BY <1>1, <1>3 DEF Init
  <2>2. cloud \in [Ids -> CloudMaps] /\ dirId \in Ids \cup {NoId}
    BY <1>2, <1>3, MapAssumption DEF Init
  <2>3. th \in [Threads -> Locals]
    BY <1>0, <1>3 DEF Init, Locals, Pcs, Cmds
  <2>4. QED
    BY <1>0, <1>3, <2>1, <2>2, <2>3 DEF Init, TypeOK, Outcomes
<1>4. ASSUME Init PROVE Control /\ Packed
  BY <1>0, <1>4 DEF Init, Control, Program, Packed
<1>5. QED
  BY <1>3, <1>4

\* Type correctness, for any number of maps, files, commands and steps of the
\* robot.
THEOREM TypeCorrect == Spec => []TypeOK
<1> DEFINE IInv == TypeOK /\ Control /\ Packed
<1>1. Init => IInv
  BY Boots
<1>2. IInv /\ [Next]_vars => IInv'
  BY ControlStep
<1>3. QED
  BY <1>1, <1>2, PTL DEF Spec

----------------------------------------------------------------------------
(* A map reported saved.                                                    *)

\* Every step keeps the maps that are reported saved, or about to be, real.
LEMMA RealStep ==
  ASSUME TypeOK, Control, Packed, Real, [Next]_vars PROVE Real'
<1>0. ASSUME NEW t \in Threads, Uploaded(t)
      PROVE  th[t].id \in Ids /\ IsReal(cloud[th[t].id])
  BY <1>0 DEF Real
<1>1. ASSUME NEW t \in Threads, Step(t) PROVE Real'
  <2>1. /\ Others(t) /\ th'[t].cmd = th[t].cmd
        /\ \A u \in Threads \ {t} : report'[u] = report[u]
    BY <1>1, StepFrame
  <2>2. \A i \in Ids : IsReal(cloud[i]) => IsReal(cloud'[i])
    BY <1>1, StorageStep
  <2>3. ASSUME NEW u \in Threads \ {t}, Uploaded(u)'
        PROVE  th'[u].id \in Ids /\ IsReal(cloud'[th'[u].id])
    <3>1. th'[u] = th[u] /\ Uploaded(u)
      BY <2>1, <2>3 DEF Others, Uploaded
    <3>2. QED
      BY <1>0, <2>2, <3>1
  <2>4. ASSUME Uploaded(t)'
        PROVE  th'[t].id \in Ids /\ IsReal(cloud'[th'[t].id])
    <3>0. Program(t)
      BY DEF Control
    <3>1. CASE th[t].pc = "send" /\ th'[t].pc = "return"
      <4>1. UpdateFiles(t)
        BY <1>1, <3>1 DEF Step, RobotSaved, RobotRefuses, GetMap, Combine, CombineFails,
           Upload, CanUpload, UploadFails, WriteId, Tar, UploadReturns, Connect, Delete,
           Download, Install, InstallFails, Change, TuyaReportMapSaveResult
      <4>2. th'[t].ret = 0
        BY <2>4, <3>1 DEF Uploaded
      <4>3. Sendable(t) /\ Replace(t) /\ Returns(t, 0)
        <5>1. ~Returns(t, 1)
          BY <4>2, ReturnsFacts DEF TypeOK
        <5>2. QED
          BY <4>1, <5>1 DEF UpdateFiles
      <4>4. th[t].id \in Ids /\ th'[t].id = th[t].id
        BY <3>0, <3>1, <4>3, ReturnsFacts DEF Program, Went, TypeOK
      <4>5. QED
        BY <4>3, <4>4, ReplaceFacts
    <3>2. CASE Moves(t) /\ th'[t].id = th[t].id /\ report' = report
               /\ ~(th[t].pc = "send" /\ th'[t].pc = "return")
      <4>1. Uploaded(t)
        BY <2>1, <2>4, <3>0, <3>2 DEF Moves, Uploaded, Program, Saves
      <4>2. QED
        BY <1>0, <2>2, <3>2, <4>1
    <3>3. CASE /\ th[t].pc = "answer" /\ th'[t].pc = "idle" /\ th'[t].id = th[t].id
               /\ report'[t] = IF th[t].ret = 0 THEN "ok" ELSE "fail"
      <4>1. Uploaded(t)
        BY <2>1, <2>4, <3>3 DEF Uploaded
      <4>2. QED
        BY <1>0, <2>2, <3>3, <4>1
    <3>4. CASE th'[t].pc \in {"writeId", "install"}
      BY <2>4, <3>4 DEF Uploaded
    <3>5. QED
      BY <1>1, <3>1, <3>2, <3>3, <3>4, StepMoves
  <2>5. QED
    BY <2>3, <2>4 DEF Real
<1>2. CASE Requests
  <2>1. PICK t \in Threads, p \in {"robot", "delete", "download", "view"}, c \in Cmds,
             cur \in CurrIds, i \in Ids \cup {NoId} : Start(t, p, c, cur, i)
    BY <1>2, Begins
  <2>2. p \in Pcs
    BY DEF Pcs
  <2>3. /\ Others(t) /\ UNCHANGED shared /\ th'[t].pc = p
        /\ \A u \in Threads \ {t} : report'[u] = report[u]
    BY <2>1, <2>2, StartFacts
  <2>4. \A u \in Threads : Uploaded(u)' => Uploaded(u) /\ th'[u] = th[u]
    BY <2>3 DEF Others, Uploaded
  <2>5. QED
    BY <1>0, <2>3, <2>4 DEF Real, shared
<1>3. CASE Robot
  BY <1>3, RobotFacts DEF Real, Uploaded
<1>4. CASE UNCHANGED vars
  BY <1>4 DEF vars, Real, Uploaded
<1>5. QED
  BY <1>1, <1>2, <1>3, <1>4 DEF Next

\* A map the phone was told is saved is never the placeholder, whatever the two
\* threads do before and after, disturbed or not.
THEOREM ReportedStaysReal == Spec => []ReportedIsReal
<1> DEFINE IInv == TypeOK /\ Control /\ Packed /\ Real
<1>1. Init => IInv
  <2>1. Init => Real
    BY DEF Init, Real, Uploaded
  <2>2. QED
    BY <2>1, Boots
<1>2. IInv /\ [Next]_vars => IInv'
  BY ControlStep, RealStep
<1>3. IInv => ReportedIsReal
  BY DEF Real, Uploaded, IsReal, ReportedIsReal
<1>4. QED
  BY <1>1, <1>2, <1>3, PTL DEF Spec

----------------------------------------------------------------------------
(* Undisturbed saves and uses.                                              *)

\* Every step keeps a quiet thread alone: the second thread to start ends the
\* quiet of both.
LEMMA AloneStep ==
  ASSUME TypeOK, Control, Alone, [Next]_vars PROVE Alone'
<1>1. ASSUME NEW t \in Threads, Step(t) PROVE Alone'
  <2>1. /\ Others(t) /\ th[t].pc # "idle" /\ \A u \in Threads : quiet'[u] => quiet[u]
    BY <1>1, StepFrame
  <2>2. QED
    BY <2>1 DEF Alone, Others
<1>2. CASE Requests
  <2>1. PICK t \in Threads, p \in {"robot", "delete", "download", "view"}, c \in Cmds,
             cur \in CurrIds, i \in Ids \cup {NoId} : Start(t, p, c, cur, i)
    BY <1>2, Begins
  <2>2. p \in Pcs
    BY DEF Pcs
  <2>3. /\ Others(t)
        /\ \A u \in Threads \ {t} : /\ quiet'[t] => th[u].pc = "idle"
                                    /\ quiet'[u] => th[u].pc = "idle"
    BY <2>1, <2>2, StartFacts
  <2>4. QED
    BY <2>3 DEF Alone, Others
<1>3. CASE Robot
  BY <1>3, RobotFacts DEF Alone
<1>4. CASE UNCHANGED vars
  BY <1>4 DEF vars, Alone
<1>5. QED
  BY <1>1, <1>2, <1>3, <1>4 DEF Next

\* A thread that is idle carries nothing.
LEMMA IdleCarries ==
  ASSUME NEW t \in Threads
  PROVE  th'[t].pc \in {"idle", "robot", "delete", "download", "install"} => Carried(t)'
BY DEF Carried

\* A thread's own step keeps what it carries, unless a fault ends its quiet.
LEMMA OwnCarry ==
  ASSUME TypeOK, Control, Packed, NEW t \in Threads, Step(t), Carried(t), quiet'[t]
  PROVE  Carried(t)'
<1>0. /\ Program(t) /\ th'[t].cmd = th[t].cmd /\ th'[t].curr = th[t].curr
      /\ th[t].curr \in CurrIds
  BY StepFrame, LocalsTyped, TypeParts DEF Control
<1>t. th \in [Threads -> Locals]
  BY DEF TypeOK
<1>p. {"idle", "view", "combine", "tar", "upload", "send", "connect", "answer", "change"}
         \subseteq Pcs
  BY DEF Pcs
<1>g. ASSUME NEW p \in Pcs, Goto(t, p)
      PROVE  /\ th'[t].pc = p /\ th'[t].ret = th[t].ret
             /\ th'[t].id = th[t].id /\ th'[t].got = th[t].got
  BY <1>t, <1>g, GotoFacts DEF Went
<1>r. ASSUME NEW r \in {0, 1}, Returns(t, r)
      PROVE  /\ th'[t].pc = "return" /\ th'[t].ret = r
             /\ th'[t].id = th[t].id /\ th'[t].got = th[t].got
  BY <1>t, <1>r, ReturnsFacts DEF Went
<1>e. ASSUME NEW r \in {0, 1}, Ends(t, r)
      PROVE  /\ th'[t].pc = "answer" /\ th'[t].ret = r
             /\ th'[t].id = th[t].id /\ th'[t].got = th[t].got
  BY <1>t, <1>e, EndsFacts DEF Went
<1>f. ~Fault(t)
  BY DEF Fault, TypeOK
<1>n. Saves \cap {"use", "delete", "updateEvent"} = {}
  BY DEF Saves
<1>1. CASE RobotSaved(t)
  <2>1. /\ th'[t].pc = "view" /\ th[t].cmd \in Saves /\ live' = live
        /\ want'[t] = live /\ dir' = WriteMap(dir, live)
    BY <1>1, <1>0, <1>g, <1>p DEF RobotSaved, Program, TypeOK
  <2>2. Holds(dir', live)
    BY <2>1, MapAssumption DEF Holds, WriteMap, TypeOK
  <2>3. QED
    BY <1>0, <1>n, <2>1, <2>2 DEF Carried
<1>2. CASE RobotRefuses(t)
  <2>1. /\ th[t].cmd \in Saves
        /\ th'[t].pc = "idle" \/ (th'[t].pc = "answer" /\ th'[t].ret = 1)
    BY <1>2, <1>0, <1>g, <1>e, <1>p DEF RobotRefuses, Program
  <2>2. QED
    BY <1>0, <1>n, <2>1 DEF Carried
<1>3. CASE GetMap(t)
  <2>1. /\ th[t].pc = "view" /\ th'[t].pc = "combine" /\ th'[t].id = th[t].id
        /\ view' = live /\ UNCHANGED <<live, dir, dirId, want>>
    BY <1>3, <1>f, <1>g, <1>p DEF GetMap
  <2>2. QED
    BY <1>0, <1>n, <2>1 DEF Carried
<1>4. CASE Combine(t)
  <2>1. /\ th[t].pc = "combine" /\ th'[t].id = th[t].id
        /\ th[t].cmd \in Saves \cup {"updateEvent"}
        /\ th'[t].pc = IF th[t].cmd = "updateEvent" THEN "tar" ELSE "upload"
        /\ comb'[th[t].curr] = view /\ UNCHANGED <<dir, dirId, want>>
    BY <1>4, <1>0, <1>g, <1>p DEF Combine, Program, TypeOK
  <2>2. QED
    BY <1>0, <1>n, <2>1 DEF Carried
<1>5. CASE CombineFails(t)
  <2>1. th'[t].pc = "return" /\ th'[t].ret = 1
    BY <1>5, <1>r DEF CombineFails
  <2>2. QED
    BY <2>1 DEF Carried
<1>6. ASSUME NEW i \in Ids, Upload(t, i) PROVE Carried(t)'
  <2>1. /\ th[t].pc = "upload" /\ th'[t].pc = "writeId" /\ th[t].cmd \in Saves
        /\ UNCHANGED <<dir, comb, want>>
    BY <1>6, <1>0, <1>t DEF Upload, CanUpload, Program, Locals
  <2>2. QED
    BY <1>0, <1>n, <2>1 DEF Carried
<1>7. CASE UploadFails(t)
  <2>1. th'[t].pc = "return" /\ th'[t].ret = 1
    BY <1>7, <1>r DEF UploadFails
  <2>2. QED
    BY <2>1 DEF Carried
<1>8. CASE WriteId(t)
  <2>1. /\ th[t].pc = "writeId" /\ th'[t].pc = "tar" /\ th'[t].id = th[t].id
        /\ dirId' = th[t].id /\ UNCHANGED <<dir, comb, want>>
    BY <1>8, <1>f, <1>g, <1>p DEF WriteId
  <2>2. QED
    BY <1>0, <1>n, <2>1 DEF Carried
<1>9. CASE Tar(t)
  <2>1. /\ th[t].pc = "tar" /\ th'[t].pc = "send" /\ th'[t].id = th[t].id
        /\ tarball' = [kind |-> "whole", files |-> dir, id |-> dirId]
        /\ UNCHANGED <<dir, dirId, comb, want>>
    BY <1>9, <1>f, <1>g, <1>p DEF Tar
  <2>2. tarball'.kind = "whole" /\ tarball'.files = dir /\ tarball'.id = dirId
    BY <2>1
  <2>3. QED
    BY <1>0, <1>n, <2>1, <2>2 DEF Carried
<1>10. CASE UpdateFiles(t)
  <2>1. /\ th[t].pc = "send" /\ th'[t].pc = "return" /\ th'[t].id = th[t].id
        /\ th[t].id \in Ids /\ UNCHANGED <<dirId, want>>
    BY <1>10, <1>0, <1>r DEF UpdateFiles, Program
  <2>2. CASE th'[t].ret = 0
    <3>1. Sendable(t) /\ Replace(t)
      BY <1>10, <1>r, <2>2 DEF UpdateFiles
    <3>2. /\ cloud'[th[t].id].bin = comb[th[t].curr]
          /\ cloud'[th[t].id].data = tarball
      BY <2>1, <3>1, ReplaceFacts
    <3>3. QED
      BY <1>0, <1>n, <2>1, <3>2 DEF Carried
  <2>3. CASE th'[t].ret # 0
    BY <2>1, <2>3 DEF Carried
  <2>4. QED
    BY <2>2, <2>3
<1>11. CASE UploadReturns(t)
  <2>1. /\ th[t].pc = "return" /\ th'[t].id = th[t].id /\ th'[t].ret = th[t].ret
        /\ \/ th'[t].pc = "idle"
           \/ th'[t].pc \in {"answer", "connect"} /\ th[t].cmd \in Saves
        /\ UNCHANGED <<cloud, dirId, want>>
    <3>1. \/ Goto(t, "idle")
          \/ \E p \in {"answer", "connect"} : Goto(t, p) /\ th[t].cmd \in Saves
      BY <1>11 DEF UploadReturns, Saves
    <3>2. QED
      BY <1>11, <1>g, <1>p, <3>1 DEF UploadReturns, shared
  <2>2. QED
    BY <1>0, <1>n, <2>1 DEF Carried
<1>12. CASE Connect(t)
  <2>1. /\ th[t].pc = "connect" /\ th'[t].pc = "answer" /\ th'[t].id = th[t].id
        /\ th[t].cmd \in Saves /\ th[t].ret = 0 /\ UNCHANGED <<cloud, dirId, want>>
    BY <1>12, <1>0, <1>e DEF Connect, Program, shared
  <2>2. QED
    BY <1>0, <1>n, <2>1 DEF Carried
<1>13. CASE Delete(t)
  <2>1. th'[t].pc = "answer" /\ th[t].cmd = "delete"
    BY <1>13, <1>0, <1>e DEF Delete, Program
  <2>2. QED
    BY <1>0, <1>n, <2>1 DEF Carried
<1>14. CASE Download(t)
  <2>1. th'[t].pc = "install" \/ (th'[t].pc = "answer" /\ th'[t].ret = 1)
    <3>1. CASE Ends(t, 1)
      BY <1>e, <3>1
    <3> DEFINE a == IF cloud[th[t].id].state = "stored" THEN cloud[th[t].id].data ELSE Stub
    <3>2. CASE th' = [th EXCEPT ![t].pc = "install", ![t].got = a]
      <4> HIDE DEF a
      <4>1. QED
        BY <1>t, <3>2 DEF Locals
    <3>3. QED
      BY <1>14, <3>1, <3>2 DEF Download
  <2>2. QED
    BY <2>1 DEF Carried
<1>15. CASE Install(t)
  <2>1. /\ th'[t].pc = "change" /\ th'[t].got = th[t].got
        /\ dir' = Overwrite(dir, th[t].got, Files)
        /\ dirId' = IF th[t].got.id # NoId THEN th[t].got.id ELSE dirId
    BY <1>15, <1>g, <1>p DEF Install, Move
  <2>2. \A f \in Files : th[t].got.files[f] \in {NoMap, dir'[f]}
    BY <2>1 DEF Overwrite
  <2>3. QED
    BY <1>0, <1>n, <2>1, <2>2 DEF Carried
<1>16. CASE InstallFails(t)
  <2>1. th'[t].pc = "answer" /\ th'[t].ret = 1
    BY <1>16, <1>e DEF InstallFails
  <2>2. QED
    BY <2>1 DEF Carried
<1>17. CASE Change(t)
  <2>1. /\ th[t].pc = "change" /\ th'[t].pc = "answer" /\ th'[t].got = th[t].got
        /\ th[t].cmd = "use" /\ UNCHANGED <<dir, dirId>>
    BY <1>17, <1>0, <1>e DEF Change, Program
  <2>2. QED
    BY <1>0, <1>n, <2>1 DEF Carried
<1>18. CASE TuyaReportMapSaveResult(t)
  <2>1. th'[t].pc = "idle"
    BY <1>18, <1>t DEF TuyaReportMapSaveResult, Locals
  <2>2. QED
    BY <2>1, IdleCarries
<1>19. QED
  BY <1>1, <1>2, <1>3, <1>4, <1>5, <1>6, <1>7, <1>8, <1>9, <1>10, <1>11, <1>12,
     <1>13, <1>14, <1>15, <1>16, <1>17, <1>18 DEF Step

\* Every step of either thread, and the robot, keeps what a quiet thread carries.
LEMMA CarryStep ==
  ASSUME TypeOK, Control, Packed, Alone, Carry, [Next]_vars PROVE Carry'
<1>1. ASSUME NEW t \in Threads, Step(t) PROVE Carry'
  <2>1. /\ Others(t) /\ th[t].pc # "idle" /\ \A u \in Threads : quiet'[u] => quiet[u]
    BY <1>1, StepFrame
  <2>2. ASSUME NEW u \in Threads \ {t}, quiet'[u] PROVE Carried(u)'
    <3>1. th'[u].pc = "idle"
      BY <2>1, <2>2 DEF Alone, Others
    <3>2. QED
      BY <3>1, IdleCarries
  <2>3. quiet'[t] => Carried(t)'
    BY <1>1, <2>1, OwnCarry DEF Carry
  <2>4. QED
    BY <2>2, <2>3 DEF Carry
<1>2. CASE Requests
  <2>1. PICK t \in Threads, p \in {"robot", "delete", "download", "view"}, c \in Cmds,
             cur \in CurrIds, i \in Ids \cup {NoId} :
            Start(t, p, c, cur, i) /\ (p = "view" => c = "updateEvent" /\ dirId = i)
    BY <1>2, Begins
  <2>2. p \in Pcs
    BY DEF Pcs
  <2>3. /\ Others(t) /\ UNCHANGED shared
        /\ th'[t].pc = p /\ th'[t].cmd = c /\ th'[t].id = i
        /\ \A u \in Threads \ {t} : quiet'[u] => th[u].pc = "idle"
    BY <2>1, <2>2, StartFacts
  <2>4. ASSUME NEW u \in Threads \ {t}, quiet'[u] PROVE Carried(u)'
    <3>1. th'[u].pc = "idle"
      BY <2>3, <2>4 DEF Others
    <3>2. QED
      BY <3>1, IdleCarries
  <2>5. Carried(t)'
    <3>1. CASE p = "view"
      BY <2>1, <2>3, <3>1 DEF Carried, Saves, shared
    <3>2. CASE p # "view"
      BY <2>3, <3>2, IdleCarries
    <3>3. QED
      BY <3>1, <3>2
  <2>6. QED
    BY <2>4, <2>5 DEF Carry
<1>3. CASE Robot
  <2>1. ASSUME NEW t \in Threads, quiet'[t] PROVE Carried(t)'
    <3>1. /\ UNCHANGED <<dirId, comb, tarball, cloud, th, want>> /\ quiet[t]
          /\ th[t].pc # "idle" => live' = live /\ dir' = dir /\ view' \in {view, live}
      BY <1>3, <2>1, RobotFacts
    <3>2. CASE th[t].pc = "idle"
      BY <3>1, <3>2, IdleCarries
    <3>3. CASE th[t].pc # "idle"
      <4>1. Carried(t)
        BY <3>1 DEF Carry
      <4>2. QED
        BY <3>1, <3>3, <4>1 DEF Carried
    <3>4. QED
      BY <3>2, <3>3
  <2>2. QED
    BY <2>1 DEF Carry
<1>4. CASE UNCHANGED vars
  BY <1>4 DEF vars, Carry, Carried
<1>5. QED
  BY <1>1, <1>2, <1>3, <1>4 DEF Next

\* Only an upload, a replacement and a deletion change the cloud.
LEMMA CloudChanges ==
  ASSUME NEW t \in Threads, Step(t)
  PROVE  \/ cloud' = cloud
         \/ \E i \in Ids : Upload(t, i)
         \/ th[t].pc = "send" /\ Sendable(t) /\ Replace(t)
         \/ th[t].pc = "delete" /\ Deleted(t)
BY DEF Step, RobotSaved, RobotRefuses, GetMap, Combine, CombineFails, UploadFails, WriteId,
   Tar, UpdateFiles, UploadReturns, Connect, Delete, Download, Install, InstallFails,
   Change, TuyaReportMapSaveResult, shared

\* Every step keeps the archives of undisturbed uploads under their own id.
LEMMA SelfNamedStep ==
  ASSUME TypeOK, Control, Packed, Carry, SelfNamed, [Next]_vars PROVE SelfNamed'
<1>1. ASSUME NEW t \in Threads, Step(t) PROVE SelfNamed'
  <2>0. Program(t)
    BY DEF Control
  <2>1. CASE cloud' = cloud
    BY <2>1 DEF SelfNamed
  <2>2. ASSUME NEW i \in Ids, Upload(t, i) PROVE SelfNamed'
    BY <2>2, UploadFacts DEF SelfNamed
  <2>3. CASE th[t].pc = "send" /\ Sendable(t) /\ Replace(t)
    <3>1. /\ th[t].id \in Ids
          /\ quiet[t] => tarball.kind = "whole" /\ tarball.id = th[t].id
      BY <2>0, <2>3 DEF Program, Carry, Carried
    <3>2. QED
      BY <2>3, <3>1, ReplaceFacts DEF SelfNamed
  <2>4. CASE th[t].pc = "delete" /\ Deleted(t)
    <3>1. th[t].id \in Ids
      BY <2>0, <2>4 DEF Program
    <3>2. QED
      BY <2>4, <3>1, DeletedFacts DEF SelfNamed
  <2>5. QED
    BY <1>1, <2>1, <2>2, <2>3, <2>4, CloudChanges
<1>2. CASE Requests
  <2>1. PICK t \in Threads, p \in {"robot", "delete", "download", "view"}, c \in Cmds,
             cur \in CurrIds, i \in Ids \cup {NoId} : Start(t, p, c, cur, i)
    BY <1>2, Begins
  <2>2. cloud' = cloud
    BY <2>1 DEF Start, shared
  <2>3. QED
    BY <2>2 DEF SelfNamed
<1>3. CASE Robot
  BY <1>3, RobotFacts DEF SelfNamed
<1>4. CASE UNCHANGED vars
  BY <1>4 DEF vars, SelfNamed
<1>5. QED
  BY <1>1, <1>2, <1>3, <1>4 DEF Next

\* Every step keeps it so that only a whole archive is put to use.
LEMMA SoundStep ==
  ASSUME TypeOK, Control, Sound, [Next]_vars PROVE Sound'
<1>1. ASSUME NEW t \in Threads, Step(t) PROVE Sound'
  <2>1. Others(t) /\ th'[t].cmd = th[t].cmd
    BY <1>1, StepFrame
  <2>2. Program(t) /\ Installed(t)
    BY DEF Control, Sound
  <2>3. Installed(t)'
    <3>1. CASE Moves(t) /\ th'[t].got = th[t].got
      <4>1. CASE th[t].pc = "install" /\ th'[t].pc = "change"
        <5>1. th[t].got.kind = "whole"
          <6>1. ~InstallFails(t)
            BY <4>1, EndsFacts DEF InstallFails, Went, TypeOK
          <6>2. Install(t)
            BY <1>1, <4>1, <6>1 DEF Step, RobotSaved, RobotRefuses, GetMap, Combine,
               CombineFails, Upload, CanUpload, UploadFails, WriteId, Tar, UpdateFiles,
               UploadReturns, Connect, Delete, Download, Change, TuyaReportMapSaveResult
          <6>3. QED
            BY <6>2 DEF Install
        <5>2. QED
          BY <3>1, <5>1 DEF Installed
      <4>2. CASE ~(th[t].pc = "install" /\ th'[t].pc = "change")
        BY <2>1, <2>2, <3>1, <4>2 DEF Moves, Program, Installed, Saves
      <4>3. QED
        BY <4>1, <4>2
    <3>2. CASE th'[t].pc \in {"writeId", "install", "idle"}
      BY <3>2 DEF Installed
    <3>3. QED
      BY <1>1, <3>1, <3>2, StepMoves
  <2>4. QED
    BY <2>1, <2>3 DEF Sound, Installed, Others
<1>2. CASE Requests
  <2>1. PICK t \in Threads, p \in {"robot", "delete", "download", "view"}, c \in Cmds,
             cur \in CurrIds, i \in Ids \cup {NoId} : Start(t, p, c, cur, i)
    BY <1>2, Begins
  <2>2. p \in Pcs
    BY DEF Pcs
  <2>3. Others(t) /\ th'[t].pc = p
    BY <2>1, <2>2, StartFacts
  <2>4. QED
    BY <2>3 DEF Sound, Installed, Others
<1>3. CASE Robot
  BY <1>3, RobotFacts DEF Sound, Installed
<1>4. CASE UNCHANGED vars
  BY <1>4 DEF vars, Sound, Installed
<1>5. QED
  BY <1>1, <1>2, <1>3, <1>4 DEF Next

\* What undisturbed commands rest on.
Undisturbed == TypeOK /\ Control /\ Packed /\ Alone /\ Carry /\ SelfNamed /\ Sound

LEMMA UndisturbedInv == Spec => []Undisturbed
<1>1. Init => Undisturbed
  <2>1. ASSUME Init PROVE Alone /\ Carry /\ Sound
    BY <2>1 DEF Init, Alone, Carry, Carried, Sound, Installed
  <2>2. ASSUME Init PROVE SelfNamed
    <3>1. PICK old \in Earlier \cup {NoId}, m \in Maps : cloud = StoredBefore(old, m)
      BY <2>2 DEF Init
    <3>2. ASSUME NEW i \in Ids, cloud[i].quiet
          PROVE  cloud[i].data.kind = "whole" /\ cloud[i].data.id = i
      <4>1. CASE i = old
        <5>1. cloud[i] = [state |-> "stored", bin |-> m, quiet |-> TRUE,
                          data |-> [kind |-> "whole", files |-> WriteMap(EmptyDir, m),
                                    id |-> i]]
          BY <3>1, <4>1 DEF StoredBefore
        <5>2. QED
          BY <5>1
      <4>2. CASE i # old
        <5>1. cloud[i] = [state |-> "unused", bin |-> NoMap, quiet |-> FALSE,
                          data |-> NoArchive]
          BY <3>1, <4>2 DEF StoredBefore
        <5>2. QED
          BY <3>2, <5>1
      <4>3. QED
        BY <4>1, <4>2
    <3>3. QED
      BY <3>2 DEF SelfNamed
  <2>3. QED
    BY <2>1, <2>2, Boots DEF Undisturbed
<1>2. Undisturbed /\ [Next]_vars => Undisturbed'
  BY ControlStep, AloneStep, CarryStep, SelfNamedStep, SoundStep DEF Undisturbed
<1>3. QED
  BY <1>1, <1>2, PTL DEF Spec

\* An archive uploaded undisturbed and without a fault carries its own id.
THEOREM ArchivesNameThemselves == Spec => []SelfNamed
<1>1. Undisturbed => SelfNamed
  BY DEF Undisturbed
<1>2. QED
  BY <1>1, UndisturbedInv, PTL

\* An undisturbed save answered with 0x01 has put the map the robot saved into
\* the cloud, whatever was in the shared files before.
THEOREM SavesAreFaithful == Spec => []SaveFaithful
<1>1. Undisturbed => SaveFaithful
  BY DEF Undisturbed, Carry, Carried, SaveFaithful
<1>2. QED
  BY <1>1, UndisturbedInv, PTL

\* A use answered with 0x01 installed a whole archive, and undisturbed all of it.
THEOREM UsesAreFaithful == Spec => []UseFaithful
<1>1. Undisturbed => UseFaithful
  BY DEF Undisturbed, Carry, Carried, Sound, Installed, UseFaithful
<1>2. QED
  BY <1>1, UndisturbedInv, PTL

=============================================================================
