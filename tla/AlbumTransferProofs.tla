------------------------- MODULE AlbumTransferProofs -------------------------
(***************************************************************************)
(* Proofs about AlbumTransfer, for any number of sessions, files, requests  *)
(* and callbacks.                                                           *)
(***************************************************************************)
EXTENDS AlbumTransfer, TLAPS

\* A used session has its session_id, but for the middle of its first QUERY;
\* there, nothing of the session can be served unless a request came before it.
Known ==
    /\ \A s \in Sessions : used[s] => session_id[s] = s \/ cb[s] = "query"
    /\ \A s \in Sessions :
           album_status[s] # "NULL" => early[s] \/ (used[s] /\ session_id[s] = s)
    /\ pc # "look" => used[i] /\ (early[i] \/ session_id[i] = i)

\* A status other than NULL stands for a request, unless it is about to be reset.
Asked ==
    /\ \A s \in Sessions : album_status[s] # "NULL" => asked[s] \/ (pc = "null" /\ i = s)
    /\ pc \in {"file", "send", "finish"} => asked[i]

\* Of what is still asked for, the scan has tried all it has passed.
Scanned ==
    /\ pc \in {"file", "send"} => \A f \in kept : f < fileType => f \in tried
    /\ pc = "send" => fileType \in tried /\ fileType < FileMax

\* What was asked for throughout is asked for now.
KeptWanted == pc \in {"file", "send"} => \A f \in kept : Wanted(f)

AlbumInv == TypeOK /\ Known /\ Asked /\ Scanned /\ KeptWanted

LEMMA ModeType == \A t : Mode(t) \in {"NULL", "FILE", "STREAM"}
  BY DEF Mode

LEMMA NextIndex == \A s \in Sessions : (s + 1) % MaxTrans \in Sessions
  BY AlbumAssumption DEF Sessions

LEMMA AlbumInit == Init => AlbumInv
  BY AlbumAssumption DEF Init, AlbumInv, TypeOK, Known, Asked, Scanned, KeptWanted, Sessions

\* Every step of a callback keeps the invariant.
LEMMA CallbackStep ==
    ASSUME AlbumInv, NEW s \in Sessions, Callback(s) \/ Query(s) \/ Start(s) \/ Cancel(s)
    PROVE  AlbumInv'
<1> USE DEF AlbumInv, At, Goto, sender, hist
<1>1. CASE Query(s)
  <2>1. TypeOK'
    BY <1>1, AlbumAssumption DEF TypeOK, Query, Event
  <2>2. Known' /\ Asked' /\ Scanned' /\ KeptWanted'
    BY <1>1 DEF TypeOK, Query, Known, Asked, Scanned, KeptWanted, Wanted
  <2> QED
    BY <2>1, <2>2
<1>2. CASE QuerySession(s)
  <2>1. TypeOK'
    BY <1>2 DEF TypeOK, QuerySession
  <2>2. Known' /\ Asked' /\ Scanned' /\ KeptWanted'
    BY <1>2 DEF TypeOK, QuerySession, Known, Asked, Scanned, KeptWanted, Wanted
  <2> QED
    BY <2>1, <2>2
<1>3. CASE Start(s)
  <2>1. kept' \subseteq kept
    BY <1>3 DEF Start, Keep
  <2>2. TypeOK'
    BY <1>3, <2>1, AlbumAssumption DEF TypeOK, Start, Event
  <2>3. Known' /\ Asked' /\ Scanned'
    BY <1>3, <2>1 DEF TypeOK, Start, Known, Asked, Scanned
  <2>4. KeptWanted'
    BY <1>3, <2>1 DEF TypeOK, Start, Keep, KeptWanted, Wanted
  <2> QED
    BY <2>2, <2>3, <2>4
<1>4. CASE StartParse(s)
  <2>1. kept' \subseteq kept
    BY <1>4 DEF StartParse, Keep
  <2>2. TypeOK'
    BY <1>4, <2>1 DEF TypeOK, StartParse
  <2>3. Known' /\ Asked' /\ Scanned'
    BY <1>4, <2>1 DEF TypeOK, StartParse, Known, Asked, Scanned
  <2>4. KeptWanted'
    BY <1>4, <2>1 DEF TypeOK, StartParse, Keep, KeptWanted, Wanted
  <2> QED
    BY <2>2, <2>3, <2>4
<1>5. CASE StartMode(s)
  <2>1. TypeOK'
    BY <1>5, ModeType DEF TypeOK, StartMode
  <2>2. Known' /\ Asked' /\ Scanned' /\ KeptWanted'
    BY <1>5 DEF TypeOK, StartMode, Known, Asked, Scanned, KeptWanted, Wanted
  <2> QED
    BY <2>1, <2>2
<1>6. CASE StartStatus(s)
  <2>1. TypeOK'
    BY <1>6 DEF TypeOK, StartStatus
  <2>2. Asked' /\ Scanned' /\ KeptWanted'
    BY <1>6 DEF TypeOK, StartStatus, Asked, Scanned, KeptWanted, Wanted
  <2>3. used[s] => session_id[s] = s
    BY <1>6 DEF StartStatus, Known
  <2>4. (~used[s] => early'[s]) /\ \A r \in Sessions : early[r] => early'[r]
    BY <1>6 DEF StartStatus, TypeOK
  <2>5. Known'
    BY <1>6, <2>3, <2>4 DEF StartStatus, TypeOK, Known
  <2> QED
    BY <2>1, <2>2, <2>5
<1>7. CASE Cancel(s)
  <2>1. TypeOK'
    BY <1>7, AlbumAssumption DEF TypeOK, Cancel, Event
  <2>2. Asked' /\ Scanned' /\ KeptWanted'
    BY <1>7 DEF TypeOK, Cancel, Asked, Scanned, KeptWanted, Wanted
  <2>3. used[s] => session_id[s] = s
    BY <1>7 DEF Cancel, Known
  <2>4. (~used[s] => early'[s]) /\ \A r \in Sessions : early[r] => early'[r]
    BY <1>7 DEF Cancel, TypeOK
  <2>5. Known'
    BY <1>7, <2>3, <2>4 DEF Cancel, TypeOK, Known
  <2> QED
    BY <2>1, <2>2, <2>5
<1> QED
  BY <1>1, <1>2, <1>3, <1>4, <1>5, <1>6, <1>7 DEF Callback

\* Every step of thread_album_send keeps the invariant.
LEMMA SenderStep == ASSUME AlbumInv, Sender PROVE AlbumInv'
<1> USE DEF AlbumInv, ctrl, back, hist
<1>1. CASE Skip
  BY <1>1, NextIndex DEF Skip, NextSession, TypeOK, Known, Asked, Scanned, KeptWanted, Wanted
<1>2. CASE BeginStop
  BY <1>2 DEF BeginStop, TypeOK, Known, Asked, Scanned, KeptWanted, Wanted
<1>3. CASE BeginScan
  <2>1. TypeOK'
    BY <1>3, AlbumAssumption DEF BeginScan, TypeOK
  <2>2. Known' /\ Asked'
    BY <1>3 DEF BeginScan, TypeOK, Known, Asked
  <2>3. \A f \in Files : ~(f < 0)
    BY AlbumAssumption DEF Files
  <2>4. Scanned' /\ KeptWanted'
    BY <1>3, <2>3 DEF BeginScan, Scanned, KeptWanted, Wanted
  <2> QED
    BY <2>1, <2>2, <2>4
<1>4. CASE SkipFile
  <2>1. fileType \in Files /\ fileType + 1 \in 0 .. FileMax
    BY <1>4, AlbumAssumption DEF SkipFile, TypeOK, Files
  <2>2. TypeOK'
    BY <1>4, <2>1 DEF SkipFile, TypeOK
  <2>3. Known' /\ Asked'
    BY <1>4 DEF SkipFile, TypeOK, Known, Asked
  <2>4. (fileType \in kept => Wanted(fileType)) /\ KeptWanted'
    BY <1>4 DEF SkipFile, KeptWanted, Wanted
  <2>5. Scanned'
    BY <1>4, <2>1, <2>4, AlbumAssumption DEF SkipFile, Scanned, TypeOK, Files
  <2> QED
    BY <2>2, <2>3, <2>4, <2>5
<1>5. CASE ReadFile
  <2>1. fileType \in Files
    BY <1>5, AlbumAssumption DEF ReadFile, TypeOK, Files
  <2> QED
    BY <1>5, <2>1 DEF ReadFile, TypeOK, Known, Asked, Scanned, KeptWanted, Wanted
<1>6. CASE SendFile
  <2>1. fileType + 1 \in 0 .. FileMax
    BY <1>6, AlbumAssumption DEF SendFile, TypeOK, Scanned
  <2>2. TypeOK' /\ Known' /\ Asked' /\ KeptWanted'
    BY <1>6, <2>1 DEF SendFile, TypeOK, Known, Asked, KeptWanted, Wanted
  <2>3. Scanned'
    BY <1>6, AlbumAssumption DEF SendFile, Scanned, TypeOK, Files
  <2> QED
    BY <2>2, <2>3
<1>7. CASE ScanDone
  BY <1>7, NextIndex DEF ScanDone, NextSession, TypeOK, Known, Asked, Scanned, KeptWanted, Wanted
<1>8. CASE Finish
  BY <1>8 DEF Finish, TypeOK, Known, Asked, Scanned, KeptWanted, Wanted
<1>9. CASE ResetStatus
  BY <1>9, NextIndex DEF ResetStatus, NextSession, TypeOK, Known, Asked, Scanned, KeptWanted, Wanted
<1> QED
  BY <1>1, <1>2, <1>3, <1>4, <1>5, <1>6, <1>7, <1>8, <1>9 DEF Sender

LEMMA AlbumStep == AlbumInv /\ [Next]_vars => AlbumInv'
<1>1. ASSUME AlbumInv, UNCHANGED vars PROVE AlbumInv'
  BY <1>1 DEF vars, ctrl, back, sender, hist, AlbumInv, TypeOK, Known, Asked, Scanned, KeptWanted, Wanted
<1> QED
  BY <1>1, CallbackStep, SenderStep DEF Next

\* The inductive invariant of the album transfer.
THEOREM AlbumInvariant == Spec => []AlbumInv
  BY AlbumInit, AlbumStep, PTL DEF Spec

\* What is sent for a session goes to its phone, except between the two
\* assignments of a first QUERY that came after a START or CANCEL.
THEOREM AlbumRightPhone == Spec => []RightPhone
<1>1. AlbumInv => RightPhone
  BY DEF AlbumInv, TypeOK, Known, RightPhone
<1> QED
  BY <1>1, AlbumInvariant, PTL

\* "Finished" is only ever said in answer to a request.
THEOREM AlbumFinishAnswers == Spec => []FinishAnswers
<1>1. AlbumInv => FinishAnswers
  BY DEF AlbumInv, Asked, FinishAnswers
<1> QED
  BY <1>1, AlbumInvariant, PTL

\* No file that was asked for throughout a scan is left out of it.
THEOREM AlbumNoFileForgotten == Spec => NoFileForgotten
<1>1. AlbumInv /\ [Next]_vars => [LeavesScan => kept \subseteq tried]_vars
  <2> SUFFICES ASSUME AlbumInv, Next, LeavesScan PROVE kept \subseteq tried
    OBVIOUS
  <2>1. ScanDone
    BY DEF Next, Sender, Callback, LeavesScan, Skip, BeginStop, BeginScan, SkipFile, ReadFile,
       SendFile, Finish, ResetStatus, QuerySession, StartParse, StartMode, StartStatus,
       Query, Start, Cancel, sender
  <2>2. \A f \in kept : f < fileType
    BY <2>1, AlbumAssumption DEF ScanDone, AlbumInv, TypeOK, Files
  <2> QED
    BY <2>2 DEF AlbumInv, Scanned, LeavesScan
<1> QED
  BY <1>1, AlbumInvariant, PTL DEF Spec, NoFileForgotten
=============================================================================
