---------------------------- MODULE AlbumTransfer ----------------------------
(***************************************************************************)
(* Album transfer to the phone: tuya_ipc_sweeper_demo.c.                    *)
(*                                                                          *)
(* g_sweeper_ctrl holds one SWEEPER_CTRL per p2p session.  The SDK's        *)
(* callbacks (tuya_ipc_sweeper_album_cb) write it and thread_album_send     *)
(* reads and writes it, without a lock: every access that the other side    *)
(* can tell apart is a step of its own.  The callbacks of one session come  *)
(* one after the other, those of different sessions in any order: nothing   *)
(* in the code makes a session's first callback a QUERY, the only one that  *)
(* says whose the session is.                                               *)
(*                                                                          *)
(* File type f in 0 .. FileMax-1 is a plain file, f + FileMax the same file *)
(* as a stream; targetfileArr is the set of the types that are 1.           *)
(* g_file_arr and fileIndex are written and never used: left out.           *)
(***************************************************************************)
EXTENDS Integers

CONSTANTS
    MaxTrans,   \* SWEEPER_MAX_TRANS_NUM
    FileMax,    \* SWEEPER_ALBUM_FILE_MAX
    Requests,   \* the sets of types a phone asks for
    MaxEvents   \* bound: callbacks

Types == 0 .. 2 * FileMax - 1

ASSUME AlbumAssumption ==
    /\ MaxTrans \in Nat \ {0} /\ FileMax \in Nat \ {0}
    /\ Requests \subseteq SUBSET Types
    /\ MaxEvents \in Nat

VARIABLES
    (* g_sweeper_ctrl *)
    used, session_id, album_status, transmode, targetfileArr,
    (* the callback of each session *)
    cb,         \* where it is, "idle" if there is none
    want,       \* the types it asks for
    events,     \* callbacks so far
    (* thread_album_send *)
    pc, i, fileType,
    (* history *)
    asked,      \* START or CANCEL came since the last finish
    cancelled,  \* CANCEL came after the last START
    early,      \* a START or CANCEL was taken before the session's first QUERY
    kept,       \* types asked for without a break since the scan began
    tried       \* files the scan got to

ctrl == <<used, session_id, album_status, transmode, targetfileArr>>
back == <<cb, want, events>>
sender == <<pc, i, fileType>>
hist == <<asked, cancelled, early, kept, tried>>
vars == <<ctrl, back, sender, hist>>

\* __get_sweeper_handle answers for these.
Sessions == 0 .. MaxTrans - 1
Files == 0 .. FileMax - 1

Init ==
    /\ used = [s \in Sessions |-> FALSE] /\ session_id = [s \in Sessions |-> 0]
    /\ album_status = [s \in Sessions |-> "NULL"] /\ transmode = [s \in Sessions |-> "NULL"]
    /\ targetfileArr = [s \in Sessions |-> {}]
    /\ cb = [s \in Sessions |-> "idle"] /\ want = [s \in Sessions |-> {}] /\ events = 0
    /\ pc = "look" /\ i = 0 /\ fileType = 0
    /\ asked = [s \in Sessions |-> FALSE] /\ cancelled = [s \in Sessions |-> FALSE]
    /\ early = [s \in Sessions |-> FALSE] /\ kept = {} /\ tried = {}

-----------------------------------------------------------------------------
(* tuya_ipc_sweeper_album_cb *)

At(s, here) == cb[s] = here
Goto(s, there) == cb' = [cb EXCEPT ![s] = there]
Event == events < MaxEvents /\ events' = events + 1

\* TRANS_ALBUM_QUERY
Query(s) ==
    /\ Event /\ At(s, "idle") /\ Goto(s, "query")
    /\ used' = [used EXCEPT ![s] = TRUE]
    /\ UNCHANGED <<session_id, album_status, transmode, targetfileArr, want, sender, hist>>

\* Mutant: the session is not stored.
QueryForgets(s) ==
    /\ At(s, "query") /\ Goto(s, "idle")
    /\ UNCHANGED <<ctrl, want, events, sender, hist>>

QuerySession(s) ==
    /\ At(s, "query") /\ Goto(s, "idle")
    /\ session_id' = [session_id EXCEPT ![s] = s]
    /\ UNCHANGED <<used, album_status, transmode, targetfileArr, want, events, sender, hist>>

\* What the scan under way keeps when the targets of session s become t.
Keep(s, t) == kept' = IF s = i THEN kept \cap {f \in Files : f \in t \/ f + FileMax \in t} ELSE kept

\* TRANS_ALBUM_DOWNLOAD_START: the targets are cleared ...
Start(s) ==
    /\ Event /\ At(s, "idle") /\ Goto(s, "parse")
    /\ \E t \in Requests : want' = [want EXCEPT ![s] = t]
    /\ targetfileArr' = [targetfileArr EXCEPT ![s] = {}]
    /\ Keep(s, {})
    /\ UNCHANGED <<used, session_id, album_status, transmode, sender, asked, cancelled, early, tried>>

\* The mode a request is given: any file that is NOT asked for makes it FILE, any
\* stream that is makes it STREAM.
Mode(t) ==
    CASE \E f \in Files : f + FileMax \in t -> "STREAM"
      [] (\A f \in Files : f + FileMax \notin t) /\ (\E f \in Files : f \notin t) -> "FILE"
      [] OTHER -> "NULL"

\* ... the request is parsed, and refused if it cannot be or has no mode ...
StartParse(s) ==
    /\ At(s, "parse")
    /\ \/ Goto(s, "idle") /\ UNCHANGED <<targetfileArr, kept>>
       \/ /\ Goto(s, IF Mode(want[s]) = "NULL" THEN "idle" ELSE "mode")
          /\ targetfileArr' = [targetfileArr EXCEPT ![s] = want[s]]
          /\ Keep(s, want[s])
    /\ UNCHANGED <<used, session_id, album_status, transmode, want, events, sender,
                   asked, cancelled, early, tried>>

\* ... the mode is stored ...
StartMode(s) ==
    /\ At(s, "mode") /\ Goto(s, "status")
    /\ transmode' = [transmode EXCEPT ![s] = Mode(want[s])]
    /\ UNCHANGED <<used, session_id, album_status, targetfileArr, want, events, sender, hist>>

\* ... and last the status.
StartStatus(s) ==
    /\ At(s, "status") /\ Goto(s, "idle")
    /\ album_status' = [album_status EXCEPT ![s] = "START"]
    /\ asked' = [asked EXCEPT ![s] = TRUE]
    /\ cancelled' = [cancelled EXCEPT ![s] = FALSE]
    /\ early' = [early EXCEPT ![s] = @ \/ ~used[s]]
    /\ UNCHANGED <<used, session_id, transmode, targetfileArr, want, events, sender, kept, tried>>

\* TRANS_ALBUM_DOWNLOAD_CANCEL
Cancel(s) ==
    /\ Event /\ At(s, "idle")
    /\ album_status' = [album_status EXCEPT ![s] = "STOP"]
    /\ asked' = [asked EXCEPT ![s] = TRUE]
    /\ cancelled' = [cancelled EXCEPT ![s] = TRUE]
    /\ early' = [early EXCEPT ![s] = @ \/ ~used[s]]
    /\ UNCHANGED <<used, session_id, transmode, targetfileArr, cb, want, sender, kept, tried>>

-----------------------------------------------------------------------------
(* thread_album_send *)

NextSession == pc' = "look" /\ i' = (i + 1) % MaxTrans

\* Mutant: a cancelled download is taken for one that is over.
SkipStopped ==
    /\ pc = "look"
    /\ ~used[i] \/ album_status[i] # "START"
    /\ NextSession
    /\ UNCHANGED <<ctrl, back, fileType, hist>>

Skip ==
    /\ pc = "look"
    /\ ~used[i] \/ album_status[i] = "NULL"
    /\ NextSession
    /\ UNCHANGED <<ctrl, back, fileType, hist>>

BeginStop ==
    /\ pc = "look" /\ used[i] /\ album_status[i] = "STOP"
    /\ pc' = "finish"
    /\ UNCHANGED <<ctrl, back, i, fileType, hist>>

Wanted(f) == f \in targetfileArr[i] \/ f + FileMax \in targetfileArr[i]

BeginScan ==
    /\ pc = "look" /\ used[i] /\ album_status[i] = "START"
    /\ pc' = "file" /\ fileType' = 0
    /\ kept' = {f \in Files : Wanted(f)} /\ tried' = {}
    /\ UNCHANGED <<ctrl, back, i, asked, cancelled, early>>

\* A type that is not needed, or a file that cannot be read (sweeper_read_file).
SkipFile ==
    /\ pc = "file" /\ fileType < FileMax
    /\ tried' = IF Wanted(fileType) THEN tried \cup {fileType} ELSE tried
    /\ fileType' = fileType + 1
    /\ UNCHANGED <<ctrl, back, pc, i, asked, cancelled, early, kept>>

ReadFile ==
    /\ pc = "file" /\ fileType < FileMax /\ Wanted(fileType)
    /\ tried' = tried \cup {fileType}
    /\ pc' = "send"
    /\ UNCHANGED <<ctrl, back, i, fileType, asked, cancelled, early, kept>>

\* tuya_ipc_sweeper_send_data_with_buff to session_id[i]; its result is not used.
SendFile ==
    /\ pc = "send"
    /\ pc' = "file" /\ fileType' = fileType + 1
    /\ UNCHANGED <<ctrl, back, i, hist>>

\* Mutant: the last type is left out.
ScanDoneEarly ==
    /\ pc = "file" /\ fileType >= FileMax - 1
    /\ IF transmode[i] = "FILE" THEN pc' = "finish" /\ UNCHANGED i ELSE NextSession
    /\ UNCHANGED <<ctrl, back, fileType, hist>>

\* The loop is over: a file download ends, a stream goes on after a sleep.
ScanDone ==
    /\ pc = "file" /\ fileType >= FileMax
    /\ IF transmode[i] = "FILE" THEN pc' = "finish" /\ UNCHANGED i ELSE NextSession
    /\ UNCHANGED <<ctrl, back, fileType, hist>>

\* tuya_ipc_sweeper_send_finish_2_app to session_id[i]
Finish ==
    /\ pc = "finish"
    /\ pc' = "null"
    /\ asked' = [asked EXCEPT ![i] = FALSE]
    /\ UNCHANGED <<ctrl, back, i, fileType, cancelled, early, kept, tried>>

\* Mutant: the status is left, so the next round finishes again.
KeepStatus ==
    /\ pc = "null" /\ NextSession
    /\ UNCHANGED <<ctrl, back, fileType, hist>>

\* The status is reset, whatever it has become since it was read.
ResetStatus ==
    /\ pc = "null" /\ NextSession
    /\ album_status' = [album_status EXCEPT ![i] = "NULL"]
    /\ UNCHANGED <<used, session_id, transmode, targetfileArr, back, fileType, hist>>

Sender ==
    Skip \/ BeginStop \/ BeginScan \/ SkipFile \/ ReadFile \/ SendFile \/ ScanDone \/ Finish \/ ResetStatus

Callback(s) == QuerySession(s) \/ StartParse(s) \/ StartMode(s) \/ StartStatus(s)

Next ==
    \/ Sender
    \/ \E s \in Sessions : Callback(s) \/ Query(s) \/ Start(s) \/ Cancel(s)

Spec == Init /\ [][Next]_vars

\* The sender's loop never waits for anything but its own sleeps, and a callback
\* that was entered runs to its end; no phone has to ask for anything.
FairSpec == Spec /\ WF_vars(Sender) /\ \A s \in Sessions : WF_vars(Callback(s))

-----------------------------------------------------------------------------
(* Properties *)

TypeOK ==
    /\ used \in [Sessions -> BOOLEAN] /\ session_id \in [Sessions -> Sessions]
    /\ album_status \in [Sessions -> {"NULL", "START", "STOP"}]
    /\ transmode \in [Sessions -> {"NULL", "FILE", "STREAM"}]
    /\ targetfileArr \in [Sessions -> SUBSET Types]
    /\ cb \in [Sessions -> {"idle", "query", "parse", "mode", "status"}]
    /\ want \in [Sessions -> SUBSET Types] /\ events \in 0 .. MaxEvents
    /\ pc \in {"look", "file", "send", "finish", "null"}
    /\ i \in Sessions /\ fileType \in 0 .. FileMax
    /\ asked \in [Sessions -> BOOLEAN] /\ cancelled \in [Sessions -> BOOLEAN]
    /\ early \in [Sessions -> BOOLEAN] /\ kept \subseteq Files /\ tried \subseteq Files

\* What is sent for a session goes to that session's phone, although session_id
\* is written after used by another thread (tuya_ipc_sweeper_demo.c:96-97, 318,
\* 329, 337).  The one exception: a START or CANCEL that came before the
\* session's first QUERY is served as soon as used is 1, so between the two
\* assignments of that QUERY files or "finished" may go to session 0's phone.
RightPhone ==
    pc \in {"send", "finish"} => session_id[i] = i \/ (early[i] /\ cb[i] = "query")

\* The phone is told "finished" only after it asked for something since it was
\* last told so: neither a repeated round nor a race ends a download twice.
FinishAnswers == pc = "finish" => asked[i]

\* When a scan is over every file that was asked for throughout was tried, even
\* though requests may have replaced the targets in the middle of the scan.
LeavesScan == pc = "file" /\ pc' \notin {"file", "send"}
NoFileForgotten == [][LeavesScan => kept \subseteq tried]_vars

\* After a CANCEL that no START follows the session falls silent, whatever the
\* sender was doing when it came, and whatever the other sessions do.  A CANCEL
\* before any QUERY leaves its STOP on an unused session, which is skipped.
Silent(s) == (used[s] => album_status[s] = "NULL") /\ (i = s => pc = "look")
CancelSilences == \A s \in Sessions : <>[]cancelled[s] => <>[]Silent(s)
=============================================================================
