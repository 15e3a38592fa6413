---------------------------- MODULE DpSyncProofs -----------------------------
(***************************************************************************)
(* Proofs about DpSync. The command thread walks a batch from its last     *)
(* entry to its first; done is at every moment the part behind the cursor, *)
(* so the first entry, where the phone puts the start, is put to the robot *)
(* when all others have been.                                              *)
(*                                                                         *)
(* The cloud is current because of who has the last word on a data point.  *)
(* The robot broadcasts every change, the last broadcast that waits shows  *)
(* it as it is, and a thread that still holds a value of a data point with *)
(* no race against it holds the robot's. The life of a part is cached as   *)
(* well: once a broadcast was handled the cache is the last one handled,   *)
(* so when all that wait agree with it there is nothing to report.         *)
(***************************************************************************)
EXTENDS DpSync, SequenceTheorems, TLAPS

\* Where the command thread is in the batch, and what is behind it.
AtEntry ==
    /\ sdk \in [pc : {"idle", "send", "echo"}, batch : Batches \cup {<<>>},
                index : Nat, val : Values]
    /\ sdk.pc # "idle" => sdk.batch \in Batches /\ sdk.index \in 1..Len(sdk.batch)
    /\ sdk.pc = "send" => done = (sdk.index + 1)..Len(sdk.batch)
    /\ sdk.pc = "echo" => done = sdk.index..Len(sdk.batch)

Cursor == AtEntry /\ robot \in States

\* The length of a batch.
LEMMA BatchLength ==
  ASSUME NEW b \in Batches
  PROVE  /\ Len(b) \in Nat \ {0}
         /\ \A k \in 1..Len(b) : b[k] \in [dp : Points, val : Values]
<1> DEFINE E == [dp : Points, val : Values]
<1>1. b \in Seq(E) /\ b # <<>>
  BY DpAssumption DEF Points
<1> HIDE DEF E
<1>2. Len(b) \in Nat /\ Len(b) # 0 /\ \A k \in 1..Len(b) : b[k] \in E
  BY <1>1
<1>3. QED
  BY <1>2 DEF E

\* Finishing an entry moves the cursor one entry towards the first.
LEMMA NextEntryMoves ==
  ASSUME AtEntry, sdk.pc # "idle", NextEntry, done' = sdk.index..Len(sdk.batch)
  PROVE  AtEntry'
<1>1. /\ sdk.batch \in Batches /\ sdk.index \in 1..Len(sdk.batch)
      /\ Len(sdk.batch) \in Nat
      /\ NextIndex(sdk.batch, sdk.index) = sdk.index - 1
  BY BatchLength DEF AtEntry, NextIndex
<1> DEFINE B == Batches \cup {<<>>}
<1>a. Default \in Values /\ <<>> \in B /\ sdk.batch \in B
  BY <1>1, DpAssumption
<1>b. sdk \in [pc : {"idle", "send", "echo"}, batch : B, index : Nat, val : Values]
  BY DEF AtEntry
<1> HIDE DEF B
<1>2. CASE sdk.index - 1 = 0
  <2>1. sdk' = [sdk EXCEPT !.pc = "idle", !.batch = <<>>, !.index = 0,
                           !.val = Default]
    BY <1>1, <1>2 DEF NextEntry
  <2>2. /\ sdk'.pc = "idle"
        /\ sdk' \in [pc : {"idle", "send", "echo"}, batch : B, index : Nat,
                     val : Values]
    BY <1>a, <1>b, <2>1
  <2>3. QED
    BY <2>2 DEF AtEntry, B
<1>3. CASE sdk.index - 1 # 0
  <2>1. sdk' = [sdk EXCEPT !.pc = "send", !.index = sdk.index - 1, !.val = Default]
    BY <1>1, <1>3 DEF NextEntry
  <2>2. /\ sdk'.pc = "send" /\ sdk'.batch = sdk.batch
        /\ sdk'.index = sdk.index - 1
        /\ sdk' \in [pc : {"idle", "send", "echo"}, batch : B, index : Nat,
                     val : Values]
    <3> DEFINE i == sdk.index - 1
    <3>1. i \in Nat /\ sdk' = [sdk EXCEPT !.pc = "send", !.index = i, !.val = Default]
      BY <1>1, <2>1
    <3>2. i = sdk.index - 1
      OBVIOUS
    <3> HIDE DEF i
    <3>3. sdk'.pc = "send" /\ sdk'.batch = sdk.batch /\ sdk'.index = i
      BY <1>b, <3>1
    <3>4. sdk' \in [pc : {"idle", "send", "echo"}, batch : B, index : Nat,
                    val : Values]
      BY <1>a, <1>b, <3>1
    <3>5. QED
      BY <3>2, <3>3, <3>4
  <2>3. sdk'.index \in 1..Len(sdk'.batch) /\ sdk'.index + 1 = sdk.index
    BY <1>1, <1>3, <2>2
  <2>4. QED
    BY <1>1, <2>2, <2>3 DEF AtEntry, B
<1>4. QED
  BY <1>2, <1>3

\* Putting an entry to the robot leaves the cursor on it.
LEMMA EntryIsDone ==
  ASSUME AtEntry, sdk.pc = "send", done' = done \cup {sdk.index}
  PROVE  /\ done' = sdk.index..Len(sdk.batch)
         /\ Current \in [dp : Points, val : Values]
         /\ sdk.batch \in Batches /\ sdk.index \in 1..Len(sdk.batch)
<1>1. /\ sdk.batch \in Batches /\ sdk.index \in 1..Len(sdk.batch)
      /\ Len(sdk.batch) \in Nat
      /\ \A k \in 1..Len(sdk.batch) : sdk.batch[k] \in [dp : Points, val : Values]
  BY BatchLength DEF AtEntry
<1>2. Current \in [dp : Points, val : Values]
  BY <1>1 DEF Current
<1>3. done = (sdk.index + 1)..Len(sdk.batch)
  BY DEF AtEntry
<1>4. QED
  BY <1>1, <1>2, <1>3

\* The handler is about to report the entry the cursor is on.
LEMMA EchoStays ==
  ASSUME AtEntry, sdk.pc = "send", done' = sdk.index..Len(sdk.batch),
         sdk.batch \in Batches, sdk.index \in 1..Len(sdk.batch),
         NEW v \in Values, sdk' = [sdk EXCEPT !.pc = "echo", !.val = v]
  PROVE  AtEntry'
BY DEF AtEntry

\* At the last entry nothing is behind the cursor.
LEMMA NothingBehind ==
  ASSUME NEW n \in Nat \ {0}
  PROVE  (n + 1)..n = {} /\ n \in 1..n
OBVIOUS

\* Every step of every thread keeps the cursor and what is behind it.
LEMMA CursorStep == ASSUME Cursor, [Next]_vars PROVE Cursor'
<1> USE DpAssumption DEF Cursor, AtEntry, States, RobotTakes
<1>1. ASSUME NEW d \in Dps, NEW v \in Values, RobotChanges(d, v)
      PROVE  Cursor'
  BY <1>1 DEF RobotChanges
<1>2. ASSUME NEW l \in 0..MaxLife, LifeBecomes(l)
      PROVE  Cursor'
  BY <1>2 DEF LifeBecomes
<1>3. CASE GoOffline
  BY <1>3 DEF GoOffline
<1>4. CASE MqttOnline
  BY <1>4 DEF MqttOnline
<1>5. CASE AskState
  BY <1>5 DEF AskState
<1>6. CASE AskLife
  BY <1>6 DEF AskLife
<1>7. CASE NetReportsLife
  BY <1>7 DEF NetReportsLife
<1>8. CASE NetReports
  BY <1>8 DEF NetReports
<1>9. CASE OnSweeperStatus
  BY <1>9 DEF OnSweeperStatus
<1>10. CASE OnPartsLife
  BY <1>10 DEF OnPartsLife
<1>11. CASE LcmReports
  BY <1>11 DEF LcmReports
<1>12. ASSUME NEW a \in BOOLEAN, RobotAnswers(a)
      PROVE  Cursor'
  <2>1. /\ AtEntry /\ sdk.pc = "send" /\ done' = done \cup {sdk.index}
        /\ sdk.pc # "idle"
    BY <1>12 DEF RobotAnswers
  <2>2. /\ done' = sdk.index..Len(sdk.batch)
        /\ Current \in [dp : Points, val : Values]
        /\ sdk.batch \in Batches /\ sdk.index \in 1..Len(sdk.batch)
    BY <2>1, EntryIsDone
  <2> HIDE DEF AtEntry
  <2>3. robot' \in States /\ Current.dp \in Dps
    BY <1>12, <2>2 DEF RobotAnswers
  <2>4. CASE Echoes(class[Current.dp], a)
    <3> DEFINE v == IF class[Current.dp] = "reads" THEN robot'[Current.dp]
                    ELSE Current.val
    <3>1. v \in Values
      BY <2>2, <2>3
    <3>2. sdk' = [sdk EXCEPT !.pc = "echo", !.val = v]
      BY <1>12, <2>4 DEF RobotAnswers
    <3> HIDE DEF v
    <3>3. AtEntry'
      BY <2>1, <2>2, <3>1, <3>2, EchoStays
    <3>4. QED
      BY <2>3, <3>3
  <2>5. CASE ~Echoes(class[Current.dp], a)
    <3>1. NextEntry
      BY <1>12, <2>5 DEF RobotAnswers
    <3>2. AtEntry'
      BY <2>1, <2>2, <3>1, NextEntryMoves
    <3>3. QED
      BY <2>3, <3>2
  <2>6. QED
    BY <2>4, <2>5
<1>13. CASE RobotSilent
  <2>1. /\ AtEntry /\ sdk.pc = "send" /\ done' = done \cup {sdk.index}
        /\ sdk.pc # "idle" /\ NextEntry
    BY <1>13 DEF RobotSilent
  <2>2. /\ done' = sdk.index..Len(sdk.batch)
        /\ Current \in [dp : Points, val : Values]
    BY <2>1, EntryIsDone
  <2> HIDE DEF AtEntry
  <2>3. robot' \in States
    BY <1>13, <2>2 DEF RobotSilent
  <2>4. AtEntry'
    BY <2>1, <2>2, NextEntryMoves
  <2>5. QED
    BY <2>3, <2>4
<1>14. CASE LocalSet
  <2>1. /\ AtEntry /\ sdk.pc = "send" /\ done' = done \cup {sdk.index}
        /\ sdk' = [sdk EXCEPT !.pc = "echo", !.val = Current.val]
        /\ robot' = robot
    BY <1>14 DEF LocalSet
  <2>2. /\ done' = sdk.index..Len(sdk.batch)
        /\ Current \in [dp : Points, val : Values]
        /\ sdk.batch \in Batches /\ sdk.index \in 1..Len(sdk.batch)
    BY <2>1, EntryIsDone
  <2> HIDE DEF AtEntry
  <2>3. Current.val \in Values
    BY <2>2
  <2>4. AtEntry'
    BY <2>1, <2>2, <2>3, EchoStays
  <2>5. QED
    BY <2>1, <2>4
<1>15. CASE Echo
  <2>1. /\ AtEntry /\ sdk.pc # "idle" /\ NextEntry /\ robot' = robot
        /\ done' = sdk.index..Len(sdk.batch)
    BY <1>15 DEF Echo
  <2> HIDE DEF AtEntry
  <2>2. AtEntry'
    BY <2>1, NextEntryMoves
  <2>3. QED
    BY <2>1, <2>2
<1>16. ASSUME NEW b \in Batches, Command(b)
      PROVE  Cursor'
  <2>1. Len(b) \in Nat \ {0}
    BY BatchLength
  <2>2. /\ sdk' = [sdk EXCEPT !.pc = "send", !.batch = b, !.index = Len(b)]
        /\ done' = {} /\ robot' = robot
    BY <1>16 DEF Command, NextIndex
  <2> DEFINE B == Batches \cup {<<>>}
  <2>b. /\ sdk \in [pc : {"idle", "send", "echo"}, batch : B, index : Nat,
                    val : Values]
        /\ b \in B
    BY DEF AtEntry
  <2> HIDE DEF B
  <2>3. /\ sdk'.pc = "send" /\ sdk'.batch = b /\ sdk'.index = Len(b)
        /\ sdk' \in [pc : {"idle", "send", "echo"}, batch : B, index : Nat,
                     val : Values]
    <3> DEFINE n == Len(b)
    <3>1. n \in Nat /\ sdk' = [sdk EXCEPT !.pc = "send", !.batch = b, !.index = n]
      BY <2>1, <2>2
    <3>2. n = Len(b)
      OBVIOUS
    <3> HIDE DpAssumption DEF n, Cursor, AtEntry
    <3>3. sdk'.pc = "send" /\ sdk'.batch = b /\ sdk'.index = n
      BY <2>b, <3>1
    <3>4. sdk' \in [pc : {"idle", "send", "echo"}, batch : B, index : Nat,
                    val : Values]
      BY <2>b, <3>1
    <3>5. QED
      BY <3>2, <3>3, <3>4
  <2>4. (Len(b) + 1)..Len(b) = {} /\ Len(b) \in 1..Len(b)
    BY <2>1, NothingBehind
  <2>5. QED
    <3>1. /\ sdk'.batch \in Batches /\ sdk'.index \in 1..Len(sdk'.batch)
          /\ done' = (sdk'.index + 1)..Len(sdk'.batch)
      BY <2>2, <2>3, <2>4
    <3>2. AtEntry'
      BY <2>3, <3>1 DEF B
    <3>3. robot' \in States
      BY <2>2
    <3>4. QED
      BY <3>2, <3>3
<1>17. CASE ResetLife
  <2>1. /\ AtEntry /\ sdk.pc = "send" /\ done' = done \cup {sdk.index}
        /\ sdk.pc # "idle" /\ robot' = robot
        /\ sdk' = [sdk EXCEPT !.pc = "echo"] \/ NextEntry
    BY <1>17 DEF ResetLife
  <2>2. /\ done' = sdk.index..Len(sdk.batch)
        /\ sdk.batch \in Batches /\ sdk.index \in 1..Len(sdk.batch)
    BY <2>1, EntryIsDone
  <2>3. CASE sdk' = [sdk EXCEPT !.pc = "echo"]
    BY <2>1, <2>2, <2>3
  <2>4. CASE NextEntry
    <3> HIDE DEF AtEntry
    <3>1. AtEntry'
      BY <2>1, <2>2, <2>4, NextEntryMoves
    <3>2. QED
      BY <2>1, <3>1
  <2>5. QED
    BY <2>1, <2>3, <2>4
<1>18. CASE EchoLife
  <2>1. /\ AtEntry /\ sdk.pc # "idle" /\ NextEntry /\ robot' = robot
        /\ done' = sdk.index..Len(sdk.batch)
    BY <1>18 DEF EchoLife
  <2> HIDE DEF AtEntry
  <2>2. AtEntry'
    BY <2>1, NextEntryMoves
  <2>3. QED
    BY <2>1, <2>2
<1>19. CASE UNCHANGED vars
  BY <1>19 DEF vars
<1>20. QED
  BY <1>1, <1>2, <1>3, <1>4, <1>5, <1>6, <1>7, <1>8, <1>9, <1>10,
     <1>11, <1>12, <1>13, <1>14, <1>15, <1>16, <1>17, <1>18, <1>19
  DEF Next, Robot, NetStep, LcmStep, SdkStep

\* A command that names the start first has it put to the robot last, for
\* commands of any length and whatever the other threads do.
THEOREM StartIsLast == Spec => []StartLast
<1>1. Init => Cursor
  BY DpAssumption DEF Init, Cursor, AtEntry, States, AllDefault
<1>2. Cursor /\ [Next]_vars => Cursor'
  BY CursorStep
<1>3. Cursor => StartLast
  BY DEF Cursor, AtEntry, StartLast
<1>4. QED
  BY <1>1, <1>2, <1>3, PTL DEF Spec

\* The reported unit of a part's life stays in its range.
LEMMA Units ==
  ASSUME NEW a \in 0..MaxLife
  PROVE  a \div Hour \in 0..(MaxLife \div Hour)
<1>1. ASSUME NEW x \in Nat, NEW y \in Nat, NEW h \in Nat \ {0}, x <= y
      PROVE  x \div h \in 0..(y \div h)
  BY <1>1
<1>2. Hour \in Nat \ {0} /\ MaxLife \in Nat
  BY DpAssumption
<1>3. QED
  BY <1>1, <1>2

\* The part of the type invariant the command thread does not have alone.
Rest ==
    /\ class \in Classes
    /\ shadow \in States
    /\ life \in 0..MaxLife /\ partsLife \in 0..MaxLife
    /\ lifeShadow \in {0, 1} \cup 0..(MaxLife \div Hour)
    /\ news \in Seq(News)
    /\ online \in BOOLEAN /\ heard \in BOOLEAN
    /\ lcm \in [pc : {"idle", "report"}, state : States,
                at : 1..Len(ReportOrder)]
    /\ net \in [pc : {"idle", "ask", "report", "askLife", "reportLife"},
                state : States, life : 0..MaxLife,
                at : 1..Len(ReportOrder)]
    /\ suspect \subseteq Points

\* What the type invariant needs of the list of data points.
LEMMA Order ==
  /\ Len(ReportOrder) \in Nat \ {0}
  /\ \A k \in 1..Len(ReportOrder) : ReportOrder[k] \in Dps
<1>1. ReportOrder \in Seq(Dps)
  BY DpAssumption
<1>2. Len(ReportOrder) \in Nat
  BY <1>1
<1>3. \E k \in 1..Len(ReportOrder) : ReportOrder[k] = Go
  BY DpAssumption
<1>4. \A k \in 1..Len(ReportOrder) : ReportOrder[k] \in Dps
  BY <1>1
<1>5. QED
  BY <1>2, <1>3, <1>4

\* The network and the LCM thread hold a data point of the list.
LEMMA Moves ==
  ASSUME NEW at \in 1..Len(ReportOrder), at # Len(ReportOrder)
  PROVE  at + 1 \in 1..Len(ReportOrder)
BY Order

\* Every step keeps the types.
LEMMA RestStep == ASSUME Rest, Cursor, [Next]_vars PROVE Rest'
<1>0. /\ Default \in Values /\ Len(ReportOrder) \in Nat \ {0}
      /\ AllDefault \in States /\ 1 \in 1..Len(ReportOrder)
      /\ \A k \in 1..Len(ReportOrder) : ReportOrder[k] \in Dps
      /\ Dps \subseteq Points /\ "life" \in Points
      /\ 0 \in 0..MaxLife
  BY Order, DpAssumption DEF AllDefault, States, Points
<1>e. sdk.pc # "idle" => Current.dp \in Points /\ Current.val \in Values
  BY BatchLength DEF Cursor, AtEntry, Current
<1>t. ASSUME NEW d \in Dps, NEW v \in Values, RobotTakes(d, v)
      PROVE  news' \in Seq(News)
  <2>1. robot' \in States
    BY <1>t DEF RobotTakes, Cursor, States
  <2>2. [kind |-> "state", state |-> robot', life |-> 0] \in News
    BY <1>0, <2>1 DEF News
  <2>3. news' = news \/ news' = Append(news, [kind |-> "state", state |-> robot', life |-> 0])
    BY <1>t DEF RobotTakes
  <2>4. news \in Seq(News)
    BY DEF Rest
  <2>5. ASSUME NEW S, NEW s \in Seq(S), NEW e \in S PROVE Append(s, e) \in Seq(S)
    BY AppendProperties
  <2> HIDE DEF News
  <2>6. Append(news, [kind |-> "state", state |-> robot', life |-> 0]) \in Seq(News)
    BY <2>2, <2>4, <2>5, Zenon
  <2>7. QED
    BY <2>3, <2>4, <2>6, Zenon
<1>r. ASSUME NEW d \in Dps, NEW v \in Values, Report(d, v)
      PROVE  shadow' \in States /\ suspect' \subseteq Points
  BY <1>r, <1>0 DEF Report, Rest, States
<1>l. ASSUME NEW v \in 0..MaxLife, ReportLife(v \div Hour)
      PROVE  lifeShadow' \in {0, 1} \cup 0..(MaxLife \div Hour)
  BY <1>l, Units DEF ReportLife, Rest
<1>b. ASSUME NEW l \in 0..MaxLife, Broadcast(l)
      PROVE  news' \in Seq(News) /\ suspect' \subseteq Points /\ life' \in 0..MaxLife
  <2>1. [kind |-> "life", state |-> robot, life |-> l] \in News
    BY DEF News, Cursor
  <2>2. news' \in Seq(News)
    <3> HIDE DEF News
    <3>1. QED
      BY <1>b, <2>1 DEF Broadcast, Rest
  <2>3. suspect' \subseteq Points /\ life' \in 0..MaxLife
    BY <1>b, <1>0 DEF Broadcast, Overtaken, Rest
  <2>4. QED
    BY <2>2, <2>3
<1>h. ASSUME news # <<>>
      PROVE  /\ Head(news) \in News /\ Tail(news) \in Seq(News)
             /\ Head(news).state \in States /\ Head(news).life \in 0..MaxLife
  <2>1. Head(news) \in News /\ Tail(news) \in Seq(News)
    <3> HIDE DEF News
    <3>1. QED
      BY <1>h DEF Rest
  <2>2. QED
    BY <2>1 DEF News
<1>1. ASSUME NEW d \in Dps, NEW v \in Values, RobotChanges(d, v)
      PROVE  Rest'
  <2>1. news' \in Seq(News)
    BY <1>1, <1>t DEF RobotChanges
  <2>2. suspect' \subseteq Points
    BY <1>1, <1>0 DEF RobotChanges, Overtaken, Rest
  <2>3. QED
    BY <1>1, <2>1, <2>2 DEF RobotChanges, Rest
<1>2. ASSUME NEW l \in 0..MaxLife, LifeBecomes(l)
      PROVE  Rest'
  BY <1>2, <1>b DEF LifeBecomes, Rest
<1>3. CASE GoOffline
  BY <1>3 DEF GoOffline, Rest
<1>4. CASE MqttOnline
  BY <1>4 DEF MqttOnline, Rest
<1>5. CASE AskState
  BY <1>5, <1>0 DEF AskState, Rest, Cursor
<1>6. CASE AskLife
  BY <1>6 DEF AskLife, Rest
<1>7. CASE NetReportsLife
  <2>1. lifeShadow' \in {0, 1} \cup 0..(MaxLife \div Hour) /\ suspect' \subseteq Points
    BY <1>7, <1>0, <1>l DEF NetReportsLife, Rest
  <2>2. QED
    BY <1>7, <1>0, <2>1 DEF NetReportsLife, Rest
<1>8. CASE NetReports
  <2>1. net.at \in 1..Len(ReportOrder) /\ net.state \in States
    BY DEF Rest
  <2>2. ReportOrder[net.at] \in Dps /\ net.state[ReportOrder[net.at]] \in Values
    BY <1>0, <2>1 DEF States
  <2>3. shadow' \in States /\ suspect' \subseteq Points
    BY <1>8, <1>r, <2>2 DEF NetReports
  <2>4. net' \in [pc : {"idle", "ask", "report", "askLife", "reportLife"},
                  state : States, life : 0..MaxLife, at : 1..Len(ReportOrder)]
    BY <1>8, <1>0, <2>1, Moves DEF NetReports, Rest
  <2>5. QED
    BY <1>8, <2>3, <2>4 DEF NetReports, Rest
<1>9. CASE OnSweeperStatus
  <2>1. Tail(news) \in Seq(News) /\ Head(news).state \in States
    BY <1>9, <1>h DEF OnSweeperStatus
  <2>2. QED
    BY <1>9, <1>0, <2>1 DEF OnSweeperStatus, Rest
<1>10. CASE OnPartsLife
  <2>1. Tail(news) \in Seq(News) /\ Head(news).life \in 0..MaxLife
    BY <1>10, <1>h DEF OnPartsLife
  <2>2. lifeShadow' \in {0, 1} \cup 0..(MaxLife \div Hour)
    BY <1>10, <1>l, <2>1 DEF OnPartsLife, Rest
  <2>4. suspect' \subseteq Points /\ heard' \in BOOLEAN
    BY <1>10, <1>0 DEF OnPartsLife, LifeHeard, Rest
  <2>3. QED
    BY <1>10, <2>1, <2>2, <2>4 DEF OnPartsLife, Rest
<1>11. CASE LcmReports
  <2>1. lcm.at \in 1..Len(ReportOrder) /\ lcm.state \in States
    BY DEF Rest
  <2>2. ReportOrder[lcm.at] \in Dps /\ lcm.state[ReportOrder[lcm.at]] \in Values
    BY <1>0, <2>1 DEF States
  <2>3. shadow' \in States /\ suspect' \subseteq Points
    BY <1>11, <1>r, <2>2 DEF LcmReports
  <2>4. lcm' \in [pc : {"idle", "report"}, state : States, at : 1..Len(ReportOrder)]
    BY <1>11, <1>0, <2>1, Moves DEF LcmReports, Rest
  <2>5. QED
    BY <1>11, <2>3, <2>4 DEF LcmReports, Rest
<1>12. ASSUME NEW a \in BOOLEAN, RobotAnswers(a)
      PROVE  Rest'
  <2>1. Current.dp \in Dps /\ Current.val \in Values
    BY <1>12, <1>e DEF RobotAnswers
  <2>2. news' \in Seq(News)
    BY <1>12, <1>t, <2>1 DEF RobotAnswers, Rest
  <2>3. suspect' \subseteq Points
    BY <1>12, <1>0, <2>1 DEF RobotAnswers, Rest
  <2>4. QED
    BY <1>12, <2>2, <2>3 DEF RobotAnswers, Rest
<1>13. CASE RobotSilent
  <2>1. Current.dp \in Dps /\ Current.val \in Values
    BY <1>13, <1>e DEF RobotSilent
  <2>2. news' \in Seq(News)
    BY <1>13, <1>t, <2>1 DEF RobotSilent, Rest
  <2>3. suspect' \subseteq Points
    BY <1>13, <1>0, <2>1 DEF RobotSilent, Rest
  <2>4. QED
    BY <1>13, <2>2, <2>3 DEF RobotSilent, Rest
<1>14. CASE LocalSet
  <2>1. Current.dp \in Dps
    BY <1>14, <1>e DEF LocalSet
  <2>2. suspect' \subseteq Points
    BY <1>14, <1>0, <2>1 DEF LocalSet, Rest
  <2>3. QED
    BY <1>14, <2>2 DEF LocalSet, Rest
<1>15. CASE Echo
  <2>1. Current.dp \in Dps /\ sdk.val \in Values
    BY <1>15, <1>e DEF Echo, Cursor, AtEntry
  <2>2. shadow' \in States /\ suspect' \subseteq Points
    BY <1>15, <1>r, <2>1 DEF Echo
  <2>3. QED
    BY <1>15, <2>2 DEF Echo, Rest
<1>16. ASSUME NEW b \in Batches, Command(b)
      PROVE  Rest'
  BY <1>16 DEF Command, Rest
<1>17. CASE ResetLife
  <2>1. MaxLife \in 0..MaxLife
    BY DpAssumption
  <2>2. news' \in Seq(News) /\ suspect' \subseteq Points /\ life' \in 0..MaxLife
    BY <1>17, <1>b, <2>1 DEF ResetLife, Rest
  <2>3. QED
    BY <1>17, <2>2 DEF ResetLife, Rest
<1>18. CASE EchoLife
  BY <1>18, <1>0 DEF EchoLife, ReportLife, Rest
<1>19. CASE UNCHANGED vars
  BY <1>19 DEF vars, Rest
<1>20. QED
  BY <1>1, <1>2, <1>3, <1>4, <1>5, <1>6, <1>7, <1>8, <1>9, <1>10,
     <1>11, <1>12, <1>13, <1>14, <1>15, <1>16, <1>17, <1>18, <1>19
  DEF Next, Robot, NetStep, LcmStep, SdkStep

\* The initial states have the types and the cursor.
LEMMA Starts == Init => Cursor /\ Rest
<1>1. Init => Cursor
  BY DpAssumption DEF Init, Cursor, AtEntry, States, AllDefault
<1>2. /\ Default \in Values /\ 1 \in 1..Len(ReportOrder)
      /\ 0 \in 0..MaxLife /\ MaxLife \in 0..MaxLife
      /\ 0 \in 0..(MaxLife \div Hour)
  BY DpAssumption, Order, Units
<1>3. ASSUME Init PROVE Rest
  <2>1. AllDefault \in States /\ shadow \in States
    BY <1>2, <1>3 DEF Init, AllDefault, States
  <2>2. news \in Seq(News)
    BY <1>3 DEF Init
  <2>3. lcm \in [pc : {"idle", "report"}, state : States, at : 1..Len(ReportOrder)]
    BY <1>2, <1>3, <2>1 DEF Init
  <2>4. net \in [pc : {"idle", "ask", "report", "askLife", "reportLife"},
                 state : States, life : 0..MaxLife, at : 1..Len(ReportOrder)]
    BY <1>2, <1>3, <2>1 DEF Init
  <2>5. QED
    BY <1>2, <1>3, <2>1, <2>2, <2>3, <2>4 DEF Init, Rest
<1>4. QED
  BY <1>1, <1>3

\* Type correctness: in particular the command thread never indexes past its
\* batch and the reporting threads never past the list of data points.
THEOREM TypeCorrect == Spec => []TypeOK
<1>1. Init => Cursor /\ Rest
  BY Starts
<1>2. Cursor /\ Rest /\ [Next]_vars => (Cursor /\ Rest)'
  BY CursorStep, RestStep
<1>3. Cursor /\ Rest => TypeOK
  <2>1. ASSUME Cursor PROVE done \subseteq 1..Len(sdk.batch) \/ sdk.pc = "idle"
    BY <2>1, BatchLength DEF Cursor, AtEntry
  <2>2. QED
    BY <2>1 DEF Cursor, AtEntry, Rest, TypeOK
<1>4. QED
  BY <1>1, <1>2, <1>3, PTL DEF Spec
----------------------------------------------------------------------------
(* The cloud's copy of the robot's state.                                   *)

\* A broadcast of this kind is waiting.
Waiting(c) == \E k \in 1..Len(news) : news[k].kind = c

\* Broadcast k is the last of its kind that waits.
LastOf(k) == \A j \in (k + 1)..Len(news) : news[j].kind # news[k].kind

\* The last broadcast of each kind shows the robot as it is.
Broadcasts ==
    \A k \in 1..Len(news) : LastOf(k) =>
        /\ news[k].kind = "state" => news[k].state = robot
        /\ news[k].kind = "life" => news[k].life = life

\* Data point d is still to be reported from the broadcast being handled.
HeldByLcm(d) ==
    lcm.pc = "report" /\ \E k \in lcm.at..Len(ReportOrder) : ReportOrder[k] = d

\* Whoever holds the last word on a data point holds the robot's value.
LastWord ==
    /\ lcm.pc = "report" /\ ~Waiting("state") => lcm.state = robot
    /\ \A d \in Dps \ suspect :
          /\ d \in HeldBySdk => sdk.val = robot[d]
          /\ d \in HeldByNet => net.state[d] = robot[d]
          /\ ~Waiting("state") /\ ~HeldByLcm(d) /\ d \notin HeldBySdk
             /\ d \notin HeldByNet => shadow[d] = robot[d]

\* A broadcast is appended, the oldest one is taken.
LEMMA Appended ==
  ASSUME news \in Seq(News), NEW e \in News, news' = Append(news, e)
  PROVE  /\ Len(news) \in Nat /\ Len(news') = Len(news) + 1
         /\ \A k \in 1..Len(news) : news'[k] = news[k]
         /\ news'[Len(news) + 1] = e
         /\ \A c : Waiting(c)' <=> Waiting(c) \/ e.kind = c
<1> HIDE DEF News
<1>1. /\ Len(news) \in Nat /\ Len(news') = Len(news) + 1
      /\ \A k \in 1..Len(news) : news'[k] = news[k]
      /\ news'[Len(news) + 1] = e
  BY AppendProperties, LenProperties
<1>2. ASSUME NEW c PROVE Waiting(c)' <=> Waiting(c) \/ e.kind = c
  BY <1>1 DEF Waiting
<1>3. QED
  BY <1>1, <1>2

LEMMA Popped ==
  ASSUME news \in Seq(News), news # <<>>, news' = Tail(news)
  PROVE  /\ Len(news) \in Nat /\ Len(news) >= 1 /\ Len(news') = Len(news) - 1
         /\ \A k \in 1..Len(news') : news'[k] = news[k + 1]
         /\ news[1] = Head(news)
         /\ \A c : Waiting(c) <=> Waiting(c)' \/ news[1].kind = c
<1> HIDE DEF News
<1>1. /\ Len(news) \in Nat /\ Len(news) >= 1 /\ Len(news') = Len(news) - 1
      /\ \A k \in 1..Len(news') : news'[k] = news[k + 1]
      /\ news[1] = Head(news)
  BY HeadTailProperties, LenProperties, EmptySeq
<1>2. ASSUME NEW c PROVE Waiting(c) <=> Waiting(c)' \/ news[1].kind = c
  <2>1. \A k \in 2..Len(news) : k - 1 \in 1..Len(news') /\ news'[k - 1] = news[k]
    BY <1>1
  <2>2. \A k \in 1..Len(news') : k + 1 \in 1..Len(news)
    BY <1>1
  <2>3. \A k \in 1..Len(news) : k = 1 \/ k \in 2..Len(news)
    BY <1>1
  <2>4. 1 \in 1..Len(news)
    BY <1>1
  <2>5. ASSUME Waiting(c) PROVE Waiting(c)' \/ news[1].kind = c
    BY <2>1, <2>3, <2>5 DEF Waiting
  <2>6. ASSUME Waiting(c)' PROVE Waiting(c)
    BY <1>1, <2>2, <2>6 DEF Waiting
  <2>7. ASSUME news[1].kind = c PROVE Waiting(c)
    BY <2>4, <2>7 DEF Waiting
  <2>8. QED
    BY <2>5, <2>6, <2>7
<1>3. QED
  BY <1>1, <1>2

\* The command's entry.
LEMMA CurrentEntry ==
  ASSUME Cursor, sdk.pc # "idle"
  PROVE  Current.dp \in Points /\ Current.val \in Values
BY BatchLength DEF Cursor, AtEntry, Current

\* What a step can do to the robot and its broadcasts.
LEMMA Effects ==
  ASSUME Cursor, Rest, [Next]_vars
  PROVE  \/ \E d \in Dps, v \in Values : RobotTakes(d, v) /\ life' = life
         \/ \E l \in 0..MaxLife : Broadcast(l) /\ robot' = robot
         \/ /\ news # <<>> /\ news' = Tail(news)
            /\ robot' = robot /\ life' = life
         \/ UNCHANGED <<news, robot, life>>
<1>1. ASSUME NEW d \in Dps, NEW v \in Values, RobotChanges(d, v)
      PROVE  RobotTakes(d, v) /\ life' = life
  BY <1>1 DEF RobotChanges
<1>2. ASSUME NEW l \in 0..MaxLife, LifeBecomes(l)
      PROVE  Broadcast(l) /\ robot' = robot
  BY <1>2 DEF LifeBecomes
<1>11. CASE ResetLife
  <2>1. MaxLife \in 0..MaxLife
    BY DpAssumption
  <2>2. robot' = robot /\ (Broadcast(MaxLife) \/ UNCHANGED <<news, life>>)
    BY <1>11 DEF ResetLife
  <2>3. QED
    BY <2>1, <2>2
<1>12. CASE EchoLife
  BY <1>12 DEF EchoLife
<1>3. CASE GoOffline \/ MqttOnline \/ NetStep \/ LcmReports \/ LocalSet \/ Echo
  BY <1>3 DEF GoOffline, MqttOnline, NetStep, AskState, AskLife, NetReportsLife,
              NetReports, LcmReports, LocalSet, Echo
<1>4. CASE OnSweeperStatus \/ OnPartsLife
  BY <1>4 DEF OnSweeperStatus, OnPartsLife
<1>5. ASSUME NEW a \in BOOLEAN, RobotAnswers(a)
      PROVE  \/ UNCHANGED <<news, robot, life>>
             \/ RobotTakes(Current.dp, Current.val) /\ life' = life /\ Current.dp \in Dps
  BY <1>5 DEF RobotAnswers
<1>6. CASE RobotSilent
  BY <1>6, CurrentEntry DEF RobotSilent
<1>7. ASSUME NEW b \in Batches, Command(b)
      PROVE  UNCHANGED <<news, robot, life>>
  BY <1>7 DEF Command
<1>8. CASE UNCHANGED vars
  BY <1>8 DEF vars
<1>9. ASSUME NEW a \in BOOLEAN, RobotAnswers(a)
      PROVE  \/ UNCHANGED <<news, robot, life>>
             \/ \E d \in Dps, v \in Values : RobotTakes(d, v) /\ life' = life
  <2>1. sdk.pc # "idle"
    BY <1>9 DEF RobotAnswers
  <2>2. QED
    BY <1>5, <1>9, <2>1, CurrentEntry
<1>10. QED
  BY <1>1, <1>2, <1>3, <1>4, <1>6, <1>7, <1>8, <1>9, <1>11, <1>12
  DEF Next, Robot, LcmStep, SdkStep

\* A value the robot takes is broadcast, or is the one it had.
LEMMA Taken ==
  ASSUME Cursor, Rest, NEW d \in Dps, NEW v \in Values, RobotTakes(d, v)
  PROVE  /\ robot' \in States /\ robot'[d] = v
         /\ \A e \in Dps \ {d} : robot'[e] = robot[e]
         /\ \/ robot' = robot /\ news' = news
            \/ /\ [kind |-> "state", state |-> robot', life |-> 0] \in News
               /\ news' = Append(news, [kind |-> "state", state |-> robot', life |-> 0])
<1>1. robot \in [Dps -> Values] /\ robot' = [robot EXCEPT ![d] = v]
  BY DEF Cursor, States, RobotTakes
<1>2. robot' \in States /\ robot'[d] = v /\ \A e \in Dps \ {d} : robot'[e] = robot[e]
  BY <1>1 DEF States
<1>3. CASE robot[d] = v
  BY <1>1, <1>2, <1>3 DEF RobotTakes
<1>4. CASE robot[d] # v
  <2>1. 0 \in 0..MaxLife
    BY DpAssumption
  <2>2. QED
    BY <1>2, <1>4, <2>1 DEF RobotTakes, News
<1>5. QED
  BY <1>2, <1>3, <1>4

\* Every step leaves the last broadcasts of the robot true.
LEMMA BroadcastsStep ==
  ASSUME Cursor, Rest, Broadcasts, [Next]_vars PROVE Broadcasts'
<1>0. news \in Seq(News) /\ Len(news) \in Nat
  <2> HIDE DEF News
  <2>1. QED
    BY DEF Rest
<1>a. ASSUME NEW e \in News, news' = Append(news, e),
             \/ e.kind = "state" /\ e.state = robot' /\ life' = life
             \/ e.kind = "life" /\ e.life = life' /\ robot' = robot
      PROVE  Broadcasts'
  <2>1. /\ Len(news') = Len(news) + 1
        /\ \A k \in 1..Len(news) : news'[k] = news[k]
        /\ news'[Len(news) + 1] = e
    BY <1>0, <1>a, Appended
  <2>2. ASSUME NEW k \in 1..Len(news'), LastOf(k)'
        PROVE  /\ news'[k].kind = "state" => news'[k].state = robot'
               /\ news'[k].kind = "life" => news'[k].life = life'
    <3>1. CASE k = Len(news) + 1
      BY <1>a, <2>1, <3>1
    <3>2. CASE k \in 1..Len(news)
      <4>1. /\ news'[k] = news[k] /\ news[k].kind # e.kind
            /\ \A j \in (k + 1)..Len(news) : news[j].kind # news[k].kind
        BY <1>0, <2>1, <2>2, <3>2 DEF LastOf
      <4>2. /\ news[k].kind = "state" => news[k].state = robot
            /\ news[k].kind = "life" => news[k].life = life
        BY <3>2, <4>1 DEF Broadcasts, LastOf
      <4>3. QED
        BY <1>a, <4>1, <4>2
    <3>3. k = Len(news) + 1 \/ k \in 1..Len(news)
      BY <1>0, <2>1
    <3>4. QED
      BY <3>1, <3>2, <3>3
  <2>3. QED
    BY <2>2 DEF Broadcasts
<1>1. ASSUME NEW d \in Dps, NEW v \in Values, RobotTakes(d, v), life' = life
      PROVE  Broadcasts'
  <2>1. CASE robot' = robot /\ news' = news
    BY <1>1, <2>1 DEF Broadcasts, LastOf
  <2> DEFINE e == [kind |-> "state", state |-> robot', life |-> 0]
  <2>2. CASE e \in News /\ news' = Append(news, e)
    <3>1. e.kind = "state" /\ e.state = robot'
      OBVIOUS
    <3> HIDE DEF e
    <3>2. QED
      BY <1>1, <1>a, <2>2, <3>1
  <2>3. QED
    BY <1>1, <2>1, <2>2, Taken
<1>2. ASSUME NEW l \in 0..MaxLife, Broadcast(l), robot' = robot
      PROVE  Broadcasts'
  <2> DEFINE e == [kind |-> "life", state |-> robot, life |-> l]
  <2>1. e \in News /\ e.kind = "life" /\ e.life = life' /\ robot' = robot
        /\ news' = Append(news, e)
    BY <1>2 DEF Broadcast, News, Cursor
  <2> HIDE DEF e
  <2>2. QED
    BY <1>a, <2>1
<1>3. ASSUME news # <<>>, news' = Tail(news), robot' = robot, life' = life
      PROVE  Broadcasts'
  <2>1. /\ Len(news') = Len(news) - 1 /\ Len(news) >= 1
        /\ \A k \in 1..Len(news') : news'[k] = news[k + 1]
    BY <1>0, <1>3, Popped
  <2>2. ASSUME NEW k \in 1..Len(news'), LastOf(k)'
        PROVE  k + 1 \in 1..Len(news) /\ LastOf(k + 1)
    <3>1. k + 1 \in 1..Len(news)
      BY <1>0, <2>1
    <3>2. ASSUME NEW j \in (k + 2)..Len(news) PROVE news[j].kind # news[k + 1].kind
      <4>1. j - 1 \in (k + 1)..Len(news') /\ j - 1 \in 1..Len(news') /\ (j - 1) + 1 = j
        BY <1>0, <2>1
      <4>2. news'[j - 1].kind # news'[k].kind
        BY <2>2, <4>1 DEF LastOf
      <4>3. QED
        BY <2>1, <4>1, <4>2
    <3>3. k + 1 + 1 = k + 2
      BY <1>0, <2>1
    <3>4. QED
      BY <3>1, <3>2, <3>3 DEF LastOf
  <2>3. QED
    BY <1>3, <2>1, <2>2 DEF Broadcasts
<1>4. ASSUME UNCHANGED <<news, robot, life>>
      PROVE  Broadcasts'
  BY <1>4 DEF Broadcasts, LastOf
<1>5. QED
  BY <1>1, <1>2, <1>3, <1>4, Effects

\* A data point is held by ReportAll, by the broadcast's handler, when its
\* place in the list is still to come.
LEMMA ListHolds ==
  ASSUME Rest, NEW d \in Dps
  PROVE  /\ d \in HeldByNet <=>
               net.pc = "report" /\ \E k \in net.at..Len(ReportOrder) : ReportOrder[k] = d
         /\ d \in HeldByNet' <=>
               net'.pc = "report" /\ \E k \in net'.at..Len(ReportOrder) : ReportOrder[k] = d
         /\ \E k \in 1..Len(ReportOrder) : ReportOrder[k] = d
<1>1. d # "life" /\ \E k \in 1..Len(ReportOrder) : ReportOrder[k] = d
  BY DpAssumption
<1>2. QED
  BY <1>1 DEF HeldByNet

\* The list of a reporting thread without its first data point.
LEMMA ListAdvances ==
  ASSUME NEW at \in 1..Len(ReportOrder), NEW d
  PROVE  /\ at = Len(ReportOrder) =>
               ((\E k \in at..Len(ReportOrder) : ReportOrder[k] = d)
                <=> ReportOrder[at] = d)
         /\ (\E k \in at..Len(ReportOrder) : ReportOrder[k] = d)
               <=> \/ ReportOrder[at] = d
                   \/ \E k \in (at + 1)..Len(ReportOrder) : ReportOrder[k] = d
<1>1. Len(ReportOrder) \in Nat /\ at \in Nat /\ at <= Len(ReportOrder)
  BY Order
<1>2. \A k \in at..Len(ReportOrder) : k = at \/ k \in (at + 1)..Len(ReportOrder)
  BY <1>1
<1>3. \A k \in (at + 1)..Len(ReportOrder) : k \in at..Len(ReportOrder)
  BY <1>1
<1>4. at \in at..Len(ReportOrder)
  BY <1>1
<1>5. at = Len(ReportOrder) => \A k \in at..Len(ReportOrder) : k = at
  BY <1>1
<1>6. QED
  BY <1>2, <1>3, <1>4, <1>5

\* A step that moves no value of a data point.
LEMMA WordKept ==
  ASSUME LastWord, robot' = robot, shadow' = shadow, lcm' = lcm,
         Waiting("state")' <=> Waiting("state"),
         Dps \cap suspect \subseteq suspect',
         \A d \in Dps : (d \in HeldBySdk' <=> d \in HeldBySdk)
                        /\ (d \in HeldBySdk => sdk'.val = sdk.val),
         Dps \cap HeldByNet' = Dps \cap HeldByNet, net'.state = net.state
  PROVE  LastWord'
<1>1. \A d : HeldByLcm(d)' <=> HeldByLcm(d)
  BY DEF HeldByLcm
<1>2. QED
  BY <1>1 DEF LastWord

\* A step in which the robot may change data point d.
LEMMA WordTaken ==
  ASSUME LastWord, NEW d \in Dps,
         \A e \in Dps \ {d} : robot'[e] = robot[e],
         \/ robot' = robot /\ news' = news
         \/ Waiting("state")' /\ {d} \cap HeldByNet \subseteq suspect',
         shadow' = shadow, lcm' = lcm, net' = net, suspect \subseteq suspect',
         HeldBySdk \subseteq HeldBySdk',
         \A e \in Dps \ suspect' : e \in HeldBySdk' => sdk'.val = robot'[e]
  PROVE  LastWord'
<1>1. (\A e : HeldByLcm(e)' <=> HeldByLcm(e)) /\ HeldByNet' = HeldByNet
  BY DEF HeldByLcm, HeldByNet
<1>2. CASE robot' = robot /\ news' = news
  <2>1. Waiting("state")' <=> Waiting("state")
    BY <1>2 DEF Waiting
  <2>2. QED
    BY <1>1, <1>2, <2>1 DEF LastWord
<1>3. CASE Waiting("state")' /\ {d} \cap HeldByNet \subseteq suspect'
  <2>1. ASSUME NEW e \in Dps \ suspect'
        PROVE  /\ e \in HeldBySdk' => sdk'.val = robot'[e]
               /\ e \in HeldByNet' => net'.state[e] = robot'[e]
    BY <1>1, <1>3 DEF LastWord
  <2>2. QED
    BY <1>3, <2>1 DEF LastWord
<1>4. QED
  BY <1>2, <1>3

\* A step in which a thread reports value v of data point d.
LEMMA WordReported ==
  ASSUME Rest, LastWord, NEW d \in Dps, NEW v, Report(d, v),
         robot' = robot, news' = news,
         d \notin suspect /\ ~Waiting("state") => v = robot[d],
         lcm'.pc = "report" => lcm.pc = "report" /\ lcm'.state = lcm.state,
         \A e \in Dps :
            /\ e \in HeldBySdk' => e \in HeldBySdk /\ sdk'.val = sdk.val
            /\ e \in HeldByNet' => e \in HeldByNet /\ net'.state = net.state
            /\ e # d /\ e \in HeldBySdk => e \in HeldBySdk'
            /\ e # d /\ e \in HeldByNet => e \in HeldByNet'
            /\ e # d /\ HeldByLcm(e) => HeldByLcm(e)'
  PROVE  LastWord'
<1>1. Waiting("state")' <=> Waiting("state")
  BY DEF Waiting
<1>2. ASSUME NEW e \in Dps \ suspect'
      PROVE  /\ e \in HeldBySdk' => sdk'.val = robot'[e]
             /\ e \in HeldByNet' => net'.state[e] = robot'[e]
             /\ ~Waiting("state") /\ ~HeldByLcm(e)' /\ e \notin HeldBySdk'
                /\ e \notin HeldByNet' => shadow'[e] = robot'[e]
  <2>1. e \notin suspect /\ (e = d => online)
    BY DEF Report
  <2>2. (e # d => shadow'[e] = shadow[e]) /\ (e = d => shadow'[e] = v)
    BY <2>1 DEF Report, Rest, States
  <2>3. CASE e = d
    BY <2>1, <2>2, <2>3 DEF LastWord
  <2>4. CASE e # d
    BY <2>1, <2>2, <2>4 DEF LastWord
  <2>5. QED
    BY <2>3, <2>4
<1>3. lcm'.pc = "report" /\ ~Waiting("state") => lcm'.state = robot'
  BY DEF LastWord
<1>4. QED
  BY <1>1, <1>2, <1>3 DEF LastWord

\* After an entry the command thread holds nothing.
LEMMA NothingHeld ==
  ASSUME Cursor, sdk.pc # "idle", NextEntry
  PROVE  HeldBySdk' = {}
<1>1. sdk'.pc \in {"idle", "send"}
  BY DEF NextEntry, Cursor, AtEntry
<1>2. QED
  BY <1>1 DEF HeldBySdk

\* Every step keeps it so that whoever has the last word has the right one.
LEMMA LastWordStep ==
  ASSUME Cursor, Rest, Broadcasts, LastWord, [Next]_vars PROVE LastWord'
<1>0. news \in Seq(News) /\ lcm.at \in 1..Len(ReportOrder) /\ net.at \in 1..Len(ReportOrder)
      /\ \A k \in 1..Len(ReportOrder) : ReportOrder[k] \in Dps
  <2> HIDE DEF News
  <2>1. QED
    BY Order DEF Rest
<1>l. "life" \notin Dps
  BY DpAssumption
<1>w. news' = news => (Waiting("state")' <=> Waiting("state"))
  BY DEF Waiting
<1>t. ASSUME NEW d \in Dps, NEW v \in Values, RobotTakes(d, v)
      PROVE  /\ robot'[d] = v
             /\ \A e \in Dps \ {d} : robot'[e] = robot[e]
             /\ (robot' = robot /\ news' = news) \/ Waiting("state")'
  <2> DEFINE e == [kind |-> "state", state |-> robot', life |-> 0]
  <2>1. CASE e \in News /\ news' = Append(news, e)
    <3>1. e.kind = "state"
      OBVIOUS
    <3> HIDE DEF e
    <3>2. Waiting("state")'
      BY <1>0, <2>1, <3>1, Appended
    <3>3. QED
      BY <1>t, <3>2, Taken
  <2>2. QED
    BY <1>t, <2>1, Taken
<1>1. ASSUME NEW d \in Dps, NEW v \in Values, RobotChanges(d, v)
      PROVE  LastWord'
  <2>1. /\ RobotTakes(d, v) /\ shadow' = shadow /\ lcm' = lcm /\ net' = net
        /\ sdk' = sdk /\ suspect' = suspect \cup Overtaken(d)
    BY <1>1 DEF RobotChanges
  <2>2. HeldBySdk' = HeldBySdk
    BY <2>1 DEF HeldBySdk, Current
  <2>3. {d} \cap HeldByNet \subseteq suspect' /\ {d} \cap HeldBySdk \subseteq suspect'
    BY <2>1 DEF Overtaken
  <2>4. \A e \in Dps \ suspect' : e \in HeldBySdk' => sdk'.val = robot'[e]
    BY <1>t, <2>1, <2>2, <2>3 DEF LastWord
  <2>5. QED
    BY <1>t, <2>1, <2>2, <2>3, <2>4, WordTaken
<1>b. ASSUME NEW l \in 0..MaxLife, Broadcast(l), robot' = robot
      PROVE  (Waiting("state")' <=> Waiting("state")) /\ suspect \subseteq suspect'
  <2> DEFINE e == [kind |-> "life", state |-> robot, life |-> l]
  <2>1. e \in News /\ e.kind = "life" /\ news' = Append(news, e)
        /\ suspect \subseteq suspect'
    BY <1>b DEF Broadcast, News, Cursor
  <2> HIDE DEF e
  <2>2. QED
    BY <1>0, <2>1, Appended
<1>2. ASSUME NEW l \in 0..MaxLife, LifeBecomes(l)
      PROVE  LastWord'
  <2>1. /\ robot' = robot /\ shadow' = shadow /\ lcm' = lcm /\ sdk' = sdk /\ net' = net
        /\ Broadcast(l)
    BY <1>2 DEF LifeBecomes
  <2>2. HeldBySdk' = HeldBySdk /\ HeldByNet' = HeldByNet
    BY <2>1 DEF HeldBySdk, HeldByNet, Current
  <2>3. QED
    BY <1>b, <2>1, <2>2, WordKept
<1>3. CASE GoOffline
  BY <1>3, <1>w, WordKept DEF GoOffline, HeldBySdk, HeldByNet, Current
<1>4. CASE MqttOnline
  <2>1. /\ robot' = robot /\ shadow' = shadow /\ lcm' = lcm /\ sdk' = sdk
        /\ suspect' = suspect /\ news' = news
        /\ net.pc = "idle" /\ net'.pc = "ask" /\ net'.state = net.state
    BY <1>4 DEF MqttOnline, Rest
  <2>2. HeldByNet' = {} /\ HeldByNet = {} /\ HeldBySdk' = HeldBySdk
    BY <2>1 DEF HeldByNet, HeldBySdk, Current
  <2>3. QED
    BY <1>w, <2>1, <2>2, WordKept
<1>5. CASE AskState
  <2>1. /\ robot' = robot /\ shadow' = shadow /\ lcm' = lcm /\ sdk' = sdk /\ news' = news
        /\ net.pc = "ask"
    BY <1>5 DEF AskState
  <2>2. HeldBySdk' = HeldBySdk /\ \A e : HeldByLcm(e)' <=> HeldByLcm(e)
    BY <2>1 DEF HeldBySdk, Current, HeldByLcm
  <2>3. CASE /\ net' = [net EXCEPT !.pc = "report", !.state = robot, !.at = 1]
             /\ suspect' = suspect \ (Dps \ HeldBySdk)
    <3>1. net'.pc = "report" /\ net'.state = robot /\ net'.at = 1
      BY <2>3 DEF Rest
    <3>2. \A d \in Dps : d \in HeldByNet'
      BY <3>1, ListHolds
    <3>3. \A d \in Dps \ suspect' : d \in HeldBySdk => sdk.val = robot[d]
      BY <2>3 DEF LastWord
    <3>4. QED
      BY <1>w, <2>1, <2>2, <3>1, <3>2, <3>3 DEF LastWord
  <2>4. CASE net' = [net EXCEPT !.pc = "askLife"] /\ suspect' = suspect
    <3>1. net'.pc = "askLife" /\ net'.state = net.state
      BY <2>4 DEF Rest
    <3>2. HeldByNet' = {} /\ HeldByNet = {}
      BY <2>1, <3>1 DEF HeldByNet
    <3>3. QED
      BY <1>w, <2>1, <2>2, <2>4, <3>1, <3>2, WordKept
  <2>5. QED
    BY <1>5, <2>3, <2>4 DEF AskState
<1>6. CASE AskLife
  <2>1. /\ robot' = robot /\ shadow' = shadow /\ lcm' = lcm /\ sdk' = sdk /\ news' = news
        /\ suspect \ {"life"} \subseteq suspect'
        /\ net.pc = "askLife" /\ net'.pc \in {"reportLife", "idle"} /\ net'.state = net.state
    BY <1>6 DEF AskLife, Rest
  <2>2. /\ HeldByNet = {} /\ HeldByNet' \subseteq {"life"} /\ HeldBySdk' = HeldBySdk
    BY <2>1 DEF HeldByNet, HeldBySdk, Current
  <2>3. QED
    BY <1>l, <1>w, <2>1, <2>2, WordKept
<1>7. CASE NetReportsLife
  <2>1. /\ robot' = robot /\ shadow' = shadow /\ lcm' = lcm /\ sdk' = sdk /\ news' = news
        /\ suspect \subseteq suspect'
        /\ net.pc = "reportLife" /\ net'.pc = "idle" /\ net'.state = net.state
    BY <1>7 DEF NetReportsLife, ReportLife, Rest
  <2>2. /\ HeldByNet = {"life"} /\ HeldByNet' = {} /\ HeldBySdk' = HeldBySdk
    BY <2>1 DEF HeldByNet, HeldBySdk, Current
  <2>3. QED
    BY <1>l, <1>w, <2>1, <2>2, WordKept
<1>8. CASE NetReports
  <2> DEFINE d == ReportOrder[net.at]
  <2>1. /\ robot' = robot /\ lcm' = lcm /\ sdk' = sdk /\ news' = news
        /\ net.pc = "report" /\ Report(d, net.state[d])
    BY <1>8 DEF NetReports
  <2>2. /\ d \in Dps
        /\ net'.pc = "report" => net'.at = net.at + 1 /\ net'.state = net.state
        /\ net'.pc # "report" => net.at = Len(ReportOrder)
    BY <1>8, <1>0 DEF NetReports, Rest
  <2>3. HeldBySdk' = HeldBySdk /\ \A e : HeldByLcm(e)' <=> HeldByLcm(e)
    BY <2>1 DEF HeldBySdk, Current, HeldByLcm
  <2>4. ASSUME NEW e \in Dps
        PROVE  /\ e \in HeldByNet <=> e = d \/ e \in HeldByNet'
               /\ e \in HeldByNet' => net'.state = net.state
    <3>1. CASE net'.pc = "report"
      BY <1>0, <2>1, <2>2, <3>1, ListHolds, ListAdvances
    <3>2. CASE net'.pc # "report"
      BY <1>0, <2>1, <2>2, <3>2, ListHolds, ListAdvances
    <3>3. QED
      BY <3>1, <3>2
  <2>5. d \in HeldByNet
    BY <2>2, <2>4
  <2>6. d \notin suspect => net.state[d] = robot[d]
    BY <2>2, <2>5 DEF LastWord
  <2> HIDE DEF d
  <2>7. QED
    BY <2>1, <2>2, <2>3, <2>4, <2>6, WordReported
<1>9. CASE OnSweeperStatus
  <2>1. /\ robot' = robot /\ sdk' = sdk /\ net' = net /\ suspect' = suspect
        /\ news # <<>> /\ news' = Tail(news) /\ Head(news).kind = "state"
        /\ lcm' = [lcm EXCEPT !.pc = "report", !.state = Head(news).state, !.at = 1]
    BY <1>9 DEF OnSweeperStatus
  <2>2. lcm'.pc = "report" /\ lcm'.state = Head(news).state /\ lcm'.at = 1
    BY <2>1 DEF Rest
  <2>3. /\ HeldBySdk' = HeldBySdk /\ HeldByNet' = HeldByNet
        /\ \A d \in Dps : HeldByLcm(d)'
    BY <2>1, <2>2, ListHolds DEF HeldBySdk, HeldByNet, Current, HeldByLcm
  <2>4. ASSUME ~Waiting("state")' PROVE Head(news).state = robot
    <3>1. /\ Len(news) \in Nat /\ Len(news) >= 1 /\ Len(news') = Len(news) - 1
          /\ \A k \in 1..Len(news') : news'[k] = news[k + 1]
          /\ news[1] = Head(news)
      BY <1>0, <2>1, Popped
    <3>2. ASSUME NEW j \in 2..Len(news) PROVE news[j].kind # "state"
      <4>1. j - 1 \in 1..Len(news') /\ (j - 1) + 1 = j
        BY <3>1
      <4>2. QED
        BY <2>4, <3>1, <4>1 DEF Waiting
    <3>3. 1 \in 1..Len(news) /\ LastOf(1) /\ news[1].kind = "state"
      BY <2>1, <3>1, <3>2 DEF LastOf
    <3>4. QED
      BY <3>1, <3>3 DEF Broadcasts
  <2>5. QED
    BY <2>1, <2>2, <2>3, <2>4 DEF LastWord
<1>10. CASE OnPartsLife
  <2>1. /\ robot' = robot /\ sdk' = sdk /\ net' = net /\ lcm' = lcm /\ shadow' = shadow
        /\ suspect \ {"life"} \subseteq suspect'
        /\ news # <<>> /\ news' = Tail(news) /\ Head(news).kind = "life"
    BY <1>10 DEF OnPartsLife, LifeHeard
  <2>2. Waiting("state")' <=> Waiting("state")
    BY <1>0, <2>1, Popped
  <2>3. HeldBySdk' = HeldBySdk /\ HeldByNet' = HeldByNet
    BY <2>1 DEF HeldBySdk, HeldByNet, Current
  <2>4. QED
    BY <1>l, <2>1, <2>2, <2>3, WordKept
<1>11. CASE LcmReports
  <2> DEFINE d == ReportOrder[lcm.at]
  <2>1. /\ robot' = robot /\ net' = net /\ sdk' = sdk /\ news' = news
        /\ lcm.pc = "report" /\ Report(d, lcm.state[d])
    BY <1>11 DEF LcmReports
  <2>2. /\ d \in Dps
        /\ lcm'.pc = "report" => lcm'.at = lcm.at + 1 /\ lcm'.state = lcm.state
        /\ lcm'.pc # "report" => lcm.at = Len(ReportOrder)
    BY <1>11, <1>0 DEF LcmReports, Rest
  <2>3. HeldBySdk' = HeldBySdk /\ HeldByNet' = HeldByNet
    BY <2>1 DEF HeldBySdk, Current, HeldByNet
  <2>4. ASSUME NEW e \in Dps
        PROVE  e # d /\ HeldByLcm(e) => HeldByLcm(e)'
    <3>1. CASE lcm'.pc = "report"
      BY <1>0, <2>1, <2>2, <3>1, ListAdvances DEF HeldByLcm
    <3>2. CASE lcm'.pc # "report"
      BY <1>0, <2>1, <2>2, <3>2, ListAdvances DEF HeldByLcm
    <3>3. QED
      BY <3>1, <3>2
  <2>5. ~Waiting("state") => lcm.state[d] = robot[d]
    BY <2>1 DEF LastWord
  <2> HIDE DEF d
  <2>6. QED
    BY <2>1, <2>2, <2>3, <2>4, <2>5, WordReported
<1>12. ASSUME NEW a \in BOOLEAN, RobotAnswers(a)
      PROVE  LastWord'
  <2> DEFINE d == Current.dp
             v == Current.val
  <2>1. /\ sdk.pc = "send" /\ shadow' = shadow /\ lcm' = lcm /\ net' = net
        /\ suspect \subseteq suspect' /\ d \in Dps
        /\ a => RobotTakes(d, v) /\ {d} \cap HeldByNet \subseteq suspect'
        /\ ~a => robot' = robot /\ news' = news
        /\ ~a /\ class[d] = "echo" => d \in suspect'
    BY <1>12 DEF RobotAnswers
  <2>2. d \in Dps /\ v \in Values /\ HeldBySdk = {}
    BY <2>1, CurrentEntry DEF HeldBySdk
  <2>3. /\ a => robot'[d] = v
        /\ \A e \in Dps \ {d} : robot'[e] = robot[e]
        /\ \/ robot' = robot /\ news' = news
           \/ Waiting("state")' /\ {d} \cap HeldByNet \subseteq suspect'
    <3> HIDE DEF d, v
    <3>1. QED
      BY <1>t, <2>1, <2>2
  <2>4. \A e \in Dps \ suspect' : e \in HeldBySdk' => sdk'.val = robot'[e]
    <3>1. CASE Echoes(class[d], a)
      <4>1. /\ sdk' = [sdk EXCEPT !.pc = "echo",
                                  !.val = IF class[d] = "reads" THEN robot'[d] ELSE v]
        BY <1>12, <3>1 DEF RobotAnswers
      <4>2. sdk'.val = (IF class[d] = "reads" THEN robot'[d] ELSE v)
        BY <4>1 DEF Cursor, AtEntry
      <4>3. HeldBySdk' = {d}
        BY <4>1 DEF HeldBySdk, Current, Cursor, AtEntry
      <4>4. a \/ class[d] \in {"echo", "reads"}
        BY <3>1 DEF Echoes
      <4> HIDE DEF d, v
      <4>5. QED
        BY <2>1, <2>3, <4>2, <4>3, <4>4
    <3>2. CASE ~Echoes(class[d], a)
      <4>1. NextEntry
        BY <1>12, <3>2 DEF RobotAnswers
      <4>2. QED
        BY <2>1, <4>1, NothingHeld
    <3>3. QED
      BY <3>1, <3>2
  <2> HIDE DEF d, v
  <2>5. QED
    BY <2>1, <2>2, <2>3, <2>4, WordTaken
<1>13. CASE RobotSilent
  <2> DEFINE d == Current.dp
             v == Current.val
  <2>1. /\ sdk.pc = "send" /\ shadow' = shadow /\ lcm' = lcm /\ net' = net
        /\ suspect \subseteq suspect' /\ NextEntry /\ d \in Dps
        /\ \/ robot' = robot /\ news' = news
           \/ RobotTakes(d, v) /\ {d} \cap HeldByNet \subseteq suspect'
    BY <1>13 DEF RobotSilent
  <2>2. d \in Dps /\ v \in Values /\ HeldBySdk = {} /\ HeldBySdk' = {}
    BY <2>1, CurrentEntry, NothingHeld DEF HeldBySdk
  <2> HIDE DEF d, v
  <2>3. /\ \A e \in Dps \ {d} : robot'[e] = robot[e]
        /\ \/ robot' = robot /\ news' = news
           \/ Waiting("state")' /\ {d} \cap HeldByNet \subseteq suspect'
    BY <1>t, <2>1, <2>2
  <2>4. QED
    BY <2>1, <2>2, <2>3, WordTaken
<1>14. CASE LocalSet
  <2> DEFINE d == Current.dp
  <2>1. /\ sdk.pc = "send" /\ shadow' = shadow /\ lcm' = lcm /\ net' = net
        /\ robot' = robot /\ news' = news /\ suspect' = suspect \cup {d} /\ d \in Dps
        /\ sdk' = [sdk EXCEPT !.pc = "echo", !.val = Current.val]
    BY <1>14 DEF LocalSet
  <2>2. d \in Dps /\ HeldBySdk = {}
    BY <2>1, CurrentEntry DEF HeldBySdk
  <2>3. HeldBySdk' = {d}
    BY <2>1 DEF HeldBySdk, Current, Cursor, AtEntry
  <2> HIDE DEF d
  <2>4. QED
    BY <2>1, <2>2, <2>3, WordTaken
<1>15. CASE Echo
  <2> DEFINE d == Current.dp
  <2>1. /\ sdk.pc = "echo" /\ lcm' = lcm /\ net' = net /\ NextEntry
        /\ robot' = robot /\ news' = news /\ Report(d, sdk.val) /\ d \in Dps
    BY <1>15 DEF Echo
  <2>2. d \in Dps /\ HeldBySdk = {d} /\ HeldBySdk' = {}
    BY <2>1, CurrentEntry, NothingHeld DEF HeldBySdk
  <2> HIDE DEF d
  <2>3. HeldByNet' = HeldByNet /\ \A e : HeldByLcm(e)' <=> HeldByLcm(e)
    BY <2>1 DEF HeldByNet, HeldByLcm
  <2>4. d \notin suspect => sdk.val = robot[d]
    BY <2>2 DEF LastWord
  <2>5. QED
    BY <2>1, <2>2, <2>3, <2>4, WordReported
<1>16. ASSUME NEW b \in Batches, Command(b)
      PROVE  LastWord'
  <2>1. /\ robot' = robot /\ shadow' = shadow /\ lcm' = lcm /\ news' = news /\ net' = net
        /\ suspect' = suspect /\ sdk.pc = "idle"
        /\ sdk' = [sdk EXCEPT !.pc = "send", !.batch = b, !.index = NextIndex(b, 0)]
    BY <1>16 DEF Command
  <2>2. sdk'.val = sdk.val /\ sdk'.pc = "send"
    BY <2>1 DEF Cursor, AtEntry
  <2>3. HeldBySdk' = {} /\ HeldBySdk = {} /\ HeldByNet' = HeldByNet
    BY <2>1, <2>2 DEF HeldBySdk, HeldByNet
  <2>4. QED
    BY <1>w, <2>1, <2>2, <2>3, WordKept
<1>17. CASE ResetLife
  <2>1. /\ robot' = robot /\ shadow' = shadow /\ lcm' = lcm /\ net' = net
        /\ sdk.pc = "send" /\ Current.dp = "life"
        /\ sdk' = [sdk EXCEPT !.pc = "echo"] \/ NextEntry
        /\ Broadcast(MaxLife) \/ (news' = news /\ suspect' = suspect)
    BY <1>17 DEF ResetLife
  <2>2. MaxLife \in 0..MaxLife
    BY DpAssumption
  <2>3. (Waiting("state")' <=> Waiting("state")) /\ suspect \subseteq suspect'
    BY <1>b, <1>w, <2>1, <2>2
  <2>4. HeldBySdk = {} /\ HeldBySdk' \subseteq {"life"} /\ HeldByNet' = HeldByNet
    <3>1. CASE sdk' = [sdk EXCEPT !.pc = "echo"]
      BY <2>1, <3>1 DEF HeldBySdk, HeldByNet, Current, Cursor, AtEntry
    <3>2. CASE NextEntry
      BY <2>1, <3>2, NothingHeld DEF HeldBySdk, HeldByNet
    <3>3. QED
      BY <2>1, <3>1, <3>2
  <2>5. QED
    BY <1>l, <2>1, <2>3, <2>4, WordKept
<1>18. CASE EchoLife
  <2>1. /\ robot' = robot /\ shadow' = shadow /\ lcm' = lcm /\ net' = net /\ news' = news
        /\ sdk.pc = "echo" /\ Current.dp = "life" /\ NextEntry
        /\ suspect \subseteq suspect'
    BY <1>18 DEF EchoLife
  <2>2. HeldBySdk = {"life"} /\ HeldBySdk' = {} /\ HeldByNet' = HeldByNet
    BY <2>1, NothingHeld DEF HeldBySdk, HeldByNet
  <2>3. QED
    BY <1>l, <1>w, <2>1, <2>2, WordKept
<1>19. CASE UNCHANGED vars
  BY <1>19, <1>w, WordKept DEF vars, HeldBySdk, HeldByNet, Current
<1>20. QED
  BY <1>1, <1>2, <1>3, <1>4, <1>5, <1>6, <1>7, <1>8, <1>9, <1>10,
     <1>11, <1>12, <1>13, <1>14, <1>15, <1>16, <1>17, <1>18, <1>19
  DEF Next, Robot, NetStep, LcmStep, SdkStep

\* When nothing is under way the cloud's copy is the robot's, for any number of
\* data points, commands and connections, except for what is suspect.
THEOREM CloudStaysCurrent == Spec => []CloudIsCurrent
<1> DEFINE IInv == Cursor /\ Rest /\ Broadcasts /\ LastWord
<1>1. Init => Broadcasts /\ LastWord
  BY DEF Init, Broadcasts, LastWord, Points
<1>2. IInv /\ [Next]_vars => IInv'
  BY CursorStep, RestStep, BroadcastsStep, LastWordStep
<1>3. IInv => CloudIsCurrent
  <2>1. ASSUME Settled PROVE /\ ~Waiting("state") /\ HeldBySdk = {} /\ HeldByNet = {}
                             /\ \A d : ~HeldByLcm(d)
    BY <2>1 DEF Settled, Waiting, HeldBySdk, HeldByNet, HeldByLcm
  <2>2. QED
    BY <2>1 DEF CloudIsCurrent, LastWord
<1>4. QED
  BY <1>1, <1>2, <1>3, Starts, PTL DEF Spec

----------------------------------------------------------------------------
(* The life of a part.                                                      *)

\* All broadcasts of a part's life that wait say v.
AllSay(v) == \A k \in 1..Len(news) : news[k].kind = "life" => news[k].life = v

\* Among the broadcasts of a part's life that wait there is a last one.
HasLast ==
    Waiting("life") => \E k \in 1..Len(news) : news[k].kind = "life" /\ LastOf(k)

\* The cache would suppress all that waits, and is not the 0 it starts with.
NoReportDue == AllSay(partsLife) /\ (heard \/ ~Waiting("life"))

\* The cache holds the last broadcast handled, ReportAll the life as it is, and
\* where no report is due the cloud has the value.
LifeWord ==
    /\ HasLast
    /\ heard /\ ~Waiting("life") => partsLife = life
    /\ "life" \notin suspect =>
          /\ net.pc = "reportLife" => net.life = life
          /\ net.pc # "reportLife" /\ NoReportDue => lifeShadow = life \div Hour

\* A step that leaves the waiting broadcasts of a part's life alone.
SameLives ==
    /\ Waiting("life")' <=> Waiting("life")
    /\ HasLast => HasLast'
    /\ \A v : AllSay(v)' => AllSay(v)

\* What all broadcasts of a part's life say that wait is the life.
LEMMA AllSayLife ==
  ASSUME Broadcasts, HasLast, Waiting("life"), NEW v, AllSay(v)
  PROVE  life = v
<1>1. PICK k \in 1..Len(news) : news[k].kind = "life" /\ LastOf(k)
  BY DEF HasLast
<1>2. QED
  BY <1>1 DEF Broadcasts, AllSay

\* What the step that takes the oldest broadcast does to the others.
LEMMA Shifted ==
  ASSUME news \in Seq(News), news # <<>>, news' = Tail(news)
  PROVE  /\ HasLast => HasLast'
         /\ \A v : AllSay(v)' /\ (news[1].kind = "life" => news[1].life = v) => AllSay(v)
         /\ ~Waiting("life")' /\ news[1].kind = "life" => LastOf(1)
<1>1. /\ Len(news) \in Nat /\ Len(news) >= 1 /\ Len(news') = Len(news) - 1
      /\ \A k \in 1..Len(news') : news'[k] = news[k + 1]
  BY Popped
<1>2. \A k \in 2..Len(news) : k - 1 \in 1..Len(news') /\ news'[k - 1] = news[k]
  BY <1>1
<1>3. \A k \in 1..Len(news') : k + 1 \in 2..Len(news) /\ news'[k] = news[k + 1]
  BY <1>1
<1>4. \A k \in 1..Len(news) : k = 1 \/ k \in 2..Len(news)
  BY <1>1
<1>5. ASSUME HasLast, Waiting("life")' PROVE HasLast'
  <2>1. PICK j \in 1..Len(news') : news'[j].kind = "life"
    BY <1>5 DEF Waiting
  <2>2. j + 1 \in 2..Len(news) /\ news[j + 1].kind = "life"
    BY <1>3, <2>1
  <2>3. Waiting("life")
    BY <1>1, <2>2 DEF Waiting
  <2>4. PICK k \in 1..Len(news) : news[k].kind = "life" /\ LastOf(k)
    BY <1>5, <2>3 DEF HasLast
  <2>5. k # 1
    BY <2>2, <2>4 DEF LastOf
  <2>6. PICK m : m = k - 1
    OBVIOUS
  <2>7. m \in 1..Len(news') /\ news'[m] = news[k] /\ m + 1 = k
    BY <1>1, <1>2, <1>4, <2>5, <2>6
  <2>8. ASSUME NEW i \in (m + 1)..Len(news') PROVE news'[i].kind # "life"
    <3>1. i \in 1..Len(news') /\ i + 1 \in (k + 1)..Len(news)
      BY <1>1, <2>7
    <3>2. QED
      BY <1>3, <2>4, <3>1 DEF LastOf
  <2>9. news'[m].kind = "life" /\ LastOf(m)'
    BY <2>4, <2>7, <2>8 DEF LastOf
  <2>10. QED
    BY <2>7, <2>9 DEF HasLast
<1>6. ASSUME NEW v, AllSay(v)', news[1].kind = "life" => news[1].life = v
      PROVE  AllSay(v)
  BY <1>2, <1>4, <1>6 DEF AllSay
<1>7. ASSUME ~Waiting("life")', news[1].kind = "life" PROVE LastOf(1)
  <2>1. \A j \in 2..Len(news) : news[j].kind # "life"
    BY <1>2, <1>7 DEF Waiting
  <2>2. QED
    BY <1>7, <2>1 DEF LastOf
<1>8. QED
  BY <1>5, <1>6, <1>7 DEF HasLast

\* What the step that appends a broadcast does to the others.
LEMMA Grown ==
  ASSUME news \in Seq(News), NEW e \in News, news' = Append(news, e)
  PROVE  /\ HasLast => HasLast'
         /\ e.kind = "life" => HasLast'
         /\ \A v : AllSay(v)' <=> AllSay(v) /\ (e.kind = "life" => e.life = v)
<1>0. PICK n : n = Len(news) + 1
  OBVIOUS
<1>1. /\ Len(news) \in Nat /\ Len(news') = n
      /\ \A k \in 1..Len(news) : news'[k] = news[k]
      /\ news'[n] = e
      /\ Waiting("life")' <=> Waiting("life") \/ e.kind = "life"
  BY <1>0, Appended
<1>2. /\ n \in 1..Len(news')
      /\ \A k \in 1..Len(news) : k \in 1..Len(news')
      /\ \A k \in 1..Len(news') : k = n \/ k \in 1..Len(news)
      /\ \A k \in (n + 1)..n : FALSE
  BY <1>0, <1>1
<1>3. ASSUME e.kind = "life" PROVE HasLast'
  BY <1>1, <1>2, <1>3 DEF HasLast, LastOf
<1>4. ASSUME e.kind # "life", HasLast, Waiting("life")' PROVE HasLast'
  <2>1. PICK k \in 1..Len(news) : news[k].kind = "life" /\ LastOf(k)
    BY <1>1, <1>4 DEF HasLast
  <2>2. ASSUME NEW j \in (k + 1)..Len(news') PROVE news'[j].kind # "life"
    <3>1. j = n \/ j \in (k + 1)..Len(news)
      BY <1>0, <1>1
    <3>2. \A i \in (k + 1)..Len(news) : i \in 1..Len(news)
      BY <1>1
    <3>3. QED
      BY <1>1, <1>4, <2>1, <3>1, <3>2 DEF LastOf
  <2>3. news'[k].kind = "life" /\ LastOf(k)'
    BY <1>1, <2>1, <2>2 DEF LastOf
  <2>4. QED
    BY <1>2, <2>3 DEF HasLast
<1>5. ASSUME NEW v PROVE AllSay(v)' <=> AllSay(v) /\ (e.kind = "life" => e.life = v)
  BY <1>1, <1>2 DEF AllSay
<1>6. QED
  BY <1>3, <1>4, <1>5 DEF HasLast

\* Steps that concern data points only.
LEMMA LifeKept ==
  ASSUME LifeWord, SameLives, life' = life, partsLife' = partsLife, heard' = heard,
         lifeShadow' = lifeShadow, "life" \in suspect => "life" \in suspect',
         net'.pc = "reportLife" <=> net.pc = "reportLife", net'.life = net.life
  PROVE  LifeWord'
<1>1. NoReportDue' => NoReportDue
  BY DEF SameLives, NoReportDue
<1>2. QED
  BY <1>1 DEF SameLives, LifeWord

\* Broadcasts of the robot's state come and go without touching those of a
\* part's life.
LEMMA LivesUntouched ==
  ASSUME news \in Seq(News),
         \/ news' = news
         \/ \E e \in News : e.kind = "state" /\ news' = Append(news, e)
         \/ news # <<>> /\ Head(news).kind = "state" /\ news' = Tail(news)
  PROVE  SameLives
<1>1. CASE news' = news
  BY <1>1 DEF SameLives, Waiting, AllSay, HasLast, LastOf
<1>2. ASSUME NEW e \in News, e.kind = "state", news' = Append(news, e)
      PROVE  SameLives
  <2>1. Waiting("life")' <=> Waiting("life")
    BY <1>2, Appended
  <2>2. QED
    BY <1>2, <2>1, Grown DEF SameLives
<1>3. CASE news # <<>> /\ Head(news).kind = "state" /\ news' = Tail(news)
  <2>1. news[1].kind # "life" /\ (Waiting("life")' <=> Waiting("life"))
    BY <1>3, Popped
  <2>2. QED
    BY <1>3, <2>1, Shifted DEF SameLives
<1>4. QED
  BY <1>1, <1>2, <1>3

\* The robot broadcasts a part's life: the cache suppresses it only when it is
\* the life the cloud has, or when no broadcast was ever handled.
LEMMA BroadcastStep ==
  ASSUME Cursor, Rest, Broadcasts, LifeWord, NEW l \in 0..MaxLife, Broadcast(l),
         partsLife' = partsLife, lifeShadow' = lifeShadow, net' = net, heard' = heard
  PROVE  LifeWord'
<1> DEFINE e == [kind |-> "life", state |-> robot, life |-> l]
<1>1. /\ news \in Seq(News) /\ life' = l /\ news' = Append(news, e)
      /\ suspect' = IF l = life THEN suspect ELSE suspect \cup Overtaken("life")
  BY DEF Broadcast, Rest
<1>2. e \in News /\ e.kind = "life" /\ e.life = l
  BY DEF News, Cursor
<1> HIDE DEF e
<1>3. Waiting("life")' /\ HasLast'
  BY <1>1, <1>2, Appended, Grown
<1>4. ASSUME "life" \notin suspect', net.pc = "reportLife" PROVE net.life = l
  <2>1. "life" \notin suspect /\ l = life
    BY <1>1, <1>4 DEF Overtaken, HeldByNet
  <2>2. QED
    BY <1>4, <2>1 DEF LifeWord
<1>5. ASSUME "life" \notin suspect', net.pc # "reportLife", NoReportDue'
      PROVE  lifeShadow = l \div Hour
  <2>1. heard /\ AllSay(partsLife) /\ l = partsLife
    BY <1>1, <1>2, <1>3, <1>5, Grown DEF NoReportDue, AllSay
  <2>2. life = partsLife
    BY <2>1, AllSayLife DEF LifeWord
  <2>3. "life" \notin suspect /\ NoReportDue
    BY <1>1, <1>5, <2>1 DEF NoReportDue
  <2>4. QED
    BY <1>5, <2>1, <2>2, <2>3 DEF LifeWord
<1>6. QED
  BY <1>1, <1>3, <1>4, <1>5 DEF LifeWord

\* A broadcast of a part's life is handled.
LEMMA OnPartsLifeStep ==
  ASSUME Cursor, Rest, Broadcasts, Broadcasts', LifeWord, OnPartsLife
  PROVE  LifeWord'
<1>0. PICK h : h = Head(news).life
  OBVIOUS
<1>1. /\ news \in Seq(News) /\ news # <<>> /\ news' = Tail(news)
      /\ life' = life /\ net' = net /\ partsLife' = h /\ Head(news).kind = "life"
      /\ LifeHeard(h # partsLife) /\ heard'
  BY <1>0 DEF OnPartsLife, LifeHeard, Rest
<1>2. /\ h # partsLife => ReportLife(h \div Hour)
      /\ h = partsLife => lifeShadow' = lifeShadow
  BY <1>0 DEF OnPartsLife
<1>3. /\ news[1].kind = "life" /\ news[1].life = h /\ 1 \in 1..Len(news)
      /\ Waiting("life")
  <2>1. news[1] = Head(news) /\ Len(news) \in Nat /\ Len(news) >= 1
    BY <1>1, Popped
  <2>2. QED
    BY <1>0, <1>1, <2>1 DEF Waiting
<1>4. HasLast'
  BY <1>1, Shifted DEF LifeWord
<1>5. ~Waiting("life")' => h = life
  BY <1>1, <1>3, Shifted DEF Broadcasts
<1>6. ASSUME AllSay(h)' PROVE h = life
  <2>1. CASE Waiting("life")'
    <3>1. PICK k \in 1..Len(news') : news'[k].kind = "life" /\ LastOf(k)'
      BY <1>4, <2>1 DEF HasLast
    <3>2. news'[k].life = life' /\ news'[k].life = h
      BY <1>6, <3>1 DEF Broadcasts, AllSay
    <3>3. QED
      BY <1>1, <3>2
  <2>2. QED
    BY <1>5, <2>1
<1>7. ASSUME "life" \notin suspect', net.pc = "reportLife" PROVE net.life = life
  <2>1. "life" \notin suspect
    BY <1>1, <1>7 DEF LifeHeard
  <2>2. QED
    BY <1>7, <2>1 DEF LifeWord
<1>8. ASSUME "life" \notin suspect', net.pc # "reportLife", NoReportDue'
      PROVE  lifeShadow' = life \div Hour
  <2>1. AllSay(h)' /\ h = life
    BY <1>1, <1>6, <1>8 DEF NoReportDue, AllSay
  <2>2. CASE h # partsLife
    <3>1. online
      BY <1>1, <1>8, <2>2 DEF LifeHeard
    <3>2. QED
      BY <1>2, <2>1, <2>2, <3>1 DEF ReportLife
  <2>3. CASE h = partsLife
    <3>1. heard /\ "life" \notin suspect
      BY <1>1, <1>8, <2>3 DEF LifeHeard
    <3>2. AllSay(h)
      BY <1>1, <1>3, <2>1, Shifted
    <3>3. NoReportDue
      BY <2>3, <3>1, <3>2 DEF NoReportDue
    <3>4. QED
      BY <1>2, <1>8, <2>3, <3>1, <3>3 DEF LifeWord
  <2>4. QED
    BY <2>2, <2>3
<1>9. QED
  BY <1>1, <1>4, <1>5, <1>7, <1>8 DEF LifeWord

\* Every step keeps the cache and the broadcasts of a part's life in order.
LEMMA LifeWordStep ==
  ASSUME Cursor, Rest, Broadcasts, LifeWord, [Next]_vars PROVE LifeWord'
<1>0. /\ news \in Seq(News) /\ "life" \notin Dps
      /\ \A k \in 1..Len(ReportOrder) : ReportOrder[k] # "life"
      /\ lcm.at \in 1..Len(ReportOrder) /\ net.at \in 1..Len(ReportOrder)
  <2> HIDE DEF News
  <2>1. QED
    BY DpAssumption, Order DEF Rest
<1>u. news' = news => SameLives
  BY <1>0, LivesUntouched
<1>t. ASSUME NEW d \in Dps, NEW v \in Values, RobotTakes(d, v)
      PROVE  SameLives
  <2> DEFINE e == [kind |-> "state", state |-> robot', life |-> 0]
  <2>1. CASE e \in News /\ news' = Append(news, e)
    <3>1. e.kind = "state"
      OBVIOUS
    <3> HIDE DEF e
    <3>2. QED
      BY <1>0, <2>1, <3>1, LivesUntouched
  <2>2. QED
    BY <1>t, <1>u, <2>1, Taken
<1>1. ASSUME NEW d \in Dps, NEW v \in Values, RobotChanges(d, v)
      PROVE  LifeWord'
  BY <1>1, <1>t, LifeKept DEF RobotChanges
<1>2. ASSUME NEW l \in 0..MaxLife, LifeBecomes(l)
      PROVE  LifeWord'
  BY <1>2, BroadcastStep DEF LifeBecomes
<1>3. CASE GoOffline
  BY <1>3, <1>u, LifeKept DEF GoOffline
<1>4. CASE MqttOnline
  BY <1>4, <1>u, LifeKept DEF MqttOnline, Rest
<1>5. CASE AskState
  BY <1>5, <1>0, <1>u, LifeKept DEF AskState, Rest
<1>s. ASSUME SameLives, life' = life, partsLife' = partsLife, heard' = heard
      PROVE  HasLast' /\ (heard' /\ ~Waiting("life")' => partsLife' = life')
  BY <1>s DEF SameLives, LifeWord
<1>6. CASE AskLife
  <2>1. /\ life' = life /\ partsLife' = partsLife /\ lifeShadow' = lifeShadow
        /\ news' = news /\ net.pc = "askLife" /\ heard' = heard
    BY <1>6 DEF AskLife
  <2>2. CASE net' = [net EXCEPT !.pc = "reportLife", !.life = life]
    <3>1. net'.pc = "reportLife" /\ net'.life = life
      BY <2>2 DEF Rest
    <3>2. QED
      BY <1>s, <1>u, <2>1, <3>1 DEF LifeWord
  <2>3. CASE net' = [net EXCEPT !.pc = "idle"] /\ suspect' = suspect
    BY <1>u, <2>1, <2>3, LifeKept DEF Rest
  <2>4. QED
    BY <1>6, <2>2, <2>3 DEF AskLife
<1>7. CASE NetReportsLife
  <2>1. /\ life' = life /\ partsLife' = partsLife /\ news' = news /\ heard' = heard
        /\ net.pc = "reportLife" /\ net'.pc = "idle" /\ ReportLife(net.life \div Hour)
        /\ suspect' = IF online THEN suspect ELSE suspect \cup {"life"}
    BY <1>7 DEF NetReportsLife, Rest
  <2>2. "life" \notin suspect' => lifeShadow' = life' \div Hour
    BY <2>1 DEF ReportLife, LifeWord
  <2>3. QED
    BY <1>s, <1>u, <2>1, <2>2 DEF LifeWord
<1>8. CASE NetReports
  <2>1. /\ life' = life /\ partsLife' = partsLife /\ lifeShadow' = lifeShadow
        /\ news' = news /\ net.pc = "report" /\ net'.pc \in {"report", "askLife"}
        /\ net'.life = net.life /\ suspect \subseteq suspect' /\ heard' = heard
    BY <1>8 DEF NetReports, Report, Rest
  <2>2. QED
    BY <1>u, <2>1, LifeKept
<1>9. CASE OnSweeperStatus
  <2>1. SameLives
    BY <1>9, <1>0, LivesUntouched DEF OnSweeperStatus
  <2>2. QED
    BY <1>9, <2>1, LifeKept DEF OnSweeperStatus
<1>10. CASE OnPartsLife
  BY <1>10, BroadcastsStep, OnPartsLifeStep
<1>11. CASE LcmReports
  BY <1>11, <1>u, LifeKept DEF LcmReports, Report
<1>12. ASSUME NEW a \in BOOLEAN, RobotAnswers(a)
      PROVE  LifeWord'
  <2>1. Current.dp \in Dps /\ Current.val \in Values
    BY <1>12, CurrentEntry DEF RobotAnswers
  <2>2. SameLives
    BY <1>12, <1>t, <1>u, <2>1 DEF RobotAnswers
  <2>3. QED
    BY <1>12, <2>2, LifeKept DEF RobotAnswers
<1>13. CASE RobotSilent
  <2>1. Current.dp \in Dps /\ Current.val \in Values
    BY <1>13, CurrentEntry DEF RobotSilent
  <2>2. SameLives
    BY <1>13, <1>t, <1>u, <2>1 DEF RobotSilent
  <2>3. QED
    BY <1>13, <2>2, LifeKept DEF RobotSilent
<1>14. CASE LocalSet
  BY <1>14, <1>u, LifeKept DEF LocalSet
<1>15. CASE Echo
  BY <1>15, <1>u, LifeKept DEF Echo, Report
<1>16. ASSUME NEW b \in Batches, Command(b)
      PROVE  LifeWord'
  BY <1>16, <1>u, LifeKept DEF Command
<1>17. CASE ResetLife
  <2>1. MaxLife \in 0..MaxLife
    BY DpAssumption
  <2>2. CASE Broadcast(MaxLife)
    BY <1>17, <2>1, <2>2, BroadcastStep DEF ResetLife
  <2>3. CASE UNCHANGED <<life, news, suspect>>
    BY <1>17, <1>u, <2>3, LifeKept DEF ResetLife
  <2>4. QED
    BY <1>17, <2>2, <2>3 DEF ResetLife
<1>18. CASE EchoLife
  <2>1. /\ "life" \in suspect' /\ news' = news /\ life' = life
        /\ partsLife' = partsLife /\ heard' = heard
    BY <1>18 DEF EchoLife
  <2>2. QED
    BY <1>s, <1>u, <2>1 DEF LifeWord
<1>19. CASE UNCHANGED vars
  BY <1>19, <1>u, LifeKept DEF vars
<1>20. QED
  BY <1>1, <1>2, <1>3, <1>4, <1>5, <1>6, <1>7, <1>8, <1>9, <1>10,
     <1>11, <1>12, <1>13, <1>14, <1>15, <1>16, <1>17, <1>18, <1>19
  DEF Next, Robot, NetStep, LcmStep, SdkStep

\* The cache of OnPartsLife suppresses no report the cloud needs but a first
\* broadcast of 0, whatever lives the robot broadcasts, in whatever order, and
\* whatever the commands for DP 19, the broadcasts waiting and the connections.
THEOREM LifeStaysCurrent == Spec => []LifeIsCurrent
<1> DEFINE IInv == Cursor /\ Rest /\ Broadcasts /\ LifeWord
<1>1. Init => Broadcasts /\ LifeWord
  <2>1. ASSUME Init PROVE Broadcasts
    BY <2>1 DEF Init, Broadcasts
  <2>2. ASSUME Init PROVE LifeWord
    BY <2>2 DEF Init, LifeWord, Points, HasLast, Waiting
  <2>3. QED
    BY <2>1, <2>2
<1>2. IInv /\ [Next]_vars => IInv'
  BY CursorStep, RestStep, BroadcastsStep, LifeWordStep
<1>3. IInv => LifeIsCurrent
  BY DEF LifeIsCurrent, Settled, LifeWord, NoReportDue, Waiting, AllSay
<1>4. QED
  BY <1>1, <1>2, <1>3, Starts, PTL DEF Spec

=============================================================================
