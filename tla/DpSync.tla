------------------------------- MODULE DpSync --------------------------------
(***************************************************************************)
(* Data points: the phone's commands (IPC_APP_handle_dp_cmd_objs and the   *)
(* DP_Handle* functions) and the reports that keep the cloud's copy of     *)
(* the robot's state current (TuyaReportStatus, OnPartsLife, ReportAll).   *)
(*                                                                         *)
(* Three threads report the same data points without a lock: the SDK's     *)
(* command thread echoes what it asked the robot for, the LCM thread       *)
(* forwards the robot's broadcasts, and the SDK's network thread runs      *)
(* ReportAll when MQTT comes up. Between the moment a thread learns a      *)
(* value and the moment it reports it the robot may change it and another  *)
(* thread report the new one.                                              *)
(*                                                                         *)
(* The handlers differ in what they report after the request to the robot: *)
(*   silent   nothing (1, 2, 3, 9, 10): the broadcast will tell            *)
(*   echo     the value asked for if the robot answered, whatever it       *)
(*            answered (25, 26, 27, 37, 38, 39, 41, 45, ...)               *)
(*   checked  the value asked for if the answer's code is 0 (44)           *)
(*   reads    the value in the answer (50)                                 *)
(*   local    the value asked for; the robot is not told (42)              *)
(* and a command for DP 19, the life of the roll brush, resets the brush   *)
(* and reports the received bool as its life.                              *)
(*                                                                         *)
(* The robot, its LCM channel and the cloud are external. suspect, done    *)
(* and heard are history variables: no guard reads them.                   *)
(***************************************************************************)
EXTENDS Naturals, Sequences, FiniteSets

CONSTANTS Dps, Values, Default,
          Classes,       \* the assignments of classes to data points
          ReportOrder,   \* the data points in the order TuyaReportStatus reports them
          Go,            \* the data point that starts a cleaning
          Batches,       \* commands of the phone: sequences of [dp, val]
          Hour,          \* minutes per reported unit of a part's life (60)
          MaxLife,       \* bound: minutes of life of a part
          Budgets        \* bounds: [batches, own, lives, online], how many commands,
                         \* changes by the robot itself, broadcasts of the life and
                         \* connections there may be

ASSUME DpAssumption ==
    /\ Classes \subseteq
          [Dps -> {"silent", "echo", "checked", "reads", "local"}]
    /\ Default \in Values /\ Go \in Dps
    /\ ReportOrder \in Seq(Dps)
    /\ {ReportOrder[k] : k \in 1..Len(ReportOrder)} = Dps
    /\ Batches \subseteq Seq([dp : Dps \cup {"life"}, val : Values]) \ {<<>>}
    /\ Hour \in Nat \ {0} /\ MaxLife \in Nat
    /\ Budgets \subseteq [batches : Nat, own : Nat, lives : Nat, online : Nat]
    /\ "life" \notin Dps

VARIABLES class,       \* dp -> what its handler reports; never changes
          robot,       \* dp -> value on the robot (external)
          life,        \* minutes of life of a part, on the robot (external)
          news,        \* the robot's broadcasts not yet handled (LCM)
          online,      \* MQTT is connected
          shadow,      \* dp -> value the cloud holds (external)
          lifeShadow,  \* units of life the cloud holds (external)
          partsLife,   \* TuyaComm::partsLife, the last broadcast life
          sdk,         \* the command thread
          lcm,         \* the LCM thread
          net,         \* the network status thread
          count,       \* what is left of the budget
          suspect,     \* data points something happened to (history)
          done,        \* entries of the batch already handled (history)
          heard        \* a broadcast of the life has been handled (history)

vars == <<class, robot, life, news, online, shadow, lifeShadow, partsLife, sdk, lcm,
          net, count, suspect, done, heard>>

Points == Dps \cup {"life"}
States == [Dps -> Values]
News == [kind : {"state", "life"}, state : States, life : 0..MaxLife]
AllDefault == [d \in Dps |-> Default]

Init ==
    /\ class \in Classes
    /\ robot = AllDefault
    /\ life \in 0..MaxLife
    /\ news = <<>>
    /\ online = FALSE
    /\ \E v \in Values : shadow = [d \in Dps |-> v]
    /\ lifeShadow = 0
    /\ partsLife = 0
    /\ sdk = [pc |-> "idle", batch |-> <<>>, index |-> 0, val |-> Default]
    /\ lcm = [pc |-> "idle", state |-> AllDefault, at |-> 1]
    /\ net = [pc |-> "idle", state |-> AllDefault, life |-> 0, at |-> 1]
    /\ count \in Budgets
    /\ suspect = Points
    /\ done = {}
    /\ heard = FALSE

----------------------------------------------------------------------------
(* Values a thread has learnt and not yet reported.                         *)

Current == sdk.batch[sdk.index]

HeldBySdk == IF sdk.pc = "echo" THEN {Current.dp} ELSE {}
HeldByNet == CASE net.pc = "report" -> {ReportOrder[k] : k \in net.at..Len(ReportOrder)}
               [] net.pc = "reportLife" -> {"life"}
               [] OTHER -> {}

\* A point the robot changes while a thread still holds an older value of it.
Overtaken(p) == {p} \cap (HeldBySdk \cup HeldByNet)

\* External: the robot takes value v for data point d and broadcasts its state
\* ("ty_robot_state").
RobotTakes(d, v) ==
    /\ robot' = [robot EXCEPT ![d] = v]
    /\ news' = IF robot[d] = v THEN news
               ELSE Append(news, [kind |-> "state", state |-> robot', life |-> 0])

\* dev_report_dp_json_async: the cloud's copy changes; offline, the report is lost.
Report(d, v) ==
    /\ shadow' = IF online THEN [shadow EXCEPT ![d] = v] ELSE shadow
    /\ suspect' = IF online THEN suspect ELSE suspect \cup {d}

ReportLife(u) == lifeShadow' = IF online THEN u ELSE lifeShadow

----------------------------------------------------------------------------
(* The robot and the network.                                               *)

\* A button, a schedule, the end of a cleaning: the robot changes its state.
RobotChanges(d, v) ==
    /\ count.own > 0
    /\ robot[d] # v
    /\ RobotTakes(d, v)
    /\ count' = [count EXCEPT !.own = @ - 1]
    /\ suspect' = suspect \cup Overtaken(d)
    /\ UNCHANGED <<class, life, online, shadow, lifeShadow, partsLife, sdk,
                   lcm, net, done, heard>>

\* External: a part has l minutes left and the robot broadcasts it
\* ("ty_PartsLife"), whether or not this is news.
Broadcast(l) ==
    /\ life' = l
    /\ news' = Append(news, [kind |-> "life", state |-> robot, life |-> l])
    /\ suspect' = IF l = life THEN suspect ELSE suspect \cup Overtaken("life")

\* Use of the part, a new part, a correction: any life, the same one included.
LifeBecomes(l) ==
    /\ count.lives > 0
    /\ Broadcast(l)
    /\ count' = [count EXCEPT !.lives = @ - 1]
    /\ UNCHANGED <<class, robot, online, shadow, lifeShadow, partsLife, sdk,
                   lcm, net, done, heard>>

GoOffline ==
    /\ online
    /\ online' = FALSE
    /\ UNCHANGED <<class, robot, life, news, shadow, lifeShadow, partsLife,
                   sdk, lcm, net, count, suspect, done, heard>>

\* STAT_MQTT_ONLINE: __IPC_APP_Get_Net_Status_cb tells the robot
\* ("ty_wifi_connect") and runs ReportAll.
MqttOnline ==
    /\ ~online
    /\ net.pc = "idle"
    /\ count.online > 0
    /\ count' = [count EXCEPT !.online = @ - 1]
    /\ online' = TRUE
    /\ net' = [net EXCEPT !.pc = "ask"]
    /\ UNCHANGED <<class, robot, life, news, shadow, lifeShadow, partsLife,
                   sdk, lcm, suspect, done, heard>>

----------------------------------------------------------------------------
(* ReportAll on the network thread.                                         *)

\* TuyaComm::ReportStatus: Send("ty_state"); a time-out is only logged.
AskState ==
    /\ net.pc = "ask"
    /\ \/ /\ net' = [net EXCEPT !.pc = "report", !.state = robot, !.at = 1]
          /\ suspect' = suspect \ (Dps \ HeldBySdk)
       \/ /\ net' = [net EXCEPT !.pc = "askLife"]
          /\ UNCHANGED suspect
    /\ UNCHANGED <<class, robot, life, news, online, shadow, lifeShadow,
                   partsLife, sdk, lcm, count, done, heard>>

\* Mutant: the last data point of the list is never reached.
NetReportsShort ==
    /\ net.pc = "report"
    /\ LET d == ReportOrder[net.at] IN Report(d, net.state[d])
    /\ net' = IF net.at + 1 >= Len(ReportOrder)
              THEN [net EXCEPT !.pc = "askLife", !.state = AllDefault, !.at = 1]
              ELSE [net EXCEPT !.at = @ + 1]
    /\ UNCHANGED <<class, robot, life, news, online, lifeShadow, partsLife, sdk,
                   lcm, count, done, heard>>

\* TuyaReportStatus, one data point at a time.
NetReports ==
    /\ net.pc = "report"
    /\ LET d == ReportOrder[net.at] IN Report(d, net.state[d])
    /\ net' = IF net.at = Len(ReportOrder)
              THEN [net EXCEPT !.pc = "askLife", !.state = AllDefault, !.at = 1]
              ELSE [net EXCEPT !.at = @ + 1]
    /\ UNCHANGED <<class, robot, life, news, online, lifeShadow, partsLife,
                   sdk, lcm, count, done, heard>>

\* TuyaComm::ReportPartsLife: Send("ty_get_parts_life"), then the report.
AskLife ==
    /\ net.pc = "askLife"
    /\ \/ /\ net' = [net EXCEPT !.pc = "reportLife", !.life = life]
          /\ suspect' = suspect \ {"life"}
       \/ /\ net' = [net EXCEPT !.pc = "idle"]
          /\ UNCHANGED suspect
    /\ UNCHANGED <<class, robot, life, news, online, shadow, lifeShadow,
                   partsLife, sdk, lcm, count, done, heard>>

NetReportsLife ==
    /\ net.pc = "reportLife"
    /\ ReportLife(net.life \div Hour)
    /\ suspect' = IF online THEN suspect ELSE suspect \cup {"life"}
    /\ net' = [net EXCEPT !.pc = "idle", !.life = 0]
    /\ UNCHANGED <<class, robot, life, news, online, shadow, partsLife, sdk,
                   lcm, count, done, heard>>

----------------------------------------------------------------------------
(* Broadcasts on the LCM thread.                                            *)

\* Mutant: the broadcast is only stored in the global sweeper.
OnSweeperStatusStores ==
    /\ lcm.pc = "idle"
    /\ news # <<>> /\ Head(news).kind = "state"
    /\ news' = Tail(news)
    /\ UNCHANGED <<class, robot, life, online, shadow, lifeShadow, partsLife,
                   sdk, lcm, net, count, suspect, done, heard>>

\* OnSweeperStatus takes a broadcast of the robot's state.
OnSweeperStatus ==
    /\ lcm.pc = "idle"
    /\ news # <<>> /\ Head(news).kind = "state"
    /\ lcm' = [lcm EXCEPT !.pc = "report", !.state = Head(news).state,
                          !.at = 1]
    /\ news' = Tail(news)
    /\ UNCHANGED <<class, robot, life, online, shadow, lifeShadow, partsLife,
                   sdk, net, count, suspect, done, heard>>

\* TuyaReportStatus, one data point at a time.
LcmReports ==
    /\ lcm.pc = "report"
    /\ LET d == ReportOrder[lcm.at] IN Report(d, lcm.state[d])
    /\ lcm' = IF lcm.at = Len(ReportOrder)
              THEN [lcm EXCEPT !.pc = "idle", !.state = AllDefault, !.at = 1]
              ELSE [lcm EXCEPT !.at = @ + 1]
    /\ UNCHANGED <<class, robot, life, news, online, lifeShadow, partsLife,
                   sdk, net, count, done, heard>>

\* What OnPartsLife does to the history: a report that gets through with no
\* other on its way sets things right; one that is lost, and a first broadcast
\* that is not reported, leave the cloud with what it had.
LifeHeard(reported) ==
    /\ heard' = TRUE
    /\ suspect' = CASE reported /\ online /\ net.pc # "reportLife" -> suspect \ {"life"}
                    [] reported /\ ~online -> suspect \cup {"life"}
                    [] ~reported /\ ~heard -> suspect \cup {"life"}
                    [] OTHER -> suspect

\* Mutant: the cache is not updated.
OnPartsLifeForgets ==
    /\ lcm.pc = "idle"
    /\ news # <<>> /\ Head(news).kind = "life"
    /\ IF Head(news).life # partsLife
       THEN ReportLife(Head(news).life \div Hour)
       ELSE UNCHANGED lifeShadow
    /\ LifeHeard(Head(news).life # partsLife)
    /\ news' = Tail(news)
    /\ UNCHANGED <<class, robot, life, online, shadow, partsLife, sdk, lcm, net,
                   count, done>>

\* OnPartsLife: reported when it differs from the last broadcast, in minutes;
\* the cache is updated whether or not the report gets through.
OnPartsLife ==
    /\ lcm.pc = "idle"
    /\ news # <<>> /\ Head(news).kind = "life"
    /\ IF Head(news).life # partsLife
       THEN ReportLife(Head(news).life \div Hour)
       ELSE UNCHANGED lifeShadow
    /\ LifeHeard(Head(news).life # partsLife)
    /\ partsLife' = Head(news).life
    /\ news' = Tail(news)
    /\ UNCHANGED <<class, robot, life, online, shadow, sdk, lcm, net, count,
                   done>>

----------------------------------------------------------------------------
(* Commands on the SDK's thread.                                            *)

\* Mutant: the entries are handled in the order they came in.
IndexForward(b, i) == IF i = Len(b) THEN 0 ELSE i + 1

\* The entry of b after entry i (0: none): from the last to the first.
NextIndex(b, i) == IF i = 0 THEN Len(b) ELSE i - 1

\* IPC_APP_handle_dp_cmd_objs.
Command(b) ==
    /\ sdk.pc = "idle"
    /\ count.batches > 0
    /\ count' = [count EXCEPT !.batches = @ - 1]
    /\ sdk' = [sdk EXCEPT !.pc = "send", !.batch = b, !.index = NextIndex(b, 0)]
    /\ done' = {}
    /\ UNCHANGED <<class, robot, life, news, online, shadow, lifeShadow,
                   partsLife, lcm, net, suspect, heard>>

\* The entry is finished: on to the next one, or back to the SDK.
NextEntry ==
    LET i == NextIndex(sdk.batch, sdk.index)
    IN  sdk' = IF i = 0
               THEN [sdk EXCEPT !.pc = "idle", !.batch = <<>>, !.index = 0,
                                !.val = Default]
               ELSE [sdk EXCEPT !.pc = "send", !.index = i, !.val = Default]

\* Whether a handler of class c reports after an answer, and what.
Echoes(c, accepted) ==
    \/ c \in {"echo", "reads"}
    \/ c = "checked" /\ accepted

\* The robot answers the request: it takes the value, or refuses it with a code.
RobotAnswers(accepted) ==
    /\ sdk.pc = "send" /\ Current.dp \in Dps
    /\ class[Current.dp] # "local"
    /\ IF accepted THEN RobotTakes(Current.dp, Current.val)
                   ELSE UNCHANGED <<robot, news>>
    /\ done' = done \cup {sdk.index}
    /\ IF Echoes(class[Current.dp], accepted)
       THEN sdk' = [sdk EXCEPT !.pc = "echo",
                               !.val = IF class[Current.dp] = "reads"
                                       THEN robot'[Current.dp]
                                       ELSE Current.val]
       ELSE NextEntry
    /\ suspect' = suspect \cup
          (IF accepted THEN {Current.dp} \cap HeldByNet
           ELSE IF class[Current.dp] = "echo" THEN {Current.dp} ELSE {})
    /\ UNCHANGED <<class, life, online, shadow, lifeShadow, partsLife, lcm,
                   net, count, heard>>

\* The request times out (100 ms); the robot may take the value all the same.
RobotSilent ==
    /\ sdk.pc = "send" /\ Current.dp \in Dps
    /\ class[Current.dp] # "local"
    /\ \/ UNCHANGED <<robot, news, suspect>>
       \/ /\ RobotTakes(Current.dp, Current.val)
          /\ suspect' = suspect \cup ({Current.dp} \cap HeldByNet)
    /\ done' = done \cup {sdk.index}
    /\ NextEntry
    /\ UNCHANGED <<class, life, online, shadow, lifeShadow, partsLife, lcm,
                   net, count, heard>>

\* DP_HandleUnitSet: no request at all, only the report.
LocalSet ==
    /\ sdk.pc = "send" /\ Current.dp \in Dps
    /\ class[Current.dp] = "local"
    /\ sdk' = [sdk EXCEPT !.pc = "echo", !.val = Current.val]
    /\ done' = done \cup {sdk.index}
    /\ suspect' = suspect \cup {Current.dp}
    /\ UNCHANGED <<class, robot, life, news, online, shadow, lifeShadow,
                   partsLife, lcm, net, count, heard>>

\* The handler's own report.
Echo ==
    /\ sdk.pc = "echo" /\ Current.dp \in Dps
    /\ Report(Current.dp, sdk.val)
    /\ NextEntry
    /\ UNCHANGED <<class, robot, life, news, online, lifeShadow, partsLife,
                   lcm, net, count, done, heard>>

\* DP_HandleRollBrushLife asks for a new part ("ty_parts_life_reset"). The
\* robot takes it or not, answers or not.
ResetLife ==
    /\ sdk.pc = "send" /\ Current.dp = "life"
    /\ Broadcast(MaxLife) \/ UNCHANGED <<life, news, suspect>>
    /\ done' = done \cup {sdk.index}
    /\ sdk' = [sdk EXCEPT !.pc = "echo"] \/ NextEntry
    /\ UNCHANGED <<class, robot, online, shadow, lifeShadow, partsLife, lcm,
                   net, count, heard>>

\* Its report: what it got, read as a bool, for a life.
EchoLife ==
    /\ sdk.pc = "echo" /\ Current.dp = "life"
    /\ \E b \in {0, 1} : ReportLife(b)
    /\ suspect' = suspect \cup {"life"}
    /\ NextEntry
    /\ UNCHANGED <<class, robot, life, news, online, shadow, partsLife,
                   lcm, net, count, done, heard>>

----------------------------------------------------------------------------

Robot ==
    \/ \E l \in 0..MaxLife : LifeBecomes(l)
    \/ \E d \in Dps, v \in Values : RobotChanges(d, v)

NetStep == AskState \/ AskLife \/ NetReportsLife \/ NetReports
LcmStep == OnSweeperStatus \/ OnPartsLife \/ LcmReports
SdkStep ==
    \/ RobotSilent \/ LocalSet \/ Echo \/ ResetLife \/ EchoLife
    \/ \E a \in BOOLEAN : RobotAnswers(a)

Next ==
    \/ Robot \/ GoOffline \/ MqttOnline
    \/ NetStep \/ LcmStep \/ SdkStep
    \/ \E b \in Batches : Command(b)

Spec == Init /\ [][Next]_vars

\* Requests to the robot have time-outs, the reports are asynchronous, and
\* HandleForever polls the broadcasts without end.
FairSpec == Spec /\ WF_vars(NetStep) /\ WF_vars(LcmStep) /\ WF_vars(SdkStep)

----------------------------------------------------------------------------

\* The type invariant.
TypeOK ==
    /\ class \in Classes
    /\ robot \in States /\ shadow \in States
    /\ life \in 0..MaxLife /\ partsLife \in 0..MaxLife
    /\ lifeShadow \in {0, 1} \cup 0..(MaxLife \div Hour)
    /\ news \in Seq(News)
    /\ online \in BOOLEAN /\ heard \in BOOLEAN
    /\ sdk \in [pc : {"idle", "send", "echo"}, batch : Batches \cup {<<>>},
                index : Nat, val : Values]
    /\ sdk.pc # "idle" => sdk.index \in 1..Len(sdk.batch)
    /\ lcm \in [pc : {"idle", "report"}, state : States,
                at : 1..Len(ReportOrder)]
    /\ net \in [pc : {"idle", "ask", "report", "askLife", "reportLife"},
                state : States, life : 0..MaxLife,
                at : 1..Len(ReportOrder)]
    /\ suspect \subseteq Points
    /\ done \subseteq 1..Len(sdk.batch) \/ sdk.pc = "idle"

Settled == sdk.pc = "idle" /\ lcm.pc = "idle" /\ net.pc = "idle" /\ news = <<>>

\* When nothing is under way the cloud holds the robot's state, except for a
\* data point that the robot changed while the command thread or ReportAll held
\* an older value of it, that was reported while offline, that the robot
\* refused although the handler echoes it, or that is never sent to the robot;
\* and ReportAll, when the robot answers, repairs all of these.
CloudIsCurrent ==
    Settled => \A d \in Dps \ suspect : shadow[d] = robot[d]

\* The same for a part's life, which OnPartsLife reports only when it differs
\* from the last broadcast: the cache suppresses no report the cloud needs, but
\* for a first broadcast of 0, which the zero it starts with swallows
\* (tuya_robot.cpp:464-485). Other exceptions: a life that changed while
\* ReportAll held an older one, a report while offline, and the bool a command
\* for DP 19 leaves. Each lasts until ReportAll asks the robot or a broadcast
\* that differs from the one before gets through with no ReportAll under way.
LifeIsCurrent ==
    Settled /\ "life" \notin suspect => lifeShadow = life \div Hour

\* What DP 19 shows is a life the robot told, as the comment on its report says
\* ("remaining life of the roll brush", tuya_dp_function.cpp:450-453). The code
\* does not keep this: a command for DP 19 has its bool reported as the life.
Told == {net.life \div Hour} \cup {news[k].life \div Hour : k \in DOMAIN news}
LifeIsTold == [][lifeShadow' # lifeShadow => lifeShadow' \in Told]_vars

\* A command that names the start first has it handled last: every other entry
\* of the command has been put to the robot before the robot is started.
StartLast ==
    sdk.pc = "send" /\ sdk.index = 1 /\ Current.dp = Go
    => done = 2..Len(sdk.batch)

\* A difference between the robot and the cloud does not last, unless the data
\* point becomes suspect.
ChangesArrive ==
    \A d \in Dps : shadow[d] # robot[d] ~> shadow[d] = robot[d] \/ d \in suspect

=============================================================================
