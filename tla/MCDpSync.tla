------------------------------ MODULE MCDpSync -------------------------------
(***************************************************************************)
(* A small instance of DpSync: the start, one setting whose handler is of  *)
(* any of the four reporting classes, and the life of a part. Data points  *)
(* and life share only the threads, so a behaviour is generous with one of *)
(* the two: with the data points and a part that starts at 0, or with      *)
(* broadcasts of the life and a setting that is echoed.                    *)
(***************************************************************************)
EXTENDS DpSync, TLC

CONSTANTS go, setting

Entry(d, v) == [dp |-> d, val |-> v]

MCClasses == {(go :> "silent") @@ (setting :> c) :
                 c \in {"echo", "checked", "reads", "local"}}
MCOrder == <<go, setting>>
MCBatches == {<<Entry(go, 1), Entry(setting, 1)>>, <<Entry(setting, 0)>>,
              <<Entry("life", 1)>>}

PointBudget == [batches |-> 1, own |-> 1, lives |-> 0, online |-> 2]
LifeBudget == [batches |-> 1, own |-> 0, lives |-> 2, online |-> 2]
MCBudgets == {PointBudget, LifeBudget}

\* FairSpec from the balanced initial states.
Balanced ==
    /\ Init
    /\ \/ count = PointBudget /\ life = 0
       \/ count = LifeBudget /\ class[setting] = "echo"

MCSpec ==
    /\ Balanced /\ [][Next]_vars
    /\ WF_vars(NetStep) /\ WF_vars(LcmStep) /\ WF_vars(SdkStep)
=============================================================================
