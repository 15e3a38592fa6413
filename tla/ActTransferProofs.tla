--------------------------- MODULE ActTransferProofs ---------------------------
(***************************************************************************)
(* Proofs about ActTransfer for any set of callers, any queue length and    *)
(* any number of calls.  OneRequest alone is not inductive: it does not say *)
(* where the request of the mutex owner is when it is not in flight.  The   *)
(* strengthening says exactly in which of four places the request of a      *)
(* waiting caller is, and that nothing is in flight when no caller waits.   *)
(***************************************************************************)
EXTENDS ActTransfer, TLAPS

\* The mutex owner is the one caller between its lock and its unlock.
Ownership ==
    \A c \in Callers : cpc[c] \in {"post", "wait", "unlock"} <=> mutex = c

\* Nothing is in flight.
Quiet == queue = << >> /\ sem = 0 /\ ~Busy

\* The request of a waiting caller: queued, being served, served, or answered.
InFlight(c) ==
    \/ queue = <<c>> /\ sem = 0 /\ ~Busy /\ ran[c] = 0
    \/ queue = << >> /\ sem = 0 /\ wpc \in {"run", "nested"} /\ cur = c /\ ran[c] = 0
    \/ queue = << >> /\ sem = 0 /\ wpc = "post" /\ cur = c /\ ran[c] = 1
    \/ queue = << >> /\ sem = 1 /\ ~Busy /\ ran[c] = 1

\* Where the tokens are, seen from the callers.
Tokens ==
    /\ \A c \in Callers : cpc[c] = "wait" => InFlight(c)
    /\ (\A c \in Callers : cpc[c] # "wait") => Quiet

\* What a caller's own variables record.
Records ==
    \A c \in Callers :
        /\ cpc[c] # "idle" => live[c]
        /\ cpc[c] \in {"entered", "post"} => ran[c] = 0
        /\ cpc[c] = "unlock" => ran[c] = 1
        /\ cpc[c] = "idle" /\ status[c] = "OK" => ran[c] = 1
        /\ status[c] # "BUSY"

\* The worker exists once act_init has run.
Booted == up = "off" => wpc = "none"

IInv == TypeOK /\ Booted /\ Ownership /\ Tokens /\ Records

LEMMA InitIInv == Init => IInv
  BY ActAssumption DEF Init, IInv, TypeOK, Booted, Ownership, Tokens, Quiet, Busy, Records

\* A step that leaves the queue, the semaphore, the worker and everybody's
\* waiting as they are leaves the tokens where they are.
LEMMA TokensKept ==
    ASSUME TypeOK, Tokens,
           queue' = queue, sem' = sem, wpc' = wpc, cur' = cur,
           \A c \in Callers : cpc'[c] = "wait" <=> cpc[c] = "wait",
           \A c \in Callers : cpc[c] = "wait" => ran'[c] = ran[c]
    PROVE  Tokens'
<1>1. ASSUME NEW c \in Callers, cpc'[c] = "wait"
      PROVE  InFlight(c)'
  BY <1>1 DEF Tokens, InFlight, Busy
<1>2. ASSUME \A c \in Callers : cpc'[c] # "wait"
      PROVE  Quiet'
  BY <1>2 DEF Tokens, Quiet, Busy
<1> QED
  BY <1>1, <1>2 DEF Tokens

\* The waiting caller, if there is one, is unique.
LEMMA OneWaits ==
    ASSUME Ownership, NEW c \in Callers, NEW d \in Callers,
           cpc[c] = "wait", cpc[d] \in {"post", "wait", "unlock"}
    PROVE  c = d
  BY DEF Ownership

LEMMA NextIInv == IInv /\ [Next]_vars => IInv'
<1> SUFFICES ASSUME IInv, [Next]_vars PROVE IInv'
  OBVIOUS
<1> USE DEF IInv
<1>0. Booted'
  BY DEF Booted, vars, worker, Next, ActInit, RegisterHandlers, Call, NoTable, Lock, Post, Wait,
         Unlock, CallReturns, Receive, NestedCall, NestedReturn, Run, Signal
<1>1. CASE ActInit
  <2>1. TypeOK' /\ Ownership' /\ Records'
    BY <1>1 DEF ActInit, TypeOK, Ownership, Records
  <2>2. Tokens'
    <3>1. queue' = queue /\ sem' = sem /\ cpc' = cpc /\ ran' = ran /\ wpc' = "recv" /\ cur' = cur
      BY <1>1 DEF ActInit
    <3>2. ASSUME NEW c \in Callers, cpc[c] = "wait"
          PROVE  InFlight(c)'
      BY <3>1, <3>2, <1>1 DEF ActInit, Booted, Tokens, InFlight, Busy
    <3>3. ASSUME \A c \in Callers : cpc[c] # "wait"
          PROVE  Quiet'
      BY <3>1, <3>3 DEF Tokens, Quiet, Busy
    <3> QED
      BY <3>1, <3>2, <3>3 DEF Tokens
  <2> QED
    BY <1>0, <2>1, <2>2
<1>2. CASE RegisterHandlers
  <2>1. TypeOK' /\ Ownership' /\ Records'
    BY <1>2 DEF RegisterHandlers, TypeOK, Ownership, Records, worker
  <2>2. Tokens'
    BY <1>2, TokensKept DEF RegisterHandlers, worker
  <2> QED
    BY <1>0, <2>1, <2>2
<1>3. ASSUME NEW c \in Callers, Call(c)
      PROVE  IInv'
  <2>1. TypeOK'
    <3>1. calls' \in [Callers -> 0..MaxCalls] /\ ran' \in [Callers -> Nat]
      BY <1>3, ActAssumption DEF Call, TypeOK
    <3>2. /\ cpc' \in [Callers -> {"idle", "entered", "post", "wait", "unlock"}]
          /\ live' \in [Callers -> BOOLEAN]
          /\ status' \in [Callers -> {"none", "OK", "NOT_READY", "NOMEM", "PARAM_INVALID", "BUSY"}]
      BY <1>3 DEF Call, Refused, TypeOK
    <3> QED
      BY <1>3, <3>1, <3>2 DEF Call, TypeOK, worker
  <2>2. Ownership' /\ Records'
    BY <1>3 DEF Call, Refused, TypeOK, Ownership, Records
  <2>3. Tokens'
    BY <1>3, TokensKept DEF Call, Refused, TypeOK, worker
  <2> QED
    BY <1>0, <2>1, <2>2, <2>3
<1>4. ASSUME NEW c \in Callers, NoTable(c)
      PROVE  IInv'
  <2>1. TypeOK' /\ Ownership' /\ Records'
    BY <1>4 DEF NoTable, Refused, TypeOK, Ownership, Records, worker
  <2>2. Tokens'
    BY <1>4, TokensKept DEF NoTable, Refused, TypeOK, worker
  <2> QED
    BY <1>0, <2>1, <2>2
<1>5. ASSUME NEW c \in Callers, Lock(c)
      PROVE  IInv'
  <2>1. TypeOK' /\ Ownership' /\ Records'
    BY <1>5, ActAssumption DEF Lock, TypeOK, Ownership, Records, worker
  <2>2. Tokens'
    BY <1>5, TokensKept DEF Lock, TypeOK, worker
  <2> QED
    BY <1>0, <2>1, <2>2
<1>6. ASSUME NEW c \in Callers, Post(c)
      PROVE  IInv'
  <2>1. \A d \in Callers : cpc[d] # "wait"
    BY <1>6, OneWaits DEF Post
  <2>2. queue = << >> /\ sem = 0 /\ ~Busy
    BY <2>1 DEF Tokens, Quiet
  <2>3. Len(queue) < QueueLen
    BY <2>2, ActAssumption
  <2>4. queue' = <<c>>
    BY <1>6, <2>2, <2>3 DEF Post
  <2>5. TypeOK'
    <3>1. queue' \in Seq(Callers)
      BY <2>4
    <3> QED
      BY <1>6, <2>3, <3>1 DEF Post, TypeOK, worker
  <2>6. Ownership' /\ Records'
    BY <1>6, <2>3 DEF Post, TypeOK, Ownership, Records
  <2>7. InFlight(c)'
    BY <1>6, <2>2, <2>4 DEF Post, InFlight, Records, Busy, worker
  <2>8. Tokens'
    BY <1>6, <2>1, <2>3, <2>7 DEF Post, Tokens, TypeOK
  <2> QED
    BY <1>0, <2>5, <2>6, <2>8
<1>7. ASSUME NEW c \in Callers, Wait(c)
      PROVE  IInv'
  <2>1. queue = << >> /\ sem = 1 /\ ~Busy /\ ran[c] = 1
    BY <1>7 DEF Wait, Tokens, InFlight
  <2>2. TypeOK' /\ Ownership' /\ Records'
    BY <1>7, <2>1 DEF Wait, TypeOK, Ownership, Records, worker
  <2>3. \A d \in Callers : cpc'[d] # "wait"
    BY <1>7, OneWaits DEF Wait, TypeOK
  <2>4. Quiet'
    BY <1>7, <2>1 DEF Wait, Quiet, Busy, worker
  <2> QED
    BY <1>0, <2>2, <2>3, <2>4 DEF Tokens
<1>8. ASSUME NEW c \in Callers, Unlock(c)
      PROVE  IInv'
  <2>1. TypeOK' /\ Ownership' /\ Records'
    BY <1>8, ActAssumption DEF Unlock, TypeOK, Ownership, Records, worker
  <2>2. Tokens'
    BY <1>8, TokensKept DEF Unlock, TypeOK, worker
  <2> QED
    BY <1>0, <2>1, <2>2
<1>9. CASE Receive
  <2>1. PICK c \in Callers : cpc[c] = "wait"
    BY <1>9 DEF Receive, Tokens, Quiet
  <2>2. queue = <<c>> /\ sem = 0 /\ ran[c] = 0
    BY <1>9, <2>1 DEF Receive, Tokens, InFlight
  <2>3. cur' = c /\ queue' = << >>
    BY <1>9, <2>2 DEF Receive
  <2>4. TypeOK' /\ Ownership' /\ Records'
    BY <1>9, <2>3 DEF Receive, TypeOK, Ownership, Records
  <2>5. \A d \in Callers : cpc'[d] = "wait" => d = c
    BY <1>9, <2>1, OneWaits DEF Receive
  <2>6. InFlight(c)'
    BY <1>9, <2>2, <2>3 DEF Receive, InFlight
  <2>7. cpc'[c] = "wait"
    BY <1>9, <2>1 DEF Receive
  <2> QED
    BY <1>0, <2>4, <2>5, <2>6, <2>7 DEF Tokens
<1>10. CASE NestedCall \/ NestedReturn \/ Run \/ Signal
  <2>1. Busy
    BY <1>10 DEF NestedCall, NestedReturn, Run, Signal, Busy
  <2>2. PICK c \in Callers : cpc[c] = "wait"
    BY <2>1 DEF Tokens, Quiet
  <2>3. queue = << >> /\ sem = 0 /\ cur = c
    BY <2>1, <2>2 DEF Tokens, InFlight, Busy
  <2>4. \A d \in Callers : cpc[d] = "wait" => d = c
    BY <2>2, OneWaits
  <2>5. cpc' = cpc /\ queue' = queue /\ cur' = cur /\ mutex' = mutex
    BY <1>10 DEF NestedCall, NestedReturn, Run, Signal
  <2>6. TypeOK'
    <3>1. sem' \in Nat
      BY <1>10, <2>3 DEF NestedCall, NestedReturn, Run, Signal
    <3>2. ran' \in [Callers -> Nat]
      BY <1>10, <2>3 DEF NestedCall, NestedReturn, Run, Signal, TypeOK
    <3>3. wpc' \in {"none", "recv", "run", "nested", "post"}
      BY <1>10 DEF NestedCall, NestedReturn, Run, Signal
    <3>4. up' = up /\ calls' = calls /\ live' = live /\ status' = status
      BY <1>10 DEF NestedCall, NestedReturn, Run, Signal
    <3> QED
      BY <2>5, <3>1, <3>2, <3>3, <3>4 DEF TypeOK
  <2>7. Ownership'
    BY <2>5 DEF Ownership
  <2>8. \A d \in Callers : d # c => ran'[d] = ran[d]
    BY <1>10, <2>3 DEF NestedCall, NestedReturn, Run, Signal, TypeOK
  <2>9. live' = live /\ status' = status
    BY <1>10 DEF NestedCall, NestedReturn, Run, Signal
  <2>10. Records'
    BY <2>2, <2>5, <2>8, <2>9 DEF Records
  <2>11. InFlight(c)'
    <3>1. CASE NestedCall \/ NestedReturn
      BY <2>1, <2>2, <2>3, <3>1 DEF NestedCall, NestedReturn, Tokens, InFlight, Busy
    <3>2. CASE Run
      <4>1. ran[c] = 0 /\ ran'[c] = 1
        BY <2>2, <2>3, <3>2 DEF Run, Tokens, InFlight, Busy, TypeOK
      <4> QED
        BY <2>3, <3>2, <4>1 DEF Run, InFlight
    <3>3. CASE Signal
      BY <2>2, <2>3, <3>3 DEF Signal, Tokens, InFlight, Busy
    <3> QED
      BY <1>10, <3>1, <3>2, <3>3
  <2> QED
    BY <1>0, <2>2, <2>4, <2>5, <2>6, <2>7, <2>10, <2>11 DEF Tokens
<1>11. CASE UNCHANGED vars
  <2>1. TypeOK' /\ Ownership' /\ Records'
    BY <1>11 DEF vars, TypeOK, Ownership, Records
  <2>2. Tokens'
    BY <1>11, TokensKept DEF vars
  <2> QED
    BY <1>0, <2>1, <2>2
<1> QED
  BY <1>1, <1>2, <1>3, <1>4, <1>5, <1>6, <1>7, <1>8, <1>9, <1>10, <1>11
     DEF Next, CallReturns

\* The inductive invariant holds in every state.
THEOREM ActInvariant == Spec => []IInv
<1>1. Init => IInv
  BY InitIInv
<1>2. IInv /\ [Next]_vars => IInv'
  BY NextIInv
<1> QED
  BY <1>1, <1>2, PTL DEF Spec

\* At any time at most one Wi-Fi request is in flight, and it is the mutex
\* owner's, whatever the number of threads that call wifi_* functions.
THEOREM ActOneRequest == Spec => []OneRequest
<1>1. IInv => OneRequest
  <2> SUFFICES ASSUME IInv PROVE OneRequest
    OBVIOUS
  <2> USE DEF IInv
  <2>1. CASE \A c \in Callers : cpc[c] # "wait"
    BY <2>1 DEF Tokens, Quiet, OneRequest, Busy
  <2>2. ASSUME NEW c \in Callers, cpc[c] = "wait"
        PROVE  OneRequest
    <3>1. mutex = c /\ mutex # NoCaller
      BY <2>2, ActAssumption DEF Ownership
    <3>2. InFlight(c)
      BY <2>2 DEF Tokens
    <3>3. CASE queue = <<c>> /\ sem = 0 /\ ~Busy
      <4>1. Len(queue) = 1 /\ queue[1] = c
        BY <3>3
      <4> QED
        BY <2>2, <3>1, <3>3, <4>1 DEF OneRequest
    <3>4. CASE queue = << >> /\ sem = 0 /\ Busy /\ cur = c
      <4>1. Len(queue) = 0
        BY <3>4
      <4> QED
        BY <2>2, <3>1, <3>4, <4>1 DEF OneRequest
    <3>5. CASE queue = << >> /\ sem = 1 /\ ~Busy
      <4>1. Len(queue) = 0
        BY <3>5
      <4> QED
        BY <2>2, <3>1, <3>5, <4>1 DEF OneRequest
    <3> QED
      BY <3>2, <3>3, <3>4, <3>5 DEF InFlight, Busy
  <2> QED
    BY <2>1, <2>2
<1> QED
  BY <1>1, ActInvariant, PTL

\* The worker never touches a freed message.
THEOREM ActNoUseAfterFree == Spec => []NoUseAfterFree
<1>1. IInv => NoUseAfterFree
  <2> SUFFICES ASSUME IInv PROVE NoUseAfterFree
    OBVIOUS
  <2> USE DEF IInv
  <2>1. CASE \A c \in Callers : cpc[c] # "wait"
    BY <2>1 DEF Tokens, Quiet, NoUseAfterFree
  <2>2. ASSUME NEW c \in Callers, cpc[c] = "wait"
        PROVE  NoUseAfterFree
    <3>1. live[c]
      BY <2>2 DEF Records
    <3>2. InFlight(c)
      BY <2>2 DEF Tokens
    <3> QED
      BY <3>1, <3>2 DEF InFlight, NoUseAfterFree, Busy
  <2> QED
    BY <2>1, <2>2
<1> QED
  BY <1>1, ActInvariant, PTL

\* A call that returned OK was served exactly once.
THEOREM ActOkMeansServed == Spec => []OkMeansServed
<1>1. IInv => OkMeansServed
  BY DEF IInv, Records, OkMeansServed
<1> QED
  BY <1>1, ActInvariant, PTL

\* The failing post, which would leave the mutex locked for good, is unreachable.
THEOREM ActPostNeverFails == Spec => []PostNeverFails
<1>1. IInv => PostNeverFails
  BY DEF IInv, Records, PostNeverFails
<1> QED
  BY <1>1, ActInvariant, PTL
=============================================================================
