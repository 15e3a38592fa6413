----------------------------- MODULE ActTransfer -----------------------------
(***************************************************************************)
(* wifi/wifi/api_action.c: how every public Wi-Fi call (wifimg.c) is handed *)
(* to the one worker thread of the Wi-Fi manager and waits for its answer.  *)
(*                                                                          *)
(* A caller takes handle->mutex, posts a pointer to its message, waits on   *)
(* handle->sem, releases the mutex and frees the message.  The worker takes *)
(* a message, runs its handler, which writes the result into the caller's   *)
(* cb_arg, and posts the semaphore.  The semaphore carries no identity:     *)
(* only the mutex makes the token a caller consumes the one posted for its  *)
(* own message.  A call made on the worker's own thread (from a handler)    *)
(* must bypass both, or the worker would wait for itself.                   *)
(*                                                                          *)
(* The queue is the message-level view of RingBuff (ByteFifo with chunks of *)
(* one pointer).  act_deinit is not modelled: the program never calls it.   *)
(***************************************************************************)
EXTENDS Integers, Sequences

CONSTANTS
    Callers,    \* application threads that use the wifi_* interface
    NoCaller,   \* the free mutex; a worker that has received nothing yet
    QueueLen,   \* messages the queue holds
    MaxCalls    \* bound: calls each caller makes

ASSUME ActAssumption ==
    /\ NoCaller \notin Callers
    /\ QueueLen \in Nat \ {0}
    /\ MaxCalls \in Nat

VARIABLES
    up,         \* "off" | "enabled" (act_init done) | "up" (tables registered)
    mutex,      \* owner of handle->mutex
    sem,        \* value of handle->sem
    queue,      \* messages posted and not received, named by their caller
    wpc,        \* worker: "none" | "recv" | "run" | "nested" | "post"
    cur,        \* the message in the worker's hand
    cpc,        \* cpc[c]: "idle" | "entered" | "post" | "wait" | "unlock"
    calls,      \* calls[c]: calls c has begun
    ran,        \* ran[c]: times the handler of c's latest call has run
    live,       \* live[c]: c's message and argument vectors are allocated
    status      \* status[c]: what c's latest completed call returned

vars == <<up, mutex, sem, queue, wpc, cur, cpc, calls, ran, live, status>>
worker == <<wpc, cur>>

Init ==
    /\ up = "off"
    /\ mutex = NoCaller /\ sem = 0 /\ queue = << >>
    /\ wpc = "none" /\ cur = NoCaller
    /\ cpc = [c \in Callers |-> "idle"]
    /\ calls = [c \in Callers |-> 0]
    /\ ran = [c \in Callers |-> 0]
    /\ live = [c \in Callers |-> FALSE]
    /\ status = [c \in Callers |-> "none"]

\* act_init: mutex, semaphore, queue, worker thread, and calls are let in.
ActInit ==
    /\ up = "off"
    /\ up' = "enabled"
    /\ wpc' = "recv"
    /\ UNCHANGED <<mutex, sem, queue, cur, cpc, calls, ran, live, status>>

\* act_register_handler for the four tables, after calls are let in.
RegisterHandlers ==
    /\ up = "enabled"
    /\ up' = "up"
    /\ UNCHANGED <<mutex, sem, queue, worker, cpc, calls, ran, live, status>>

-----------------------------------------------------------------------------
(* act_transfer and act_transfer_handle on a caller's thread *)

\* A call that ends before it shares anything.
Refused(c, s) ==
    /\ status' = [status EXCEPT ![c] = s]
    /\ cpc' = [cpc EXCEPT ![c] = "idle"]
    /\ live' = [live EXCEPT ![c] = FALSE]

\* The enable test and the malloc of the message.
Call(c) ==
    /\ cpc[c] = "idle" /\ calls[c] < MaxCalls
    /\ calls' = [calls EXCEPT ![c] = @ + 1]
    /\ ran' = [ran EXCEPT ![c] = 0]
    /\ \/ up = "off" /\ Refused(c, "NOT_READY")
       \/ up # "off" /\ Refused(c, "NOMEM")
       \/ /\ up # "off"
          /\ live' = [live EXCEPT ![c] = TRUE]
          /\ cpc' = [cpc EXCEPT ![c] = "entered"]
          /\ UNCHANGED status
    /\ UNCHANGED <<up, mutex, sem, queue, worker>>

\* No table is registered under the id.
NoTable(c) ==
    /\ cpc[c] = "entered" /\ up # "up"
    /\ Refused(c, "PARAM_INVALID")
    /\ UNCHANGED <<up, mutex, sem, queue, worker, calls, ran>>

\* os_net_mutex_recursive_lock.
Lock(c) ==
    /\ cpc[c] = "entered" /\ up = "up"
    /\ mutex = NoCaller
    /\ mutex' = c
    /\ cpc' = [cpc EXCEPT ![c] = "post"]
    /\ UNCHANGED <<up, sem, queue, worker, calls, ran, live, status>>

\* Mutant: the mutex protects only the post.
PostUnlocks(c) ==
    /\ cpc[c] = "post"
    /\ mutex' = NoCaller
    /\ IF Len(queue) < QueueLen
       THEN /\ queue' = Append(queue, c)
            /\ cpc' = [cpc EXCEPT ![c] = "wait"]
            /\ UNCHANGED <<live, status>>
       ELSE /\ Refused(c, "BUSY")
            /\ UNCHANGED queue
    /\ UNCHANGED <<up, sem, worker, calls, ran>>

\* Mutant: the ring keeps one slot free.
PostSpareSlot(c) ==
    /\ cpc[c] = "post"
    /\ IF Len(queue) < QueueLen - 1
       THEN /\ queue' = Append(queue, c)
            /\ cpc' = [cpc EXCEPT ![c] = "wait"]
            /\ UNCHANGED <<live, status>>
       ELSE /\ Refused(c, "BUSY")
            /\ UNCHANGED queue
    /\ UNCHANGED <<up, mutex, sem, worker, calls, ran>>

\* Mutant: the message is freed once it is posted, as for an asynchronous handle.
PostFrees(c) ==
    /\ cpc[c] = "post"
    /\ IF Len(queue) < QueueLen
       THEN /\ queue' = Append(queue, c)
            /\ cpc' = [cpc EXCEPT ![c] = "wait"]
            /\ live' = [live EXCEPT ![c] = FALSE]
            /\ UNCHANGED status
       ELSE /\ Refused(c, "BUSY")
            /\ UNCHANGED queue
    /\ UNCHANGED <<up, mutex, sem, worker, calls, ran>>

\* act_task_post.  A full queue ends the call with BUSY and leaves the mutex
\* locked.
Post(c) ==
    /\ cpc[c] = "post"
    /\ IF Len(queue) < QueueLen
       THEN /\ queue' = Append(queue, c)
            /\ cpc' = [cpc EXCEPT ![c] = "wait"]
            /\ UNCHANGED <<live, status>>
       ELSE /\ Refused(c, "BUSY")
            /\ UNCHANGED queue
    /\ UNCHANGED <<up, mutex, sem, worker, calls, ran>>

\* act_transfer_wait: sem_wait.
Wait(c) ==
    /\ cpc[c] = "wait"
    /\ sem > 0
    /\ sem' = sem - 1
    /\ cpc' = [cpc EXCEPT ![c] = "unlock"]
    /\ UNCHANGED <<up, mutex, queue, worker, calls, ran, live, status>>

\* Unlock, free, return OK: wifimg.c returns what the handler left in cb_arg.
Unlock(c) ==
    /\ cpc[c] = "unlock"
    /\ mutex' = NoCaller
    /\ live' = [live EXCEPT ![c] = FALSE]
    /\ status' = [status EXCEPT ![c] = "OK"]
    /\ cpc' = [cpc EXCEPT ![c] = "idle"]
    /\ UNCHANGED <<up, sem, queue, worker, calls, ran>>

-----------------------------------------------------------------------------
(* os_thread_handler *)

\* os_net_queue_receive returns the oldest message.
Receive ==
    /\ wpc = "recv" /\ queue # << >>
    /\ cur' = Head(queue) /\ queue' = Tail(queue)
    /\ wpc' = "run"
    /\ UNCHANGED <<up, mutex, sem, cpc, calls, ran, live, status>>

\* A handler, or a callback it runs, makes a wifi_* call of its own: the thread
\* is the worker, the other handler is called directly.
NestedCall ==
    /\ wpc = "run"
    /\ wpc' = "nested"
    /\ UNCHANGED <<up, mutex, sem, queue, cur, cpc, calls, ran, live, status>>

\* The nested call returns to its handler.
NestedReturn ==
    /\ wpc = "nested"
    /\ wpc' = "run"
    /\ UNCHANGED <<up, mutex, sem, queue, cur, cpc, calls, ran, live, status>>

\* Mutant: the worker answers without running the handler.
RunSkips ==
    /\ wpc = "run"
    /\ wpc' = "post"
    /\ UNCHANGED <<up, mutex, sem, queue, cur, cpc, calls, ran, live, status>>

\* The handler ends, its result is in the caller's cb_arg.
Run ==
    /\ wpc = "run"
    /\ ran' = [ran EXCEPT ![cur] = @ + 1]
    /\ wpc' = "post"
    /\ UNCHANGED <<up, mutex, sem, queue, cur, cpc, calls, live, status>>

\* Mutant: the token is kept for a waiting caller other than the one served.
SignalOther ==
    /\ wpc = "post"
    /\ sem' = IF \E c \in Callers \ {cur} : cpc[c] = "wait" THEN sem + 1 ELSE sem
    /\ wpc' = "recv"
    /\ UNCHANGED <<up, mutex, queue, cur, cpc, calls, ran, live, status>>

\* act_transfer_signal: sem_post.
Signal ==
    /\ wpc = "post"
    /\ sem' = sem + 1
    /\ wpc' = "recv"
    /\ UNCHANGED <<up, mutex, queue, cur, cpc, calls, ran, live, status>>

CallReturns(c) == NoTable(c) \/ Lock(c) \/ Post(c) \/ Wait(c) \/ Unlock(c)

Next ==
    \/ ActInit \/ RegisterHandlers
    \/ \E c \in Callers : Call(c) \/ CallReturns(c)
    \/ Receive \/ NestedCall \/ NestedReturn \/ Run \/ Signal

Spec == Init /\ [][Next]_vars

\* Threads that can run do run, and handlers end; nobody is obliged to call.
\* pthread mutexes promise no order among waiters: only weak fairness is
\* assumed, and MaxCalls keeps one caller from overtaking another forever.
FairSpec ==
    /\ Spec
    /\ WF_vars(RegisterHandlers)
    /\ \A c \in Callers : WF_vars(CallReturns(c))
    /\ WF_vars(Receive) /\ WF_vars(NestedReturn) /\ SF_vars(Run) /\ WF_vars(Signal)

-----------------------------------------------------------------------------
TypeOK ==
    /\ up \in {"off", "enabled", "up"}
    /\ mutex \in Callers \cup {NoCaller}
    /\ sem \in Nat
    /\ queue \in Seq(Callers)
    /\ wpc \in {"none", "recv", "run", "nested", "post"}
    /\ cur \in Callers \cup {NoCaller}
    /\ cpc \in [Callers -> {"idle", "entered", "post", "wait", "unlock"}]
    /\ calls \in [Callers -> 0..MaxCalls]
    /\ ran \in [Callers -> Nat]
    /\ live \in [Callers -> BOOLEAN]
    /\ status \in [Callers -> {"none", "OK", "NOT_READY", "NOMEM", "PARAM_INVALID", "BUSY"}]

Busy == wpc \in {"run", "nested", "post"}

\* One request is in flight at most, and it is the mutex owner's: it sits in the
\* queue, or in the worker's hands, or its answer is in the semaphore, and never
\* in two of these places.  Everything the callers rely on follows from this.
OneRequest ==
    /\ Len(queue) + sem + (IF Busy THEN 1 ELSE 0) <= 1
    /\ (Len(queue) = 1) => queue[1] = mutex /\ cpc[mutex] = "wait"
    /\ Busy => cur = mutex /\ cpc[mutex] = "wait"
    /\ (sem = 1) => mutex # NoCaller /\ cpc[mutex] = "wait"

\* The worker never touches a message its caller has already freed: the act_msg_t
\* and the argument vectors live on the caller's side (api_action.c:126, 174-178).
NoUseAfterFree ==
    /\ \A i \in DOMAIN queue : live[queue[i]]
    /\ Busy => live[cur]

\* A call that returns OK had its handler run, exactly once, for this call.
OkMeansServed ==
    \A c \in Callers :
        /\ cpc[c] = "unlock" => ran[c] = 1
        /\ cpc[c] = "idle" /\ status[c] = "OK" => ran[c] = 1

\* act_task_post never fails: its error path (api_action.c:106-110) would return
\* with the mutex locked and block every later Wi-Fi call.
PostNeverFails == \A c \in Callers : status[c] # "BUSY"

\* Every call that passed the first tests returns.
EveryCallReturns == \A c \in Callers : cpc[c] # "idle" ~> cpc[c] = "idle"
=============================================================================
