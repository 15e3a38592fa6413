------------------------------- MODULE ByteFifo -------------------------------
(***************************************************************************)
(* What a user of ring_buff.c may rely on: a bounded first-in first-out     *)
(* queue of bytes.  A chunk is stored whole or not at all, it is refused    *)
(* only when it does not fit or the queue is being shut down, and a reader  *)
(* receives the oldest bytes, as many as are there up to what it asked for. *)
(* The pointer arithmetic, the locks and the wake-ups are in RingBuff.      *)
(***************************************************************************)
EXTENDS Integers, Sequences

CONSTANTS
    Size,       \* capacity in bytes (buff_size)
    Bytes,      \* the byte values told apart
    MaxChunk,   \* longest chunk handed to one put or asked of one get
    Producers   \* threads that call ring_buff_put

VARIABLES
    fifo,       \* the bytes stored, oldest first
    closing,    \* a shutdown has begun: chunks may be refused although they fit
    ret,        \* ret[p]: what the last completed put of p returned
    out         \* the bytes the last completed get returned

vars == <<fifo, closing, ret, out>>

\* The chunks one call can carry.
Chunks == UNION {[1..n -> Bytes] : n \in 1..MaxChunk}

Init ==
    /\ fifo = << >>
    /\ closing = FALSE
    /\ ret = [p \in Producers |-> 0]
    /\ out = << >>

\* A chunk that fits is appended whole.
Accept(p, d) ==
    /\ ~closing
    /\ Len(fifo) + Len(d) <= Size
    /\ fifo' = fifo \o d
    /\ ret' = [ret EXCEPT ![p] = Len(d)]
    /\ UNCHANGED <<closing, out>>

\* A chunk that does not fit, or comes during a shutdown, leaves no byte behind.
Refuse(p, d) ==
    /\ closing \/ Len(fifo) + Len(d) > Size
    /\ ret' = [ret EXCEPT ![p] = 0]
    /\ UNCHANGED <<fifo, closing, out>>

\* A chunk offered to a disabled queue is answered with -1.
Disabled(p) ==
    /\ ret' = [ret EXCEPT ![p] = -1]
    /\ UNCHANGED <<fifo, closing, out>>

\* The reader takes the oldest bytes: all of them, or the n it asked for.
Deliver(n) ==
    /\ fifo # << >>
    /\ LET k == IF Len(fifo) < n THEN Len(fifo) ELSE n
       IN  /\ out' = SubSeq(fifo, 1, k)
           /\ fifo' = SubSeq(fifo, k + 1, Len(fifo))
    /\ UNCHANGED <<closing, ret>>

\* During a shutdown the reader returns empty-handed.
DeliverNothing ==
    /\ closing
    /\ out' = << >>
    /\ UNCHANGED <<fifo, closing, ret>>

Shutdown ==
    /\ closing' = TRUE
    /\ UNCHANGED <<fifo, ret, out>>

\* A restart forgets what was stored.
Restart ==
    /\ fifo' = << >>
    /\ closing' = FALSE
    /\ UNCHANGED <<ret, out>>

Next ==
    \/ \E p \in Producers, d \in Chunks : Accept(p, d) \/ Refuse(p, d)
    \/ \E p \in Producers : Disabled(p)
    \/ \E n \in 1..MaxChunk : Deliver(n)
    \/ DeliverNothing \/ Shutdown \/ Restart

Spec == Init /\ [][Next]_vars
=============================================================================
