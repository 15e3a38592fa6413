------------------------------- MODULE RingBuff -------------------------------
(***************************************************************************)
(* wifi/wifi/ring_buff.c, the byte ring under the Wi-Fi manager's message   *)
(* queue (queue.c), with the threads that use it.                           *)
(*                                                                          *)
(* Pointers are offsets from q->buff.  ring_buff_put and ring_buff_get test *)
(* q->enable before they take q->lock and everything else under it, so each *)
(* is a call step and a locked step; ring_buff_stop writes its flags        *)
(* without the lock, so it may fall between any two of them.  The lock is   *)
(* held across steps in one place only: the reader has seen an empty ring   *)
(* and has not yet entered pthread_cond_wait.                               *)
(*                                                                          *)
(* queue.c passes timeout 0 to every put and "forever" to every get, which  *)
(* makes the producer-side wait of ring_buff_put (p_wait, comsumer_ready,   *)
(* pcond) dead code in this program: it is left out.                        *)
(***************************************************************************)
EXTENDS Integers, Sequences

CONSTANTS
    Size,       \* q->buff_size
    Bytes,      \* the byte values told apart
    Zero,       \* the byte memset writes
    MaxChunk,   \* longest chunk of one put or get
    Producers   \* threads that call ring_buff_put

ASSUME RingAssumption ==
    /\ Size \in Nat \ {0}
    /\ MaxChunk \in Nat \ {0}
    /\ Zero \in Bytes

VARIABLES
    buff,       \* the bytes, indexed by offset
    write_pos,  \* q->write_pos - q->buff
    read_pos,   \* q->read_pos - q->buff
    data_len,   \* q->data_len
    enable,     \* q->enable
    signal,     \* q->signal: the quit flag
    pput,       \* pput[p]: "idle" | "enter" (past the enable test) | "notify"
    chunk,      \* chunk[p]: the data of p's put while it is under way
    ret,        \* ret[p]: what p's last completed put returned
    pget,       \* reader: "idle" | "enter" | "sleep" (lock held) | "blocked"
    want,       \* data_size of the reader's get while it is under way
    out,        \* the bytes the last completed get returned
    pstop       \* "idle" | "notify": ring_buff_stop between flags and signal

ring == <<buff, write_pos, read_pos, data_len>>
flags == <<enable, signal>>
putter == <<pput, chunk, ret>>
getter == <<pget, want, out>>
vars == <<buff, write_pos, read_pos, data_len, enable, signal,
          pput, chunk, ret, pget, want, out, pstop>>

Offsets == 0..(Size - 1)
Chunks == UNION {[1..n -> Bytes] : n \in 1..MaxChunk}

\* memcpy(b + at, src + from, n), with src a sequence (its byte 0 is src[1]).
Memcpy(b, at, src, from, n) ==
    [i \in DOMAIN b |-> IF at <= i /\ i < at + n THEN src[from + 1 + i - at]
                                                 ELSE b[i]]

\* Bytes that can be written before write_pos runs into read_pos.
Room == IF write_pos >= read_pos THEN (Size - write_pos) + read_pos
                                 ELSE read_pos - write_pos

\* Bytes that can be read before read_pos runs into write_pos.
Avail == IF write_pos <= read_pos THEN (Size - read_pos) + write_pos
                                  ELSE write_pos - read_pos

Full == write_pos = read_pos /\ data_len = Size

\* Mutant: a chunk that would fill the ring exactly is refused.
AcceptsStrict(n) == ~Full /\ ~signal /\ Room > n

\* The conditions under which the locked part of ring_buff_put stores n bytes.
Accepts(n) == ~Full /\ ~signal /\ Room >= n

\* A pointer that moved n bytes on: back at q->buff when it passes the end.
Advance(pos, n) == IF pos + n > Size - 1 THEN pos + n - Size ELSE pos + n

\* The reader has the lock while it is between its test and pthread_cond_wait.
LockFree == pget # "sleep"

-----------------------------------------------------------------------------
\* ring_buff_init: everything cleared, disabled.
Init ==
    /\ buff = [i \in Offsets |-> Zero]
    /\ write_pos = 0 /\ read_pos = 0 /\ data_len = 0
    /\ enable = FALSE /\ signal = FALSE
    /\ pput = [p \in Producers |-> "idle"]
    /\ chunk = [p \in Producers |-> <<Zero>>]
    /\ ret = [p \in Producers |-> 0]
    /\ pget = "idle" /\ want = 1 /\ out = << >>
    /\ pstop = "idle"

\* Mutant: the restart forgets to rewind write_pos.
StartKeepsWritePos ==
    /\ LockFree /\ pstop = "idle"
    /\ IF enable
       THEN UNCHANGED <<ring, flags>>
       ELSE /\ buff' = [i \in Offsets |-> Zero]
            /\ read_pos' = 0 /\ data_len' = 0
            /\ signal' = FALSE /\ enable' = TRUE
            /\ UNCHANGED write_pos
    /\ UNCHANGED <<putter, getter, pstop>>

\* ring_buff_start: a running ring is left alone, a stopped one is emptied.
Start ==
    /\ LockFree /\ pstop = "idle"
    /\ IF enable
       THEN UNCHANGED <<ring, flags>>
       ELSE /\ buff' = [i \in Offsets |-> Zero]
            /\ write_pos' = 0 /\ read_pos' = 0 /\ data_len' = 0
            /\ signal' = FALSE /\ enable' = TRUE
    /\ UNCHANGED <<putter, getter, pstop>>

\* ring_buff_stop: the flags, without the lock ...
Stop ==
    /\ pstop = "idle"
    /\ IF enable THEN signal' = TRUE /\ enable' = FALSE
                 ELSE UNCHANGED flags
    /\ pstop' = "notify"
    /\ UNCHANGED <<ring, putter, getter>>

\* pthread_cond_signal(&q->cond): wakes the reader if it is blocked.
Wake == pget' = IF pget = "blocked" THEN "enter" ELSE pget

\* ... then the signal.
StopNotify ==
    /\ pstop = "notify"
    /\ pstop' = "idle"
    /\ Wake
    /\ UNCHANGED <<ring, flags, putter, want, out>>

\* ring_buff_put up to the enable test; a disabled ring answers -1.
PutCall(p, d) ==
    /\ pput[p] = "idle"
    /\ IF enable
       THEN /\ pput' = [pput EXCEPT ![p] = "enter"]
            /\ chunk' = [chunk EXCEPT ![p] = d]
            /\ UNCHANGED ret
       ELSE /\ ret' = [ret EXCEPT ![p] = -1]
            /\ UNCHANGED <<pput, chunk>>
    /\ UNCHANGED <<ring, flags, getter, pstop>>

\* The copy of ring_buff_put: in one piece up to the end of the buffer, or in
\* two pieces around it.
Store(d) ==
    LET n   == Len(d)
        len == Size - write_pos
    IN  /\ buff' = IF write_pos + n <= Size
                   THEN Memcpy(buff, write_pos, d, 0, n)
                   ELSE Memcpy(Memcpy(buff, write_pos, d, 0, len), 0, d, len, n - len)
        /\ write_pos' = Advance(write_pos, n)
        /\ data_len' = data_len + n
        /\ UNCHANGED read_pos

\* Mutant: the reader is signalled only once the ring is half full (RB_SG_1_2).
PutStoreHalf(p) ==
    /\ pput[p] = "enter" /\ LockFree
    /\ Accepts(Len(chunk[p]))
    /\ Store(chunk[p])
    /\ ret' = [ret EXCEPT ![p] = Len(chunk[p])]
    /\ pput' = [pput EXCEPT ![p] = IF 2 * data_len' > Size THEN "notify" ELSE "idle"]
    /\ chunk' = [chunk EXCEPT ![p] = <<Zero>>]
    /\ UNCHANGED <<flags, getter, pstop>>

\* ring_buff_put under the lock, when the chunk is stored.
PutStore(p) ==
    /\ pput[p] = "enter" /\ LockFree
    /\ Accepts(Len(chunk[p]))
    /\ Store(chunk[p])
    /\ ret' = [ret EXCEPT ![p] = Len(chunk[p])]
    /\ pput' = [pput EXCEPT ![p] = "notify"]
    /\ chunk' = [chunk EXCEPT ![p] = <<Zero>>]
    /\ UNCHANGED <<flags, getter, pstop>>

\* ring_buff_put under the lock, when it returns 0: full, too little room, or
\* the quit flag.
PutRefuse(p) ==
    /\ pput[p] = "enter" /\ LockFree
    /\ ~Accepts(Len(chunk[p]))
    /\ ret' = [ret EXCEPT ![p] = 0]
    /\ pput' = [pput EXCEPT ![p] = "idle"]
    /\ chunk' = [chunk EXCEPT ![p] = <<Zero>>]
    /\ UNCHANGED <<ring, flags, getter, pstop>>

\* The cond_signal of RB_SG_NOMAL, after the unlock.
PutNotify(p) ==
    /\ pput[p] = "notify"
    /\ pput' = [pput EXCEPT ![p] = "idle"]
    /\ Wake
    /\ UNCHANGED <<ring, flags, chunk, ret, want, out, pstop>>

\* ring_buff_get up to the enable test; a disabled ring answers -1 at once.
GetCall(n) ==
    /\ pget = "idle"
    /\ enable
    /\ pget' = "enter" /\ want' = n
    /\ UNCHANGED <<ring, flags, putter, out, pstop>>

\* The copy of ring_buff_get, in one piece or in two around the end.
Load(n) ==
    LET len == IF Avail >= n THEN n ELSE Avail
        t   == Size - read_pos
    IN  /\ out' = [k \in 1..len |-> IF k <= t THEN buff[read_pos + k - 1]
                                              ELSE buff[k - t - 1]]
        /\ read_pos' = Advance(read_pos, len)
        /\ data_len' = data_len - len
        /\ UNCHANGED <<buff, write_pos>>

\* ring_buff_get under the lock: the loop test fails and there is data.
GetLoad ==
    /\ pget = "enter"
    /\ data_len # 0 /\ ~signal
    /\ Load(want)
    /\ pget' = "idle" /\ want' = 1
    /\ UNCHANGED <<flags, putter, pstop>>

\* ring_buff_get under the lock: the quit flag is captured, whatever is stored.
GetQuit ==
    /\ pget = "enter"
    /\ signal
    /\ out' = << >>
    /\ pget' = "idle" /\ want' = 1
    /\ UNCHANGED <<ring, flags, putter, pstop>>

\* ring_buff_get under the lock: nothing to read.  It keeps the lock ...
GetEmpty ==
    /\ pget = "enter"
    /\ data_len = 0 /\ ~signal
    /\ pget' = "sleep"
    /\ UNCHANGED <<ring, flags, putter, want, out, pstop>>

\* ... until pthread_cond_wait releases it and blocks, in one step.
GetBlock ==
    /\ pget = "sleep"
    /\ pget' = "blocked"
    /\ UNCHANGED <<ring, flags, putter, want, out, pstop>>

\* POSIX lets pthread_cond_wait return unsignalled; the loop tests again.
SpuriousWake ==
    /\ pget = "blocked"
    /\ pget' = "enter"
    /\ UNCHANGED <<ring, flags, putter, want, out, pstop>>

\* ring_buff_signal(q, RB_SG_QUIT): the flag under the lock, then the signal.
Quit ==
    /\ LockFree
    /\ signal' = TRUE
    /\ Wake
    /\ UNCHANGED <<ring, enable, putter, want, out, pstop>>

Next ==
    \/ Start \/ Stop \/ StopNotify \/ Quit
    \/ \E p \in Producers, d \in Chunks : PutCall(p, d)
    \/ \E p \in Producers : PutStore(p) \/ PutRefuse(p) \/ PutNotify(p)
    \/ \E n \in 1..MaxChunk : GetCall(n)
    \/ GetLoad \/ GetQuit \/ GetEmpty \/ GetBlock \/ SpuriousWake

Spec == Init /\ [][Next]_vars

-----------------------------------------------------------------------------
TypeOK ==
    /\ buff \in [Offsets -> Bytes]
    /\ write_pos \in Offsets /\ read_pos \in Offsets
    /\ data_len \in 0..Size
    /\ enable \in BOOLEAN /\ signal \in BOOLEAN
    /\ pput \in [Producers -> {"idle", "enter", "notify"}]
    /\ chunk \in [Producers -> Chunks]
    /\ ret \in [Producers -> Int]
    /\ pget \in {"idle", "enter", "sleep", "blocked"}
    /\ want \in 1..MaxChunk
    /\ out \in Seq(Bytes)
    /\ pstop \in {"idle", "notify"}

\* The counter data_len and the two pointers of ring_buff.c describe the same
\* set of bytes.  put and get never compare them with each other: put decides
\* from the pointers (and from data_len only when they are equal), get decides
\* from data_len whether to wait and from the pointers how much to copy.
LengthMatchesPointers == write_pos = Advance(read_pos, data_len)

\* A reader blocked in pthread_cond_wait while bytes are stored has a wake-up
\* coming: the producer signals after its unlock, so between the two the reader
\* may be blocked on a non-empty ring, but never without a pending signal.
NoLostWakeup ==
    (pget = "blocked" /\ data_len > 0)
        => \E p \in Producers : pput[p] = "notify"

\* The stored bytes, oldest first.
Contents == [k \in 1..data_len |-> buff[IF read_pos + k > Size THEN read_pos + k - 1 - Size
                                                            ELSE read_pos + k - 1]]

Fifo == INSTANCE ByteFifo WITH fifo <- Contents, closing <- signal

\* ring_buff.c implements the bounded byte queue of ByteFifo: bytes come out
\* once, in order, whole chunks go in, and a chunk that fits is never refused.
ImplementsFifo == Fifo!Spec
=============================================================================
