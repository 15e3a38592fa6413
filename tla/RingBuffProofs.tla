---------------------------- MODULE RingBuffProofs ----------------------------
(***************************************************************************)
(* Proofs about RingBuff for every ring size, chunk length, byte set and    *)
(* set of producers.  The inductive invariant adds to the three stated      *)
(* invariants that the reader sees an empty ring as long as it holds the    *)
(* lock on its way into pthread_cond_wait: this is what makes its blocking  *)
(* and a producer's signal impossible to miss one another.                  *)
(***************************************************************************)
EXTENDS RingBuff, SequenceTheorems, TLAPS

\* The reader that is about to block holds the lock, so the ring is still empty.
SleepsOnEmpty == pget = "sleep" => data_len = 0

IInv == TypeOK /\ LengthMatchesPointers /\ NoLostWakeup /\ SleepsOnEmpty

\* A chunk is a non-empty sequence of bytes no longer than MaxChunk.
LEMMA ChunkFacts ==
    ASSUME NEW d \in Chunks
    PROVE  /\ Len(d) \in 1..MaxChunk
           /\ d \in [1..Len(d) -> Bytes]
           /\ d \in Seq(Bytes)
<1>1. PICK n \in 1..MaxChunk : d \in [1..n -> Bytes]
  BY DEF Chunks
<1>2. n \in Nat
  BY <1>1, RingAssumption
<1>3. d \in Seq(Bytes) /\ Len(d) = n
  BY <1>1, <1>2
<1> QED
  BY <1>1, <1>3

\* A pointer moved by at most the size of the ring stays inside the ring.
LEMMA AdvanceInRange ==
    ASSUME NEW pos \in Offsets, NEW n \in 0..Size
    PROVE  Advance(pos, n) \in Offsets
  BY RingAssumption DEF Offsets, Advance

\* Moving a pointer twice is moving it once by the sum, inside one turn.
LEMMA AdvanceTwice ==
    ASSUME NEW pos \in Offsets, NEW m \in 0..Size, NEW n \in 0..Size, m + n <= Size
    PROVE  Advance(Advance(pos, m), n) = Advance(pos, m + n)
  BY RingAssumption DEF Offsets, Advance

\* With counter and pointers in agreement, Room is the free space of a ring
\* that is not full, and Avail the occupied space of one that is not empty.
LEMMA RoomAndAvail ==
    ASSUME TypeOK, LengthMatchesPointers
    PROVE  /\ ~Full => Room = Size - data_len
           /\ Full <=> data_len = Size
           /\ data_len # 0 => Avail = data_len
  BY RingAssumption DEF TypeOK, LengthMatchesPointers, Offsets, Advance, Full, Room, Avail

\* Copying bytes into the buffer leaves a buffer of bytes.
LEMMA MemcpyType ==
    ASSUME NEW b \in [Offsets -> Bytes], NEW d \in Chunks,
           NEW at \in Nat, NEW from \in Nat, NEW n \in Nat, from + n <= Len(d)
    PROVE  Memcpy(b, at, d, from, n) \in [Offsets -> Bytes]
<1>1. Len(d) \in Nat /\ d \in [1..Len(d) -> Bytes]
  BY ChunkFacts, RingAssumption
<1>2. ASSUME NEW i \in Offsets, at <= i, i < at + n
      PROVE  d[from + 1 + i - at] \in Bytes
  <2>1. i \in Int
    BY DEF Offsets
  <2>2. from + 1 + i - at \in 1..Len(d)
    BY <1>1, <1>2, <2>1
  <2> QED
    BY <1>1, <2>2
<1> QED
  BY <1>2 DEF Memcpy

-----------------------------------------------------------------------------
LEMMA InitIInv == Init => IInv
<1> SUFFICES ASSUME Init PROVE IInv
  OBVIOUS
<1>1. <<Zero>> \in Chunks
  <2>1. <<Zero>> \in [1..1 -> Bytes]
    BY RingAssumption
  <2> QED
    BY <2>1, RingAssumption DEF Chunks
<1>2. TypeOK
  <2>1. buff \in [Offsets -> Bytes] /\ write_pos \in Offsets /\ read_pos \in Offsets
    BY RingAssumption DEF Init, Offsets
  <2>2. out \in Seq(Bytes)
    BY DEF Init
  <2>3. want \in 1..MaxChunk /\ data_len \in 0..Size /\ ret \in [Producers -> Int]
    BY RingAssumption DEF Init
  <2> QED
    BY <1>1, <2>1, <2>2, <2>3 DEF Init, TypeOK
<1>3. LengthMatchesPointers
  BY RingAssumption DEF Init, LengthMatchesPointers, Advance
<1> QED
  BY <1>2, <1>3 DEF Init, IInv, NoLostWakeup, SleepsOnEmpty

\* Storing an accepted chunk.
LEMMA StoreStep ==
    ASSUME TypeOK, LengthMatchesPointers, NEW d \in Chunks, Accepts(Len(d)), Store(d)
    PROVE  /\ buff' \in [Offsets -> Bytes]
           /\ write_pos' \in Offsets /\ read_pos' = read_pos
           /\ data_len' = data_len + Len(d)
           /\ data_len' \in 1..Size
           /\ LengthMatchesPointers'
<1> DEFINE n == Len(d)
<1>1. n \in Nat /\ n >= 1
  BY ChunkFacts, RingAssumption
<1>2. data_len + n <= Size
  BY RoomAndAvail, <1>1, RingAssumption DEF Accepts, TypeOK
<1>3. data_len' = data_len + n /\ read_pos' = read_pos /\ write_pos' = Advance(write_pos, n)
  BY DEF Store
<1>4. data_len \in 0..Size /\ n \in 0..Size /\ Size \in Nat
  BY <1>1, <1>2, RingAssumption DEF TypeOK
<1>5. data_len' \in 1..Size
  BY <1>1, <1>2, <1>3, <1>4
<1>6. write_pos' \in Offsets
  BY <1>3, <1>4, AdvanceInRange DEF TypeOK
<1>7. LengthMatchesPointers'
  <2>1. write_pos' = Advance(Advance(read_pos, data_len), n)
    BY <1>3 DEF LengthMatchesPointers
  <2>2. Advance(Advance(read_pos, data_len), n) = Advance(read_pos, data_len + n)
    BY <1>2, <1>4, AdvanceTwice DEF TypeOK
  <2>3. Advance(read_pos, data_len)' = Advance(read_pos, data_len + n)
    BY <1>3 DEF Advance
  <2> QED
    BY <2>1, <2>2, <2>3 DEF LengthMatchesPointers
<1>8. buff' \in [Offsets -> Bytes]
  <2>1. write_pos \in Nat /\ Size - write_pos \in Nat /\ Size - write_pos >= 1
    BY RingAssumption DEF TypeOK, Offsets
  <2>2. CASE write_pos + n <= Size
    <3>1. Memcpy(buff, write_pos, d, 0, n) \in [Offsets -> Bytes]
      BY <1>1, <2>1, MemcpyType DEF TypeOK
    <3> QED
      BY <2>2, <3>1 DEF Store
  <2>3. CASE ~(write_pos + n <= Size)
    <3> DEFINE len == Size - write_pos
    <3>1. len \in Nat /\ n - len \in Nat /\ len <= n
      BY <1>1, <1>4, <2>1, <2>3
    <3>2. Memcpy(buff, write_pos, d, 0, len) \in [Offsets -> Bytes]
      <4>1. 0 \in Nat /\ 0 + len <= Len(d)
        BY <3>1
      <4> QED
        BY <2>1, <3>1, <4>1, MemcpyType DEF TypeOK
    <3>3. Memcpy(Memcpy(buff, write_pos, d, 0, len), 0, d, len, n - len)
            \in [Offsets -> Bytes]
      <4>1. len + (n - len) <= Len(d)
        BY <1>1, <3>1
      <4> HIDE DEF len
      <4> QED
        BY <3>1, <3>2, <4>1, MemcpyType
    <3> QED
      BY <2>3, <3>3 DEF Store
  <2> QED
    BY <2>2, <2>3
<1> QED
  BY <1>3, <1>5, <1>6, <1>7, <1>8

\* Reading from a ring that is not empty.
LEMMA LoadStep ==
    ASSUME TypeOK, LengthMatchesPointers, data_len # 0, NEW n \in 1..MaxChunk, Load(n)
    PROVE  /\ buff' = buff /\ write_pos' = write_pos
           /\ read_pos' \in Offsets
           /\ data_len' \in 0..Size
           /\ out' \in Seq(Bytes)
           /\ LengthMatchesPointers'
<1> DEFINE len == IF Avail >= n THEN n ELSE Avail
           t == Size - read_pos
<1>1. Avail = data_len
  BY RoomAndAvail
<1>2. n \in Nat /\ n >= 1 /\ data_len \in Nat /\ data_len >= 1 /\ data_len <= Size /\ Size \in Nat
  BY RingAssumption DEF TypeOK
<1>3. len \in Nat /\ len >= 1 /\ len <= data_len
  BY <1>1, <1>2
<1>4. read_pos \in Nat /\ t \in Nat /\ t >= 1 /\ read_pos = Size - t /\ len <= Size
  BY <1>2, <1>3, RingAssumption DEF TypeOK, Offsets
<1>5. /\ out' = [k \in 1..len |-> IF k <= t THEN buff[read_pos + k - 1] ELSE buff[k - t - 1]]
      /\ read_pos' = Advance(read_pos, len)
      /\ data_len' = data_len - len
      /\ buff' = buff /\ write_pos' = write_pos
  BY DEF Load
<1> HIDE DEF len, t
<1>6. out' \in Seq(Bytes)
  <2>1. ASSUME NEW k \in 1..len
        PROVE  (IF k <= t THEN buff[read_pos + k - 1] ELSE buff[k - t - 1]) \in Bytes
    <3>1. CASE k <= t
      <4>1. read_pos + k - 1 \in Offsets
        BY <1>2, <1>3, <1>4, <3>1 DEF Offsets
      <4> QED
        BY <3>1, <4>1 DEF TypeOK
    <3>2. CASE ~(k <= t)
      <4>1. k - t - 1 \in Offsets
        BY <1>2, <1>3, <1>4, <3>2 DEF Offsets
      <4> QED
        BY <3>2, <4>1 DEF TypeOK
    <3> QED
      BY <3>1, <3>2
  <2>2. out' \in [1..len -> Bytes]
    BY <1>5, <2>1
  <2> QED
    BY <1>3, <2>2
<1>7. data_len' \in 0..Size
  BY <1>2, <1>3, <1>5
<1>8. read_pos' \in Offsets
  BY <1>2, <1>3, <1>4, <1>5, AdvanceInRange DEF TypeOK
<1>9. LengthMatchesPointers'
  <2>1. Advance(Advance(read_pos, len), data_len - len) = Advance(read_pos, len + (data_len - len))
    <3>1. len \in 0..Size /\ data_len - len \in 0..Size /\ len + (data_len - len) <= Size
      BY <1>2, <1>3
    <3> QED
      BY <3>1, AdvanceTwice DEF TypeOK
  <2>2. len + (data_len - len) = data_len
    BY <1>2, <1>3
  <2>3. Advance(read_pos, data_len)' = Advance(Advance(read_pos, len), data_len - len)
    BY <1>5 DEF Advance
  <2> QED
    BY <1>5, <2>1, <2>2, <2>3 DEF LengthMatchesPointers
<1> QED
  BY <1>5, <1>6, <1>7, <1>8, <1>9
-----------------------------------------------------------------------------
\* Every step preserves the inductive invariant.
LEMMA NextIInv == IInv /\ [Next]_vars => IInv'
<1> SUFFICES ASSUME IInv, [Next]_vars PROVE IInv'
  OBVIOUS
<1> USE DEF IInv
<1>0. <<Zero>> \in Chunks
  <2>1. <<Zero>> \in [1..1 -> Bytes]
    BY RingAssumption
  <2> QED
    BY <2>1, RingAssumption DEF Chunks
<1>1. CASE Start
  <2>1. CASE enable
    BY <1>1, <2>1 DEF Start, TypeOK, LengthMatchesPointers, Advance, NoLostWakeup,
                      SleepsOnEmpty, ring, flags, putter, getter
  <2>2. CASE ~enable
    <3>1. buff' \in [Offsets -> Bytes] /\ write_pos' = 0 /\ read_pos' = 0 /\ data_len' = 0
      BY <1>1, <2>2, RingAssumption DEF Start
    <3>2. TypeOK'
      <4>1. write_pos' \in Offsets /\ read_pos' \in Offsets /\ data_len' \in 0..Size
        BY <3>1, RingAssumption DEF Offsets
      <4>2. enable' \in BOOLEAN /\ signal' \in BOOLEAN
        BY <1>1, <2>2 DEF Start
      <4>3. /\ pput' = pput /\ chunk' = chunk /\ ret' = ret /\ pget' = pget
            /\ want' = want /\ out' = out /\ pstop' = pstop
        BY <1>1 DEF Start, putter, getter
      <4> QED
        BY <3>1, <4>1, <4>2, <4>3 DEF TypeOK
    <3>3. LengthMatchesPointers'
      BY <3>1, RingAssumption DEF LengthMatchesPointers, Advance
    <3> QED
      BY <1>1, <3>1, <3>2, <3>3 DEF Start, NoLostWakeup, SleepsOnEmpty, LockFree, getter
  <2> QED
    BY <2>1, <2>2
<1>2. CASE Stop
  BY <1>2 DEF Stop, TypeOK, LengthMatchesPointers, Advance, NoLostWakeup, SleepsOnEmpty,
              ring, flags, putter, getter
<1>3. CASE StopNotify
  BY <1>3 DEF StopNotify, Wake, TypeOK, LengthMatchesPointers, Advance, NoLostWakeup,
              SleepsOnEmpty, ring, flags, putter
<1>4. CASE Quit
  BY <1>4 DEF Quit, Wake, TypeOK, LengthMatchesPointers, Advance, NoLostWakeup,
              SleepsOnEmpty, ring, putter
<1>5. ASSUME NEW p \in Producers, NEW d \in Chunks, PutCall(p, d)
      PROVE  IInv'
  <2>1. /\ buff' = buff /\ write_pos' = write_pos /\ read_pos' = read_pos
        /\ data_len' = data_len /\ enable' = enable /\ signal' = signal
        /\ pget' = pget /\ want' = want /\ out' = out /\ pstop' = pstop
    BY <1>5 DEF PutCall, ring, flags, getter
  <2>2. /\ pput' \in [Producers -> {"idle", "enter", "notify"}]
        /\ chunk' \in [Producers -> Chunks]
        /\ ret' \in [Producers -> Int]
    <3>1. CASE enable
      BY <1>5, <3>1 DEF PutCall, TypeOK
    <3>2. CASE ~enable
      <4>1. pput' = pput /\ chunk' = chunk /\ ret' = [ret EXCEPT ![p] = -1]
        BY <1>5, <3>2 DEF PutCall
      <4> QED
        BY <4>1 DEF TypeOK
    <3> QED
      BY <3>1, <3>2
  <2>3. ASSUME NEW q \in Producers, pput[q] = "notify"
        PROVE  pput'[q] = "notify"
    BY <1>5, <2>3 DEF PutCall, TypeOK
  <2>4. TypeOK'
    BY <2>1, <2>2 DEF TypeOK
  <2> QED
    BY <2>1, <2>3, <2>4 DEF LengthMatchesPointers, Advance, NoLostWakeup, SleepsOnEmpty
<1>6. ASSUME NEW p \in Producers, PutStore(p)
      PROVE  IInv'
  <2>1. chunk[p] \in Chunks /\ Len(chunk[p]) \in Int
    BY ChunkFacts DEF TypeOK
  <2>2. /\ buff' \in [Offsets -> Bytes] /\ write_pos' \in Offsets /\ read_pos' = read_pos
        /\ data_len' \in 1..Size
        /\ LengthMatchesPointers'
    BY <1>6, <2>1, StoreStep DEF PutStore
  <2>3. TypeOK'
    BY <1>0, <1>6, <2>1, <2>2, RingAssumption DEF PutStore, TypeOK, flags, getter
  <2>4. NoLostWakeup'
    <3>1. pput'[p] = "notify"
      BY <1>6 DEF PutStore, TypeOK
    <3> QED
      BY <3>1 DEF NoLostWakeup
  <2> QED
    BY <1>6, <2>2, <2>3, <2>4 DEF PutStore, LockFree, SleepsOnEmpty, getter
<1>7. ASSUME NEW p \in Producers, PutRefuse(p)
      PROVE  IInv'
  BY <1>0, <1>7 DEF PutRefuse, TypeOK, LengthMatchesPointers, Advance, NoLostWakeup,
                    SleepsOnEmpty, ring, flags, getter
<1>8. ASSUME NEW p \in Producers, PutNotify(p)
      PROVE  IInv'
  BY <1>8 DEF PutNotify, Wake, TypeOK, LengthMatchesPointers, Advance, NoLostWakeup,
              SleepsOnEmpty, ring, flags
<1>9. ASSUME NEW n \in 1..MaxChunk, GetCall(n)
      PROVE  IInv'
  BY <1>9 DEF GetCall, TypeOK, LengthMatchesPointers, Advance, NoLostWakeup,
              SleepsOnEmpty, ring, flags, putter
<1>10. CASE GetLoad
  <2>1. /\ buff' = buff /\ write_pos' = write_pos /\ read_pos' \in Offsets
        /\ data_len' \in 0..Size /\ out' \in Seq(Bytes)
        /\ LengthMatchesPointers'
    BY <1>10, LoadStep DEF GetLoad, TypeOK
  <2>2. TypeOK'
    BY <1>10, <2>1, RingAssumption DEF GetLoad, TypeOK, flags, putter
  <2> QED
    BY <1>10, <2>1, <2>2 DEF GetLoad, NoLostWakeup, SleepsOnEmpty
<1>11. CASE GetQuit
  BY <1>11, RingAssumption DEF GetQuit, TypeOK, LengthMatchesPointers, Advance,
              NoLostWakeup, SleepsOnEmpty, ring, flags, putter
<1>12. CASE GetEmpty
  BY <1>12 DEF GetEmpty, TypeOK, LengthMatchesPointers, Advance, NoLostWakeup,
               SleepsOnEmpty, ring, flags, putter
<1>13. CASE GetBlock
  BY <1>13 DEF GetBlock, TypeOK, LengthMatchesPointers, Advance, NoLostWakeup,
               SleepsOnEmpty, ring, flags, putter
<1>14. CASE SpuriousWake
  BY <1>14 DEF SpuriousWake, TypeOK, LengthMatchesPointers, Advance, NoLostWakeup,
               SleepsOnEmpty, ring, flags, putter
<1>15. CASE UNCHANGED vars
  BY <1>15 DEF vars, TypeOK, LengthMatchesPointers, Advance, NoLostWakeup, SleepsOnEmpty
<1> QED
  BY <1>1, <1>2, <1>3, <1>4, <1>5, <1>6, <1>7, <1>8, <1>9, <1>10, <1>11, <1>12,
     <1>13, <1>14, <1>15 DEF Next

\* The inductive invariant holds in every state of every run of the ring.
THEOREM RingInvariant == Spec => []IInv
<1>1. Init => IInv
  BY InitIInv
<1>2. IInv /\ [Next]_vars => IInv'
  BY NextIInv
<1> QED
  BY <1>1, <1>2, PTL DEF Spec

\* data_len and the pointers of ring_buff.c never disagree, for any ring size.
THEOREM RingLengthMatchesPointers == Spec => []LengthMatchesPointers
  BY RingInvariant, PTL DEF IInv

\* A reader blocked on a non-empty ring always has a signal coming, for any
\* number of producers.
THEOREM RingNoLostWakeup == Spec => []NoLostWakeup
  BY RingInvariant, PTL DEF IInv
-----------------------------------------------------------------------------
(* The ring implements ByteFifo: Contents is the abstract queue.             *)

\* The offset of the k-th oldest byte.
Slot(k) == IF read_pos + k > Size THEN read_pos + k - 1 - Size ELSE read_pos + k - 1

\* Contents is a sequence of data_len bytes, each in its slot.
LEMMA ContentsFacts ==
    ASSUME TypeOK
    PROVE  /\ Contents \in Seq(Bytes)
           /\ Len(Contents) = data_len
           /\ \A k \in 1..data_len : Contents[k] = buff[Slot(k)]
           /\ \A k \in 1..data_len : Slot(k) \in Offsets
<1>1. \A k \in 1..data_len : Slot(k) \in Offsets
  BY RingAssumption DEF TypeOK, Offsets, Slot
<1>2. Contents = [k \in 1..data_len |-> buff[Slot(k)]]
  BY DEF Contents, Slot
<1>3. \A k \in 1..data_len : buff[Slot(k)] \in Bytes
  BY <1>1 DEF TypeOK
<1>4. data_len \in Nat
  BY RingAssumption DEF TypeOK
<1>5. Contents \in [1..data_len -> Bytes]
  BY <1>2, <1>3
<1>6. Contents \in Seq(Bytes) /\ Len(Contents) = data_len
  BY <1>4, <1>5
<1> QED
  BY <1>1, <1>2, <1>6

\* What Store leaves at an offset: a byte of the chunk at the n offsets from
\* write_pos on, around the end of the buffer, and the old byte elsewhere.
LEMMA StoredBytes ==
    ASSUME TypeOK, NEW d \in Chunks, Len(d) <= Size, Store(d), NEW i \in Offsets
    PROVE  /\ i >= write_pos /\ i < write_pos + Len(d)
                => buff'[i] = d[i - write_pos + 1]
           /\ i < write_pos + Len(d) - Size
                => buff'[i] = d[i - write_pos + 1 + Size]
           /\ i < write_pos /\ i >= write_pos + Len(d) - Size
                => buff'[i] = buff[i]
           /\ i >= write_pos + Len(d) => buff'[i] = buff[i]
<1> DEFINE n == Len(d)
           len == Size - write_pos
<1>1. n \in Nat /\ n >= 1 /\ Size \in Nat /\ i \in Nat /\ i < Size
  BY ChunkFacts, RingAssumption DEF Offsets
<1>2. write_pos \in Nat /\ write_pos < Size /\ DOMAIN buff = Offsets
  BY RingAssumption DEF TypeOK, Offsets
<1>3. CASE write_pos + n <= Size
  <2>1. buff' = [j \in Offsets |-> IF write_pos <= j /\ j < write_pos + n
                                   THEN d[0 + 1 + j - write_pos] ELSE buff[j]]
    BY <1>2, <1>3 DEF Store, Memcpy
  <2>2. buff'[i] = IF write_pos <= i /\ i < write_pos + n
                   THEN d[0 + 1 + i - write_pos] ELSE buff[i]
    BY <2>1
  <2>3. 0 + 1 + i - write_pos = i - write_pos + 1
    BY <1>1, <1>2
  <2> HIDE DEF n
  <2> QED
    BY <1>1, <1>2, <1>3, <2>2, <2>3 DEF n
<1>4. CASE ~(write_pos + n <= Size)
  <2>1. buff' = Memcpy(Memcpy(buff, write_pos, d, 0, len), 0, d, len, n - len)
    BY <1>4 DEF Store
  <2>2. Memcpy(buff, write_pos, d, 0, len) =
          [j \in Offsets |-> IF write_pos <= j /\ j < write_pos + len
                             THEN d[0 + 1 + j - write_pos] ELSE buff[j]]
    BY <1>2 DEF Memcpy
  <2>3. buff'[i] = IF 0 <= i /\ i < 0 + (n - len) THEN d[len + 1 + i - 0]
                   ELSE Memcpy(buff, write_pos, d, 0, len)[i]
    BY <2>1, <2>2 DEF Memcpy
  <2>4. Memcpy(buff, write_pos, d, 0, len)[i] =
          IF write_pos <= i /\ i < write_pos + len
          THEN d[0 + 1 + i - write_pos] ELSE buff[i]
    BY <2>2
  <2>5. /\ 0 + 1 + i - write_pos = i - write_pos + 1
        /\ len + 1 + i - 0 = i - write_pos + 1 + Size
        /\ len \in Nat /\ len = Size - write_pos
    BY <1>1, <1>2
  <2> HIDE DEF n, len
  <2> QED
    BY <1>1, <1>2, <1>4, <2>3, <2>4, <2>5 DEF n
<1> QED
  BY <1>3, <1>4

\* Storing a chunk appends it to the contents.
LEMMA StoreAppends ==
    ASSUME TypeOK, LengthMatchesPointers, NEW d \in Chunks, Accepts(Len(d)), Store(d),
           TypeOK'
    PROVE  Contents' = Contents \o d
<1> DEFINE n == Len(d)
<1>1. n \in Nat /\ n >= 1 /\ d \in Seq(Bytes) /\ Size \in Nat
  BY ChunkFacts, RingAssumption
<1>2. data_len \in Nat /\ data_len + n <= Size
  BY RoomAndAvail, <1>1, RingAssumption DEF Accepts, TypeOK
<1>3. data_len' = data_len + n /\ read_pos' = read_pos
  BY DEF Store
<1>4. /\ Contents \in Seq(Bytes) /\ Len(Contents) = data_len
      /\ \A k \in 1..data_len : Contents[k] = buff[Slot(k)] /\ Slot(k) \in Offsets
  BY ContentsFacts
<1>5. Contents' \in Seq(Bytes) /\ Len(Contents') = data_len + n
  <2>1. Contents' = [k \in 1..(data_len + n) |-> buff'[Slot(k)]]
    BY <1>3 DEF Contents, Slot
  <2>2. \A k \in 1..(data_len + n) : Slot(k) \in Offsets
    BY <1>1, <1>2, RingAssumption DEF TypeOK, Offsets, Slot
  <2>3. \A k \in 1..(data_len + n) : buff'[Slot(k)] \in Bytes
    BY <2>2 DEF TypeOK
  <2>4. data_len + n \in Nat /\ Contents' \in [1..(data_len + n) -> Bytes]
    BY <1>1, <1>2, <2>1, <2>3
  <2> QED
    BY <2>4
<1>6. \A k \in 1..(data_len + n) : Contents'[k] = buff'[Slot(k)]
  BY <1>3 DEF Contents, Slot
<1>7. /\ Contents \o d \in Seq(Bytes) /\ Len(Contents \o d) = data_len + n
      /\ \A k \in 1..(data_len + n) :
            (Contents \o d)[k] = IF k <= data_len THEN Contents[k] ELSE d[k - data_len]
  BY <1>1, <1>4, ConcatProperties
<1>8. ASSUME NEW k \in 1..(data_len + n)
      PROVE  Contents'[k] = (Contents \o d)[k]
  <2>1. /\ read_pos \in Nat /\ read_pos < Size /\ write_pos \in Nat /\ write_pos < Size
        /\ k \in Nat /\ k >= 1 /\ k <= data_len + n
    BY <1>1, <1>2, RingAssumption DEF TypeOK, Offsets
  <2>2. Slot(k) \in Nat /\ Slot(k) < Size /\ Slot(k) \in Offsets
    BY <1>1, <1>2, <2>1 DEF Slot, Offsets
  <2>3. write_pos = IF read_pos + data_len > Size - 1 THEN read_pos + data_len - Size
                    ELSE read_pos + data_len
    BY DEF LengthMatchesPointers, Advance
  <2>a. Len(d) <= Size
    BY <1>1, <1>2
  <2>b. /\ Slot(k) >= write_pos /\ Slot(k) < write_pos + n
             => buff'[Slot(k)] = d[Slot(k) - write_pos + 1]
        /\ Slot(k) < write_pos + n - Size
             => buff'[Slot(k)] = d[Slot(k) - write_pos + 1 + Size]
        /\ Slot(k) < write_pos /\ Slot(k) >= write_pos + n - Size
             => buff'[Slot(k)] = buff[Slot(k)]
        /\ Slot(k) >= write_pos + n => buff'[Slot(k)] = buff[Slot(k)]
    BY <2>a, <2>2, StoredBytes
  <2>4. CASE k <= data_len
    <3>1. \/ Slot(k) < write_pos /\ Slot(k) >= write_pos + n - Size
          \/ Slot(k) >= write_pos + n
      BY <1>1, <1>2, <2>1, <2>3, <2>4 DEF Slot
    <3>2. buff'[Slot(k)] = buff[Slot(k)]
      BY <3>1, <2>b
    <3> QED
      BY <1>4, <1>6, <1>7, <2>1, <2>4, <3>2
  <2>5. CASE k > data_len
    <3>1. \/ /\ Slot(k) >= write_pos /\ Slot(k) < write_pos + n
             /\ Slot(k) - write_pos + 1 = k - data_len
          \/ /\ Slot(k) < write_pos + n - Size
             /\ Slot(k) - write_pos + 1 + Size = k - data_len
      BY <1>1, <1>2, <2>1, <2>3, <2>5 DEF Slot
    <3>2. buff'[Slot(k)] = d[k - data_len]
      BY <3>1, <2>b
    <3> QED
      BY <1>6, <1>7, <2>1, <1>2, <2>5, <3>2
  <2>6. k <= data_len \/ k > data_len
    BY <1>2, <2>1
  <2> QED
    BY <2>4, <2>5, <2>6
<1> QED
  BY <1>5, <1>7, <1>8, SeqEqual

\* Loading takes the oldest bytes off the contents.
LEMMA LoadTakes ==
    ASSUME TypeOK, LengthMatchesPointers, data_len # 0, NEW n \in 1..MaxChunk, Load(n),
           TypeOK'
    PROVE  LET k == IF Len(Contents) < n THEN Len(Contents) ELSE n
           IN  /\ out' = SubSeq(Contents, 1, k)
               /\ Contents' = SubSeq(Contents, k + 1, Len(Contents))
<1> DEFINE len == IF Avail >= n THEN n ELSE Avail
           t == Size - read_pos
           c == IF Len(Contents) < n THEN Len(Contents) ELSE n
<1>1. Avail = data_len
  BY RoomAndAvail
<1>2. n \in Nat /\ n >= 1 /\ data_len \in Nat /\ data_len >= 1 /\ data_len <= Size
      /\ Size \in Nat /\ read_pos \in Nat /\ read_pos < Size
  BY RingAssumption DEF TypeOK, Offsets
<1>3. /\ Contents \in Seq(Bytes) /\ Len(Contents) = data_len
      /\ \A j \in 1..data_len : Contents[j] = buff[Slot(j)] /\ Slot(j) \in Offsets
  BY ContentsFacts
<1>4. len = c /\ len \in Nat /\ len >= 1 /\ len <= data_len
  BY <1>1, <1>2, <1>3
<1>5. /\ out' = [j \in 1..len |-> IF j <= t THEN buff[read_pos + j - 1] ELSE buff[j - t - 1]]
      /\ read_pos' = Advance(read_pos, len)
      /\ data_len' = data_len - len
      /\ buff' = buff
  BY DEF Load
<1>t. t \in Nat /\ t >= 1 /\ t = Size - read_pos
  BY <1>2
<1>b. \A j \in 1..data_len : Contents[j] \in Bytes
  BY <1>3, ElementOfSeq
<1> HIDE DEF len, t, c
<1>6. out' = SubSeq(Contents, 1, len)
  <2>1. /\ SubSeq(Contents, 1, len) \in Seq(Bytes)
        /\ Len(SubSeq(Contents, 1, len)) = len
        /\ \A j \in 1..len : SubSeq(Contents, 1, len)[j] = Contents[j]
    <3>1. \A j \in 1..len : Contents[j] \in Bytes
      BY <1>b, <1>4, <1>2
    <3>2. /\ SubSeq(Contents, 1, len) \in Seq(Bytes)
          /\ Len(SubSeq(Contents, 1, len)) = IF 1 <= len THEN len - 1 + 1 ELSE 0
          /\ \A j \in 1..(len - 1 + 1) : SubSeq(Contents, 1, len)[j] = Contents[1 + j - 1]
      BY <3>1, <1>4, SubSeqProperties
    <3>3. len - 1 + 1 = len /\ \A j \in 1..len : 1 + j - 1 = j
      BY <1>4
    <3> QED
      BY <3>2, <3>3, <1>4
  <2>2. out' \in Seq(Bytes) /\ Len(out') = len
    BY <1>4, <1>5 DEF TypeOK
  <2>3. ASSUME NEW j \in 1..len
        PROVE  out'[j] = SubSeq(Contents, 1, len)[j]
    <3>1. Slot(j) = IF j <= t THEN read_pos + j - 1 ELSE j - t - 1
      BY <1>2, <1>4, <1>t DEF Slot
    <3>2. out'[j] = buff[Slot(j)]
      BY <1>5, <3>1
    <3>3. j \in 1..data_len
      BY <1>2, <1>4
    <3> QED
      BY <1>3, <2>1, <3>2, <3>3
  <2> QED
    BY <2>1, <2>2, <2>3, SeqEqual
<1>7. Contents' = SubSeq(Contents, len + 1, data_len)
  <2> DEFINE S == SubSeq(Contents, len + 1, data_len)
             m == data_len - len
  <2>0. m \in Nat /\ m + len = data_len
    BY <1>2, <1>4
  <2>1. S \in Seq(Bytes) /\ Len(S) = m /\ \A j \in 1..m : S[j] = Contents[len + j]
    <3>1. \A j \in (len + 1)..data_len : Contents[j] \in Bytes
      BY <1>b, <1>4, <1>2
    <3>2. /\ S \in Seq(Bytes)
          /\ Len(S) = IF len + 1 <= data_len THEN data_len - (len + 1) + 1 ELSE 0
          /\ \A j \in 1..(data_len - (len + 1) + 1) : S[j] = Contents[(len + 1) + j - 1]
      <4>1. len + 1 \in Int /\ data_len \in Int
        BY <1>2, <1>4
      <4> QED
        BY <3>1, <4>1, SubSeqProperties
    <3>3. data_len - (len + 1) + 1 = m /\ \A j \in 1..m : (len + 1) + j - 1 = len + j
      BY <1>2, <1>4
    <3>4. (IF len + 1 <= data_len THEN data_len - (len + 1) + 1 ELSE 0) = m
      BY <1>2, <1>4
    <3> HIDE DEF S, m
    <3> QED
      BY <3>2, <3>3, <3>4
  <2> HIDE DEF S
  <2>2. \A j \in 1..m : Slot(j)' = Slot(len + j)
    BY <1>2, <1>4, <1>5, <2>0 DEF Slot, Advance
  <2>3. Contents' = [j \in 1..m |-> buff[Slot(j)']]
    BY <1>5 DEF Contents, Slot
  <2>4. \A j \in 1..m : len + j \in 1..data_len
    BY <1>2, <1>4
  <2>5. \A j \in 1..m : buff[Slot(j)'] = Contents[len + j]
    BY <1>3, <2>2, <2>4
  <2>6. \A j \in 1..m : Contents[len + j] \in Bytes
    BY <1>b, <2>4
  <2>7. Contents' \in [1..m -> Bytes]
    BY <2>3, <2>5, <2>6
  <2>8. Contents' \in Seq(Bytes) /\ Len(Contents') = m
    BY <2>0, <2>7
  <2>9. \A j \in 1..m : Contents'[j] = S[j]
    BY <2>1, <2>3, <2>5
  <2>10. Contents' = S
    BY <2>1, <2>8, <2>9, SeqEqual
  <2> QED
    BY <2>10 DEF S
<1> QED
  BY <1>3, <1>4, <1>6, <1>7 DEF c

\* A step that leaves the ring, the flags and the results alone stutters.
LEMMA Stutters ==
    ASSUME UNCHANGED ring, signal' = signal, ret' = ret, out' = out
    PROVE  UNCHANGED Fifo!vars
  BY DEF ring, Fifo!vars, Contents

\* Every step of ring_buff.c is a step of the queue, or leaves it as it is.
LEMMA StepImplementsFifo ==
    ASSUME IInv, IInv', [Next]_vars
    PROVE  [Fifo!Next]_(Fifo!vars)
<1> USE DEF IInv
<1>0. Contents \in Seq(Bytes) /\ Len(Contents) = data_len /\ data_len \in Nat
  BY ContentsFacts, RingAssumption DEF TypeOK
<1>1. CASE Start
  <2>1. CASE enable
    <3>1. UNCHANGED Fifo!vars
      BY <1>1, <2>1, Stutters DEF Start, flags, putter, getter
    <3> QED
      BY <3>1
  <2>2. CASE ~enable
    <3>1. data_len' = 0 /\ signal' = FALSE /\ ret' = ret /\ out' = out
      BY <1>1, <2>2 DEF Start, putter, getter
    <3>2. Contents' = << >>
      BY <3>1 DEF Contents
    <3> QED
      BY <3>1, <3>2 DEF Fifo!Next, Fifo!Restart
  <2> QED
    BY <2>1, <2>2
<1>2. CASE Stop
  <2>1. Contents' = Contents /\ ret' = ret /\ out' = out
    BY <1>2 DEF Stop, ring, putter, getter, Contents
  <2>2. CASE enable
    BY <1>2, <2>1, <2>2 DEF Stop, Fifo!Next, Fifo!Shutdown
  <2>3. CASE ~enable
    BY <1>2, <2>1, <2>3 DEF Stop, flags, Fifo!vars
  <2> QED
    BY <2>2, <2>3
<1>3. CASE StopNotify
  <2>1. UNCHANGED Fifo!vars
    BY <1>3, Stutters DEF StopNotify, flags, putter
  <2> QED
    BY <2>1
<1>4. CASE Quit
  <2>1. Contents' = Contents /\ ret' = ret /\ out' = out /\ signal' = TRUE
    BY <1>4 DEF Quit, ring, putter, Contents
  <2> QED
    BY <2>1 DEF Fifo!Next, Fifo!Shutdown
<1>5. ASSUME NEW p \in Producers, NEW d \in Chunks, PutCall(p, d)
      PROVE  [Fifo!Next]_(Fifo!vars)
  <2>1. Contents' = Contents /\ signal' = signal /\ out' = out
    BY <1>5 DEF PutCall, ring, flags, getter, Contents
  <2>2. CASE enable
    BY <1>5, <2>1, <2>2 DEF PutCall, Fifo!vars
  <2>3. CASE ~enable
    BY <1>5, <2>1, <2>3 DEF PutCall, Fifo!Next, Fifo!Disabled
  <2> QED
    BY <2>2, <2>3
<1>6. ASSUME NEW p \in Producers, PutStore(p)
      PROVE  [Fifo!Next]_(Fifo!vars)
  <2>1. chunk[p] \in Chunks /\ Len(chunk[p]) \in Nat
    BY ChunkFacts, RingAssumption DEF TypeOK
  <2>2. Contents' = Contents \o chunk[p]
    BY <1>6, <2>1, StoreAppends DEF PutStore
  <2>3. ~signal /\ data_len + Len(chunk[p]) <= Size
    BY <1>6, <2>1, RoomAndAvail, RingAssumption DEF PutStore, Accepts, TypeOK
  <2>4. /\ ret' = [ret EXCEPT ![p] = Len(chunk[p])]
        /\ signal' = signal /\ out' = out
    BY <1>6 DEF PutStore, flags, getter
  <2>5. Fifo!Accept(p, chunk[p])
    BY <1>0, <2>2, <2>3, <2>4 DEF Fifo!Accept
  <2>6. chunk[p] \in Fifo!Chunks
    BY <2>1 DEF Chunks, Fifo!Chunks
  <2> QED
    BY <2>5, <2>6 DEF Fifo!Next
<1>7. ASSUME NEW p \in Producers, PutRefuse(p)
      PROVE  [Fifo!Next]_(Fifo!vars)
  <2>1. chunk[p] \in Chunks /\ Len(chunk[p]) \in Nat
    BY ChunkFacts, RingAssumption DEF TypeOK
  <2>2. signal \/ data_len + Len(chunk[p]) > Size
    <3>1. signal \/ Full \/ ~(Room >= Len(chunk[p]))
      BY <1>7 DEF PutRefuse, Accepts
    <3>2. CASE Full
      BY <1>0, <2>1, <3>2, RoomAndAvail, ChunkFacts, RingAssumption
    <3>3. CASE ~Full /\ ~(Room >= Len(chunk[p]))
      BY <1>0, <2>1, <3>3, RoomAndAvail, RingAssumption
    <3> QED
      BY <3>1, <3>2, <3>3
  <2>3. /\ ret' = [ret EXCEPT ![p] = 0] /\ signal' = signal /\ out' = out
        /\ Contents' = Contents
    BY <1>7 DEF PutRefuse, ring, flags, getter, Contents
  <2>4. Fifo!Refuse(p, chunk[p])
    BY <1>0, <2>2, <2>3 DEF Fifo!Refuse
  <2>5. chunk[p] \in Fifo!Chunks
    BY <2>1 DEF Chunks, Fifo!Chunks
  <2> QED
    BY <2>4, <2>5 DEF Fifo!Next
<1>8. ASSUME NEW p \in Producers, PutNotify(p)
      PROVE  [Fifo!Next]_(Fifo!vars)
  <2>1. UNCHANGED Fifo!vars
    BY <1>8, Stutters DEF PutNotify, flags
  <2> QED
    BY <2>1
<1>9. ASSUME NEW n \in 1..MaxChunk, GetCall(n)
      PROVE  [Fifo!Next]_(Fifo!vars)
  <2>1. UNCHANGED Fifo!vars
    BY <1>9, Stutters DEF GetCall, flags, putter
  <2> QED
    BY <2>1
<1>10. CASE GetLoad
  <2>1. want \in 1..MaxChunk /\ data_len # 0 /\ Load(want)
    BY <1>10 DEF GetLoad, TypeOK
  <2>2. LET k == IF Len(Contents) < want THEN Len(Contents) ELSE want
        IN  /\ out' = SubSeq(Contents, 1, k)
            /\ Contents' = SubSeq(Contents, k + 1, Len(Contents))
    BY <2>1, LoadTakes
  <2>3. signal' = signal /\ ret' = ret
    BY <1>10 DEF GetLoad, flags, putter
  <2>4. Contents # << >>
    BY <1>0, <2>1
  <2>5. Fifo!Deliver(want)
    BY <2>2, <2>3, <2>4 DEF Fifo!Deliver
  <2> QED
    BY <2>1, <2>5 DEF Fifo!Next
<1>11. CASE GetQuit
  <2>1. Contents' = Contents /\ signal' = signal /\ ret' = ret
    BY <1>11 DEF GetQuit, ring, flags, putter, Contents
  <2> QED
    BY <1>11, <2>1 DEF GetQuit, Fifo!Next, Fifo!DeliverNothing
<1>12. CASE GetEmpty \/ GetBlock \/ SpuriousWake \/ UNCHANGED vars
  <2>1. UNCHANGED ring /\ signal' = signal /\ ret' = ret /\ out' = out
    BY <1>12 DEF GetEmpty, GetBlock, SpuriousWake, flags, putter, ring, vars
  <2>2. UNCHANGED Fifo!vars
    BY <2>1, Stutters
  <2> QED
    BY <2>2
<1> QED
  BY <1>1, <1>2, <1>3, <1>4, <1>5, <1>6, <1>7, <1>8, <1>9, <1>10, <1>11, <1>12 DEF Next

\* ring_buff.c implements the bounded queue of ByteFifo, for every ring size and
\* number of producers, although stop writes its flags without the lock.
THEOREM RingImplementsFifo == Spec => ImplementsFifo
<1>1. Init => Fifo!Init
  <2> SUFFICES ASSUME Init PROVE Fifo!Init
    OBVIOUS
  <2>1. Contents = << >>
    BY DEF Init, Contents
  <2> QED
    BY <2>1 DEF Init, Fifo!Init
<1>2. IInv /\ IInv' /\ [Next]_vars => [Fifo!Next]_(Fifo!vars)
  BY StepImplementsFifo
<1> QED
  BY <1>1, <1>2, RingInvariant, PTL DEF Spec, ImplementsFifo, Fifo!Spec
=============================================================================
