---------------------------- MODULE WsTxRingProofs ----------------------------
(***************************************************************************)
(* Proofs about WsTxRing, for any set of producers, any ring size and any  *)
(* index width the ring size divides.                                      *)
(***************************************************************************)
EXTENDS WsTxRing, TLAPS

-------------------------------------------------------------------------------
(* Division by the ring size.  The provers know Euclidean division one     *)
(* number at a time; what the ring needs is that it is unique.             *)

LEMMA Division ==
    \A n \in Nat : /\ n \div Slots \in Nat
                   /\ n % Slots \in 0..Slots - 1
                   /\ n = Slots * (n \div Slots) + (n % Slots)
BY SlotsAssumption

LEMMA MultiplesApart ==
    \A q, r \in Nat : q < r => Slots * q + Slots <= Slots * r
<1> TAKE q, r \in Nat
<1> HAVE q < r
<1>1. PICK d \in Nat : r = q + 1 + d
  <2>1. r - q - 1 \in Nat
    OBVIOUS
  <2> QED BY <2>1
<1>2. Slots * r = Slots * q + Slots + Slots * d
  BY <1>1, SlotsAssumption
<1>3. Slots * d \in Nat /\ Slots * q \in Nat
  BY SlotsAssumption
<1> QED BY <1>2, <1>3, SlotsAssumption

LEMMA DivisionUnique ==
    \A q, r \in Nat, a, b \in 0..Slots - 1 :
        Slots * q + a = Slots * r + b => q = r /\ a = b
<1> TAKE q, r \in Nat, a, b \in 0..Slots - 1
<1> HAVE Slots * q + a = Slots * r + b
<1>1. Slots * q \in Nat /\ Slots * r \in Nat
  BY SlotsAssumption
<1>2. ~(q < r)
  BY <1>1, MultiplesApart, SlotsAssumption
<1>3. ~(r < q)
  BY <1>1, MultiplesApart, SlotsAssumption
<1> QED BY <1>1, <1>2, <1>3, SlotsAssumption

LEMMA SlotAfterMultiple ==
    \A n, k \in Nat : SlotOf(n + Slots * k) = SlotOf(n)
<1> TAKE n, k \in Nat
<1> DEFINE m == n + Slots * k
<1>1. Slots * k \in Nat
  BY SlotsAssumption
<1>2. m \in Nat
  BY <1>1
<1>3. /\ m \div Slots \in Nat /\ m % Slots \in 0..Slots - 1
      /\ m = Slots * (m \div Slots) + (m % Slots)
  BY <1>2, Division
<1>4. /\ n \div Slots \in Nat /\ n % Slots \in 0..Slots - 1
      /\ n = Slots * (n \div Slots) + (n % Slots)
  BY Division
<1>5. Slots * ((n \div Slots) + k) = Slots * (n \div Slots) + Slots * k
  BY <1>4, SlotsAssumption
<1>6. Slots * (n \div Slots) \in Nat
  BY <1>4, SlotsAssumption
<1>7. m = Slots * ((n \div Slots) + k) + (n % Slots)
  BY <1>1, <1>4, <1>5, <1>6
<1> HIDE DEF m
<1>8. (n \div Slots) + k \in Nat
  BY <1>4
<1>9. m % Slots = n % Slots
  BY <1>3, <1>4, <1>7, <1>8, DivisionUnique
<1> QED BY <1>9 DEF m, SlotOf

(* An index that wraps stays on its slot: why the ring size must divide    *)
(* 2^32, the source's "power of two".                                      *)
LEMMA SlotAfterWrap == \A n \in Nat : SlotOf(n + Modulus) = SlotOf(n)
<1>1. Modulus = Slots * (Modulus \div Slots) + (Modulus % Slots)
  BY ModulusAssumption, Division
<1>2. Modulus = Slots * (Modulus \div Slots) /\ Modulus \div Slots \in Nat
  BY <1>1, ModulusAssumption, SlotsAssumption, Division
<1> QED BY <1>2, SlotAfterMultiple

(* Fewer than Slots apart means different slots.                           *)
LEMMA SlotsDiffer ==
    \A m, n \in Nat : m < n /\ n < m + Slots => SlotOf(m) # SlotOf(n)
<1> TAKE m, n \in Nat
<1> HAVE m < n /\ n < m + Slots
<1> SUFFICES ASSUME m % Slots = n % Slots PROVE FALSE
  BY DEF SlotOf
<1>1. /\ m \div Slots \in Nat /\ m % Slots \in 0..Slots - 1
      /\ m = Slots * (m \div Slots) + (m % Slots)
  BY Division
<1>2. /\ n \div Slots \in Nat /\ n % Slots \in 0..Slots - 1
      /\ n = Slots * (n \div Slots) + (n % Slots)
  BY Division
<1>3. Slots * (m \div Slots) \in Nat /\ Slots * (n \div Slots) \in Nat
  BY <1>1, <1>2, SlotsAssumption
<1>4. CASE m \div Slots < n \div Slots
  BY <1>4, MultiplesApart, <1>1, <1>2, <1>3, SlotsAssumption
<1>5. CASE n \div Slots < m \div Slots
  BY <1>5, MultiplesApart, <1>1, <1>2, <1>3, SlotsAssumption
<1>6. CASE m \div Slots = n \div Slots
  BY <1>6, <1>1, <1>2, <1>3, SlotsAssumption
<1> QED BY <1>1, <1>2, <1>4, <1>5, <1>6

LEMMA SlotInRing == \A n \in Nat : SlotOf(n) \in 0..Slots - 1
BY Division DEF SlotOf

-------------------------------------------------------------------------------
(* The two free-running indices.                                           *)

IndicesOK == head \in 0..Modulus - 1 /\ tail \in 0..Modulus - 1

LEMMA UsedRange == ASSUME IndicesOK
                   PROVE  /\ Used \in 0..Modulus - 1
                          /\ Used = 0 <=> head = tail
BY ModulusAssumption DEF IndicesOK, Used

LEMMA UsedAfterEnqueue ==
    ASSUME IndicesOK, Used < Slots, head' = Incr(head), tail' = tail
    PROVE  IndicesOK' /\ Used' = Used + 1
BY ModulusAssumption, SlotsAssumption DEF IndicesOK, Used, Incr

LEMMA UsedAfterPop ==
    ASSUME IndicesOK, head # tail, tail' = Incr(tail), head' = head
    PROVE  IndicesOK' /\ Used' = Used - 1
BY ModulusAssumption, SlotsAssumption DEF IndicesOK, Used, Incr

(* The slot the head names is the one Used places after the tail.          *)
LEMMA HeadSlot == ASSUME IndicesOK
                  PROVE  SlotOf(tail + Used) = SlotOf(head)
<1>1. tail + Used = head \/ tail + Used = head + Modulus
  BY ModulusAssumption DEF IndicesOK, Used
<1>2. head \in Nat
  BY ModulusAssumption DEF IndicesOK
<1> QED BY <1>1, <1>2, SlotAfterWrap

(* Advancing the tail shifts every offset by one, across the wrap too.     *)
LEMMA TailSlot == ASSUME IndicesOK, NEW i \in Nat
                  PROVE  SlotOf(Incr(tail) + i) = SlotOf(tail + (i + 1))
<1>1. tail \in Nat /\ tail < Modulus /\ Modulus \in Nat
  BY ModulusAssumption DEF IndicesOK
<1>2. CASE tail + 1 = Modulus
  <2>1. Incr(tail) = 0
    BY <1>2 DEF Incr
  <2>2. tail + (i + 1) = i + Modulus
    BY <1>1, <1>2
  <2> QED BY <2>1, <2>2, SlotAfterWrap
<1>3. CASE tail + 1 # Modulus
  <2>1. Incr(tail) + i = tail + (i + 1)
    BY <1>1, <1>3 DEF Incr
  <2> QED BY <2>1
<1> QED BY <1>2, <1>3

-------------------------------------------------------------------------------
(* Types.  TypeOK is not inductive by itself: a producer numbers its next  *)
(* chunk below MaxChunks only because it is not past the end of its        *)
(* payload, and what ws_flush_work sends is a chunk only because the slots *)
(* between the indices have been filled, of which there are at most Slots. *)

ProducerInv ==
    \A p \in Producers : pc[p] # "idle" => payload[p] >= 1 /\ next[p] <= last[p]

Filled ==
    /\ \A i \in 0..Used - 1 : ring[SlotOf(tail + i)] \in Chunk
    /\ flush = "send" => frame \in Chunk

RingInv ==
    /\ TypeOK
    /\ ProducerInv
    /\ Used <= Slots
    /\ Filled

LEMMA RingInvIndices == RingInv => IndicesOK
BY DEF RingInv, TypeOK, IndicesOK

LEMMA RingInvInit == Init => RingInv
<1> SUFFICES ASSUME Init PROVE RingInv
  OBVIOUS
<1>1. TypeOK
  <2>1. sent \in Seq(Chunk)
    BY DEF Init
  <2>2. ring \in [0..Slots - 1 -> Chunk \cup {NoChunk}]
    BY DEF Init
  <2>3. head \in 0..Modulus - 1 /\ tail \in 0..Modulus - 1
    BY ModulusAssumption, SlotsAssumption DEF Init
  <2>4. /\ payload \in [Producers -> 0..Payloads]
        /\ next \in [Producers -> 1..MaxChunks + 1]
        /\ last \in [Producers -> 1..MaxChunks]
    BY MaxChunksAssumption, PayloadsAssumption DEF Init
  <2> QED BY <2>1, <2>2, <2>3, <2>4 DEF Init, TypeOK
<1>2. ProducerInv
  BY DEF Init, ProducerInv
<1>3. Used = 0
  BY DEF Init, Used
<1>4. Filled
  BY <1>3 DEF Init, Filled
<1> QED BY <1>1, <1>2, <1>3, <1>4, SlotsAssumption DEF RingInv

(* The foot of the loop keeps a producer inside its payload.               *)
LEMMA AdvanceKeeps ==
    ASSUME TypeOK, ProducerInv, NEW p \in Producers, pc[p] # "idle",
           Advance(p), UNCHANGED <<payload, last>>
    PROVE  /\ pc' \in [Producers -> {"idle", "enqueue", "post", "unkick"}]
           /\ next' \in [Producers -> 1..MaxChunks + 1]
           /\ ProducerInv'
<1>1. next[p] \in 1..MaxChunks /\ last[p] \in 1..MaxChunks
  BY MaxChunksAssumption DEF TypeOK, ProducerInv
<1>2. next' \in [Producers -> 1..MaxChunks + 1]
  BY <1>1, MaxChunksAssumption DEF Advance, TypeOK
<1>3. pc' \in [Producers -> {"idle", "enqueue", "post", "unkick"}]
  BY DEF Advance, TypeOK
<1>4. ASSUME NEW q \in Producers, pc'[q] # "idle"
      PROVE  payload'[q] >= 1 /\ next'[q] <= last'[q]
  <2>1. CASE q = p
    <3>1. next[p] # last[p] /\ next'[p] = next[p] + 1
      BY <1>4, <2>1 DEF Advance, TypeOK
    <3> QED BY <1>1, <2>1, <3>1 DEF ProducerInv
  <2>2. CASE q # p
    <3>1. pc'[q] = pc[q] /\ next'[q] = next[q]
      BY <2>2 DEF Advance, TypeOK
    <3> QED BY <1>4, <3>1 DEF ProducerInv
  <2> QED BY <2>1, <2>2
<1> QED BY <1>2, <1>3, <1>4 DEF ProducerInv

LEMMA ChunkAtIsChunk ==
    ASSUME TypeOK, ProducerInv, NEW p \in Producers, pc[p] # "idle"
    PROVE  ChunkAt(p) \in Chunk
<1>1. payload[p] \in 1..Payloads
  BY PayloadsAssumption DEF TypeOK, ProducerInv
<1>2. next[p] \in 1..MaxChunks
  BY MaxChunksAssumption DEF TypeOK, ProducerInv
<1> QED BY <1>1, <1>2 DEF ChunkAt, Chunk

LEMMA RingInvStep == RingInv /\ [Next]_vars => RingInv'
<1> SUFFICES ASSUME RingInv, [Next]_vars PROVE RingInv'
  OBVIOUS
<1> USE DEF RingInv
<1>0. IndicesOK
  BY RingInvIndices
<1>1. CASE ServerStart
  BY <1>1 DEF ServerStart, TypeOK, ProducerInv, Filled, Used, Chunk,
              ringVars, httpdVars, bufVars
<1>2. ASSUME NEW p \in Producers, NEW n \in 1..MaxChunks, Broadcast(p, n)
      PROVE  RingInv'
  <2>1. UNCHANGED <<ring, head, tail, flush, frame>>
    BY <1>2 DEF Broadcast, ringVars, httpdVars
  <2>2. Used' = Used /\ Filled'
    BY <2>1 DEF Used, Filled, Chunk
  <2>3. TypeOK'
    BY <1>2, MaxChunksAssumption, PayloadsAssumption
       DEF Broadcast, TypeOK, Chunk, ringVars, httpdVars
  <2>4. ProducerInv'
    BY <1>2, PayloadsAssumption DEF Broadcast, TypeOK, ProducerInv
  <2> QED BY <2>2, <2>3, <2>4
<1>3. ASSUME NEW p \in Producers, Drop(p) PROVE RingInv'
  BY <1>3 DEF Drop, TypeOK, ProducerInv, Filled, Used, Chunk,
              ringVars, httpdVars, bufVars
<1>4. ASSUME NEW p \in Producers, Enqueue(p) PROVE RingInv'
  <2>1. /\ pc[p] = "enqueue" /\ Used < Slots
        /\ ring' = [ring EXCEPT ![SlotOf(head)] = ChunkAt(p)]
        /\ head' = Incr(head)
        /\ UNCHANGED <<tail, flush, frame, payload, last>>
    BY <1>4 DEF Enqueue, httpdVars
  <2>2. ChunkAt(p) \in Chunk
    BY <2>1, ChunkAtIsChunk
  <2>3. IndicesOK' /\ Used' = Used + 1 /\ Used \in 0..Modulus - 1
    BY <1>0, <2>1, UsedAfterEnqueue, UsedRange
  <2>4. SlotOf(head) \in 0..Slots - 1
    BY <1>0, SlotInRing, ModulusAssumption DEF IndicesOK
  <2>5. ring' \in [0..Slots - 1 -> Chunk \cup {NoChunk}]
    BY <2>1, <2>2, <2>4 DEF TypeOK
  <2>6. Filled'
    <3>1. ASSUME NEW i \in 0..Used PROVE ring'[SlotOf(tail + i)] \in Chunk
      <4>1. SlotOf(tail + i) \in 0..Slots - 1
        BY <1>0, <2>3, SlotInRing, ModulusAssumption DEF IndicesOK
      <4>2. CASE i = Used
        <5>1. SlotOf(tail + i) = SlotOf(head)
          BY <4>2, <1>0, HeadSlot
        <5>2. ring'[SlotOf(head)] = ChunkAt(p)
          BY <2>1, <2>4 DEF TypeOK
        <5> QED BY <5>1, <5>2, <2>2
      <4>3. CASE i # Used
        <5>1. i \in 0..Used - 1
          BY <4>3, <2>3
        <5>2. ring[SlotOf(tail + i)] \in Chunk
          BY <5>1 DEF Filled
        <5>3. ring'[SlotOf(tail + i)] \in {ring[SlotOf(tail + i)], ChunkAt(p)}
          BY <4>1, <2>1 DEF TypeOK
        <5> QED BY <5>2, <5>3, <2>2
      <4> QED BY <4>2, <4>3
    <3>2. Chunk' = Chunk
      BY DEF Chunk
    <3> QED BY <3>1, <3>2, <2>1, <2>3 DEF Filled
  <2>7. /\ pc' \in [Producers -> {"idle", "enqueue", "post", "unkick"}]
        /\ next' \in [Producers -> 1..MaxChunks + 1]
        /\ ProducerInv'
    <3>1. CASE Advance(p)
      BY <2>1, <3>1, AdvanceKeeps
    <3>2. CASE pc' = [pc EXCEPT ![p] = "post"] /\ UNCHANGED next
      BY <2>1, <3>2 DEF TypeOK, ProducerInv
    <3> QED BY <1>4, <3>1, <3>2 DEF Enqueue
  <2>8. TypeOK'
    BY <1>4, <2>3, <2>5, <2>7
       DEF Enqueue, TypeOK, Chunk, IndicesOK, httpdVars
  <2> QED BY <2>1, <2>3, <2>6, <2>7, <2>8, SlotsAssumption
<1>5. ASSUME NEW p \in Producers, PostOk(p) PROVE RingInv'
  <2>1. /\ pc[p] = "post"
        /\ UNCHANGED <<payload, last>>
        /\ Advance(p)
    BY <1>5 DEF PostOk
  <2>2. /\ pc' \in [Producers -> {"idle", "enqueue", "post", "unkick"}]
        /\ next' \in [Producers -> 1..MaxChunks + 1]
        /\ ProducerInv'
    BY <2>1, AdvanceKeeps
  <2> QED BY <1>5, <2>2
             DEF PostOk, TypeOK, Filled, Used, Chunk, ringVars, httpdVars
<1>6. ASSUME NEW p \in Producers, PostFail(p) PROVE RingInv'
  BY <1>6 DEF PostFail, TypeOK, ProducerInv, Filled, Used, Chunk,
              ringVars, httpdVars, bufVars
<1>7. ASSUME NEW p \in Producers, Unkick(p) PROVE RingInv'
  <2>1. /\ pc[p] = "unkick"
        /\ UNCHANGED <<payload, last>>
        /\ Advance(p)
    BY <1>7 DEF Unkick
  <2>2. /\ pc' \in [Producers -> {"idle", "enqueue", "post", "unkick"}]
        /\ next' \in [Producers -> 1..MaxChunks + 1]
        /\ ProducerInv'
    BY <2>1, AdvanceKeeps
  <2> QED BY <1>7, <2>2
             DEF Unkick, TypeOK, Filled, Used, Chunk, ringVars, httpdVars
<1>8. CASE StartFlush
  BY <1>8 DEF StartFlush, TypeOK, ProducerInv, Filled, Used, Chunk,
              ringVars, bufVars
<1>9. CASE ClearKick
  BY <1>9 DEF ClearKick, TypeOK, ProducerInv, Filled, Used, Chunk,
              ringVars, bufVars
<1>10. CASE Pop
  <2>1. /\ head # tail /\ head' = head
        /\ tail' = Incr(tail)
        /\ frame' = ring[SlotOf(tail)]
        /\ UNCHANGED <<ring, pc, payload, next, last>>
    BY <1>10 DEF Pop, bufVars
  <2>2. IndicesOK' /\ Used' = Used - 1 /\ Used \in 1..Slots
    BY <1>0, <2>1, UsedAfterPop, UsedRange, SlotsAssumption, ModulusAssumption
  <2>3. frame' \in Chunk
    <3>1. ring[SlotOf(tail + 0)] \in Chunk
      BY <2>2 DEF Filled
    <3>2. tail + 0 = tail
      BY <1>0, ModulusAssumption DEF IndicesOK
    <3> QED BY <2>1, <3>1, <3>2
  <2>4. ASSUME NEW i \in 0..Used' - 1 PROVE ring'[SlotOf(tail' + i)] \in Chunk
    <3>1. SlotOf(tail' + i) = SlotOf(tail + (i + 1))
      BY <1>0, <2>1, <2>2, TailSlot
    <3>2. i + 1 \in 0..Used - 1
      BY <2>2
    <3>3. ring[SlotOf(tail + (i + 1))] \in Chunk
      BY <3>2 DEF Filled
    <3> QED BY <2>1, <3>1, <3>3
  <2>5. Filled'
    BY <2>3, <2>4 DEF Filled, Chunk
  <2>6. ProducerInv'
    BY <2>1 DEF ProducerInv
  <2>7. TypeOK'
    BY <1>10, <2>2, <2>3 DEF Pop, TypeOK, Chunk, IndicesOK, bufVars
  <2> QED BY <2>2, <2>5, <2>6, <2>7, SlotsAssumption
<1>11. CASE Send
  <2>1. frame \in Chunk
    BY <1>11 DEF Send, Filled
  <2> QED BY <1>11, <2>1
             DEF Send, TypeOK, ProducerInv, Filled, Used, Chunk,
                 ringVars, bufVars
<1>12. CASE EndFlush
  BY <1>12 DEF EndFlush, TypeOK, ProducerInv, Filled, Used, Chunk,
               ringVars, bufVars
<1>13. CASE UNCHANGED vars
  BY <1>13 DEF vars, TypeOK, ProducerInv, Filled, Used, Chunk
<1> QED BY <1>1, <1>2, <1>3, <1>4, <1>5, <1>6, <1>7, <1>8, <1>9, <1>10,
           <1>11, <1>12, <1>13 DEF Next, Continue, Post, Httpd

(* Every variable keeps its type; in particular the indices stay below the *)
(* modulus and every frame handed to a client is a chunk some producer     *)
(* enqueued, never an empty slot.                                          *)
THEOREM TypeCorrect == Spec => []TypeOK
<1>1. RingInv => TypeOK
  BY DEF RingInv
<1> QED BY RingInvInit, RingInvStep, <1>1, PTL DEF Spec

-------------------------------------------------------------------------------
(* The wake-up.  OneWakeup is inductive on its own; the types only make    *)
(* the count of queued calls a number.                                     *)

LEMMA OneWakeupInit == Init => OneWakeup
BY DEF Init, OneWakeup, Posting

(* A producer that moves on inside or out of ws_enqueue holds no wake-up.  *)
LEMMA AdvancePosting ==
    ASSUME TypeOK, NEW p \in Producers, Advance(p)
    PROVE  Posting' = Posting \ {p}
BY DEF Advance, TypeOK, Posting

LEMMA OneWakeupStep == TypeOK /\ OneWakeup /\ [Next]_vars => OneWakeup'
<1> SUFFICES ASSUME TypeOK, OneWakeup, [Next]_vars PROVE OneWakeup'
  OBVIOUS
<1> USE DEF OneWakeup
<1>1. CASE ServerStart
  BY <1>1 DEF ServerStart, Posting, httpdVars
<1>2. ASSUME NEW p \in Producers, NEW n \in 1..MaxChunks, Broadcast(p, n)
      PROVE  OneWakeup'
  <2>1. Posting' = Posting
    BY <1>2 DEF Broadcast, Posting, TypeOK
  <2> QED BY <1>2, <2>1 DEF Broadcast, httpdVars
<1>3. ASSUME NEW p \in Producers, Drop(p) PROVE OneWakeup'
  <2>1. Posting' = Posting
    BY <1>3 DEF Drop, Posting, TypeOK
  <2> QED BY <1>3, <2>1 DEF Drop, httpdVars
<1>4. ASSUME NEW p \in Producers, Enqueue(p) PROVE OneWakeup'
  <2>1. CASE kick /\ Advance(p)
    <3>1. Posting' = Posting
      BY <1>4, <2>1, AdvancePosting DEF Enqueue, Posting
    <3> QED BY <1>4, <2>1, <3>1 DEF Enqueue, httpdVars
  <2>2. CASE ~kick /\ pc' = [pc EXCEPT ![p] = "post"]
    <3>1. Posting = {} /\ work = 0 /\ flush # "clear"
      BY <2>2 DEF TypeOK
    <3>2. Posting' = {p}
      BY <2>2, <3>1 DEF Posting, TypeOK
    <3> QED BY <1>4, <3>1, <3>2 DEF Enqueue, httpdVars
  <2> QED BY <1>4, <2>1, <2>2 DEF Enqueue
<1>5. ASSUME NEW p \in Producers, PostOk(p) PROVE OneWakeup'
  <2>1. p \in Posting
    BY <1>5 DEF PostOk, Posting
  <2>2. Posting' = {}
    BY <1>5, <2>1, AdvancePosting DEF PostOk
  <2>3. kick /\ work = 0 /\ flush # "clear"
    BY <2>1
  <2> QED BY <1>5, <2>2, <2>3 DEF PostOk, httpdVars
<1>6. ASSUME NEW p \in Producers, PostFail(p) PROVE OneWakeup'
  <2>1. Posting' = Posting
    BY <1>6 DEF PostFail, Posting, TypeOK
  <2> QED BY <1>6, <2>1 DEF PostFail, httpdVars
<1>7. ASSUME NEW p \in Producers, Unkick(p) PROVE OneWakeup'
  <2>1. p \in Posting
    BY <1>7 DEF Unkick, Posting
  <2>2. Posting' = {}
    BY <1>7, <2>1, AdvancePosting DEF Unkick
  <2>3. work = 0 /\ flush # "clear"
    BY <2>1
  <2> QED BY <1>7, <2>2, <2>3 DEF Unkick, httpdVars
<1>8. CASE StartFlush
  <2>1. work = 1 /\ Posting = {} /\ kick
    BY <1>8 DEF StartFlush
  <2>2. Posting' = {}
    BY <1>8, <2>1 DEF StartFlush, Posting
  <2> QED BY <1>8, <2>1, <2>2 DEF StartFlush
<1>9. CASE ClearKick
  <2>1. work = 0 /\ Posting = {}
    BY <1>9 DEF ClearKick, TypeOK
  <2>2. Posting' = {}
    BY <1>9, <2>1 DEF ClearKick, Posting
  <2> QED BY <1>9, <2>1, <2>2 DEF ClearKick
<1>10. CASE Pop \/ Send \/ EndFlush
  <2>1. /\ UNCHANGED <<kick, work, pc>>
        /\ flush # "clear" /\ flush' # "clear"
    BY <1>10 DEF Pop, Send, EndFlush
  <2>2. Posting' = Posting
    BY <2>1 DEF Posting
  <2> QED BY <2>1, <2>2
<1>11. CASE UNCHANGED vars
  BY <1>11 DEF vars, Posting
<1> QED BY <1>1, <1>2, <1>3, <1>4, <1>5, <1>6, <1>7, <1>8, <1>9, <1>10,
           <1>11 DEF Next, Continue, Post, Httpd

(* There is one wake-up or none, and the flag says which; the queue of the *)
(* httpd task never holds a second call of ws_flush_work.                  *)
THEOREM WakeupIsUnique == Spec => []OneWakeup
<1>1. TypeOK /\ OneWakeup /\ [Next]_vars => OneWakeup'
  BY OneWakeupStep
<1> QED BY OneWakeupInit, <1>1, TypeCorrect, PTL DEF Spec

LEMMA NoLostWakeupInit == Init => NoLostWakeup
BY DEF Init, NoLostWakeup

LEMMA NoLostWakeupStep ==
    TypeOK /\ OneWakeup /\ NoLostWakeup /\ [Next]_vars => NoLostWakeup'
<1> SUFFICES ASSUME TypeOK, OneWakeup, NoLostWakeup, [Next]_vars
             PROVE  NoLostWakeup'
  OBVIOUS
<1> USE DEF NoLostWakeup
<1>1. CASE ServerStart
  BY <1>1 DEF ServerStart, Posting, ringVars, httpdVars
<1>2. ASSUME NEW p \in Producers, NEW n \in 1..MaxChunks, Broadcast(p, n)
      PROVE  NoLostWakeup'
  <2>1. Posting' = Posting
    BY <1>2 DEF Broadcast, Posting, TypeOK
  <2> QED BY <1>2, <2>1 DEF Broadcast, ringVars, httpdVars
<1>3. ASSUME NEW p \in Producers, Drop(p) PROVE NoLostWakeup'
  <2>1. Posting' = Posting
    BY <1>3 DEF Drop, Posting, TypeOK
  <2> QED BY <1>3, <2>1 DEF Drop, ringVars, httpdVars
<1>4. ASSUME NEW p \in Producers, Enqueue(p) PROVE NoLostWakeup'
  <2>1. OneWakeup'
    BY OneWakeupStep
  <2>2. kick' /\ flush' = flush
    BY <1>4 DEF Enqueue, httpdVars
  <2>3. Posting' # {} \/ work' > 0 \/ flush' = "clear"
    BY <2>1, <2>2 DEF OneWakeup
  <2> QED BY <2>3
<1>5. ASSUME NEW p \in Producers, PostOk(p) PROVE NoLostWakeup'
  BY <1>5 DEF PostOk, TypeOK
<1>6. ASSUME NEW p \in Producers, PostFail(p) PROVE NoLostWakeup'
  <2>1. Posting' = Posting
    BY <1>6 DEF PostFail, Posting, TypeOK
  <2> QED BY <1>6, <2>1 DEF PostFail, ringVars, httpdVars
<1>7. ASSUME NEW p \in Producers, Unkick(p) PROVE NoLostWakeup'
  BY <1>7 DEF Unkick
<1>8. CASE StartFlush \/ ClearKick \/ Pop \/ Send
  BY <1>8 DEF StartFlush, ClearKick, Pop, Send
<1>9. CASE EndFlush
  BY <1>9 DEF EndFlush, ringVars
<1>10. CASE UNCHANGED vars
  BY <1>10 DEF vars, Posting
<1> QED BY <1>1, <1>2, <1>3, <1>4, <1>5, <1>6, <1>7, <1>8, <1>9, <1>10
        DEF Next, Continue, Post, Httpd

(* A chunk is never left in the ring with nobody on the way to fetch it,   *)
(* except after httpd_queue_work refused the call and until the next       *)
(* enqueue.                                                                *)
THEOREM NothingStranded == Spec => []NoLostWakeup
<1>1. TypeOK /\ OneWakeup /\ NoLostWakeup /\ [Next]_vars => NoLostWakeup'
  BY NoLostWakeupStep
<1> QED BY NoLostWakeupInit, <1>1, TypeCorrect, WakeupIsUnique, PTL DEF Spec
===============================================================================
