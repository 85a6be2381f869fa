-------------------------- MODULE WsTxRingRefinement --------------------------
(***************************************************************************)
(* WsTxRing implements SerialFifo, for any set of producers, any ring size *)
(* and any index width the ring size divides.  Enqueue is Accept, Send is  *)
(* Deliver, every other step leaves the line and what was delivered alone. *)
(***************************************************************************)
EXTENDS WsTxRingProofs, SequenceTheorems

-------------------------------------------------------------------------------
(* The line is the stack copy followed by the occupied slots.              *)

Copied == IF flush = "send" THEN <<frame>> ELSE <<>>
Queued == [i \in 1..Used |-> ring[SlotOf(tail + i - 1)]]

LEMMA LineParts == Line = Copied \o Queued /\ Line' = Copied' \o Queued'
BY DEF Line, Copied, Queued

LEMMA PartsAreSequences ==
    ASSUME RingInv
    PROVE  /\ Used \in Nat
           /\ Queued \in Seq(Chunk) /\ Len(Queued) = Used
           /\ Copied \in Seq(Chunk)
           /\ Line \in Seq(Chunk)
<1>1. Used \in Nat
  BY RingInvIndices, UsedRange, ModulusAssumption
<1>2. ASSUME NEW i \in 1..Used PROVE ring[SlotOf(tail + i - 1)] \in Chunk
  <2>1. i - 1 \in 0..Used - 1
    BY <1>1
  <2>2. tail + (i - 1) = tail + i - 1
    BY RingInvIndices, ModulusAssumption DEF IndicesOK
  <2> QED BY <2>1, <2>2 DEF RingInv, Filled
<1>3. Queued \in Seq(Chunk) /\ Len(Queued) = Used
  BY <1>1, <1>2 DEF Queued
<1>4. Copied \in Seq(Chunk)
  BY DEF Copied, RingInv, Filled
<1> QED BY <1>1, <1>3, <1>4, LineParts, ConcatProperties

LEMMA QueuedAfterEnqueue ==
    ASSUME RingInv, NEW p \in Producers, Enqueue(p)
    PROVE  Queued' = Append(Queued, ChunkAt(p))
<1>1. /\ Used < Slots /\ head' = Incr(head) /\ tail' = tail
      /\ ring' = [ring EXCEPT ![SlotOf(head)] = ChunkAt(p)]
  BY DEF Enqueue
<1>2. IndicesOK /\ Used' = Used + 1
  BY <1>1, RingInvIndices, UsedAfterEnqueue
<1>3. /\ Used \in Nat /\ tail \in Nat
      /\ Queued \in Seq(Chunk) /\ Len(Queued) = Used
  BY <1>2, PartsAreSequences, ModulusAssumption DEF IndicesOK
<1>4. SlotOf(head) \in 0..Slots - 1
  BY <1>2, SlotInRing, ModulusAssumption DEF IndicesOK
<1>5. ASSUME NEW i \in 1..Used
      PROVE  ring'[SlotOf(tail + i - 1)] = ring[SlotOf(tail + i - 1)]
  <2>1. tail + i - 1 \in Nat /\ tail + Used \in Nat
    BY <1>3
  <2>2. SlotOf(tail + i - 1) # SlotOf(tail + Used)
    BY <1>1, <1>3, <2>1, SlotsDiffer, SlotsAssumption
  <2>3. SlotOf(tail + i - 1) # SlotOf(head)
    BY <1>2, <2>2, HeadSlot
  <2>4. SlotOf(tail + i - 1) \in 0..Slots - 1
    BY <2>1, SlotInRing
  <2> QED BY <1>1, <2>3, <2>4 DEF RingInv, TypeOK
<1>6. ring'[SlotOf(tail + (Used + 1) - 1)] = ChunkAt(p)
  <2>1. tail + (Used + 1) - 1 = tail + Used
    BY <1>3
  <2>2. SlotOf(tail + (Used + 1) - 1) = SlotOf(head)
    BY <1>2, <2>1, HeadSlot
  <2> QED BY <1>1, <1>4, <2>2 DEF RingInv, TypeOK
<1>7. Queued' = [i \in 1..Used + 1 |-> ring'[SlotOf(tail + i - 1)]]
  BY <1>1, <1>2 DEF Queued
<1>8. /\ Queued = [i \in 1..Used |-> ring[SlotOf(tail + i - 1)]]
      /\ Append(Queued, ChunkAt(p)) =
            [i \in 1..Used + 1 |-> IF i = Used + 1 THEN ChunkAt(p) ELSE Queued[i]]
  BY <1>3 DEF Queued
<1>9. ASSUME NEW i \in 1..Used + 1
      PROVE  ring'[SlotOf(tail + i - 1)] =
                IF i = Used + 1 THEN ChunkAt(p) ELSE Queued[i]
  <2>1. CASE i = Used + 1
    BY <1>6, <2>1
  <2>2. CASE i # Used + 1
    <3>1. i \in 1..Used
      BY <1>3, <2>2
    <3> QED BY <1>5, <1>8, <2>2, <3>1
  <2> QED BY <2>1, <2>2
<1> QED BY <1>7, <1>8, <1>9, Zenon

LEMMA QueuedAfterPop ==
    ASSUME RingInv, Pop
    PROVE  /\ frame' \in Chunk
           /\ Queued' \in Seq(Chunk)
           /\ Queued = <<frame'>> \o Queued'
<1>1. /\ head # tail /\ head' = head /\ tail' = Incr(tail)
      /\ ring' = ring /\ frame' = ring[SlotOf(tail)]
  BY DEF Pop
<1>2. IndicesOK /\ IndicesOK' /\ Used' = Used - 1
  BY <1>1, RingInvIndices, UsedAfterPop
<1>3. /\ Used \in Nat \ {0} /\ tail \in Nat
      /\ Queued \in Seq(Chunk) /\ Len(Queued) = Used
  BY <1>1, <1>2, UsedRange, PartsAreSequences, ModulusAssumption DEF IndicesOK
<1>4. Queued[1] = frame'
  <2>1. tail + 1 - 1 = tail
    BY <1>3
  <2> QED BY <1>1, <1>3, <2>1 DEF Queued
<1>5. ASSUME NEW i \in 1..Used - 1
      PROVE  ring'[SlotOf(tail' + i - 1)] = Queued[i + 1]
  <2>1. i - 1 \in Nat /\ i + 1 \in 1..Used
    BY <1>3
  <2>2. SlotOf(Incr(tail) + (i - 1)) = SlotOf(tail + ((i - 1) + 1))
    BY <1>2, <2>1, TailSlot
  <2>3. Incr(tail) \in Nat
    BY <1>1, <1>2, ModulusAssumption DEF IndicesOK
  <2>4. /\ Incr(tail) + (i - 1) = tail' + i - 1
        /\ tail + ((i - 1) + 1) = tail + (i + 1) - 1
    BY <1>1, <1>3, <2>3
  <2> QED BY <1>1, <2>1, <2>2, <2>4 DEF Queued
<1>6. Queued' = [i \in 1..Used - 1 |-> ring'[SlotOf(tail' + i - 1)]]
  BY <1>2 DEF Queued
<1>7. /\ Queued' \in Seq(Chunk) /\ Len(Queued') = Used - 1
      /\ \A i \in 1..Used - 1 : Queued'[i] = Queued[i + 1]
  <2>1. \A i \in 1..Used - 1 : Queued[i + 1] \in Chunk
    BY <1>3
  <2>2. Queued' = [i \in 1..Used - 1 |-> Queued[i + 1]]
    BY <1>5, <1>6, Zenon
  <2>3. Used - 1 \in Nat
    BY <1>3
  <2> DEFINE q == Queued
  <2> HIDE DEF q
  <2>4. /\ [i \in 1..Used - 1 |-> q[i + 1]] \in Seq(Chunk)
        /\ Len([i \in 1..Used - 1 |-> q[i + 1]]) = Used - 1
    BY <2>1, <2>3 DEF q
  <2> QED BY <2>2, <2>4 DEF q
<1>8. frame' \in Chunk
  BY <1>3, <1>4
<1>9. /\ <<frame'>> \o Queued' \in Seq(Chunk)
      /\ Len(<<frame'>> \o Queued') = Used
      /\ \A i \in 1..Used :
            (<<frame'>> \o Queued')[i] = IF i = 1 THEN frame' ELSE Queued'[i - 1]
  BY <1>3, <1>7, <1>8
<1>10. \A i \in 1..Used : Queued[i] = (<<frame'>> \o Queued')[i]
  BY <1>3, <1>4, <1>7, <1>9
<1> QED BY <1>3, <1>7, <1>8, <1>9, <1>10, SeqEqual

-------------------------------------------------------------------------------
(* Each step seen from SerialFifo: one chunk is let in, one is delivered,  *)
(* or nothing changes.                                                     *)

LetsIn(p) == Line' = Append(Line, ChunkAt(p)) /\ sent' = sent

LEMMA EnqueueLetsIn ==
    ASSUME RingInv, NEW p \in Producers, Enqueue(p) PROVE LetsIn(p)
<1>1. Queued' = Append(Queued, ChunkAt(p))
  BY QueuedAfterEnqueue
<1>2. Copied' = Copied /\ sent' = sent /\ pc[p] = "enqueue"
  BY DEF Enqueue, Copied, httpdVars
<1>3. Copied \in Seq(Chunk) /\ Queued \in Seq(Chunk) /\ ChunkAt(p) \in Chunk
  BY <1>2, PartsAreSequences, ChunkAtIsChunk DEF RingInv
<1>4. Copied \o Append(Queued, ChunkAt(p)) = Append(Copied \o Queued, ChunkAt(p))
  <2>1. /\ <<ChunkAt(p)>> \in Seq(Chunk)
        /\ Append(Queued, ChunkAt(p)) = Queued \o <<ChunkAt(p)>>
        /\ Copied \o Queued \in Seq(Chunk)
        /\ Append(Copied \o Queued, ChunkAt(p)) = (Copied \o Queued) \o <<ChunkAt(p)>>
    BY <1>3, ConcatProperties, AppendIsConcat
  <2> QED BY <1>3, <2>1, ConcatAssociative
<1>5. Line = Copied \o Queued /\ Line' = Copied' \o Queued'
  BY LineParts
<1> QED BY <1>1, <1>2, <1>4, <1>5 DEF LetsIn

LEMMA PopMovesNothing ==
    ASSUME RingInv, Pop PROVE Line' = Line /\ sent' = sent
<1>1. Queued = <<frame'>> \o Queued'
  BY QueuedAfterPop
<1>2. Copied = <<>> /\ Copied' = <<frame'>> /\ sent' = sent
  BY DEF Pop, Copied
<1>3. Line = Copied \o Queued /\ Line' = Copied' \o Queued'
  BY LineParts
<1>4. <<>> \o Queued = Queued
  BY PartsAreSequences, ConcatEmptySeq
<1> QED BY <1>1, <1>2, <1>3, <1>4

LEMMA SendDelivers ==
    ASSUME RingInv, Send
    PROVE  /\ frame \in Chunk
           /\ Line' \in Seq(Chunk)
           /\ Line = <<frame>> \o Line'
           /\ sent' = Append(sent, frame)
<1>1. /\ Copied = <<frame>> /\ Copied' = <<>> /\ Queued' = Queued
      /\ frame \in Chunk /\ sent' = Append(sent, frame)
  BY DEF Send, Copied, Queued, Used, ringVars, RingInv, Filled
<1>2. Line = Copied \o Queued /\ Line' = Copied' \o Queued'
  BY LineParts
<1>3. Queued \in Seq(Chunk) /\ <<>> \o Queued = Queued
  BY PartsAreSequences, ConcatEmptySeq
<1> QED BY <1>1, <1>2, <1>3

\* The steps that neither enqueue, nor pop, nor send.
Aside ==
    \/ ServerStart \/ StartFlush \/ ClearKick \/ EndFlush
    \/ \E p \in Producers :
          \/ \E n \in 1..MaxChunks : Broadcast(p, n)
          \/ Drop(p) \/ Post(p) \/ Unkick(p)
    \/ UNCHANGED vars

LEMMA AsideMovesNothing == ASSUME Aside PROVE Line' = Line /\ sent' = sent
<1>1. /\ UNCHANGED <<ring, head, tail, frame, sent>>
      /\ flush = "send" <=> flush' = "send"
  BY DEF Aside, ServerStart, StartFlush, ClearKick, EndFlush, Broadcast, Drop,
         Post, PostOk, PostFail, Unkick, vars, ringVars, httpdVars
<1> QED BY <1>1 DEF Line, Used

-------------------------------------------------------------------------------
(* Why a chunk let in continues its payload: what a producer has in the    *)
(* path is behind its own place in the stream, and the chunk before that   *)
(* place is in the path.                                                   *)

Seen == {c \in Chunk : Fifo!InSeq(c, Fifo!Accepted)}

Behind(c, p) ==
    \/ c.payload < payload[p]
    \/ /\ c.payload = payload[p]
       /\ pc[p] = "enqueue" => c.idx < next[p]
       /\ pc[p] \in {"post", "unkick"} => c.idx <= next[p]

Previous(p) == [ChunkAt(p) EXCEPT !.idx = @ - 1]

StreamInv ==
    \A p \in Producers :
        /\ \A c \in Seen : c.from = p => Behind(c, p)
        /\ pc[p] = "enqueue" => next[p] = 1 \/ Previous(p) \in Seen
        /\ pc[p] \in {"post", "unkick"} => ChunkAt(p) \in Seen

LEMMA AcceptedIsSequence ==
    ASSUME RingInv PROVE Fifo!Accepted \in Seq(Chunk)
BY PartsAreSequences, ConcatProperties DEF Fifo!Accepted, RingInv, TypeOK

LEMMA SeenAfterEnqueue ==
    ASSUME RingInv, NEW p \in Producers, LetsIn(p), ChunkAt(p) \in Chunk
    PROVE  Seen' = Seen \cup {ChunkAt(p)}
<1>1. /\ sent \in Seq(Chunk) /\ Line \in Seq(Chunk)
      /\ Fifo!Accepted \in Seq(Chunk) /\ Fifo!Accepted = sent \o Line
  BY PartsAreSequences, AcceptedIsSequence DEF RingInv, TypeOK, Fifo!Accepted
<1>2. Fifo!Accepted' = sent \o Append(Line, ChunkAt(p))
  BY DEF LetsIn, Fifo!Accepted
<1>3. sent \o Append(Line, ChunkAt(p)) = Append(sent \o Line, ChunkAt(p))
  <2>1. /\ <<ChunkAt(p)>> \in Seq(Chunk)
        /\ Append(Line, ChunkAt(p)) = Line \o <<ChunkAt(p)>>
        /\ Append(sent \o Line, ChunkAt(p)) = (sent \o Line) \o <<ChunkAt(p)>>
    BY <1>1, AppendIsConcat
  <2> QED BY <1>1, <2>1, ConcatAssociative
<1>4. /\ Len(Fifo!Accepted') = Len(Fifo!Accepted) + 1
      /\ \A i \in 1..Len(Fifo!Accepted) : Fifo!Accepted'[i] = Fifo!Accepted[i]
      /\ Fifo!Accepted'[Len(Fifo!Accepted) + 1] = ChunkAt(p)
      /\ Len(Fifo!Accepted) \in Nat
  BY <1>1, <1>2, <1>3, AppendProperties, LenProperties
<1>5. Chunk' = Chunk
  BY DEF Chunk
<1>6. ASSUME NEW c \in Chunk
      PROVE  Fifo!InSeq(c, Fifo!Accepted)' <=>
                Fifo!InSeq(c, Fifo!Accepted) \/ c = ChunkAt(p)
  <2>1. Fifo!InSeq(c, Fifo!Accepted)' <=>
          \E i \in 1..Len(Fifo!Accepted) + 1 : Fifo!Accepted'[i] = c
    BY <1>4 DEF Fifo!InSeq
  <2> QED BY <1>4, <2>1 DEF Fifo!InSeq
<1> QED BY <1>5, <1>6 DEF Seen

LEMMA SeenUnmoved ==
    ASSUME Line' = Line, sent' = sent PROVE Seen' = Seen
BY DEF Seen, Fifo!InSeq, Fifo!Accepted, Chunk

LEMMA SeenDelivered ==
    ASSUME RingInv, Send PROVE Fifo!Accepted' = Fifo!Accepted /\ Seen' = Seen
<1>1. /\ frame \in Chunk /\ Line' \in Seq(Chunk) /\ Line = <<frame>> \o Line'
      /\ sent' = Append(sent, frame) /\ sent \in Seq(Chunk)
  BY SendDelivers DEF RingInv, TypeOK
<1>2. /\ <<frame>> \in Seq(Chunk)
      /\ Append(sent, frame) = sent \o <<frame>>
  BY <1>1, AppendIsConcat
<1>3. sent' \o Line' = sent \o Line
  BY <1>1, <1>2, ConcatAssociative
<1>4. Fifo!Accepted' = Fifo!Accepted
  BY <1>3 DEF Fifo!Accepted
<1> QED BY <1>4 DEF Seen, Fifo!InSeq, Chunk

-------------------------------------------------------------------------------
(* StreamInv is an invariant.                                              *)

LEMMA StreamInvInit == Init => StreamInv
<1> SUFFICES ASSUME Init PROVE StreamInv
  OBVIOUS
<1>1. Used = 0
  BY DEF Init, Used
<1>2. Line = <<>> /\ sent = <<>>
  <2>1. Line = <<>> \o <<>>
    BY <1>1 DEF Init, Line
  <2> QED BY <2>1 DEF Init
<1>3. Seen = {}
  BY <1>2 DEF Seen, Fifo!InSeq, Fifo!Accepted
<1> QED BY <1>3 DEF Init, StreamInv

(* The foot of the loop: past a chunk that is in the path, the producer's  *)
(* place moves on by one or the payload ends.                              *)
LEMMA AdvanceStream ==
    ASSUME TypeOK, ProducerInv, StreamInv, Chunk' = Chunk,
           NEW p \in Producers, pc[p] # "idle", Advance(p),
           payload' = payload,
           \A q \in Producers \ {p} : \A c \in Seen' : c.from = q => c \in Seen,
           Seen \subseteq Seen', ChunkAt(p) \in Seen',
           \A c \in Seen' : c.from = p =>
              \/ c.payload < payload[p]
              \/ c.payload = payload[p] /\ c.idx <= next[p]
    PROVE  StreamInv'
<1>1. /\ next' = [next EXCEPT ![p] = @ + 1]
      /\ pc' = [pc EXCEPT ![p] = IF next[p] = last[p] THEN "idle" ELSE "enqueue"]
  BY DEF Advance
<1>2. next[p] \in Nat /\ next'[p] = next[p] + 1 /\ pc'[p] \in {"idle", "enqueue"}
  BY <1>1 DEF TypeOK
<1>3. ASSUME NEW c \in Seen', c.from = p PROVE Behind(c, p)'
  <2>1. c \in Chunk
    BY DEF Seen
  <2>2. c.idx \in Nat
    BY <2>1, MaxChunksAssumption DEF Chunk
  <2> QED BY <1>2, <1>3, <2>2 DEF Behind
<1>4. Previous(p)' = ChunkAt(p)
  BY <1>2 DEF Previous, ChunkAt
<1>5. ASSUME NEW q \in Producers, q # p
      PROVE  /\ \A c \in Seen' : c.from = q => Behind(c, q)'
             /\ pc'[q] = "enqueue" => next'[q] = 1 \/ Previous(q)' \in Seen'
             /\ pc'[q] \in {"post", "unkick"} => ChunkAt(q)' \in Seen'
  <2>1. pc'[q] = pc[q] /\ next'[q] = next[q] /\ payload'[q] = payload[q]
    BY <1>1, <1>5 DEF TypeOK
  <2>2. \A c : Behind(c, q)' <=> Behind(c, q)
    BY <2>1 DEF Behind
  <2>3. ChunkAt(q)' = ChunkAt(q) /\ Previous(q)' = Previous(q)
    BY <2>1 DEF Previous, ChunkAt
  <2> QED BY <1>5, <2>1, <2>2, <2>3 DEF StreamInv
<1> QED BY <1>2, <1>3, <1>4, <1>5 DEF StreamInv

LEMMA StreamInvStep == RingInv /\ StreamInv /\ [Next]_vars => StreamInv'
<1> SUFFICES ASSUME RingInv, StreamInv, [Next]_vars PROVE StreamInv'
  OBVIOUS
<1>0. TypeOK /\ ProducerInv /\ Chunk' = Chunk
  BY DEF RingInv, Chunk
<1>1. ASSUME UNCHANGED <<pc, payload, next>>, Seen' = Seen PROVE StreamInv'
  BY <1>1 DEF StreamInv, Behind, Previous, ChunkAt
<1>2. CASE ServerStart \/ StartFlush \/ ClearKick \/ EndFlush \/ UNCHANGED vars
  <2>1. UNCHANGED <<pc, payload, next>>
    BY <1>2 DEF ServerStart, StartFlush, ClearKick, EndFlush, vars, bufVars
  <2>2. Aside
    BY <1>2 DEF Aside
  <2> QED BY <1>1, <2>1, <2>2, AsideMovesNothing, SeenUnmoved
<1>3. CASE Pop
  BY <1>1, <1>3, PopMovesNothing, SeenUnmoved DEF Pop, bufVars
<1>4. CASE Send
  BY <1>1, <1>4, SeenDelivered DEF Send, bufVars
<1>5. ASSUME NEW p \in Producers, Enqueue(p) PROVE StreamInv'
  <2>1. ChunkAt(p) \in Chunk /\ pc[p] = "enqueue" /\ payload' = payload
    BY <1>0, <1>5, ChunkAtIsChunk DEF Enqueue
  <2>2. Seen' = Seen \cup {ChunkAt(p)}
    BY <1>5, <2>1, EnqueueLetsIn, SeenAfterEnqueue
  <2>3. /\ ChunkAt(p).from = p /\ ChunkAt(p).payload = payload[p]
        /\ ChunkAt(p).idx = next[p] /\ next[p] \in Nat
    BY <1>0 DEF ChunkAt, TypeOK
  <2>4. ASSUME NEW c \in Seen', c.from = p
        PROVE  \/ c.payload < payload[p]
               \/ c.payload = payload[p] /\ c.idx <= next[p]
    <3>1. CASE c \in Seen
      <4>1. Behind(c, p) /\ c \in Chunk
        BY <2>4, <3>1 DEF StreamInv, Seen
      <4>2. c.idx \in Nat
        BY <4>1, MaxChunksAssumption DEF Chunk
      <4> QED BY <2>1, <2>3, <4>1, <4>2 DEF Behind
    <3>2. CASE c = ChunkAt(p)
      BY <2>3, <3>2
    <3> QED BY <2>2, <3>1, <3>2
  <2>5. \A q \in Producers \ {p} : \A c \in Seen' : c.from = q => c \in Seen
    BY <2>2, <2>3
  <2>6. CASE Advance(p)
    BY <1>0, <2>1, <2>2, <2>4, <2>5, <2>6, AdvanceStream
  <2>7. CASE pc' = [pc EXCEPT ![p] = "post"] /\ UNCHANGED next
    <3>1. pc'[p] = "post" /\ next'[p] = next[p] /\ ChunkAt(p)' = ChunkAt(p)
      BY <1>0, <2>1, <2>7 DEF TypeOK, ChunkAt
    <3>2. \A c \in Seen' : c.from = p => Behind(c, p)'
      BY <2>1, <2>4, <3>1 DEF Behind
    <3>3. ASSUME NEW q \in Producers, q # p
          PROVE  /\ \A c \in Seen' : c.from = q => Behind(c, q)'
                 /\ pc'[q] = "enqueue" => next'[q] = 1 \/ Previous(q)' \in Seen'
                 /\ pc'[q] \in {"post", "unkick"} => ChunkAt(q)' \in Seen'
      <4>1. pc'[q] = pc[q] /\ next'[q] = next[q] /\ payload'[q] = payload[q]
        BY <1>0, <2>1, <2>7, <3>3 DEF TypeOK
      <4>2. /\ \A c : Behind(c, q)' <=> Behind(c, q)
            /\ ChunkAt(q)' = ChunkAt(q) /\ Previous(q)' = Previous(q)
        BY <4>1 DEF Behind, Previous, ChunkAt
      <4> QED BY <2>2, <2>5, <3>3, <4>1, <4>2 DEF StreamInv
    <3> QED BY <2>2, <3>1, <3>2, <3>3 DEF StreamInv
  <2> QED BY <1>5, <2>6, <2>7 DEF Enqueue
<1>6. ASSUME NEW p \in Producers, PostOk(p) \/ Unkick(p) PROVE StreamInv'
  <2>1. /\ Advance(p) /\ pc[p] \in {"post", "unkick"} /\ payload' = payload
        /\ Aside
    BY <1>6 DEF PostOk, Unkick, Aside, Post
  <2>2. Seen' = Seen
    BY <2>1, AsideMovesNothing, SeenUnmoved
  <2>3. ChunkAt(p) \in Seen
    BY <2>1 DEF StreamInv
  <2>4. \A c \in Seen : c.from = p =>
              \/ c.payload < payload[p]
              \/ c.payload = payload[p] /\ c.idx <= next[p]
    BY <2>1 DEF StreamInv, Behind
  <2> QED BY <1>0, <2>1, <2>2, <2>3, <2>4, AdvanceStream
<1>7. ASSUME NEW p \in Producers, PostFail(p) \/ Drop(p) PROVE StreamInv'
  <2>1. /\ Aside /\ UNCHANGED <<payload, next>>
        /\ \/ pc[p] = "post" /\ pc' = [pc EXCEPT ![p] = "unkick"]
           \/ pc' = [pc EXCEPT ![p] = "idle"]
    BY <1>7 DEF PostFail, Drop, Aside, Post, bufVars
  <2>2. Seen' = Seen
    BY <2>1, AsideMovesNothing, SeenUnmoved
  <2>3. \A q \in Producers : ChunkAt(q)' = ChunkAt(q) /\ Previous(q)' = Previous(q)
    BY <2>1 DEF ChunkAt, Previous
  <2>4. \A q \in Producers :
           \/ pc'[q] = pc[q]
           \/ pc'[q] = "idle"
           \/ pc[q] = "post" /\ pc'[q] = "unkick"
    BY <1>0, <2>1 DEF TypeOK
  <2>5. \A q \in Producers : \A c \in Seen : Behind(c, q) => Behind(c, q)'
    BY <2>1, <2>4 DEF Behind
  <2> QED BY <2>1, <2>2, <2>3, <2>4, <2>5 DEF StreamInv
<1>8. ASSUME NEW p \in Producers, NEW n \in 1..MaxChunks, Broadcast(p, n)
      PROVE  StreamInv'
  <2>1. /\ Aside /\ pc[p] = "idle"
        /\ payload' = [payload EXCEPT ![p] = @ + 1]
        /\ next' = [next EXCEPT ![p] = 1]
        /\ pc' = [pc EXCEPT ![p] = "enqueue"]
    BY <1>8 DEF Broadcast, Aside
  <2>2. Seen' = Seen
    BY <2>1, AsideMovesNothing, SeenUnmoved
  <2>3. /\ payload'[p] = payload[p] + 1 /\ next'[p] = 1 /\ pc'[p] = "enqueue"
        /\ payload[p] \in Nat
    BY <1>0, <2>1, PayloadsAssumption DEF TypeOK
  <2>4. ASSUME NEW c \in Seen, c.from = p PROVE Behind(c, p)'
    <3>1. c.payload <= payload[p] /\ c.payload \in Nat
      BY <2>3, <2>4, PayloadsAssumption DEF StreamInv, Behind, Seen, Chunk
    <3> QED BY <2>3, <3>1 DEF Behind
  <2>5. ASSUME NEW q \in Producers, q # p
        PROVE  /\ pc'[q] = pc[q] /\ ChunkAt(q)' = ChunkAt(q)
               /\ next'[q] = next[q] /\ Previous(q)' = Previous(q)
               /\ \A c : Behind(c, q)' <=> Behind(c, q)
    <3>1. pc'[q] = pc[q] /\ next'[q] = next[q] /\ payload'[q] = payload[q]
      BY <1>0, <2>1, <2>5 DEF TypeOK
    <3> QED BY <3>1 DEF Behind, Previous, ChunkAt
  <2> QED BY <2>2, <2>3, <2>4, <2>5 DEF StreamInv
<1> QED BY <1>2, <1>3, <1>4, <1>5, <1>6, <1>7, <1>8
        DEF Next, Continue, Post, Httpd

-------------------------------------------------------------------------------
(* The refinement.                                                         *)

LEMMA RefinesInit == Init => Fifo!Init
<1> SUFFICES ASSUME Init PROVE Line = <<>> /\ sent = <<>>
  BY DEF Fifo!Init
<1>1. Used = 0 /\ Line = <<>> \o <<>>
  BY DEF Init, Used, Line
<1> QED BY <1>1 DEF Init

LEMMA EnqueueAccepts ==
    ASSUME RingInv, StreamInv, NEW p \in Producers, Enqueue(p)
    PROVE  Fifo!Accept(ChunkAt(p)) /\ ChunkAt(p) \in Chunk
<1>1. /\ ChunkAt(p) \in Chunk /\ pc[p] = "enqueue" /\ Used < Slots
      /\ LetsIn(p)
  BY EnqueueLetsIn, ChunkAtIsChunk DEF Enqueue, RingInv
<1>2. Len(Line) < Slots + 1
  <2>1. /\ Copied \in Seq(Chunk) /\ Queued \in Seq(Chunk) /\ Len(Queued) = Used
        /\ Used \in Nat /\ Len(Copied) <= 1
    BY PartsAreSequences DEF Copied
  <2>2. Len(Line) = Len(Copied) + Used
    BY <2>1, LineParts, ConcatProperties
  <2> QED BY <1>1, <2>1, <2>2, SlotsAssumption
<1>3. ASSUME NEW i \in 1..Len(Fifo!Accepted), Fifo!Accepted[i].from = p
      PROVE  Fifo!Precedes(Fifo!Accepted[i], ChunkAt(p))
  <2>1. Fifo!Accepted[i] \in Chunk
    BY AcceptedIsSequence, ElementOfSeq
  <2>2. Fifo!Accepted[i] \in Seen
    BY <2>1 DEF Seen, Fifo!InSeq
  <2> QED BY <1>1, <1>3, <2>2 DEF StreamInv, Behind, Fifo!Precedes, ChunkAt
<1>4. next[p] = 1 \/ Fifo!InSeq(Previous(p), Fifo!Accepted)
  BY <1>1 DEF StreamInv, Seen
<1>5. Fifo!Continues(ChunkAt(p), Fifo!Accepted)
  BY <1>3, <1>4 DEF Fifo!Continues, Previous, ChunkAt
<1> QED BY <1>1, <1>2, <1>5 DEF Fifo!Accept, LetsIn

LEMMA RefinesStep == RingInv /\ StreamInv /\ [Next]_vars => [Fifo!Next]_Fifo!vars
<1> SUFFICES ASSUME RingInv, StreamInv, [Next]_vars PROVE [Fifo!Next]_Fifo!vars
  OBVIOUS
<1>1. ASSUME NEW p \in Producers, Enqueue(p) PROVE Fifo!Next
  BY <1>1, EnqueueAccepts DEF Fifo!Next, Fifo!Chunk, Chunk
<1>2. CASE Send
  <2>1. /\ frame \in Chunk /\ Line' \in Seq(Chunk)
        /\ Line = <<frame>> \o Line' /\ sent' = Append(sent, frame)
    BY <1>2, SendDelivers
  <2>2. Line # <<>> /\ Head(Line) = frame /\ Tail(Line) = Line'
    BY <2>1
  <2> QED BY <2>1, <2>2 DEF Fifo!Next, Fifo!Deliver
<1>3. CASE Pop
  BY <1>3, PopMovesNothing DEF Fifo!vars
<1>4. CASE Aside
  BY <1>4, AsideMovesNothing DEF Fifo!vars
<1> QED BY <1>1, <1>2, <1>3, <1>4 DEF Next, Continue, Httpd, Aside

(* The ring is a bounded first-in first-out line: whatever the producers   *)
(* and the httpd task interleave, what the clients are sent is a stream in *)
(* which each payload appears in order, once, and cut only at its end.     *)
THEOREM RingIsFifo == Spec => RefinesFifo
<1>1. Init => RingInv /\ StreamInv /\ Fifo!Init
  BY RingInvInit, StreamInvInit, RefinesInit
<1>2. RingInv /\ StreamInv /\ [Next]_vars => RingInv' /\ StreamInv'
  BY RingInvStep, StreamInvStep
<1>3. RingInv /\ StreamInv /\ [Next]_vars => [Fifo!Next]_Fifo!vars
  BY RefinesStep
<1> QED BY <1>1, <1>2, <1>3, PTL DEF Spec, RefinesFifo, Fifo!Spec
===============================================================================
