------------------------------- MODULE WsTxRing -------------------------------
(***************************************************************************)
(* The serial-to-WebSocket transmit ring of main/web_server.c.             *)
(*                                                                         *)
(* Several tasks (UART receive, the USB CDC driver, the USB event task)    *)
(* call ws_enqueue; the httpd task alone runs ws_flush_work.  They share   *)
(* the slots, two free-running unsigned indices and one flag that says a   *)
(* wake-up is on its way; the flag coalesces the calls to httpd_queue_work.*)
(*                                                                         *)
(* A step is what runs without another task getting in between: one        *)
(* critical section of s_tx_mux, or one call to httpd_queue_work.  A       *)
(* payload is its number and its length in slots; bytes, the port and the  *)
(* drop counter, which is only logged, are left out.  Who receives a frame *)
(* is the subject of module Terminal.                                      *)
(***************************************************************************)
EXTENDS Integers, Sequences

CONSTANTS
    Producers,  \* the tasks that call web_server_ws_broadcast[_text]
    Slots,      \* WS_TX_SLOTS (32)
    Modulus,    \* 2^32: the indices are uint32_t
    Payloads,   \* bound: payloads a producer broadcasts
    MaxChunks   \* bound: slots the longest payload needs

ASSUME SlotsAssumption == Slots \in Nat \ {0}

(* "power of two": an index that wraps must stay on the same slot.         *)
ASSUME ModulusAssumption ==
    /\ Modulus \in Nat
    /\ Modulus > Slots
    /\ Modulus % Slots = 0

ASSUME PayloadsAssumption == Payloads \in Nat
ASSUME MaxChunksAssumption == MaxChunks \in Nat \ {0}

Chunk == [from : Producers, payload : 1..Payloads, idx : 1..MaxChunks]
NoChunk == [from |-> "none"]

VARIABLES
    server,   \* s_server # NULL
    ring,     \* s_ws_tx_ring
    head,     \* s_tx_head
    tail,     \* s_tx_tail
    kick,     \* s_tx_kick_pending
    work,     \* calls of ws_flush_work waiting in the httpd task's queue
    flush,    \* where the httpd task is: not in ws_flush_work, or at a step
    frame,    \* ws_flush_work's stack copy of the slot it popped
    pc,       \* where each producer is in ws_enqueue
    payload,  \* how many payloads each producer has begun
    next,     \* the chunk of its payload a producer is at
    last,     \* the number of chunks of that payload
    sent,     \* history: the frames handed to the WebSocket clients
    gaveUp    \* history: the latest httpd_queue_work returned an error

ringVars == <<ring, head, tail>>
httpdVars == <<flush, frame, sent>>
bufVars == <<payload, next, last>>
vars == <<server, ring, head, tail, kick, work, flush, frame, pc, payload,
          next, last, sent, gaveUp>>

(* Definitions named X_Y are X with the defect Y.  The specification never *)
(* uses them; each is what some property below would catch.                *)

(* The indices: unsigned 32-bit arithmetic, Modulus standing for 2^32.     *)

Incr_NoWrap(n) == n + 1

Incr(n) == IF n + 1 = Modulus THEN 0 ELSE n + 1

\* s_tx_head - s_tx_tail
Used == IF head >= tail THEN head - tail ELSE head - tail + Modulus

SlotOf(n) == n % Slots

Init ==
    /\ server = FALSE
    /\ ring = [i \in 0..Slots - 1 |-> NoChunk]
    /\ head = 0 /\ tail = 0
    /\ kick = FALSE
    /\ work = 0
    /\ flush = "idle"
    /\ frame = NoChunk
    /\ pc = [p \in Producers |-> "idle"]
    /\ payload = [p \in Producers |-> 0]
    /\ next = [p \in Producers |-> 1]
    /\ last = [p \in Producers |-> 1]
    /\ sent = <<>>
    /\ gaveUp = FALSE

(* web_server_start: s_server is set once, after the producers may already *)
(* run (app_main starts the serial ports first).                           *)
ServerStart ==
    /\ ~server
    /\ server' = TRUE
    /\ UNCHANGED <<ringVars, kick, work, httpdVars, pc, bufVars, gaveUp>>

(* A producer calls ws_enqueue with a payload of n slots.  Before the      *)
(* server exists the call returns at once and changes nothing.             *)
Broadcast(p, n) ==
    /\ pc[p] = "idle"
    /\ server
    /\ payload[p] < Payloads
    /\ payload' = [payload EXCEPT ![p] = @ + 1]
    /\ next' = [next EXCEPT ![p] = 1]
    /\ last' = [last EXCEPT ![p] = n]
    /\ pc' = [pc EXCEPT ![p] = "enqueue"]
    /\ UNCHANGED <<server, ringVars, kick, work, httpdVars, gaveUp>>

\* The foot of the loop: data += chunk, len -= chunk, and round again.
Advance(p) ==
    /\ next' = [next EXCEPT ![p] = @ + 1]
    /\ pc' = [pc EXCEPT ![p] = IF next[p] = last[p] THEN "idle" ELSE "enqueue"]

ChunkAt(p) == [from |-> p, payload |-> payload[p], idx |-> next[p]]

Drop_OnlyThisChunk(p) ==
    /\ pc[p] = "enqueue"
    /\ Used >= Slots
    /\ Advance(p)
    /\ UNCHANGED <<server, ringVars, kick, work, httpdVars, payload, last, gaveUp>>

(* Critical section, ring full: the rest of the payload is given up.       *)
Drop(p) ==
    /\ pc[p] = "enqueue"
    /\ Used >= Slots
    /\ pc' = [pc EXCEPT ![p] = "idle"]
    /\ UNCHANGED <<server, ringVars, kick, work, httpdVars, bufVars, gaveUp>>

Enqueue_PostsAlways(p) ==
    /\ pc[p] = "enqueue"
    /\ Used < Slots
    /\ ring' = [ring EXCEPT ![SlotOf(head)] = ChunkAt(p)]
    /\ head' = Incr(head)
    /\ kick' = TRUE
    /\ gaveUp' = FALSE
    /\ pc' = [pc EXCEPT ![p] = "post"]
    /\ UNCHANGED <<server, tail, work, httpdVars, bufVars>>

(* Critical section, room left: fill the slot, advance the head, and take  *)
(* on the wake-up if nobody has.                                           *)
Enqueue(p) ==
    /\ pc[p] = "enqueue"
    /\ Used < Slots
    /\ ring' = [ring EXCEPT ![SlotOf(head)] = ChunkAt(p)]
    /\ head' = Incr(head)
    /\ kick' = TRUE
    /\ gaveUp' = FALSE
    /\ \/ kick /\ Advance(p)
       \/ ~kick /\ pc' = [pc EXCEPT ![p] = "post"] /\ UNCHANGED next
    /\ UNCHANGED <<server, tail, work, httpdVars, payload, last>>

(* httpd_queue_work, outside the lock: the call is queued for the httpd    *)
(* task, or it fails.                                                      *)
PostOk(p) ==
    /\ pc[p] = "post"
    /\ work' = work + 1
    /\ Advance(p)
    /\ UNCHANGED <<server, ringVars, kick, httpdVars, payload, last, gaveUp>>

PostFail_KeepsFlag(p) ==
    /\ pc[p] = "post"
    /\ Advance(p)
    /\ UNCHANGED <<server, ringVars, kick, work, httpdVars, payload, last, gaveUp>>

PostFail(p) ==
    /\ pc[p] = "post"
    /\ pc' = [pc EXCEPT ![p] = "unkick"]
    /\ UNCHANGED <<server, ringVars, kick, work, httpdVars, bufVars, gaveUp>>

(* The second critical section, taken only when the call failed.           *)
Unkick(p) ==
    /\ pc[p] = "unkick"
    /\ kick' = FALSE
    /\ gaveUp' = TRUE
    /\ Advance(p)
    /\ UNCHANGED <<server, ringVars, work, httpdVars, payload, last>>

(* The httpd task takes the queued call off its queue, between two         *)
(* requests.                                                               *)
StartFlush ==
    /\ flush = "idle"
    /\ work > 0
    /\ work' = work - 1
    /\ flush' = "clear"
    /\ UNCHANGED <<server, ringVars, kick, frame, pc, bufVars, sent, gaveUp>>

ClearKick_Forgotten ==
    /\ flush = "clear"
    /\ flush' = "drain"
    /\ UNCHANGED <<server, ringVars, kick, work, frame, pc, bufVars, sent, gaveUp>>

ClearKick ==
    /\ flush = "clear"
    /\ kick' = FALSE
    /\ flush' = "drain"
    /\ UNCHANGED <<server, ringVars, work, frame, pc, bufVars, sent, gaveUp>>

Pop ==
    /\ flush = "drain"
    /\ head # tail
    /\ frame' = ring[SlotOf(tail)]
    /\ tail' = Incr(tail)
    /\ flush' = "send"
    /\ UNCHANGED <<server, ring, head, kick, work, pc, bufVars, sent, gaveUp>>

(* The frame goes out from the stack copy, interrupts enabled.             *)
Send ==
    /\ flush = "send"
    /\ sent' = Append(sent, frame)
    /\ frame' = NoChunk
    /\ flush' = "drain"
    /\ UNCHANGED <<server, ringVars, kick, work, pc, bufVars, gaveUp>>

EndFlush ==
    /\ flush = "drain"
    /\ head = tail
    /\ flush' = "idle"
    /\ UNCHANGED <<server, ringVars, kick, work, frame, pc, bufVars, sent,
                   gaveUp>>

Post(p) == PostOk(p) \/ PostFail(p)
Continue(p) == Drop(p) \/ Enqueue(p) \/ Post(p) \/ Unkick(p)
Httpd == StartFlush \/ ClearKick \/ Pop \/ Send \/ EndFlush

Next ==
    \/ ServerStart
    \/ \E p \in Producers :
          \/ \E n \in 1..MaxChunks : Broadcast(p, n)
          \/ Continue(p)
    \/ Httpd

Spec == Init /\ [][Next]_vars

(* A task that is inside ws_enqueue runs on, and the httpd task returns to *)
(* its queue after every request: FreeRTOS schedules both, and neither     *)
(* waits for the other here.  Nothing makes a producer broadcast.          *)
Fairness ==
    /\ \A p \in Producers : WF_vars(Continue(p))
    /\ WF_vars(Httpd)

FairSpec == Spec /\ Fairness

(* Every variable stays in its type; the indices stay 32-bit.              *)
TypeOK ==
    /\ server \in BOOLEAN
    /\ ring \in [0..Slots - 1 -> Chunk \cup {NoChunk}]
    /\ head \in 0..Modulus - 1
    /\ tail \in 0..Modulus - 1
    /\ kick \in BOOLEAN
    /\ work \in Nat
    /\ flush \in {"idle", "clear", "drain", "send"}
    /\ frame \in Chunk \cup {NoChunk}
    /\ pc \in [Producers -> {"idle", "enqueue", "post", "unkick"}]
    /\ payload \in [Producers -> 0..Payloads]
    /\ next \in [Producers -> 1..MaxChunks + 1]
    /\ last \in [Producers -> 1..MaxChunks]
    /\ sent \in Seq(Chunk)
    /\ gaveUp \in BOOLEAN

\* The producers that have taken on the wake-up and not yet settled it.
Posting == {p \in Producers : pc[p] \in {"post", "unkick"}}

(* s_tx_kick_pending is set exactly while one wake-up exists: with a       *)
(* producer that is about to post it or to give it up, in the httpd        *)
(* task's queue, or taken off the queue with the flag not yet cleared.     *)
(* There is never a second one, although producers clear the flag in a     *)
(* critical section other than the one that set it: the queue of the httpd *)
(* task never holds two calls of ws_flush_work.                            *)
OneWakeup ==
    /\ kick <=> Posting # {} \/ work > 0 \/ flush = "clear"
    /\ \A p, q \in Posting : p = q
    /\ Posting # {} => work = 0 /\ flush # "clear"
    /\ work > 0 => work = 1 /\ flush # "clear"

(* What is in the ring is on its way out: somebody is about to post the    *)
(* wake-up, it is queued, or the ring is being drained.  The one exception *)
(* is a wake-up that httpd_queue_work refused, and it lasts only until the *)
(* next chunk is enqueued.                                                 *)
NoLostWakeup ==
    head # tail => Posting # {} \/ work > 0 \/ flush # "idle" \/ gaveUp

(* The chunks in the path, oldest first: the stack copy, then the slots    *)
(* from the tail to the head.                                              *)
Line ==
    (IF flush = "send" THEN <<frame>> ELSE <<>>)
        \o [i \in 1..Used |-> ring[SlotOf(tail + i - 1)]]

Fifo == INSTANCE SerialFifo WITH
            line <- Line, delivered <- sent, Capacity <- Slots + 1

(* The ring is the bounded line of SerialFifo: no slot is overwritten      *)
(* before it is sent, nothing is sent twice or out of order, and a payload *)
(* that did not fit is cut at its end and never in the middle.             *)
RefinesFifo == Fifo!Spec

(* What enters the ring reaches the clients, unless a wake-up is refused.  *)
EnqueuedIsSent ==
    \A c \in Chunk :
        Fifo!InSeq(c, Line) ~> Fifo!InSeq(c, sent) \/ gaveUp
===============================================================================
