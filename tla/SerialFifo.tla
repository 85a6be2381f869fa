------------------------------ MODULE SerialFifo ------------------------------
(***************************************************************************)
(* What the serial-to-browser path promises the terminal, independently of *)
(* indices, locks and wake-ups: a bounded first-in first-out line.  A      *)
(* broadcast is a payload cut into numbered chunks.  The line may refuse a *)
(* chunk, and then refuses the rest of that payload, so what is let in of  *)
(* each payload is a prefix of it; what is let in leaves once, in order.   *)
(***************************************************************************)
EXTENDS Naturals, Sequences

CONSTANTS
    Producers,  \* the tasks that broadcast
    Payloads,   \* how many payloads a producer may broadcast
    MaxChunks,  \* the longest payload, in chunks
    Capacity    \* how many chunks the line holds

VARIABLES
    line,       \* the chunks let in and not yet delivered
    delivered   \* the chunks delivered, in order

vars == <<line, delivered>>

Chunk == [from : Producers, payload : 1..Payloads, idx : 1..MaxChunks]

\* Every chunk ever let in, in order.
Accepted == delivered \o line

InSeq(c, s) == \E i \in 1..Len(s) : s[i] = c

(* The chunks of c's producer that were let in before it: none is c or     *)
(* comes later in that producer's stream, and c opens its payload or       *)
(* follows the chunk just before it.                                       *)
Precedes(b, c) ==
    \/ b.payload < c.payload
    \/ b.payload = c.payload /\ b.idx < c.idx

Continues(c, s) ==
    /\ \A i \in 1..Len(s) : s[i].from = c.from => Precedes(s[i], c)
    /\ c.idx = 1 \/ InSeq([c EXCEPT !.idx = @ - 1], s)

Init == line = <<>> /\ delivered = <<>>

Accept(c) ==
    /\ Len(line) < Capacity
    /\ Continues(c, Accepted)
    /\ line' = Append(line, c)
    /\ UNCHANGED delivered

Deliver ==
    /\ line # <<>>
    /\ delivered' = Append(delivered, Head(line))
    /\ line' = Tail(line)

Next == (\E c \in Chunk : Accept(c)) \/ Deliver

Spec == Init /\ [][Next]_vars
===============================================================================
