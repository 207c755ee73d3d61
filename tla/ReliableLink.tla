---------------------------- MODULE ReliableLink ----------------------------
(***************************************************************************)
(* What one direction of the SPI stack promises to the message loops above *)
(* it: a FIFO per stack participant.  The n-th message accepted for an end *)
(* point is the number n; it leaves the link exactly once, in order, and   *)
(* no message that was accepted disappears                                 *)
(* (com/spi/spi_stack/spi_stack_protocol_dma_description.txt:5,            *)
(* "Guaranteed delivery of packets").                                      *)
(***************************************************************************)
EXTENDS Naturals, Sequences

CONSTANTS Endpoints,   \* the stack participants this link connects
          Capacity     \* messages one endpoint's link holds at a time

VARIABLES sent,        \* sent[e]: number of messages accepted for e
          got,         \* got[e]: last message that left the link of e
          queue        \* queue[e]: messages accepted and not yet delivered

linkVars == <<sent, got, queue>>

Init == /\ sent = [e \in Endpoints |-> 0]
        /\ got = [e \in Endpoints |-> 0]
        /\ queue = [e \in Endpoints |-> <<>>]

Accept(e) == /\ Len(queue[e]) < Capacity
             /\ sent' = [sent EXCEPT ![e] = sent[e] + 1]
             /\ queue' = [queue EXCEPT ![e] = Append(queue[e], sent[e] + 1)]
             /\ UNCHANGED got

Deliver(e) == /\ queue[e] # <<>>
              /\ got' = [got EXCEPT ![e] = Head(queue[e])]
              /\ queue' = [queue EXCEPT ![e] = Tail(queue[e])]
              /\ UNCHANGED sent

Next == \E e \in Endpoints : Accept(e) \/ Deliver(e)

Spec == Init /\ [][Next]_linkVars
=============================================================================
