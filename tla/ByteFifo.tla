------------------------------ MODULE ByteFifo ------------------------------
(***************************************************************************)
(* What utility/ringbuffer.h promises its caller: a first-in first-out     *)
(* buffer of Capacity bytes.  A byte that does not fit is refused and      *)
(* changes nothing, a removal of more bytes than there are empties it.     *)
(***************************************************************************)
EXTENDS Naturals, Sequences

CONSTANTS Byte,       \* the bytes
          Capacity    \* how many of them fit

VARIABLES contents,   \* bytes added and not yet taken out, oldest first
          ok,         \* what the last add or get returned
          data        \* the byte the last successful get stored

fifoVars == <<contents, ok, data>>

Init == /\ contents = <<>>
        /\ ok \in BOOLEAN
        /\ data \in Byte

Add(b) == /\ IF Len(contents) < Capacity
             THEN ok' = TRUE /\ contents' = Append(contents, b)
             ELSE ok' = FALSE /\ UNCHANGED contents
          /\ UNCHANGED data

Get == IF contents = <<>>
       THEN ok' = FALSE /\ UNCHANGED <<contents, data>>
       ELSE /\ ok' = TRUE
            /\ data' = Head(contents)
            /\ contents' = Tail(contents)

Remove(n) == /\ contents' = IF n >= Len(contents) THEN <<>>
                            ELSE SubSeq(contents, n + 1, Len(contents))
             /\ UNCHANGED <<ok, data>>

Next == \/ \E b \in Byte : Add(b)
        \/ Get
        \/ \E n \in 0..Capacity + 1 : Remove(n)

Spec == Init /\ [][Next]_fifoVars
=============================================================================
