------------------------------ MODULE AtomicFile ------------------------------
(***************************************************************************)
(* What /dev/mychardev promises its readers and writers: a file of at most *)
(* Size cells whose reads and writes happen one at a time, each as a whole.*)
(* A read returns a piece of the file as it is at one moment.  Once the    *)
(* page has been shared with a process, that process can change any cell   *)
(* at any time, and a call is only known to keep to its range.             *)
(***************************************************************************)
EXTENDS Integers, Sequences

CONSTANTS Threads, Values, Zero, Size

VARIABLES
  cells,   \* [0..Size-1 -> Values]
  len,     \* cells in use
  got,     \* got[t]: what the last read of t returned, until t forgets it
  shared   \* the page has been shared

avars == <<cells, len, got, shared>>

Cells == 0..(Size - 1)

Init == /\ cells = [i \in Cells |-> Zero]
        /\ len = 0
        /\ got = [t \in Threads |-> <<>>]
        /\ shared = FALSE

\* The n cells from p on.
Piece(p, n) == [i \in 1..n |-> cells[p + i - 1]]

Read(t) == /\ \E p \in 0..len : \E n \in 0..(len - p) :
                \E s \in IF shared THEN [1..n -> Values] ELSE {Piece(p, n)} :
                  got' = [got EXCEPT ![t] = s]
           /\ UNCHANGED <<cells, len, shared>>

\* n cells are written at p.  The file never shrinks; there may be a gap of untouched
\* cells before p, and a write cut short clears m cells after those it wrote.
Write(t) == /\ \E p \in Cells : \E n \in 0..(Size - p) : \E m \in 0..(Size - p - n) :
                 /\ cells' \in [Cells -> Values]
                 /\ \A i \in Cells \ (p..(p + n + m - 1)) : cells'[i] = cells[i]
                 /\ shared \/ \E v \in Values :
                      \A i \in p..(p + n + m - 1) : cells'[i] = IF i < p + n THEN v ELSE Zero
                 /\ len' = IF p + n > len THEN p + n ELSE len
            /\ UNCHANGED <<got, shared>>

Share == shared' = TRUE /\ UNCHANGED <<cells, len, got>>

Poke == /\ shared
        /\ \E i \in Cells, v \in Values : cells' = [cells EXCEPT ![i] = v]
        /\ UNCHANGED <<len, got, shared>>

Next == \/ \E t \in Threads : Read(t) \/ Write(t)
        \/ Share \/ Poke

Spec == Init /\ [][Next]_avars
==============================================================================
