----------------------------- MODULE MCTunedColl -----------------------------
(* Small communicators for TunedColl.                                         *)
EXTENDS TunedColl

Comm(n, calls, barrier, allgather, eager, in_place, large) ==
    [size |-> n, calls |-> calls, barrier |-> barrier, allgather |-> allgather,
     eager |-> eager, in_place |-> in_place, large |-> large]

Fits(c) == (c.barrier = 5 \/ c.allgather = 6) => c.size = 2

b == "barrier"
g == "allgather"

\* Barriers in a row by every algorithm, the fixed decision included.
Barriers ==
    {Comm(n, << b, b, b >>, a, 0, 0, FALSE, {}) : n \in 2 .. 3, a \in 0 .. 6}
    \cup {Comm(4, << b, b >>, a, 0, 0, FALSE, {}) : a \in 0 .. 6}
    \cup {Comm(5, << b >>, a, 0, 0, FALSE, {}) : a \in 0 .. 6}

\* Two allgathers in a row by every algorithm, eager and not, and in place; one on larger
\* communicators, with small and large blocks.
Allgathers ==
    {Comm(n, << g, g >>, 0, a, e, FALSE, {}) : n \in 2 .. 4, a \in 0 .. 6 \ {1}, e \in {0, 1}}
    \cup {Comm(3, << g, g >>, 0, a, e, TRUE, {}) : a \in 0 .. 6 \ {1}, e \in {0, 4}}
    \cup {Comm(n, << g >>, 0, 0, 1, FALSE, large) : n \in 5 .. 6, large \in {{}, Rank}}

\* One collective after the other.
Mixed ==
    {Comm(3, calls, a, 0, e, FALSE, {}) : calls \in {<< g, b, g >>, << b, g, b >>}, a \in {0, 1}, e \in {0, 4}}
    \cup {Comm(4, << g, b >>, a, 0, 0, FALSE, {}) : a \in {0, 1}}

MCComms == {c \in Barriers \cup Allgathers \cup Mixed : Fits(c)}

\* Ranks that pass MPI_IN_PLACE and different counts.
InPlaceComms == {Comm(n, << g >>, 0, 0, 4, TRUE, large) : n \in 3 .. 4, large \in SUBSET (0 .. 2)}
=============================================================================
