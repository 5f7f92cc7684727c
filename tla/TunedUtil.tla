------------------------------ MODULE TunedUtil ------------------------------
(***************************************************************************)
(* What the tuned collectives share: arithmetic on ranks (opal/util/        *)
(* bit_ops.h and the operators of C on powers of two), loops, and the steps *)
(* of which the program of a rank consists.                                 *)
(***************************************************************************)
EXTENDS Integers, Sequences, SequencesExt

\* The least power of two that is not below, and the least one that is above, the value.
opal_next_poweroftwo_inclusive(value) == CHOOSE p \in {2^k : k \in 0 .. value} : p >= value /\ p < 2 * value
opal_next_poweroftwo(value) == opal_next_poweroftwo_inclusive(value + 1)

\* The numbers 1, 2, 4, ... below a bound.
Doubling(bound) == SetToSortSeq({p \in 1 .. bound - 1 : \E k \in 0 .. bound : p = 2^k}, <)

Xor(rank, power) == IF (rank \div power) % 2 = 0 THEN rank + power ELSE rank - power

\* The steps of a loop over the members of a sequence.
Loop(seq, Body(_)) == FlattenSeq([i \in 1 .. Len(seq) |-> Body(seq[i])])

NoRank == -2
MPI_ANY_SOURCE == -1

\* A step posts a receive, posts a send and waits for both: count blocks from sloc on go
\* to one rank, and as many of another (or of any) are received from rloc on.  Either half
\* may be missing; a synchronous send ends only when a receive has matched it.
Exchange(to, sloc, from, rloc, count, sync) ==
    << [to |-> to, sloc |-> sloc, from |-> from, rloc |-> rloc, count |-> count, sync |-> sync] >>
=============================================================================
