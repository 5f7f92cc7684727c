----------------------------- MODULE TunedBarrier -----------------------------
(***************************************************************************)
(* The six algorithms of MPI_Barrier of the tuned collective component: for *)
(* each rank a program of exchanges of zero bytes.                          *)
(***************************************************************************)
EXTENDS TunedUtil

Send(d)  == Exchange(d, 0, NoRank, 0, 0, FALSE)
Ssend(d) == Exchange(d, 0, NoRank, 0, 0, TRUE)
Recv(s)  == Exchange(NoRank, 0, s, 0, 0, FALSE)

\* ompi_coll_tuned_sendrecv_zero: the receive is posted, the send is, and both are
\* waited for; the send is a standard one.
sendrecv_zero(dest, source) == Exchange(dest, 0, source, 0, 0, FALSE)

When(condition, steps) == IF condition THEN steps ELSE << >>

----------------------------------------------------------------------------
\* Mutant: the root collects one message too few.
barrier_intra_basic_linearShort(n, rank) ==
    IF rank > 0
    THEN Send(0) \o Recv(0)
    ELSE Loop([i \in 1 .. n - 2 |-> i], LAMBDA i : Recv(MPI_ANY_SOURCE))
         \o Loop([i \in 1 .. n - 1 |-> i], Send)

\* The root's receives name no source: any message of this tag counts.
barrier_intra_basic_linear(n, rank) ==
    IF rank > 0
    THEN Send(0) \o Recv(0)
    ELSE Loop([i \in 1 .. n - 1 |-> i], LAMBDA i : Recv(MPI_ANY_SOURCE))
         \o Loop([i \in 1 .. n - 1 |-> i], Send)

\* C's -1 % size is -1, so that rank 0 receives from any rank.
barrier_intra_doublering(n, rank) ==
    LET l == IF rank = 0 THEN MPI_ANY_SOURCE ELSE rank - 1
        r == (rank + 1) % n
        Ring(send) == When(rank > 0, Recv(l)) \o send \o When(rank = 0, Recv(l))
    IN  Ring(Send(r)) \o Ring(Ssend(r))

barrier_intra_recursivedoubling(n, rank) ==
    LET adjsize == opal_next_poweroftwo(n) \div 2
        extra   == adjsize # n
        Partner(mask) == When(Xor(rank, mask) < adjsize, sendrecv_zero(Xor(rank, mask), Xor(rank, mask)))
    IN  IF extra /\ rank >= adjsize
        THEN sendrecv_zero(rank - adjsize, rank - adjsize)
        ELSE When(extra /\ rank < n - adjsize, Recv(rank + adjsize))
             \o Loop(Doubling(adjsize), Partner)
             \o When(extra /\ rank < n - adjsize, Ssend(rank + adjsize))

\* Mutant: the distances stop one doubling too early.
barrier_intra_bruckShort(n, rank) ==
    Loop(Doubling(n \div 2 + 1),
         LAMBDA distance : sendrecv_zero((rank + distance) % n, (rank + n - distance) % n))

barrier_intra_bruck(n, rank) ==
    Loop(Doubling(n),
         LAMBDA distance : sendrecv_zero((rank + distance) % n, (rank + n - distance) % n))

barrier_intra_two_procs(rank) == sendrecv_zero((rank + 1) % 2, (rank + 1) % 2)

barrier_intra_tree(n, rank) ==
    LET depth == opal_next_poweroftwo_inclusive(n)
        Step(jump, above, below) ==
            LET partner == Xor(rank, jump)
            IN  When(partner % jump = 0 /\ partner < n,
                     IF partner > rank THEN above[partner] ELSE below[partner])
        recv == [q \in 0 .. n - 1 |-> Recv(q)]
        send == [q \in 0 .. n - 1 |-> Send(q)]
    IN  Loop(Doubling(depth), LAMBDA jump : Step(jump, recv, send))
        \o Loop(Reverse(Doubling(depth)), LAMBDA jump : Step(jump, send, recv))

\* ompi_coll_tuned_barrier_intra_dec_fixed: the choice when none is forced.
barrier_intra_dec_fixed(n) ==
    IF n = 2 THEN 5 ELSE IF opal_next_poweroftwo_inclusive(n) = n THEN 3 ELSE 4

\* ompi_coll_tuned_barrier_intra_do_forced and do_this.
barrier_intra_do_this(n, forced, rank) ==
    LET a == IF forced = 0 THEN barrier_intra_dec_fixed(n) ELSE forced
    IN  CASE a = 1 -> barrier_intra_basic_linear(n, rank)
          [] a = 2 -> barrier_intra_doublering(n, rank)
          [] a = 3 -> barrier_intra_recursivedoubling(n, rank)
          [] a = 4 -> barrier_intra_bruck(n, rank)
          [] a = 5 -> barrier_intra_two_procs(rank)
          [] a = 6 -> barrier_intra_tree(n, rank)
=============================================================================
