---------------------------- MODULE TunedAllgather ----------------------------
(***************************************************************************)
(* The algorithms of MPI_Allgather of the tuned collective component (basic *)
(* linear, a gather and a broadcast, is left out): for each rank a program  *)
(* of exchanges of blocks of its receive buffer.                            *)
(***************************************************************************)
EXTENDS TunedUtil

\* ompi_coll_tuned_sendrecv: standard sends of blocks.
sendrecv(to, sloc, from, rloc, count) == Exchange(to, sloc, from, rloc, count, FALSE)

BruckCount(n, distance) == IF distance <= n \div 2 THEN distance ELSE n - distance

allgather_intra_bruck(n, rank) ==
    Loop(Doubling(n), LAMBDA distance :
        sendrecv((rank - distance + n) % n, 0, (rank + distance) % n, distance, BruckCount(n, distance)))

\* sendblocklocation is the first block of the aligned group that holds the rank.
allgather_intra_recursivedoubling(n, rank) ==
    Loop(Doubling(n), LAMBDA distance :
        LET sendblocklocation == rank - (rank % distance)
            remote == Xor(rank, distance)
        IN  sendrecv(remote, sendblocklocation, remote,
                     IF rank < remote THEN sendblocklocation + distance ELSE sendblocklocation - distance,
                     distance))

allgather_intra_ring(n, rank) ==
    Loop([i \in 1 .. n - 1 |-> i - 1], LAMBDA i :
        sendrecv((rank + 1) % n, (rank - i + n) % n, (rank - 1 + n) % n, (rank - i - 1 + n) % n, 1))

\* After one block with the first neighbor, two blocks at a time with the neighbors
\* in turn; what was received in a step is sent in the next.
allgather_intra_neighborexchange(n, rank) ==
    LET even == rank % 2 = 0
        above == (rank + 1) % n
        below == (rank - 1 + n) % n
        neighbor == << IF even THEN below ELSE above, IF even THEN above ELSE below >>  \* odd steps, even steps
        offset == IF even THEN << -2, 2 >> ELSE << 2, -2 >>
        Parity(i) == IF i % 2 = 1 THEN 1 ELSE 2
        \* recv_data_from at step i, updated every other step.
        From(i) == ((rank - (rank % 2)) + offset[Parity(i)] * ((i + 1) \div 2) + n) % n
    IN  sendrecv(neighbor[2], rank, neighbor[2], neighbor[2], 1)
        \o Loop([i \in 1 .. n \div 2 - 1 |-> i],
                LAMBDA i : sendrecv(neighbor[Parity(i)], From(i - 1), neighbor[Parity(i)], From(i), 2))

allgather_intra_two_procs(rank) == sendrecv(Xor(rank, 1), rank, Xor(rank, 1), Xor(rank, 1), 1)

\* ompi_coll_tuned_allgather_intra_dec_fixed.
allgather_intra_dec_fixed(n, large) ==
    IF n = 2 THEN 6
    ELSE IF large THEN (IF n % 2 = 1 THEN 4 ELSE 5)
    ELSE IF opal_next_poweroftwo_inclusive(n) = n THEN 3 ELSE 2

\* ompi_coll_tuned_allgather_intra_do_forced, and the algorithms that fall back on another.
AllgatherAlgorithm(n, forced, large) ==
    LET a == IF forced = 0 THEN allgather_intra_dec_fixed(n, large) ELSE forced
    IN  CASE a = 3 /\ opal_next_poweroftwo(n) \div 2 # n -> 2
          [] a = 5 /\ n % 2 = 1                          -> 4
          [] OTHER                                       -> a

allgather_intra_do_this(n, a, rank) ==
    CASE a = 2 -> allgather_intra_bruck(n, rank)
      [] a = 3 -> allgather_intra_recursivedoubling(n, rank)
      [] a = 4 -> allgather_intra_ring(n, rank)
      [] a = 5 -> allgather_intra_neighborexchange(n, rank)
      [] a = 6 -> allgather_intra_two_procs(rank)
=============================================================================
