----------------------------- MODULE MCOb1Match -----------------------------
(* Messages that overtake one another on the way, two threads that handle    *)
(* them, and receives posted before and after.  One tag is of the            *)
(* application and one of the collectives.                                   *)
EXTENDS Ob1Match

MCTag == {5, -16}

\* Two sources and wildcards; one source that sends more than sequence numbers count.
MCWorkloads == {
    [sends    |-> [s \in Source |-> 2],
     requests |-> {<< 0, 5, "recv" >>, << MPI_ANY_SOURCE, OMPI_ANY_TAG, "recv" >>, << MPI_ANY_SOURCE, 5, "probe" >>}],
    [sends    |-> [s \in Source |-> IF s = 0 THEN 4 ELSE 0],
     requests |-> {<< 0, -16, "recv" >>, << 0, OMPI_ANY_TAG, "improbe" >>, << 0, 5, "iprobe" >>}] }

MCRequests == UNION {w.requests : w \in MCWorkloads}
=============================================================================
