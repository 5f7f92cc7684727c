--------------------------- MODULE MCScatterGather ---------------------------
(* Small SPMD programs of scatters and gathers of two files.                 *)
EXTENDS ScatterGather

C(op, e, f, n, s, d) == [op |-> op, e |-> e, file |-> f, count |-> n, src |-> s, dst |-> d]

Scatter(e, f)   == C("scatter", e, f, 0, 0, 0)
Query(e, f)     == C("query", e, f, 0, 0, 0)
Gather(e, f, n) == C("gather", e, f, n, 0, 0)
Transfer1(e, s, d) == C("transfer", e, "in", 0, s, d)
KernelRun       == C("kernel", 2, "in", 0, 0, 0)

\* MPI_FLOAT has 2 bytes here: the views of entities of 1 byte are refused.  A transfer of
\* entities of 10 bytes makes a later displacement wrap around.
Calls == { Scatter(1, "in"), Scatter(2, "in"), Scatter(4, "in"), Scatter(2, "out"),
           Query(4, "in"), Query(2, "out"),
           Gather(2, "in", 2), Gather(4, "in", 1), Gather(1, "out", 5), Gather(2, "out", 2), Gather(4, "out", 1),
           Transfer1(2, 0, 1), Transfer1(10, 1, 1), KernelRun }

Files == {"in", "out", "big"}
FileSizes == [f \in Files |-> CASE f = "in" -> 19 [] f = "out" -> 0 [] f = "big" -> 74]

\* All programs of up to 3 calls, those of 5 that scatter, compute and gather first, and
\* some with a file whose size is not an int.
MCPrograms ==
    UNION {[1 .. n -> Calls] : n \in 1 .. 3}
    \cup {<< Scatter(g[1], "in"), KernelRun, g[2], c, d >> :
            g \in {<< 1, Gather(1, "out", 5) >>, << 2, Gather(2, "out", 2) >>,
                   << 4, Gather(4, "in", 1) >>, << 4, Gather(4, "out", 1) >>},
            c \in Calls, d \in Calls}
    \cup {<< Query(2, "big"), Scatter(2, "big"), c >> : c \in Calls}
=============================================================================
