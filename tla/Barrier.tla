------------------------------- MODULE Barrier -------------------------------
(***************************************************************************)
(* What MPI_Barrier promises to the ranks of a communicator: the k-th call  *)
(* of a rank returns only after every rank has made its k-th call, and then *)
(* it does return.  OMPI_XclWaitAllTasks and OMPI_XclWaitFor rely on this   *)
(* (KernelExec takes it as given); TunedColl shows it of the algorithms     *)
(* that Open MPI runs.                                                      *)
(***************************************************************************)
EXTENDS Naturals

CONSTANT Rank        \* every rank a communicator may have

VARIABLES ranks,     \* the ranks of the communicator
          entered,   \* per rank, how many calls it has made
          left       \* per rank, how many calls have returned

vars == << ranks, entered, left >>

Init ==
    /\ ranks \in SUBSET Rank
    /\ entered = [r \in Rank |-> 0]
    /\ left = [r \in Rank |-> 0]

\* MPI_Barrier is called.
Enter(r) ==
    /\ r \in ranks
    /\ entered[r] = left[r]
    /\ entered' = [entered EXCEPT ![r] = @ + 1]
    /\ UNCHANGED << ranks, left >>

\* MPI_Barrier returns.
Leave(r) ==
    /\ r \in ranks
    /\ left[r] < entered[r]
    /\ \A q \in ranks : entered[q] >= entered[r]
    /\ left' = [left EXCEPT ![r] = @ + 1]
    /\ UNCHANGED << ranks, entered >>

Next == \E r \in Rank : Enter(r) \/ Leave(r)

Spec == Init /\ [][Next]_vars /\ \A r \in Rank : WF_vars(Leave(r))
=============================================================================
