---------------------------- MODULE MCKernelExec ----------------------------
(* Small SPMD applications for KernelExec on two ranks: r1 has two tasks     *)
(* that share a device, r2 has one.                                          *)
EXTENDS KernelExec, TLC

CONSTANTS r1, r2, t1, t2, t3, d1, d2

Owner     == t1 :> r1 @@ t2 :> r1 @@ t3 :> r2
TaskLists == r1 :> << t1, t2 >> @@ r2 :> << t3 >>
Devices   == t1 :> d1 @@ t2 :> d1 @@ t3 :> d2

UpTo(n, calls) == UNION {[1 .. k -> calls] : k \in 1 .. n}

\* Launches of one task before it is waited for, of two tasks on one device and of
\* tasks on two ranks; waits for all, for a task of one rank and for one of each.
Calls == {Exec(t1), Exec(t2), Exec(t3), WaitAll, WaitFor(<< t2 >>), WaitFor(<< t3, t1 >>)}

\* Every program of up to 2 calls, those of 3 that start with a launch and hold a wait,
\* and those of 4 that launch on both ranks (a wait before any launch is fatal), launch
\* or wait, and launch or wait again.
ShortPrograms ==
    UpTo(2, Calls)
    \cup {p \in [1 .. 3 -> Calls] : p[1].op = "exec" /\ "exec" # p[IF p[2].op = "exec" THEN 3 ELSE 2].op}
    \cup {<< Exec(t3), Exec(t1), c, d >> : c \in {Exec(t1), Exec(t2), WaitAll, WaitFor(<< t3, t1 >>)}, d \in {Exec(t1), WaitAll}}

\* The same launch on one task, waited for by all ranks.
HangPrograms == { << Exec(t1), WaitFor(<< t1 >>) >> }
=============================================================================
