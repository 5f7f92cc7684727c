----------------------------- MODULE LibHandles -----------------------------
(***************************************************************************)
(* The libraries the extension loads on demand, in one process.  Each call  *)
(* opens libtskMgmt or libdvMgmt, which open libmultiDeviceMgmt, with       *)
(* dlopen; some paths close what they opened and some do not.  The globals  *)
(* thds, th_Args and tskbufferSize live in libmultiDeviceMgmt, and so does  *)
(* the code of the launch threads.                                          *)
(*                                                                          *)
(* dlopen and dlclose are external: they count references, and a library    *)
(* whose count drops to 0 is unmapped, with its globals.                    *)
(***************************************************************************)
EXTENDS Integers

CONSTANTS MaxLibCalls, \* bound on the number of calls
          MaxThreads   \* bound on the number of launch threads that run at a time

ASSUME LibHandlesAssumption == MaxLibCalls \in Nat /\ MaxThreads \in Nat

Lib == {"tsk", "dv", "multi"}

\* The calls that load a library; buffer stands for the calls of
\* singleSidedComms.c, which open libmultiDeviceMgmt directly.
Op == {"init", "collect", "create", "exec", "waitAll", "waitFor", "buffer", "scatter", "gather"}

VARIABLES
    calls,          \* how many calls have been made
    op,             \* the call the process is in
    stage,          \* "app", "outer" or "inner": whose code the process is in
    uses,           \* how often the call will still open libmultiDeviceMgmt
    refs,           \* per library, its reference count
    thds,           \* the arrays thds and th_Args are allocated
    tskbufferSize,  \* the scatter whose sizes tskbufferSize holds, 0 for NULL
    threads,        \* the number of threads that run enqueTaskReq
    launched,       \* some OMPI_XclExecKernel has reached enqueueKernel
    scattered       \* the last scatter that has set the sizes, 0 for none

dataVars == << thds, tskbufferSize >>
libVars == << calls, op, stage, uses, refs, dataVars, threads, launched, scattered >>

----------------------------------------------------------------------------
\* The library that is opened first: libmpi opens libmultiDeviceMgmt itself for
\* the calls on buffers.
Outer(o) == IF o \in {"init", "scatter", "gather"} THEN "dv" ELSE "tsk"
HasOuter(o) == o # "buffer"

\* OMPI_XclScatter and OMPI_XclGather never close libdvMgmt.
ClosesOuter(o) == o \in {"init", "collect", "create", "exec", "waitAll", "waitFor"}

\* How often libmultiDeviceMgmt is opened; XclWaitFor does so on the ranks of the tasks.
Uses(o) ==
    CASE o \in {"init", "scatter"} -> {2}
      [] o = "collect"             -> {0}
      [] o = "waitFor"             -> {0, 1}
      [] OTHER                     -> {1}

\* Mutant: the handle is released, as the TODO in ALL_TASK_initBuffer asks for.
ClosesMultiTodo(o) == o \in {"init", "create", "waitAll", "waitFor", "scatter"}

\* Mutant: XclExecKernel closes the handle it has opened.
ClosesMultiExec(o) == o \in {"init", "create", "waitAll", "waitFor", "exec"}

\* XclExecKernel, the ALL_TASK functions and the calls on buffers keep it open.
ClosesMulti(o) == o \in {"init", "create", "waitAll", "waitFor"}

\* dlclose: the last one unmaps the library and its globals are gone.
Close(l) ==
    /\ refs' = [refs EXCEPT ![l] = @ - 1]
    /\ IF l = "multi" /\ refs[l] = 1
       THEN thds' = FALSE /\ tskbufferSize' = 0
       ELSE UNCHANGED dataVars

----------------------------------------------------------------------------
\* The application makes a call (XCLFrame_init is the first, before MPI_Init returns).
LibCall(o) ==
    /\ stage = "app" /\ calls < MaxLibCalls
    /\ o = "init" <=> calls = 0
    /\ calls' = calls + 1 /\ op' = o /\ stage' = "outer"
    /\ uses' \in Uses(o)
    /\ refs' = IF HasOuter(o) THEN [refs EXCEPT ![Outer(o)] = @ + 1] ELSE refs
    /\ UNCHANGED << dataVars, threads, launched, scattered >>

\* A function of libmultiDeviceMgmt is called: enqueueKernel allocates thds and
\* starts a thread, the first one of a scatter sets the sizes.
Use ==
    /\ stage = "outer" /\ uses > 0
    /\ stage' = "inner"
    /\ refs' = [refs EXCEPT !["multi"] = @ + 1]
    /\ thds' = (thds \/ op = "exec")
    /\ launched' = (launched \/ op = "exec")
    /\ IF op = "exec" /\ threads < MaxThreads THEN threads' \in {threads, threads + 1} ELSE threads' = threads
    /\ IF op = "scatter" /\ uses = 2
       THEN tskbufferSize' = calls /\ scattered' = calls
       ELSE UNCHANGED << tskbufferSize, scattered >>
    /\ UNCHANGED << calls, op, uses >>

\* The function returns.  A wait may leave threads running: those of other tasks,
\* and those of launches whose entry of thds was overwritten.
EndUse ==
    /\ stage = "inner"
    /\ stage' = "outer" /\ uses' = uses - 1
    /\ IF ClosesMulti(op) THEN Close("multi") ELSE UNCHANGED << refs, dataVars >>
    /\ UNCHANGED << calls, op, threads, launched, scattered >>

LibReturn ==
    /\ stage = "outer" /\ uses = 0
    /\ stage' = "app"
    /\ IF ClosesOuter(op) THEN Close(Outer(op)) ELSE UNCHANGED << refs, dataVars >>
    /\ UNCHANGED << calls, op, uses, threads, launched, scattered >>

\* A dlopen or dlsym fails: the process exits.
DlError ==
    /\ stage \in {"app", "outer"}
    /\ stage' = "exited"
    /\ threads' = 0
    /\ UNCHANGED << calls, op, uses, refs, dataVars, launched, scattered >>

ThreadExit ==
    /\ threads > 0
    /\ threads' = threads - 1
    /\ UNCHANGED << calls, op, stage, uses, refs, dataVars, launched, scattered >>

LibInit ==
    /\ calls = 0 /\ op = "init" /\ stage = "app" /\ uses = 0
    /\ refs = [l \in Lib |-> 0]
    /\ thds = FALSE /\ tskbufferSize = 0
    /\ threads = 0 /\ launched = FALSE /\ scattered = 0

LibNext == (\E o \in Op : LibCall(o)) \/ Use \/ EndUse \/ LibReturn \/ DlError \/ ThreadExit

LibSpec == LibInit /\ [][LibNext]_libVars
----------------------------------------------------------------------------
\* The types of the variables; no library is closed more often than opened.
LibTypeOK ==
    /\ calls \in 0 .. MaxLibCalls
    /\ op \in Op /\ stage \in {"app", "outer", "inner", "exited"}
    /\ uses \in 0 .. 2
    /\ refs \in [Lib -> Nat]
    /\ thds \in BOOLEAN /\ launched \in BOOLEAN
    /\ tskbufferSize \in 0 .. MaxLibCalls /\ scattered \in 0 .. MaxLibCalls
    /\ threads \in 0 .. MaxThreads

\* The entries of thds that a wait joins are those that the launches have written, and
\* the sizes that a gather uses are those of the last scatter: the library of these
\* globals is not unloaded between the calls.
GlobalsKept ==
    /\ launched => refs["multi"] > 0 /\ thds
    /\ scattered > 0 => refs["multi"] > 0 /\ tskbufferSize = scattered

\* Neither the process nor a launch thread runs in a library that is not loaded, although
\* waits, kernel creations and OMPI_XclExecKernel itself call dlclose while threads run.
CodeMapped ==
    /\ threads > 0 => refs["multi"] > 0
    /\ stage \in {"outer", "inner"} /\ HasOuter(op) => refs[Outer(op)] > 0
    /\ stage = "inner" => refs["multi"] > 0
=============================================================================
