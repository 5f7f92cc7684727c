----------------------------- MODULE KernelExec -----------------------------
(***************************************************************************)
(* Kernel launches and waits of the XCLFrame extension: OMPI_XclExecKernel, *)
(* OMPI_XclWaitAllTasks and OMPI_XclWaitFor, down to the pthreads and the   *)
(* in-order OpenCL command queues of multiDeviceMgmt/taskMgmt.              *)
(*                                                                          *)
(* An application is an SPMD program: every rank makes the same sequence    *)
(* `prog' of library calls, at its own pace.  A kernel launch is named by   *)
(* the position in prog of the Exec call that starts it.  The OpenCL        *)
(* runtime, pthreads and MPI_Barrier are external and are modelled by what  *)
(* the code relies on.                                                      *)
(***************************************************************************)
EXTENDS Integers, Sequences, FiniteSets

CONSTANTS
    Rank,       \* the processes of the communicator
    Task,       \* the global task ids
    r_rank,     \* g_taskList[t].r_rank: the rank that owns a task
    taskList,   \* per rank, its tasks in the order of l_taskIdx
    Device,     \* the devices; each has one in-order command queue
    devOf,      \* taskList[i].device of every task
    NumArgs,    \* number of arguments of the kernel
    Handle,     \* the pthread_t values the system can hand out
    Garbage,    \* a pthread_t that pthread_create never wrote
    Programs,   \* the SPMD programs: sequences of calls to the library
    MaxCalls    \* bound on the length of a program

\* The calls of an application.
Exec(t)    == [op |-> "exec", task |-> t]
WaitAll    == [op |-> "waitAll"]
WaitFor(s) == [op |-> "waitFor", taskIds |-> s]

Call == [op : {"exec"}, task : Task] \cup [op : {"waitAll"}]
            \cup [op : {"waitFor"}, taskIds : Seq(Task)]

ASSUME KernelExecAssumption ==
    /\ r_rank \in [Task -> Rank]
    /\ taskList \in [Rank -> Seq(Task)]
    /\ \A r \in Rank : {taskList[r][i] : i \in DOMAIN taskList[r]} = {t \in Task : r_rank[t] = r}
    /\ devOf \in [Task -> Device]
    /\ NumArgs \in Nat
    /\ Garbage \notin Handle
    /\ MaxCalls \in Nat
    /\ \A p \in Programs : p \in Seq(Call) /\ Len(p) \in 1 .. MaxCalls

Launch == 1 .. MaxCalls
Arg    == 1 .. NumArgs

VARIABLES
    prog,       \* the calls of the application, the same on every rank
    pc,         \* per rank, the position of the call it is in
    phase,      \* per rank, where it is inside that call
    idx,        \* per rank, the loop counter of that call
    kernelArg,  \* per task, the launch whose value each argument of its cl_kernel holds
    launch,     \* per launch, the state of its pthread
    handle,     \* per launch, the pthread_t of its pthread
    ranWith,    \* per launch, the arguments its command was enqueued with
    finishSet,  \* per launch, the commands its clFinish waits for
    thds,       \* per task, the entry of the array thds
    thdsInit,   \* per rank, whether the array thds has been allocated
    queue,      \* per device, its command queue
    entered,    \* per rank, how many MPI_Barriers it has entered
    aborted     \* some process died, and the job with it

vars == << prog, pc, phase, idx, kernelArg, launch, handle, ranWith, finishSet,
           thds, thdsInit, queue, entered, aborted >>

mainVars   == << pc, phase, idx >>
threadVars == << launch, handle, ranWith, finishSet >>
arrayVars  == << thds, thdsInit >>

----------------------------------------------------------------------------
Cur(r) == prog[pc[r]]

\* Rank r is about to make a call (it is inside the library or the application).
AtCall(r, op) ==
    /\ ~aborted
    /\ pc[r] <= Len(prog)
    /\ phase[r] = "call"
    /\ Cur(r).op = op

At(r, ph) == ~aborted /\ phase[r] = ph

Goto(r, ph, i) ==
    /\ phase' = [phase EXCEPT ![r] = ph]
    /\ idx' = [idx EXCEPT ![r] = i]
    /\ pc' = pc

Return(r) ==
    /\ pc' = [pc EXCEPT ![r] = @ + 1]
    /\ phase' = [phase EXCEPT ![r] = "call"]
    /\ idx' = [idx EXCEPT ![r] = 1]

\* exit(1) or a fatal signal in one process: the job is aborted.
Abort ==
    /\ aborted' = TRUE
    /\ UNCHANGED << prog, mainVars, kernelArg, threadVars, arrayVars, queue, entered >>

----------------------------------------------------------------------------
(* OMPI_XclExecKernel                                                      *)

\* Only the rank of the selected task does anything.
ExecCall(r) ==
    /\ AtCall(r, "exec")
    /\ IF r_rank[Cur(r).task] = r THEN Goto(r, "args", 1) ELSE Return(r)
    /\ UNCHANGED << prog, kernelArg, threadVars, arrayVars, queue, entered, aborted >>

\* One turn of the loop over fmt: clSetKernelArg on the task's only cl_kernel.
SetKernelArg(r) ==
    /\ At(r, "args")
    /\ idx[r] <= NumArgs
    /\ kernelArg' = [kernelArg EXCEPT ![Cur(r).task][idx[r]] = pc[r]]
    /\ Goto(r, "args", idx[r] + 1)
    /\ UNCHANGED << prog, threadVars, arrayVars, queue, entered, aborted >>

\* clSetKernelArg fails and chkerr exits.
SetKernelArgError(r) ==
    /\ At(r, "args")
    /\ idx[r] <= NumArgs
    /\ Abort

\* A pthread_t is free when no thread that is still to be joined has it.
FreeHandles == Handle \ {handle[c] : c \in {c \in Launch : launch[c] \notin {"none", "joined"}}}

\* enqueueKernel allocates thds on first use and starts the thread; the entry
\* of the task is overwritten whether or not its last thread was joined.
EnqueueKernel(r) ==
    /\ At(r, "args")
    /\ idx[r] > NumArgs
    /\ \E h \in FreeHandles :
          /\ handle' = [handle EXCEPT ![pc[r]] = h]
          /\ thds' = [thds EXCEPT ![Cur(r).task] = h]
    /\ thdsInit' = [thdsInit EXCEPT ![r] = TRUE]
    /\ launch' = [launch EXCEPT ![pc[r]] = "created"]
    /\ Return(r)
    /\ UNCHANGED << prog, kernelArg, ranWith, finishSet, queue, entered, aborted >>

\* pthread_create fails; its result is ignored and thds keeps its old entry.
EnqueueKernelNoThread(r) ==
    /\ At(r, "args")
    /\ idx[r] > NumArgs
    /\ thdsInit' = [thdsInit EXCEPT ![r] = TRUE]
    /\ Return(r)
    /\ UNCHANGED << prog, kernelArg, threadVars, thds, queue, entered, aborted >>

----------------------------------------------------------------------------
(* The thread function enqueTaskReq, and the device that serves the queue  *)

\* clEnqueueNDRangeKernel reads the arguments the cl_kernel holds now.
ThreadEnqueue(c) ==
    /\ ~aborted
    /\ launch[c] = "created"
    /\ launch' = [launch EXCEPT ![c] = "queued"]
    /\ ranWith' = [ranWith EXCEPT ![c] = kernelArg[prog[c].task]]
    /\ queue' = [queue EXCEPT ![devOf[prog[c].task]] = Append(@, c)]
    /\ UNCHANGED << prog, mainVars, kernelArg, handle, finishSet, arrayVars, entered, aborted >>

\* The enqueue fails; its status is ignored and the thread goes on.
ThreadEnqueueError(c) ==
    /\ ~aborted
    /\ launch[c] = "created"
    /\ launch' = [launch EXCEPT ![c] = "queued"]
    /\ UNCHANGED << prog, mainVars, kernelArg, handle, ranWith, finishSet, arrayVars, queue, entered, aborted >>

InQueue(d) == {queue[d][i] : i \in DOMAIN queue[d]}

\* clFinish is called: it will wait for the commands that are in the queue now.
ThreadFinish(c) ==
    /\ ~aborted
    /\ launch[c] = "queued"
    /\ launch' = [launch EXCEPT ![c] = "finishing"]
    /\ finishSet' = [finishSet EXCEPT ![c] = InQueue(devOf[prog[c].task])]
    /\ UNCHANGED << prog, mainVars, kernelArg, handle, ranWith, arrayVars, queue, entered, aborted >>

\* Mutant: the thread does not wait for the queue (clFlush for clFinish).
ThreadExitNoFinish(c) ==
    /\ ~aborted
    /\ launch[c] = "finishing"
    /\ launch' = [launch EXCEPT ![c] = "done"]
    /\ UNCHANGED << prog, mainVars, kernelArg, handle, ranWith, finishSet, arrayVars, queue, entered, aborted >>

\* clFinish returns and the thread terminates.
ThreadExit(c) ==
    /\ ~aborted
    /\ launch[c] = "finishing"
    /\ finishSet[c] \cap InQueue(devOf[prog[c].task]) = {}
    /\ launch' = [launch EXCEPT ![c] = "done"]
    /\ UNCHANGED << prog, mainVars, kernelArg, handle, ranWith, finishSet, arrayVars, queue, entered, aborted >>

\* The device completes the oldest command of its queue.
DeviceRun(d) ==
    /\ ~aborted
    /\ queue[d] # << >>
    /\ queue' = [queue EXCEPT ![d] = Tail(@)]
    /\ UNCHANGED << prog, mainVars, kernelArg, threadVars, arrayVars, entered, aborted >>

----------------------------------------------------------------------------
(* OMPI_XclWaitAllTasks and OMPI_XclWaitFor                                *)

\* The tasks the call goes through: all tasks of the rank, or taskIds.
Listed(r) == IF Cur(r).op = "waitAll" THEN taskList[r] ELSE Cur(r).taskIds

Owns(r, s) == \E i \in DOMAIN s : r_rank[s[i]] = r

\* Mutant: a rank that never launched a kernel has no thds and returns early.
WaitAllCallEarlyReturn(r) ==
    /\ AtCall(r, "waitAll")
    /\ IF thdsInit[r] THEN Goto(r, "join", 1) ELSE Return(r)
    /\ UNCHANGED << prog, kernelArg, threadVars, arrayVars, queue, entered, aborted >>

WaitAllCall(r) ==
    /\ AtCall(r, "waitAll")
    /\ Goto(r, "join", 1)
    /\ UNCHANGED << prog, kernelArg, threadVars, arrayVars, queue, entered, aborted >>

\* A rank that owns none of the tasks returns at once.
WaitForCall(r) ==
    /\ AtCall(r, "waitFor")
    /\ IF Owns(r, Cur(r).taskIds) THEN Goto(r, "join", 1) ELSE Return(r)
    /\ UNCHANGED << prog, kernelArg, threadVars, arrayVars, queue, entered, aborted >>

\* The global to local conversion drops the tasks of other ranks.
SkipRemote(r) ==
    /\ At(r, "join")
    /\ idx[r] <= Len(Listed(r))
    /\ r_rank[Listed(r)[idx[r]]] # r
    /\ Goto(r, "join", idx[r] + 1)
    /\ UNCHANGED << prog, kernelArg, threadVars, arrayVars, queue, entered, aborted >>

Joining(r) ==
    /\ At(r, "join")
    /\ idx[r] <= Len(Listed(r))
    /\ r_rank[Listed(r)[idx[r]]] = r

Unjoined(h) == {c \in Launch : launch[c] \notin {"none", "joined"} /\ handle[c] = h}

\* Mutant: the thread is polled (pthread_tryjoin_np) and the result ignored.
JoinNoWait(r) ==
    /\ Joining(r)
    /\ thdsInit[r]
    /\ Unjoined(thds[Listed(r)[idx[r]]]) # {}
    /\ Goto(r, "join", idx[r] + 1)
    /\ UNCHANGED << prog, kernelArg, threadVars, arrayVars, queue, entered, aborted >>

\* pthread_join returns once the thread that now has this pthread_t is done.
Join(r) ==
    /\ Joining(r)
    /\ thdsInit[r]
    /\ \E c \in Unjoined(thds[Listed(r)[idx[r]]]) :
          /\ launch[c] = "done"
          /\ launch' = [launch EXCEPT ![c] = "joined"]
    /\ Goto(r, "join", idx[r] + 1)
    /\ UNCHANGED << prog, kernelArg, handle, ranWith, finishSet, arrayVars, queue, entered, aborted >>

\* The pthread_t names no thread: it was joined before or was never written.
\* pthread_join may return ESRCH, which is ignored ...
JoinNoThread(r) ==
    /\ Joining(r)
    /\ thdsInit[r]
    /\ Unjoined(thds[Listed(r)[idx[r]]]) = {}
    /\ Goto(r, "join", idx[r] + 1)
    /\ UNCHANGED << prog, kernelArg, threadVars, arrayVars, queue, entered, aborted >>

\* ... or read memory that is gone; a NULL thds is always fatal.
JoinCrash(r) ==
    /\ Joining(r)
    /\ thdsInit[r] => Unjoined(thds[Listed(r)[idx[r]]]) = {}
    /\ Abort

\* Mutant: the waits return after the joins, without a barrier.
BarrierEnterSkipped(r) ==
    /\ At(r, "join")
    /\ idx[r] > Len(Listed(r))
    /\ Return(r)
    /\ UNCHANGED << prog, kernelArg, threadVars, arrayVars, queue, entered, aborted >>

\* MPI_Barrier is called after the joins.
BarrierEnter(r) ==
    /\ At(r, "join")
    /\ idx[r] > Len(Listed(r))
    /\ entered' = [entered EXCEPT ![r] = @ + 1]
    /\ Goto(r, "barrier", 1)
    /\ UNCHANGED << prog, kernelArg, threadVars, arrayVars, queue, aborted >>

\* MPI_Barrier (external): the k-th barrier of a rank returns only after
\* every rank has entered its k-th barrier.
BarrierLeave(r) ==
    /\ At(r, "barrier")
    /\ \A q \in Rank : entered[q] >= entered[r]
    /\ Return(r)
    /\ UNCHANGED << prog, kernelArg, threadVars, arrayVars, queue, entered, aborted >>

----------------------------------------------------------------------------
Init ==
    /\ prog \in Programs
    /\ pc = [r \in Rank |-> 1]
    /\ phase = [r \in Rank |-> "call"]
    /\ idx = [r \in Rank |-> 1]
    /\ kernelArg = [t \in Task |-> [a \in Arg |-> 0]]
    /\ launch = [c \in Launch |-> "none"]
    /\ handle = [c \in Launch |-> Garbage]
    /\ ranWith = [c \in Launch |-> [a \in Arg |-> 0]]
    /\ finishSet = [c \in Launch |-> {}]
    /\ thds = [t \in Task |-> Garbage]
    /\ thdsInit = [r \in Rank |-> FALSE]
    /\ queue = [d \in Device |-> << >>]
    /\ entered = [r \in Rank |-> 0]
    /\ aborted = FALSE

MainStep(r) ==
    \/ ExecCall(r) \/ SetKernelArg(r) \/ SetKernelArgError(r) \/ EnqueueKernel(r)
    \/ EnqueueKernelNoThread(r)
    \/ WaitAllCall(r) \/ WaitForCall(r)
    \/ SkipRemote(r) \/ Join(r) \/ JoinNoThread(r) \/ JoinCrash(r)
    \/ BarrierEnter(r) \/ BarrierLeave(r)

ThreadStep(c) ==
    ThreadEnqueue(c) \/ ThreadEnqueueError(c) \/ ThreadFinish(c) \/ ThreadExit(c)

\* Every rank's program has ended and its threads are gone, or the job died.
Terminated ==
    /\ \/ aborted
       \/ /\ \A r \in Rank : pc[r] > Len(prog)
          /\ \A c \in Launch : launch[c] \in {"none", "done", "joined"}
          /\ \A d \in Device : queue[d] = << >>
    /\ UNCHANGED vars

Next ==
    \/ \E r \in Rank : MainStep(r)
    \/ \E c \in Launch : ThreadStep(c)
    \/ \E d \in Device : DeviceRun(d)
    \/ Terminated

Spec == Init /\ [][Next]_vars

\* The scheduler runs every process and thread, and devices make progress.
Fairness ==
    /\ \A r \in Rank : WF_vars(MainStep(r))
    /\ \A c \in Launch : WF_vars(ThreadStep(c))
    /\ \A d \in Device : WF_vars(DeviceRun(d))

FairSpec == Spec /\ Fairness
----------------------------------------------------------------------------
MainType ==
    /\ prog \in Programs
    /\ pc \in [Rank -> 1 .. Len(prog) + 1]
    /\ phase \in [Rank -> {"call", "args", "join", "barrier"}]
    /\ idx \in [Rank -> Nat \ {0}]
    /\ \A r \in Rank : phase[r] = "args" => idx[r] <= NumArgs + 1

ThreadType ==
    /\ launch \in [Launch -> {"none", "created", "queued", "finishing", "done", "joined"}]
    /\ handle \in [Launch -> Handle \cup {Garbage}]
    /\ finishSet \in [Launch -> SUBSET Launch]

ArgType ==
    /\ kernelArg \in [Task -> [Arg -> 0 .. MaxCalls]]
    /\ ranWith \in [Launch -> [Arg -> 0 .. MaxCalls]]

ArrayType ==
    /\ thds \in [Task -> Handle \cup {Garbage}]
    /\ thdsInit \in [Rank -> BOOLEAN]

SystemType ==
    /\ queue \in [Device -> Seq(Launch)]
    /\ entered \in [Rank -> Nat]
    /\ aborted \in BOOLEAN

\* The types of the variables; the loop over fmt stays within the arguments of
\* the kernel.
TypeOK == MainType /\ ThreadType /\ ArgType /\ ArrayType /\ SystemType

\* Call c waits for task t.
Covers(c, t) ==
    \/ prog[c].op = "waitAll"
    \/ prog[c].op = "waitFor" /\ \E i \in DOMAIN prog[c].taskIds : prog[c].taskIds[i] = t

\* Rank r has done the joins of call c.
Joined(r, c) == pc[r] > c \/ (pc[r] = c /\ phase[r] = "barrier")

IsExec(e, t) == e \in DOMAIN prog /\ prog[e].op = "exec" /\ prog[e].task = t

\* Launch e is the last thread started for task t by the calls before c.
LastStarted(e, t, c) ==
    /\ e < c /\ IsExec(e, t) /\ launch[e] # "none"
    /\ \A f \in e + 1 .. c - 1 : IsExec(f, t) => launch[f] = "none"

\* The thread has terminated and its command is no longer in the queue.
Complete(e) ==
    /\ launch[e] \in {"done", "joined"}
    /\ e \notin InQueue(devOf[prog[e].task])

\* When OMPI_XclWaitAllTasks or OMPI_XclWaitFor has joined the tasks of its
\* rank, the last kernel started for each task it covers is complete; the
\* joins go through pthread_t values that may be stale or reused.
WaitCompletesLastLaunch ==
    \A r \in Rank : \A c \in DOMAIN prog : Joined(r, c) =>
        \A t \in Task : r_rank[t] = r /\ Covers(c, t) =>
            \A e \in Launch : LastStarted(e, t, c) => Complete(e)

\* Up to call c, every WaitFor names a task of every rank: only then do all
\* ranks make the same MPI_Barrier calls.
Aligned(c) ==
    \A b \in 1 .. c : prog[b].op = "waitFor" =>
        \A r \in Rank : Owns(r, prog[b].taskIds)

\* A wait is a global synchronisation: once one rank has returned from it, the
\* last kernels of the covered tasks are complete on all ranks, not only on
\* its own (MPI_Barrier at the end of both waits).
WaitIsGlobal ==
    \A r \in Rank : \A c \in DOMAIN prog : pc[r] > c /\ Aligned(c) =>
        \A t \in Task : Covers(c, t) =>
            \A e \in Launch : LastStarted(e, t, c) => Complete(e)

\* Exec call e is followed by no other Exec of its task, or by a wait that
\* covers the task first.
Separated(e) ==
    \A f \in e + 1 .. Len(prog) : IsExec(f, prog[e].task) =>
        \E c \in e + 1 .. f - 1 : Covers(c, prog[e].task)

\* The arguments are set on a cl_kernel the thread reads later: if the
\* application waits for a task between two launches of it, every launch runs
\* with exactly the arguments of its own OMPI_XclExecKernel call.
ArgumentsIntact ==
    \A e \in DOMAIN prog : prog[e].op = "exec" /\ Separated(e) =>
        \A a \in Arg : ranWith[e][a] \in {0, e}

\* If every WaitFor names a task of every rank, every rank gets to the end of
\* its program (or the job is aborted): joins and barriers never hang.
AllRanksFinish ==
    Aligned(Len(prog)) => <>(aborted \/ \A r \in Rank : pc[r] > Len(prog))

\* MPI_Barrier(3): "the call returns at any process only after all group
\* members have entered the call"; all ranks call OMPI_XclWaitFor with the
\* same arguments, so a rank inside it should return.
WaitForReturns ==
    \A r \in Rank :
        (phase[r] = "barrier" /\ \A q \in Rank : pc[q] >= pc[r])
            ~> (aborted \/ phase[r] # "barrier")
=============================================================================
