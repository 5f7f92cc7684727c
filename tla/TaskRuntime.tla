----------------------------- MODULE TaskRuntime -----------------------------
(***************************************************************************)
(* One rank that creates kernels, launches them and moves data: the         *)
(* composition of OMPI_XclCreateKernel and OMPI_XclExecKernel with the      *)
(* reads, writes and copies of task buffers, which all go through the       *)
(* in-order command queue of the task's device.                             *)
(*                                                                          *)
(* A launch is enqueued by a thread of its own, at any time after the call  *)
(* that starts it.  What KernelExec shows of the joins is used here: a wait *)
(* returns when the last thread started for each task it covers is done.    *)
(* A task has one tray, whose contents are the sequence of the operations   *)
(* that produced them; a launch takes one tray and one set of arguments.    *)
(***************************************************************************)
EXTENDS Integers, Sequences

CONSTANTS
    Task,       \* the tasks of the rank
    Device,     \* the devices; each has one in-order command queue
    Bindings,   \* the possible functions from tasks to devices
    Array,      \* the arrays of work sizes of the application
    MaxCalls,   \* bound on the length of a program
    Programs    \* the programs: sequences of calls

Call == [op : {"create", "waitAll"}] \cup [op : {"exec"}, task : Task, array : Array]
        \cup [op : {"read", "write", "waitFor"}, task : Task]
        \cup [op : {"copy"}, task : Task, dst : Task] \cup [op : {"setSize"}, array : Array]

ASSUME TaskRuntimeAssumption ==
    /\ Bindings \subseteq [Task -> Device]
    /\ MaxCalls \in Nat
    /\ \A p \in Programs : p \in Seq(Call) /\ Len(p) \in 1 .. MaxCalls

\* Calls, and so launches, creations and contents of arrays, are named by their
\* position in the program; 0 is what happened before it.
Pos == 0 .. MaxCalls

VARIABLES
    prog,     \* the calls of the application
    devOf,    \* taskList[i].device
    pc,       \* the position of the call the rank is in
    phase,    \* where it is inside that call
    kernel,   \* the creation of taskList[i].kernel[0].kernel (createKernel does all tasks)
    args,     \* per creation and task, the call that set the arguments of that cl_kernel
    size,     \* per array of the application, the call that filled it
    launch,   \* per launch, the state of its thread
    th_kernel,\* per launch, the creation of the kernel in its th_Args
    ran,      \* per launch, what its command was enqueued with
    lost,     \* the launches that no command was enqueued for
    queue,    \* per device, its commands
    finish,   \* per launch, the commands its clFinish waits for
    host,     \* the host buffer of the copy the rank is in
    tray,     \* per task, the contents of its tray
    result    \* per read, what it returned

threadVars == << launch, th_kernel, ran, lost, finish >>
vars == << prog, devOf, pc, phase, kernel, args, size, threadVars, queue, host, tray, result >>

----------------------------------------------------------------------------
Cur == prog[pc]
AtCall(op) == pc <= Len(prog) /\ phase = "call" /\ Cur.op = op

Goto(ph) == phase' = ph /\ pc' = pc
Return   == phase' = "call" /\ pc' = pc + 1

Range(q) == {q[i] : i \in DOMAIN q}

\* A command of a queue: operation op of call n on the tray of task t.
Cmd(op, n, t) == [op |-> op, n |-> n, task |-> t]

\* Mutant: every command goes to the queue of one task's device.
EnqueueOnOneDevice(t, c) ==
    LET d == devOf[CHOOSE u \in Task : TRUE] IN queue' = [queue EXCEPT ![d] = Append(@, c)]

Enqueue(t, c) == queue' = [queue EXCEPT ![devOf[t]] = Append(@, c)]
Completed(t, c) == c \notin Range(queue[devOf[t]])

----------------------------------------------------------------------------
(* OMPI_XclCreateKernel and OMPI_XclExecKernel                             *)

\* createProgram, buildProgram, createKernel and kernelXplor, for all tasks: new
\* objects, without arguments; the old ones are never released.
XclCreateKernel ==
    /\ AtCall("create")
    /\ kernel' = pc
    /\ Return
    /\ UNCHANGED << prog, devOf, args, size, threadVars, queue, host, tray, result >>

\* The application reuses an array it has passed to OMPI_XclExecKernel.
SetSize ==
    /\ AtCall("setSize")
    /\ size' = [size EXCEPT ![Cur.array] = pc]
    /\ Return
    /\ UNCHANGED << prog, devOf, kernel, args, threadVars, queue, host, tray, result >>

\* The arguments are set on the current cl_kernel of the task.
SetKernelArgs ==
    /\ AtCall("exec")
    /\ args' = [args EXCEPT ![kernel][Cur.task] = pc]
    /\ Goto("enqueue")
    /\ UNCHANGED << prog, devOf, kernel, size, threadVars, queue, host, tray, result >>

\* enqueueKernel fills th_Args, with the kernel itself but pointers to the sizes,
\* and starts the thread ...
EnqueueKernel ==
    /\ phase = "enqueue"
    /\ th_kernel' = [th_kernel EXCEPT ![pc] = kernel]
    /\ launch' = [launch EXCEPT ![pc] = "created"]
    /\ Return
    /\ UNCHANGED << prog, devOf, kernel, args, size, ran, lost, finish, queue, host, tray, result >>

\* ... or fails to, which it does not notice.
EnqueueKernelNoThread ==
    /\ phase = "enqueue"
    /\ lost' = lost \cup {pc}
    /\ Return
    /\ UNCHANGED << prog, devOf, kernel, args, size, launch, th_kernel, ran, finish, queue, host, tray, result >>

\* Mutant: the thread takes the kernel from taskList.
ThreadEnqueueCurrent(e) ==
    /\ launch[e] = "created"
    /\ ran' = [ran EXCEPT ![e] = << e, kernel, args[kernel][prog[e].task], size[prog[e].array] >>]
    /\ Enqueue(prog[e].task, Cmd("launch", e, prog[e].task))
    /\ launch' = [launch EXCEPT ![e] = "queued"]
    /\ UNCHANGED << prog, devOf, pc, phase, kernel, args, size, th_kernel, lost, finish, host, tray, result >>

\* clEnqueueNDRangeKernel reads the arguments of the cl_kernel and the sizes now.
ThreadEnqueue(e) ==
    LET k == th_kernel[e] IN
    /\ launch[e] = "created"
    /\ ran' = [ran EXCEPT ![e] = << e, k, args[k][prog[e].task], size[prog[e].array] >>]
    /\ Enqueue(prog[e].task, Cmd("launch", e, prog[e].task))
    /\ launch' = [launch EXCEPT ![e] = "queued"]
    /\ UNCHANGED << prog, devOf, pc, phase, kernel, args, size, th_kernel, lost, finish, host, tray, result >>

ThreadEnqueueError(e) ==
    /\ launch[e] = "created"
    /\ lost' = lost \cup {e}
    /\ launch' = [launch EXCEPT ![e] = "queued"]
    /\ UNCHANGED << prog, devOf, pc, phase, kernel, args, size, th_kernel, ran, finish, queue, host, tray, result >>

ThreadFinish(e) ==
    /\ launch[e] = "queued"
    /\ finish' = [finish EXCEPT ![e] = Range(queue[devOf[prog[e].task]])]
    /\ launch' = [launch EXCEPT ![e] = "finishing"]
    /\ UNCHANGED << prog, devOf, pc, phase, kernel, args, size, th_kernel, ran, lost, queue, host, tray, result >>

ThreadExit(e) ==
    /\ launch[e] = "finishing"
    /\ \A c \in finish[e] : Completed(prog[e].task, c)
    /\ launch' = [launch EXCEPT ![e] = "done"]
    /\ finish' = [finish EXCEPT ![e] = {}]
    /\ UNCHANGED << prog, devOf, pc, phase, kernel, args, size, th_kernel, ran, lost, queue, host, tray, result >>

----------------------------------------------------------------------------
(* Waits, and the transfers: every one enqueues a command and waits for it *)

IsExec(e, t) == e \in DOMAIN prog /\ prog[e].op = "exec" /\ prog[e].task = t
Covers(c, t) == prog[c].op = "waitAll" \/ (prog[c].op = "waitFor" /\ prog[c].task = t)

\* The launches of t whose thread was started by the calls before c.
Started(t, c) == {e \in 1 .. c - 1 : IsExec(e, t) /\ launch[e] # "none"}

\* Mutant: a wait expects one thread per launch, also where none was started.
WaitForEveryLaunch ==
    /\ AtCall("waitAll") \/ AtCall("waitFor")
    /\ \A t \in Task : Covers(pc, t) =>
          \A e \in 1 .. pc - 1 : IsExec(e, t) => launch[e] = "done"
    /\ Return
    /\ UNCHANGED << prog, devOf, kernel, args, size, threadVars, queue, host, tray, result >>

\* The last thread started for every task that is covered is joined.
Wait ==
    /\ AtCall("waitAll") \/ AtCall("waitFor")
    /\ \A t \in Task : Covers(pc, t) =>
          \A e \in Started(t, pc) : (\A f \in Started(t, pc) : f <= e) => launch[e] = "done"
    /\ Return
    /\ UNCHANGED << prog, devOf, kernel, args, size, threadVars, queue, host, tray, result >>

\* The copy of two tasks of one device is a command of its own; between two
\* devices OMPI_XclSend reads the tray and OMPI_XclRecv writes it.
FirstCommand == IF Cur.op = "copy" /\ devOf[Cur.task] # devOf[Cur.dst] THEN "read" ELSE Cur.op

Transfer ==
    /\ AtCall("read") \/ AtCall("write") \/ AtCall("copy")
    /\ Enqueue(Cur.task, Cmd(FirstCommand, pc, Cur.task))
    /\ Goto("blocked")
    /\ UNCHANGED << prog, devOf, kernel, args, size, threadVars, host, tray, result >>

\* Mutant: transfers do not block (CL_FALSE).
TransferDoneAtOnce ==
    /\ phase = "blocked"
    /\ IF FirstCommand # Cur.op
       THEN /\ Enqueue(Cur.dst, Cmd("put", pc, Cur.dst)) /\ Goto("blockedPut")
       ELSE Return /\ queue' = queue
    /\ UNCHANGED << prog, devOf, kernel, args, size, threadVars, host, tray, result >>

\* The blocking call returns, or goes on with the write of the other device.
TransferDone ==
    /\ phase = "blocked"
    /\ Completed(Cur.task, Cmd(FirstCommand, pc, Cur.task))
    /\ IF FirstCommand # Cur.op
       THEN /\ Enqueue(Cur.dst, Cmd("put", pc, Cur.dst)) /\ Goto("blockedPut")
       ELSE Return /\ queue' = queue
    /\ UNCHANGED << prog, devOf, kernel, args, size, threadVars, host, tray, result >>

PutDone ==
    /\ phase = "blockedPut"
    /\ Completed(Cur.dst, Cmd("put", pc, Cur.dst))
    /\ Return
    /\ UNCHANGED << prog, devOf, kernel, args, size, threadVars, queue, host, tray, result >>

\* chkerr: an OpenCL call of the rank fails, and the process exits.
OpenCLError ==
    /\ phase \notin {"exited", "enqueue"} /\ pc <= Len(prog)
    /\ Cur.op \in {"create", "exec", "read", "write", "copy"}
    /\ Goto("exited")
    /\ UNCHANGED << prog, devOf, kernel, args, size, threadVars, queue, host, tray, result >>

\* The device runs its oldest command (external).
DeviceRun(d) ==
    LET c == Head(queue[d])
        t == c.task
    IN  /\ phase # "exited" /\ queue[d] # << >>
        /\ queue' = [queue EXCEPT ![d] = Tail(@)]
        /\ tray' = CASE c.op = "launch" -> [tray EXCEPT ![t] = Append(@, ran[c.n])]
                     [] c.op = "write"  -> [tray EXCEPT ![t] = << << c.n >> >>]
                     [] c.op = "copy"   -> [tray EXCEPT ![prog[c.n].dst] = tray[t]]
                     [] c.op = "put"    -> [tray EXCEPT ![t] = host]
                     [] c.op = "read"   -> tray
        /\ host' = IF c.op = "read" THEN tray[t] ELSE host
        /\ result' = IF c.op = "read" /\ prog[c.n].op = "read"
                     THEN [result EXCEPT ![c.n] = tray[t]] ELSE result
        /\ UNCHANGED << prog, devOf, pc, phase, kernel, args, size, threadVars >>

Init ==
    /\ prog \in Programs
    /\ devOf \in Bindings
    /\ pc = 1 /\ phase = "call"
    /\ kernel = 0      \* a kernel was created before the program
    /\ args = [k \in Pos |-> [t \in Task |-> 0]]
    /\ size = [a \in Array |-> 0]
    /\ launch = [e \in Pos |-> "none"]
    /\ th_kernel = [e \in Pos |-> 0]
    /\ ran = [e \in Pos |-> << >>]
    /\ lost = {}
    /\ finish = [e \in Pos |-> {}]
    /\ queue = [d \in Device |-> << >>]
    /\ host = << >>
    /\ tray = [t \in Task |-> << >>]
    /\ result = [c \in Pos |-> << >>]

MainStep ==
    \/ XclCreateKernel \/ SetSize \/ SetKernelArgs \/ EnqueueKernel \/ EnqueueKernelNoThread
    \/ Wait \/ Transfer \/ TransferDone \/ PutDone \/ OpenCLError

ThreadStep(e) ==
    /\ phase # "exited"
    /\ ThreadEnqueue(e) \/ ThreadEnqueueError(e) \/ ThreadFinish(e) \/ ThreadExit(e)

Next ==
    \/ MainStep
    \/ \E e \in 1 .. MaxCalls : ThreadStep(e)
    \/ \E d \in Device : DeviceRun(d)

Spec == Init /\ [][Next]_vars

\* The process and its threads are scheduled and the devices serve their queues.
FairSpec ==
    /\ Spec
    /\ WF_vars(MainStep)
    /\ \A e \in 1 .. MaxCalls : WF_vars(ThreadStep(e))
    /\ \A d \in Device : WF_vars(DeviceRun(d))
----------------------------------------------------------------------------
\* The types of the variables.
TypeOK ==
    /\ prog \in Programs /\ devOf \in Bindings
    /\ pc \in 1 .. Len(prog) + 1
    /\ phase \in {"call", "enqueue", "blocked", "blockedPut", "exited"}
    /\ kernel \in Pos /\ args \in [Pos -> [Task -> Pos]]
    /\ size \in [Array -> Pos]
    /\ launch \in [Pos -> {"none", "created", "queued", "finishing", "done"}]
    /\ th_kernel \in [Pos -> Pos]
    /\ lost \subseteq Pos
    /\ \A d \in Device : \A i \in DOMAIN queue[d] : devOf[queue[d][i].task] = d

----------------------------------------------------------------------------
(* The program run call by call, but for the launches that were lost.      *)

LastBefore(op, n) ==
    LET before == {m \in 1 .. n - 1 : prog[m].op = op}
    IN  IF before = {} THEN 0 ELSE CHOOSE m \in before : \A k \in before : k <= m

LastSize(a, n) ==
    LET before == {m \in 1 .. n - 1 : prog[m].op = "setSize" /\ prog[m].array = a}
    IN  IF before = {} THEN 0 ELSE CHOOSE m \in before : \A k \in before : k <= m

\* The contents of the trays after n calls.
After[n \in 0 .. Len(prog)] ==
    IF n = 0 THEN [t \in Task |-> << >>]
    ELSE LET c == prog[n] S == After[n - 1] IN
    CASE c.op = "write" -> [S EXCEPT ![c.task] = << << n >> >>]
      [] c.op = "copy"  -> [S EXCEPT ![c.dst] = S[c.task]]
      [] c.op = "exec" /\ n \notin lost ->
            [S EXCEPT ![c.task] = Append(@, << n, LastBefore("create", n), n, LastSize(c.array, n) >>)]
      [] OTHER -> S

\* Call c must not come before launch e has been waited for.
Touches(c, e) ==
    \/ prog[c].op \in {"exec", "read", "write", "copy"} /\ prog[c].task = prog[e].task
    \/ prog[c].op = "copy" /\ prog[c].dst = prog[e].task
    \/ prog[c].op = "setSize" /\ prog[c].array = prog[e].array

\* The application waits for a task before it uses it, or the sizes, again.
Waited ==
    \A e, c \in DOMAIN prog : e < c /\ prog[e].op = "exec" /\ Touches(c, e) =>
        \E w \in e + 1 .. c - 1 : Covers(w, prog[e].task)

----------------------------------------------------------------------------
\* If the application waits for a launch before it touches the task or reuses the
\* arrays of sizes, every read returns, and in the end every tray holds, what the
\* calls produce one after the other, although threads and the rank enqueue
\* commands in any order and kernels may be created while launches are pending.
MemoryIsSequential ==
    Waited =>
        /\ \A c \in DOMAIN prog :
              prog[c].op = "read" /\ pc > c => result[c] = After[c - 1][prog[c].task]
        /\ /\ pc > Len(prog)
           /\ \A e \in Pos : launch[e] \in {"none", "done"}
           /\ \A d \in Device : queue[d] = << >>
           => tray = After[Len(prog)]

\* Even without waits a launch runs the kernel that was current at its
\* OMPI_XclExecKernel: a kernel created later does not replace it.
LaunchRunsItsKernel ==
    \A e \in DOMAIN prog : ran[e] # << >> => ran[e][2] = LastBefore("create", e)

\* Every call returns or ends the process: blocking transfers wait behind launches in the queue, and
\* waits for threads that wait for the queue, but never in a circle.
CallsReturn == <>(phase = "exited" \/ pc > Len(prog))
=============================================================================
