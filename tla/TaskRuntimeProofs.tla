-------------------------- MODULE TaskRuntimeProofs --------------------------
(***************************************************************************)
(* Proofs about TaskRuntime, for every set of tasks, devices and arrays,    *)
(* every binding and every program.                                         *)
(***************************************************************************)
EXTENDS TaskRuntime, WellFoundedInduction, TLAPS

Ops     == {"launch", "read", "write", "copy", "put"}
Command == [op : Ops, n : Pos, task : Task]

\* Lemma: the fields that a call has.
LEMMA CallFields ==
    ASSUME NEW c \in Call
    PROVE  /\ c.op \in {"create", "waitAll", "exec", "read", "write", "waitFor", "copy", "setSize"}
           /\ c.op \in {"exec", "read", "write", "waitFor", "copy"} => c.task \in Task
           /\ c.op = "copy" => c.dst \in Task
           /\ c.op \in {"exec", "setSize"} => c.array \in Array
BY DEF Call

\* Lemma: the calls of a program.
LEMMA CallOfProgram ==
    ASSUME NEW p \in Programs, NEW c \in 1 .. Len(p)
    PROVE  p[c] \in Call /\ c \in Pos /\ Len(p) \in Nat /\ Len(p) <= MaxCalls
<1>1. p \in Seq(Call) /\ Len(p) \in 1 .. MaxCalls /\ MaxCalls \in Nat
  BY TaskRuntimeAssumption
<1> QED
  BY <1>1 DEF Pos

----------------------------------------------------------------------------
(* The creation that is current at a call                                  *)

\* The last of the calls of set S, 0 if there is none.
Latest(S) == IF S = {} THEN 0 ELSE CHOOSE m \in S : \A k \in S : k <= m

\* LastBefore("create", n) of program p.
Creates(p, n)    == {m \in 1 .. n - 1 : p[m].op = "create"}
LastCreate(p, n) == Latest(Creates(p, n))

\* Lemma: LastCreate is LastBefore.
LEMMA LastCreateIsLastBefore ==
    \A n : LastBefore("create", n) = LastCreate(prog, n)
BY DEF LastBefore, LastCreate, Creates, Latest

\* Lemma: nothing is created before the first call.
LEMMA LastCreateFirst == \A p : LastCreate(p, 1) = 0
BY DEF LastCreate, Creates, Latest

\* Lemma: an upper bound of a set that is in it is its last call.
LEMMA LatestIs ==
    ASSUME NEW S \in SUBSET Nat, NEW n \in S, \A k \in S : k <= n
    PROVE  Latest(S) = n
<1>1. \A m \in S : (\A k \in S : k <= m) => m = n
  OBVIOUS
<1> QED
  BY <1>1 DEF Latest

\* Lemma: the creation that is current after call n is the call itself, or the one
\* that was current before.
LEMMA LastCreateNext ==
    ASSUME NEW p, NEW n \in Nat \ {0}
    PROVE  LastCreate(p, n + 1) = IF p[n].op = "create" THEN n ELSE LastCreate(p, n)
<1>1. CASE p[n].op = "create"
  <2>1. n \in Creates(p, n + 1) /\ Creates(p, n + 1) \in SUBSET Nat
    BY <1>1 DEF Creates
  <2>2. \A k \in Creates(p, n + 1) : k <= n
    BY DEF Creates
  <2> QED
    BY <1>1, <2>1, <2>2, LatestIs DEF LastCreate
<1>2. CASE p[n].op # "create"
  <2>1. Creates(p, n + 1) = Creates(p, n)
    BY <1>2 DEF Creates
  <2> QED
    BY <1>2, <2>1 DEF LastCreate
<1> QED
  BY <1>1, <1>2

----------------------------------------------------------------------------
(* The inductive invariant                                                 *)

\* The queue of a device holds commands for the tasks bound to it.
QueueOK == queue \in [Device -> Seq(Command)]

\* The rank is inside a call of the kind that has such a phase.
PhaseOK ==
    /\ phase # "call" => pc <= Len(prog)
    /\ phase = "enqueue" => Cur.op = "exec"
    /\ phase = "blocked" => Cur.op \in {"read", "write", "copy"}
    /\ phase = "blockedPut" => Cur.op = "copy"

\* What is known of the launch of call e in program p, when its thread is in state
\* st, holds kernel k and has enqueued r.
LaunchOK(p, e, st, k, r) ==
    /\ st # "none" => e \in 1 .. Len(p) /\ p[e].op = "exec" /\ k = LastCreate(p, e)
    /\ r # << >> => r[2] = LastCreate(p, e)

RuntimeInv ==
    /\ TypeOK
    /\ QueueOK
    /\ PhaseOK
    /\ kernel = LastCreate(prog, pc)
    /\ DOMAIN ran = Pos
    /\ \A e \in Pos : LaunchOK(prog, e, launch[e], th_kernel[e], ran[e])

\* Lemma: adding a command for task t to the queue of its device keeps the queues.
LEMMA EnqueueKeepsQueues ==
    ASSUME TypeOK, QueueOK, NEW t \in Task, NEW c \in Command, c.task = t, Enqueue(t, c), devOf' = devOf
    PROVE  /\ QueueOK'
           /\ \A d \in Device : \A i \in DOMAIN queue'[d] : devOf'[queue'[d][i].task] = d
<1>1. devOf[t] \in Device /\ devOf \in [Task -> Device]
  BY TaskRuntimeAssumption DEF TypeOK
<1>2. queue' = [queue EXCEPT ![devOf[t]] = Append(queue[devOf[t]], c)]
  BY DEF Enqueue
<1>3. QueueOK'
  BY <1>1, <1>2 DEF QueueOK
<1>4. ASSUME NEW d \in Device, NEW i \in DOMAIN queue'[d]
      PROVE  devOf'[queue'[d][i].task] = d
  <2>1. CASE d = devOf[t]
    <3>1. queue[d] \in Seq(Command) /\ queue'[d] = Append(queue[d], c)
      BY <1>1, <1>2, <2>1 DEF QueueOK
    <3>2. CASE i \in DOMAIN queue[d]
      BY <3>1, <3>2 DEF TypeOK
    <3>3. CASE i \notin DOMAIN queue[d]
      <4>1. i = Len(queue[d]) + 1
        BY <3>1, <3>3, <1>4
      <4> QED
        BY <3>1, <4>1, <2>1
    <3> QED
      BY <3>2, <3>3
  <2>2. CASE d # devOf[t]
    <3>1. queue'[d] = queue[d]
      BY <1>2, <2>2 DEF QueueOK
    <3> QED
      BY <3>1, <1>4 DEF TypeOK
  <2> QED
    BY <2>1, <2>2
<1> QED
  BY <1>3, <1>4

\* Lemma: the elements of the tail of a sequence.
LEMMA TailOf ==
    ASSUME NEW S, NEW q \in Seq(S), q # << >>, NEW i \in DOMAIN Tail(q)
    PROVE  i \in Nat \ {0} /\ i + 1 \in DOMAIN q /\ Tail(q)[i] = q[i + 1]
<1>1. Tail(q) \in Seq(S) /\ Len(Tail(q)) = Len(q) - 1 /\ Len(q) \in Nat
  OBVIOUS
<1>2. i \in 1 .. Len(q) - 1
  BY <1>1
<1> QED
  BY <1>2

\* Lemma: taking the oldest command from a queue keeps the queues.
LEMMA TailKeepsQueues ==
    ASSUME TypeOK, QueueOK, NEW d \in Device, queue[d] # << >>, devOf' = devOf,
           queue' = [queue EXCEPT ![d] = Tail(queue[d])]
    PROVE  /\ QueueOK'
           /\ \A e \in Device : \A i \in DOMAIN queue'[e] : devOf'[queue'[e][i].task] = e
<1>1. queue[d] \in Seq(Command) /\ queue'[d] = Tail(queue[d]) /\ Tail(queue[d]) \in Seq(Command)
  BY DEF QueueOK
<1>2. QueueOK'
  BY <1>1 DEF QueueOK
<1>3. ASSUME NEW e \in Device, NEW i \in DOMAIN queue'[e]
      PROVE  devOf'[queue'[e][i].task] = e
  <2>1. CASE e = d
    <3>1. i + 1 \in DOMAIN queue[d] /\ queue'[d][i] = queue[d][i + 1]
      BY <1>1, <1>3, <2>1, TailOf
    <3> QED
      BY <3>1, <2>1 DEF TypeOK
  <2>2. CASE e # d
    <3>1. queue'[e] = queue[e]
      BY <2>2 DEF QueueOK
    <3> QED
      BY <3>1, <1>3 DEF TypeOK
  <2> QED
    BY <2>1, <2>2
<1> QED
  BY <1>2, <1>3

\* Lemma: the invariant holds initially.
LEMMA RuntimeInit == Init => RuntimeInv
<1> SUFFICES ASSUME Init PROVE RuntimeInv
  OBVIOUS
<1>1. MaxCalls \in Nat /\ 0 \in Pos /\ Len(prog) \in 1 .. MaxCalls
  BY TaskRuntimeAssumption DEF Init, Pos
<1>2. QueueOK /\ \A d \in Device : queue[d] = << >>
  BY DEF Init, QueueOK
<1>3. TypeOK
  BY <1>1, <1>2 DEF Init, TypeOK
<1>4. kernel = LastCreate(prog, pc)
  BY LastCreateFirst DEF Init
<1>5. DOMAIN ran = Pos /\ \A e \in Pos : LaunchOK(prog, e, launch[e], th_kernel[e], ran[e])
  BY DEF Init, LaunchOK
<1> QED
  BY <1>2, <1>3, <1>4, <1>5 DEF Init, RuntimeInv, PhaseOK

\* Lemma: the rank and the devices leave what is known of the launches alone.
LEMMA LaunchesKept ==
    ASSUME RuntimeInv, UNCHANGED << prog, launch, th_kernel, ran >>
    PROVE  /\ DOMAIN ran' = Pos
           /\ \A e \in Pos : LaunchOK(prog', e, launch'[e], th_kernel'[e], ran'[e])
BY DEF RuntimeInv

\* Lemma: what follows when the rank returns from a call that creates no kernel.
LEMMA ReturnKeeps ==
    ASSUME RuntimeInv, pc <= Len(prog), Return, Cur.op # "create", UNCHANGED << prog, kernel >>
    PROVE  /\ pc' \in 1 .. Len(prog') + 1
           /\ PhaseOK'
           /\ kernel' = LastCreate(prog', pc')
<1>1. pc \in Nat \ {0} /\ Len(prog) \in Nat
  BY TaskRuntimeAssumption DEF RuntimeInv, TypeOK
<1>2. LastCreate(prog, pc + 1) = LastCreate(prog, pc)
  BY <1>1, LastCreateNext DEF Cur
<1> QED
  BY <1>1, <1>2 DEF RuntimeInv, Return, PhaseOK

\* Lemma: a step of the rank keeps the invariant.
LEMMA RuntimeMain == ASSUME RuntimeInv, MainStep PROVE RuntimeInv'
<1> USE DEF RuntimeInv
<1>0. /\ MaxCalls \in Nat /\ Len(prog) \in 1 .. MaxCalls /\ pc \in Nat \ {0}
      /\ pc <= Len(prog) => Cur \in Call /\ pc \in Pos
  BY TaskRuntimeAssumption, CallOfProgram DEF TypeOK, Cur
<1>1. CASE XclCreateKernel
  <2>1. pc <= Len(prog) /\ Cur.op = "create" /\ pc \in Pos
    BY <1>1, <1>0 DEF XclCreateKernel, AtCall
  <2>2. kernel' = LastCreate(prog', pc')
    BY <1>0, <1>1, <2>1, LastCreateNext DEF XclCreateKernel, Return, Cur
  <2>3. TypeOK' /\ PhaseOK' /\ QueueOK'
    BY <1>0, <1>1, <2>1 DEF XclCreateKernel, Return, TypeOK, PhaseOK, QueueOK, threadVars
  <2> QED
    BY <1>1, <2>2, <2>3, LaunchesKept DEF XclCreateKernel, threadVars
<1>2. CASE SetSize
  <2>1. pc <= Len(prog) /\ Cur.op = "setSize" /\ Cur.array \in Array /\ pc \in Pos
    BY <1>2, <1>0, CallFields DEF SetSize, AtCall
  <2>2. pc' \in 1 .. Len(prog') + 1 /\ PhaseOK' /\ kernel' = LastCreate(prog', pc')
    BY <1>2, <2>1, ReturnKeeps DEF SetSize
  <2>3. TypeOK' /\ QueueOK'
    BY <1>0, <1>2, <2>1, <2>2 DEF SetSize, Return, TypeOK, QueueOK, threadVars
  <2> QED
    BY <1>2, <2>2, <2>3, LaunchesKept DEF SetSize, threadVars
<1>3. CASE SetKernelArgs
  <2>1. pc <= Len(prog) /\ Cur.op = "exec" /\ Cur.task \in Task /\ pc \in Pos
    BY <1>3, <1>0, CallFields DEF SetKernelArgs, AtCall
  <2>2. args' \in [Pos -> [Task -> Pos]]
    BY <1>3, <2>1 DEF SetKernelArgs, TypeOK
  <2>3. TypeOK' /\ QueueOK' /\ PhaseOK' /\ kernel' = LastCreate(prog', pc')
    BY <1>0, <1>3, <2>1, <2>2 DEF SetKernelArgs, Goto, TypeOK, QueueOK, PhaseOK, threadVars, Cur
  <2> QED
    BY <1>3, <2>3, LaunchesKept DEF SetKernelArgs, threadVars
<1>4. CASE EnqueueKernel
  <2>1. pc <= Len(prog) /\ Cur.op = "exec" /\ pc \in Pos
    BY <1>4, <1>0 DEF EnqueueKernel, PhaseOK
  <2>2. pc' \in 1 .. Len(prog') + 1 /\ PhaseOK' /\ kernel' = LastCreate(prog', pc')
    BY <1>4, <2>1, ReturnKeeps DEF EnqueueKernel
  <2>3. TypeOK' /\ QueueOK'
    BY <1>0, <1>4, <2>1, <2>2 DEF EnqueueKernel, Return, TypeOK, QueueOK
  <2>4. \A e \in Pos : LaunchOK(prog', e, launch'[e], th_kernel'[e], ran'[e])
    BY <1>0, <1>4, <2>1 DEF EnqueueKernel, TypeOK, LaunchOK, Cur
  <2> QED
    BY <1>4, <2>2, <2>3, <2>4 DEF EnqueueKernel
<1>5. CASE EnqueueKernelNoThread
  <2>1. pc <= Len(prog) /\ Cur.op = "exec" /\ pc \in Pos
    BY <1>5, <1>0 DEF EnqueueKernelNoThread, PhaseOK
  <2>2. pc' \in 1 .. Len(prog') + 1 /\ PhaseOK' /\ kernel' = LastCreate(prog', pc')
    BY <1>5, <2>1, ReturnKeeps DEF EnqueueKernelNoThread
  <2>3. TypeOK' /\ QueueOK'
    BY <1>0, <1>5, <2>1, <2>2 DEF EnqueueKernelNoThread, Return, TypeOK, QueueOK
  <2> QED
    BY <1>5, <2>2, <2>3, LaunchesKept DEF EnqueueKernelNoThread
<1>6. CASE Wait
  <2>1. pc <= Len(prog) /\ Cur.op # "create"
    BY <1>6 DEF Wait, AtCall
  <2>2. pc' \in 1 .. Len(prog') + 1 /\ PhaseOK' /\ kernel' = LastCreate(prog', pc')
    BY <1>6, <2>1, ReturnKeeps DEF Wait
  <2>3. TypeOK' /\ QueueOK'
    BY <1>0, <1>6, <2>1, <2>2 DEF Wait, Return, TypeOK, QueueOK, threadVars
  <2> QED
    BY <1>6, <2>2, <2>3, LaunchesKept DEF Wait, threadVars
<1>7. CASE Transfer
  <2>1. pc <= Len(prog) /\ Cur.op \in {"read", "write", "copy"} /\ Cur.task \in Task /\ pc \in Pos
    BY <1>7, <1>0, CallFields DEF Transfer, AtCall
  <2>2. /\ Cmd(FirstCommand, pc, Cur.task) \in Command
        /\ Cmd(FirstCommand, pc, Cur.task).task = Cur.task
    BY <2>1 DEF Cmd, Command, Ops, FirstCommand
  <2>3. /\ QueueOK'
        /\ \A d \in Device : \A i \in DOMAIN queue'[d] : devOf'[queue'[d][i].task] = d
    BY <1>7, <2>1, <2>2, EnqueueKeepsQueues DEF Transfer
  <2>4. TypeOK' /\ PhaseOK' /\ kernel' = LastCreate(prog', pc')
    BY <1>0, <1>7, <2>1, <2>3 DEF Transfer, Goto, TypeOK, PhaseOK, threadVars, Cur
  <2> QED
    BY <1>7, <2>3, <2>4, LaunchesKept DEF Transfer, threadVars
<1>8. CASE TransferDone
  <2>1. pc <= Len(prog) /\ Cur.op \in {"read", "write", "copy"} /\ pc \in Pos
    BY <1>8, <1>0 DEF TransferDone, PhaseOK
  <2>2. CASE FirstCommand # Cur.op
    <3>1. Cur.op = "copy" /\ Cur.dst \in Task
      BY <1>0, <2>1, <2>2, CallFields DEF FirstCommand
    <3>2. Cmd("put", pc, Cur.dst) \in Command /\ Cmd("put", pc, Cur.dst).task = Cur.dst
      BY <2>1, <3>1 DEF Cmd, Command, Ops
    <3>3. /\ QueueOK'
          /\ \A d \in Device : \A i \in DOMAIN queue'[d] : devOf'[queue'[d][i].task] = d
      BY <1>8, <2>2, <3>1, <3>2, EnqueueKeepsQueues DEF TransferDone
    <3>4. TypeOK' /\ PhaseOK' /\ kernel' = LastCreate(prog', pc')
      BY <1>0, <1>8, <2>1, <2>2, <3>1, <3>3 DEF TransferDone, Goto, TypeOK, PhaseOK, threadVars, Cur
    <3> QED
      BY <1>8, <3>3, <3>4, LaunchesKept DEF TransferDone, threadVars
  <2>3. CASE FirstCommand = Cur.op
    <3>1. pc' \in 1 .. Len(prog') + 1 /\ PhaseOK' /\ kernel' = LastCreate(prog', pc')
      BY <1>8, <2>1, <2>3, ReturnKeeps DEF TransferDone
    <3>2. TypeOK' /\ QueueOK'
      BY <1>0, <1>8, <2>1, <2>3, <3>1 DEF TransferDone, Return, TypeOK, QueueOK, threadVars
    <3> QED
      BY <1>8, <3>1, <3>2, LaunchesKept DEF TransferDone, threadVars
  <2> QED
    BY <2>2, <2>3
<1>9. CASE PutDone
  <2>1. pc <= Len(prog) /\ Cur.op # "create"
    BY <1>9 DEF PutDone, PhaseOK
  <2>2. pc' \in 1 .. Len(prog') + 1 /\ PhaseOK' /\ kernel' = LastCreate(prog', pc')
    BY <1>9, <2>1, ReturnKeeps DEF PutDone
  <2>3. TypeOK' /\ QueueOK'
    BY <1>0, <1>9, <2>1, <2>2 DEF PutDone, Return, TypeOK, QueueOK, threadVars
  <2> QED
    BY <1>9, <2>2, <2>3, LaunchesKept DEF PutDone, threadVars
<1>10. CASE OpenCLError
  <2>1. TypeOK' /\ QueueOK' /\ PhaseOK' /\ kernel' = LastCreate(prog', pc')
    BY <1>0, <1>10 DEF OpenCLError, Goto, TypeOK, QueueOK, PhaseOK, threadVars
  <2> QED
    BY <1>10, <2>1, LaunchesKept DEF OpenCLError, threadVars
<1> QED
  BY <1>1, <1>2, <1>3, <1>4, <1>5, <1>6, <1>7, <1>8, <1>9, <1>10 DEF MainStep

\* Lemma: a step of a launch thread keeps the invariant.
LEMMA RuntimeThread == ASSUME RuntimeInv, NEW e \in 1 .. MaxCalls, ThreadStep(e) PROVE RuntimeInv'
<1> USE DEF RuntimeInv
<1>0. MaxCalls \in Nat /\ Len(prog) \in 1 .. MaxCalls /\ e \in Pos
  BY TaskRuntimeAssumption DEF TypeOK, Pos
<1>1. UNCHANGED << prog, devOf, pc, phase, kernel, args, size, th_kernel >>
  BY DEF ThreadStep, ThreadEnqueue, ThreadEnqueueError, ThreadFinish, ThreadExit
<1>2. launch[e] # "none"
  BY DEF ThreadStep, ThreadEnqueue, ThreadEnqueueError, ThreadFinish, ThreadExit
<1>3. e \in 1 .. Len(prog) /\ prog[e].op = "exec" /\ th_kernel[e] = LastCreate(prog, e)
  BY <1>0, <1>2 DEF LaunchOK
<1>4. prog[e].task \in Task
  BY <1>3, CallFields, CallOfProgram DEF TypeOK
<1>5. PhaseOK' /\ kernel' = LastCreate(prog', pc')
  BY <1>1 DEF PhaseOK, Cur
<1>6. CASE ThreadEnqueue(e)
  <2>1. /\ Cmd("launch", e, prog[e].task) \in Command
        /\ Cmd("launch", e, prog[e].task).task = prog[e].task
    BY <1>0, <1>4 DEF Cmd, Command, Ops
  <2>2. /\ QueueOK'
        /\ \A d \in Device : \A i \in DOMAIN queue'[d] : devOf'[queue'[d][i].task] = d
    BY <1>1, <1>4, <1>6, <2>1, EnqueueKeepsQueues DEF ThreadEnqueue
  <2>3. TypeOK'
    BY <1>0, <1>1, <1>6, <2>2 DEF ThreadEnqueue, TypeOK
  <2>4. /\ DOMAIN ran' = Pos /\ DOMAIN launch = Pos
        /\ \A f \in Pos : f # e => ran'[f] = ran[f] /\ launch'[f] = launch[f]
    BY <1>0, <1>6 DEF ThreadEnqueue, TypeOK
  <2>5. ran'[e][2] = th_kernel[e] /\ launch'[e] = "queued"
    BY <1>0, <1>6, <2>4 DEF ThreadEnqueue
  <2>6. \A f \in Pos : LaunchOK(prog', f, launch'[f], th_kernel'[f], ran'[f])
    BY <1>1, <1>3, <2>4, <2>5 DEF LaunchOK
  <2> QED
    BY <1>5, <2>2, <2>3, <2>4, <2>6
<1>7. CASE ThreadEnqueueError(e) \/ ThreadFinish(e) \/ ThreadExit(e)
  <2>1. /\ ran' = ran /\ queue' = queue /\ DOMAIN launch = Pos /\ DOMAIN launch' = Pos
        /\ lost' \subseteq Pos
        /\ \A f \in Pos : f # e => launch'[f] = launch[f]
        /\ launch'[e] \in {"queued", "finishing", "done"}
    BY <1>0, <1>7 DEF ThreadEnqueueError, ThreadFinish, ThreadExit, TypeOK
  <2>2. launch' \in [Pos -> {"none", "created", "queued", "finishing", "done"}]
    BY <1>0, <1>7 DEF ThreadEnqueueError, ThreadFinish, ThreadExit, TypeOK
  <2>3. TypeOK' /\ QueueOK'
    BY <1>1, <2>1, <2>2 DEF TypeOK, QueueOK
  <2>4. \A f \in Pos : LaunchOK(prog', f, launch'[f], th_kernel'[f], ran'[f])
    BY <1>1, <1>3, <2>1 DEF LaunchOK
  <2> QED
    BY <1>5, <2>1, <2>3, <2>4
<1> QED
  BY <1>6, <1>7 DEF ThreadStep

\* Lemma: a step of a device keeps the invariant.
LEMMA RuntimeDevice == ASSUME RuntimeInv, NEW d \in Device, DeviceRun(d) PROVE RuntimeInv'
<1> USE DEF RuntimeInv
<1>1. UNCHANGED << prog, devOf, pc, phase, kernel, args, size, launch, th_kernel, ran, lost, finish >>
  BY DEF DeviceRun, threadVars
<1>2. queue[d] # << >> /\ queue' = [queue EXCEPT ![d] = Tail(queue[d])]
  BY DEF DeviceRun
<1>3. /\ QueueOK'
      /\ \A e \in Device : \A i \in DOMAIN queue'[e] : devOf'[queue'[e][i].task] = e
  BY <1>1, <1>2, TailKeepsQueues
<1>4. TypeOK' /\ PhaseOK' /\ kernel' = LastCreate(prog', pc')
  BY <1>1, <1>3 DEF TypeOK, PhaseOK, Cur
<1> QED
  BY <1>1, <1>3, <1>4, LaunchesKept

\* Lemma: every step keeps the invariant.
LEMMA RuntimeNext == RuntimeInv /\ [Next]_vars => RuntimeInv'
<1> SUFFICES ASSUME RuntimeInv, [Next]_vars PROVE RuntimeInv'
  OBVIOUS
<1>1. CASE UNCHANGED vars
  BY <1>1 DEF vars, threadVars, RuntimeInv, TypeOK, QueueOK, PhaseOK, Cur
<1> QED
  BY <1>1, RuntimeMain, RuntimeThread, RuntimeDevice DEF Next

\* Theorem: the types of the variables, and that a command is only ever in the
\* queue of the device its task is bound to, for every program.
THEOREM RuntimeTypes == Spec => []TypeOK
<1>1. RuntimeInv => TypeOK
  BY DEF RuntimeInv
<1> QED
  BY <1>1, RuntimeInit, RuntimeNext, PTL DEF Spec

\* Theorem: whatever kernels the application creates while launches are pending, a
\* launch runs the kernel that was current at its OMPI_XclExecKernel.
THEOREM LaunchesRunTheirKernel == Spec => []LaunchRunsItsKernel
<1>1. RuntimeInv => LaunchRunsItsKernel
  <2> SUFFICES ASSUME RuntimeInv, NEW e \in DOMAIN prog, ran[e] # << >>
               PROVE  ran[e][2] = LastBefore("create", e)
    BY DEF LaunchRunsItsKernel
  <2>1. DOMAIN prog = 1 .. Len(prog) /\ prog \in Programs
    BY TaskRuntimeAssumption DEF RuntimeInv, TypeOK
  <2>2. e \in Pos
    BY <2>1, CallOfProgram
  <2> QED
    BY <2>2, LastCreateIsLastBefore DEF RuntimeInv, LaunchOK
<1> QED
  BY <1>1, RuntimeInit, RuntimeNext, PTL DEF Spec

----------------------------------------------------------------------------
(* The memory: the program run call by call, as a function of the program p *)
(* and of the launches l that were lost.                                    *)

Sizes(p, a, n)   == {m \in 1 .. n - 1 : p[m].op = "setSize" /\ p[m].array = a}
SizeAt(p, a, n)  == Latest(Sizes(p, a, n))

\* What a launch must be enqueued with, and what call n does to the trays.
Work(p, n) == << n, LastCreate(p, n), n, SizeAt(p, p[n].array, n) >>

MemStep(p, l, n, S) ==
    LET c == p[n] IN
    CASE c.op = "write" -> [S EXCEPT ![c.task] = << << n >> >>]
      [] c.op = "copy"  -> [S EXCEPT ![c.dst] = S[c.task]]
      [] c.op = "exec" /\ n \notin l -> [S EXCEPT ![c.task] = Append(S[c.task], Work(p, n))]
      [] OTHER -> S

NoMemory == [t \in Task |-> << >>]

IsMem(p, l, k, f) == f = [n \in 0 .. k |-> IF n = 0 THEN NoMemory ELSE MemStep(p, l, n, f[n - 1])]
Mem(p, l) == LET m[n \in 0 .. Len(p)] == IF n = 0 THEN NoMemory ELSE MemStep(p, l, n, m[n - 1]) IN m


\* Lemma: induction from a to k, for the sets that hold the numbers it is about.
NatBelow == {x \in Nat \X Nat : x[1] < x[2]}
LEMMA Climb ==
    ASSUME NEW a \in Nat, NEW k \in Nat, NEW S, a \in S, \A n \in a .. k - 1 : n \in S => n + 1 \in S
    PROVE  \A n \in a .. k : n \in S
<1> DEFINE T == {n \in a .. k : n \notin S}
<1>1. SUFFICES ASSUME T # {} PROVE FALSE
  OBVIOUS
<1>2. IsWellFoundedOn(NatBelow, Nat)
  BY NatLessThanWellFounded DEF OpToRel, NatBelow
<1>3. T \subseteq Nat
  OBVIOUS
<1>4. PICK m \in T : \A n \in T : << n, m >> \notin NatBelow
  <2> HIDE DEF T
  <2> QED BY <1>1, <1>2, <1>3, WFMin
<1>5. m # a /\ m \in a .. k /\ m \notin S
  BY <1>4
<1>6. m - 1 \in a .. k - 1 /\ m - 1 \notin S
  <2>1. m - 1 \in a .. k - 1 /\ m - 1 + 1 = m
    BY <1>5
  <2> QED BY <2>1, <1>5
<1>7. m - 1 \in T /\ << m - 1, m >> \in NatBelow
  BY <1>5, <1>6 DEF NatBelow
<1> QED
  BY <1>4, <1>7

\* Lemma: the memory of a program exists.
LEMMA MemExists ==
    ASSUME NEW p, NEW l, NEW k \in Nat
    PROVE  \E f : IsMem(p, l, k, f)
<1> DEFINE S == {m \in Nat : \E f : IsMem(p, l, m, f)}
<1>1. 0 \in S
  <2>1. IsMem(p, l, 0, [n \in 0 .. 0 |-> NoMemory])
    BY DEF IsMem
  <2> QED BY <2>1
<1>2. ASSUME NEW m \in 0 .. k - 1, m \in S PROVE m + 1 \in S
  <2>1. PICK f : IsMem(p, l, m, f)
    BY <1>2
  <2> DEFINE g == [n \in 0 .. m + 1 |-> IF n = m + 1 THEN MemStep(p, l, m + 1, f[m]) ELSE f[n]]
  <2>2. m \in Nat
    BY <1>2
  <2>3. \A n \in 0 .. m : f[n] = IF n = 0 THEN NoMemory ELSE MemStep(p, l, n, f[n - 1])
    BY <2>1 DEF IsMem
  <2>4. \A n \in 0 .. m : g[n] = f[n]
    BY <2>2
  <2>5. g[m + 1] = MemStep(p, l, m + 1, g[m])
    BY <2>2, <2>4
  <2>6. ASSUME NEW n \in 0 .. m + 1 PROVE g[n] = IF n = 0 THEN NoMemory ELSE MemStep(p, l, n, g[n - 1])
    <3>1. CASE n = m + 1
      <4>1. n # 0 /\ n - 1 = m
        BY <2>2, <3>1
      <4> HIDE DEF g
      <4> QED BY <4>1, <2>5, <3>1
    <3>2. CASE n # m + 1
      <4>1. n \in 0 .. m /\ (n # 0 => n - 1 \in 0 .. m)
        BY <2>2, <3>2
      <4> HIDE DEF g
      <4> QED BY <4>1, <2>3, <2>4
    <3> QED BY <3>1, <3>2
  <2>7. IsMem(p, l, m + 1, g)
    <3>1. DOMAIN g = 0 .. m + 1 /\ g = [n \in 0 .. m + 1 |-> g[n]]
      OBVIOUS
    <3> HIDE DEF g
    <3> QED BY <3>1, <2>6 DEF IsMem
  <2> QED
    BY <2>2, <2>7
<1>3. k \in S
  <2> HIDE DEF S
  <2> QED BY <1>1, <1>2, Climb
<1> QED
  BY <1>3

\* Lemma: what the memory holds before the first call, and after each.
LEMMA MemIs ==
    ASSUME NEW p \in Programs, NEW l
    PROVE  /\ IsMem(p, l, Len(p), Mem(p, l))
           /\ Mem(p, l)[0] = NoMemory
           /\ \A n \in 1 .. Len(p) : Mem(p, l)[n] = MemStep(p, l, n, Mem(p, l)[n - 1])
<1>1. Len(p) \in Nat
  BY TaskRuntimeAssumption
<1>2. \E f : IsMem(p, l, Len(p), f)
  BY <1>1, MemExists
<1>3. IsMem(p, l, Len(p), Mem(p, l))
  BY <1>2 DEF IsMem, Mem
<1> QED
  BY <1>1, <1>3 DEF IsMem

\* What call n leaves in tray t.
TrayAfter(p, l, n, S, t) ==
    IF p[n].op = "write" /\ t = p[n].task THEN << << n >> >>
    ELSE IF p[n].op = "copy" /\ t = p[n].dst THEN S[p[n].task]
    ELSE IF p[n].op = "exec" /\ n \notin l /\ t = p[n].task THEN Append(S[t], Work(p, n))
    ELSE S[t]

IsMemory(S) == S = [t \in Task |-> S[t]]

\* Lemma: the effect of a call, tray by tray.
LEMMA MemStepTrays ==
    ASSUME NEW p \in Programs, NEW l, NEW n \in 1 .. Len(p), NEW S, IsMemory(S)
    PROVE  /\ IsMemory(MemStep(p, l, n, S))
           /\ \A t \in Task : MemStep(p, l, n, S)[t] = TrayAfter(p, l, n, S, t)
<1> DEFINE w == Work(p, n)
<1>0. p[n] \in Call
  BY CallOfProgram
<1>1. /\ p[n].op \in {"exec", "write", "copy"} => p[n].task \in Task
      /\ p[n].op = "copy" => p[n].dst \in Task
  BY <1>0, CallFields
<1>2. /\ p[n].op = "write" => MemStep(p, l, n, S) = [S EXCEPT ![p[n].task] = << << n >> >>]
      /\ p[n].op = "copy" => MemStep(p, l, n, S) = [S EXCEPT ![p[n].dst] = S[p[n].task]]
      /\ p[n].op = "exec" /\ n \notin l => MemStep(p, l, n, S) = [S EXCEPT ![p[n].task] = Append(S[p[n].task], w)]
      /\ p[n].op \notin {"write", "copy", "exec"} \/ (p[n].op = "exec" /\ n \in l) => MemStep(p, l, n, S) = S
  BY DEF MemStep
<1> HIDE DEF w
<1>3. CASE p[n].op = "write"
  BY <1>1, <1>2, <1>3 DEF TrayAfter, IsMemory
<1>4. CASE p[n].op = "copy"
  BY <1>1, <1>2, <1>4 DEF TrayAfter, IsMemory
<1>5. CASE p[n].op = "exec" /\ n \notin l
  <2>1. \A t \in Task : TrayAfter(p, l, n, S, t) = IF t = p[n].task THEN Append(S[t], w) ELSE S[t]
    BY <1>5 DEF TrayAfter, w
  <2> QED
    BY <1>1, <1>2, <1>5, <2>1 DEF IsMemory
<1>6. CASE p[n].op \notin {"write", "copy", "exec"} \/ (p[n].op = "exec" /\ n \in l)
  BY <1>2, <1>6 DEF TrayAfter
<1> QED
  BY <1>3, <1>4, <1>5, <1>6

\* Lemma: the memory is one of trays, and each call does to it what it does to each.
LEMMA MemTrays ==
    ASSUME NEW p \in Programs, NEW l
    PROVE  /\ \A n \in 0 .. Len(p) : IsMemory(Mem(p, l)[n])
           /\ \A n \in 1 .. Len(p) : \A t \in Task :
                 Mem(p, l)[n][t] = TrayAfter(p, l, n, Mem(p, l)[n - 1], t)
<1> DEFINE S == {n \in Nat : IsMemory(Mem(p, l)[n])}
<1>0. Len(p) \in Nat
  BY TaskRuntimeAssumption
<1>1. 0 \in S
  BY MemIs DEF IsMemory, NoMemory
<1>2. ASSUME NEW n \in 0 .. Len(p) - 1, n \in S PROVE n + 1 \in S
  <2>1. n + 1 \in 1 .. Len(p) /\ n + 1 - 1 = n
    BY <1>0
  <2>2. Mem(p, l)[n + 1] = MemStep(p, l, n + 1, Mem(p, l)[n])
    BY <2>1, MemIs
  <2>3. IsMemory(Mem(p, l)[n])
    BY <1>2
  <2>4. IsMemory(Mem(p, l)[n + 1])
    <3> DEFINE X == Mem(p, l)[n]  c == n + 1
    <3>1. IsMemory(X) /\ c \in 1 .. Len(p)
      BY <2>1, <2>3
    <3>2. IsMemory(MemStep(p, l, c, X))
      <4> HIDE DEF X, c
      <4> QED BY <3>1, MemStepTrays
    <3> QED BY <2>2, <3>2
  <2> QED
    BY <1>0, <2>1, <2>4
<1>3. \A n \in 0 .. Len(p) : n \in S
  <2> HIDE DEF S
  <2> QED BY <1>0, <1>1, <1>2, Climb
<1>4. ASSUME NEW n \in 1 .. Len(p), NEW t \in Task
      PROVE  Mem(p, l)[n][t] = TrayAfter(p, l, n, Mem(p, l)[n - 1], t)
  <2>1. n - 1 \in 0 .. Len(p)
    BY <1>0
  <2>2. IsMemory(Mem(p, l)[n - 1])
    BY <1>3, <2>1
  <2> QED
    BY <2>2, MemIs, MemStepTrays
<1> QED
  BY <1>3, <1>4

\* Lemma: the memory after m calls depends on the launches among them.
LEMMA MemAgrees ==
    ASSUME NEW p \in Programs, NEW l, NEW k, NEW m \in 0 .. Len(p),
           \A n \in 1 .. m : n \in l <=> n \in k
    PROVE  Mem(p, l)[m] = Mem(p, k)[m]
<1> DEFINE S == {n \in Nat : Mem(p, l)[n] = Mem(p, k)[n]}
<1>0. Len(p) \in Nat /\ m \in Nat
  BY TaskRuntimeAssumption
<1>1. 0 \in S
  BY MemIs
<1>2. ASSUME NEW n \in 0 .. m - 1, n \in S PROVE n + 1 \in S
  <2>1. n + 1 \in 1 .. Len(p) /\ n + 1 - 1 = n /\ n + 1 \in 1 .. m
    BY <1>0
  <2>2. Mem(p, l)[n + 1] = MemStep(p, l, n + 1, Mem(p, l)[n])
    BY <2>1, MemIs
  <2>3. Mem(p, k)[n + 1] = MemStep(p, k, n + 1, Mem(p, k)[n])
    BY <2>1, MemIs
  <2>4. MemStep(p, l, n + 1, Mem(p, l)[n]) = MemStep(p, k, n + 1, Mem(p, l)[n])
    BY <2>1 DEF MemStep
  <2> QED
    BY <1>2, <2>1, <2>2, <2>3, <2>4
<1>3. \A n \in 0 .. m : n \in S
  <2> HIDE DEF S
  <2> QED BY <1>0, <1>1, <1>2, Climb
<1> QED
  BY <1>0, <1>3

\* Touches(c, e) of program p.
Uses(p, c, e) ==
    \/ p[c].op \in {"exec", "read", "write", "copy"} /\ p[c].task = p[e].task
    \/ p[c].op = "copy" /\ p[c].dst = p[e].task
    \/ p[c].op = "setSize" /\ p[c].array = p[e].array

\* Lemma: losing a launch that no later call uses undoes it, and nothing else.
LEMMA MemLoses ==
    ASSUME NEW p \in Programs, NEW l, NEW e \in 1 .. Len(p), p[e].op = "exec",
           NEW m \in e .. Len(p), \A c \in e + 1 .. m : ~Uses(p, c, e)
    PROVE  \A t \in Task : Mem(p, l \cup {e})[m][t] =
                              IF t = p[e].task THEN Mem(p, l)[e - 1][t] ELSE Mem(p, l)[m][t]
<1> DEFINE k == l \cup {e}
           S == {n \in Nat : \A t \in Task :
                    Mem(p, k)[n][t] = IF t = p[e].task THEN Mem(p, l)[e - 1][t] ELSE Mem(p, l)[n][t]}
<1>0. Len(p) \in Nat /\ m \in Nat /\ e \in Nat /\ e - 1 \in 0 .. Len(p)
  BY TaskRuntimeAssumption
<1>1. e \in S
  <2>1. Mem(p, k)[e - 1] = Mem(p, l)[e - 1]
    <3>1. \A n \in 1 .. e - 1 : n \in k <=> n \in l
      BY <1>0
    <3> HIDE DEF k
    <3> QED BY <3>1, <1>0, MemAgrees, ZenonT(60)
  <2>2. e \in k
    OBVIOUS
  <2>3. ASSUME NEW t \in Task
        PROVE  Mem(p, k)[e][t] = IF t = p[e].task THEN Mem(p, l)[e - 1][t] ELSE Mem(p, l)[e][t]
    <3>1. Mem(p, k)[e][t] = TrayAfter(p, k, e, Mem(p, k)[e - 1], t)
      <4> HIDE DEF k
      <4> QED BY MemTrays
    <3>2. Mem(p, l)[e][t] = TrayAfter(p, l, e, Mem(p, l)[e - 1], t)
      BY MemTrays
    <3>3. Mem(p, k)[e][t] = Mem(p, l)[e - 1][t]
      BY <2>1, <2>2, <3>1 DEF TrayAfter
    <3>4. t # p[e].task => Mem(p, l)[e][t] = Mem(p, l)[e - 1][t]
      BY <3>2 DEF TrayAfter
    <3> QED BY <3>3, <3>4
  <2> HIDE DEF k
  <2> QED
    BY <1>0, <2>3
<1>2. ASSUME NEW n \in e .. m - 1, n \in S PROVE n + 1 \in S
  <2>1. n + 1 \in 1 .. Len(p) /\ n + 1 - 1 = n /\ n + 1 \in e + 1 .. m /\ n + 1 \in Nat /\ n + 1 # e
    BY <1>0
  <2>2. ~Uses(p, n + 1, e) /\ p[n + 1] \in Call
    BY <2>1, CallOfProgram
  <2>3. n + 1 \in k <=> n + 1 \in l
    BY <2>1
  <2>4. ASSUME NEW t \in Task
        PROVE  Mem(p, k)[n + 1][t] = IF t = p[e].task THEN Mem(p, l)[e - 1][t] ELSE Mem(p, l)[n + 1][t]
    <3>1. Mem(p, k)[n + 1][t] = TrayAfter(p, k, n + 1, Mem(p, k)[n], t)
      <4> HIDE DEF k
      <4> QED BY <2>1, MemTrays
    <3>2. Mem(p, l)[n + 1][t] = TrayAfter(p, l, n + 1, Mem(p, l)[n], t)
      BY <2>1, MemTrays
    <3>3. \A u \in Task : Mem(p, k)[n][u] = IF u = p[e].task THEN Mem(p, l)[e - 1][u] ELSE Mem(p, l)[n][u]
      <4> HIDE DEF k
      <4> QED BY <1>2
    <3>4. CASE t = p[e].task
      <4> HIDE DEF k
      <4>1. TrayAfter(p, k, n + 1, Mem(p, k)[n], t) = Mem(p, k)[n][t]
        BY <2>2, <3>4 DEF TrayAfter, Uses
      <4> QED BY <3>1, <3>3, <3>4, <4>1
    <3>5. CASE t # p[e].task
      <4> HIDE DEF k
      <4>1. Mem(p, k)[n][t] = Mem(p, l)[n][t]
        BY <3>3, <3>5
      <4>2. p[n + 1].op = "copy" => Mem(p, k)[n][p[n + 1].task] = Mem(p, l)[n][p[n + 1].task]
        BY <2>2, <3>3, CallFields DEF Uses
      <4>3. TrayAfter(p, k, n + 1, Mem(p, k)[n], t) = TrayAfter(p, l, n + 1, Mem(p, l)[n], t)
        BY <2>3, <4>1, <4>2 DEF TrayAfter
      <4> QED BY <3>1, <3>2, <3>5, <4>3
    <3> QED BY <3>4, <3>5
  <2> HIDE DEF k
  <2> QED
    BY <2>1, <2>4
<1>3. m \in S
  <2>1. m \in e .. m
    BY <1>0
  <2> HIDE DEF S
  <2> QED BY <2>1, <1>0, <1>1, <1>2, Climb
<1> QED
  BY <1>3

\* Lemma: losing launch c says nothing of the calls before it.
LEMMA MemLosesLater ==
    ASSUME NEW p \in Programs, NEW l, NEW c \in 1 .. Len(p), NEW m \in 0 .. c - 1
    PROVE  Mem(p, l \cup {c})[m] = Mem(p, l)[m]
<1> DEFINE k == l \cup {c}
<1>0. Len(p) \in Nat
  BY TaskRuntimeAssumption
<1>1. m \in 0 .. Len(p) /\ \A n \in 1 .. m : n \in k <=> n \in l
  BY <1>0
<1> HIDE DEF k
<1>2. Mem(p, k)[m] = Mem(p, l)[m]
  BY <1>1, MemAgrees, SMTT(30)
<1> QED
  BY <1>2 DEF k

\* Lemma: After is the memory of the program, but for the launches lost so far.
LEMMA AfterIsMem ==
    ASSUME TypeOK
    PROVE  \A n \in 0 .. Len(prog) : After[n] = Mem(prog, lost)[n]
<1> DEFINE M == Mem(prog, lost)
           Body(n, S) ==
              LET c == prog[n] IN
              CASE c.op = "write" -> [S EXCEPT ![c.task] = << << n >> >>]
                [] c.op = "copy"  -> [S EXCEPT ![c.dst] = S[c.task]]
                [] c.op = "exec" /\ n \notin lost ->
                      [S EXCEPT ![c.task] = Append(@, << n, LastBefore("create", n), n, LastSize(c.array, n) >>)]
                [] OTHER -> S
           Eq(f) == f = [n \in 0 .. Len(prog) |-> IF n = 0 THEN [t \in Task |-> << >>] ELSE Body(n, f[n - 1])]
<1>0. Len(prog) \in Nat /\ prog \in Programs
  BY TaskRuntimeAssumption DEF TypeOK
<1>1. \A n, S : Body(n, S) = MemStep(prog, lost, n, S)
  <2>1. \A n, a : LastSize(a, n) = SizeAt(prog, a, n)
    BY DEF LastSize, SizeAt, Sizes, Latest
  <2>2. \A n : LastBefore("create", n) = LastCreate(prog, n)
    BY LastCreateIsLastBefore
  <2> QED BY <2>1, <2>2 DEF MemStep, Work
<1>2. \A f : Eq(f) <=> IsMem(prog, lost, Len(prog), f)
  <2> HIDE DEF Body
  <2> QED BY <1>1 DEF IsMem, NoMemory
<1>3. Eq(M)
  <2>1. IsMem(prog, lost, Len(prog), M)
    BY <1>0, MemIs
  <2> HIDE DEF M, Eq
  <2> QED BY <2>1, <1>2
<1>4. Eq(After)
  <2>1. After = CHOOSE f : Eq(f)
    BY DEF After
  <2>2. \E f : Eq(f)
    BY <1>3
  <2> HIDE DEF Eq
  <2> QED BY <2>1, <2>2
<1>5. IsMem(prog, lost, Len(prog), After)
  <2> HIDE DEF Eq
  <2> QED BY <1>2, <1>4
<1> DEFINE T == {n \in Nat : After[n] = M[n]}
<1>6. 0 \in T
  BY <1>0, <1>5, MemIs DEF IsMem
<1>7. ASSUME NEW n \in 0 .. Len(prog) - 1, n \in T PROVE n + 1 \in T
  <2>1. n + 1 \in 1 .. Len(prog) /\ n + 1 - 1 = n /\ n + 1 # 0 /\ n + 1 \in 0 .. Len(prog)
    BY <1>0
  <2>2. After[n + 1] = MemStep(prog, lost, n + 1, After[n])
    BY <2>1, <1>5 DEF IsMem
  <2>3. M[n + 1] = MemStep(prog, lost, n + 1, M[n])
    BY <1>0, <2>1, MemIs
  <2> QED BY <1>7, <2>1, <2>2, <2>3
<1>8. \A n \in 0 .. Len(prog) : n \in T
  <2> HIDE DEF T
  <2> QED BY <1>0, <1>6, <1>7, Climb
<1> QED
  BY <1>8

----------------------------------------------------------------------------
(* The inductive invariant of the memory                                   *)

\* The thread of launch e has something left to do.
Active(e) == launch[e] \notin {"none", "done"}

\* A launch that a wait has covered is over.
WaitsOK ==
    \A e, w \in 1 .. Len(prog) :
        e < w /\ w < pc /\ prog[e].op = "exec" /\ Covers(w, prog[e].task) => ~Active(e)

\* The sizes and the arguments are those of the last calls that set them.
SizesOK == \A a \in Array : size[a] = SizeAt(prog, a, pc)
ArgsOK  == phase = "enqueue" => args[kernel][Cur.task] = pc

\* A launch is lost, or finds the arguments and the sizes of its call, or has been
\* enqueued with them.
ThreadOK(e) ==
    /\ launch[e] # "none" => e < pc
    /\ e < pc /\ prog[e].op = "exec" /\ launch[e] = "none" => e \in lost
    /\ launch[e] = "created" =>
          /\ e \notin lost
          /\ args[th_kernel[e]][prog[e].task] = e
          /\ size[prog[e].array] = SizeAt(prog, prog[e].array, e)
    /\ launch[e] \in {"queued", "finishing", "done"} /\ e \notin lost => ran[e] = Work(prog, e)

ThreadsOK == \A e \in 1 .. Len(prog) : ThreadOK(e)

\* A command is that of a launch that is not over, or the one the rank waits for.
CommandOK(c) ==
    IF c.op = "launch"
    THEN /\ c.n \in 1 .. Len(prog) /\ prog[c.n].op = "exec" /\ c.task = prog[c.n].task
         /\ c.n \notin lost /\ launch[c.n] \in {"queued", "finishing"}
         /\ launch[c.n] = "finishing" => c \in finish[c.n]
    ELSE IF c.op = "put" THEN phase = "blockedPut" /\ c = Cmd("put", pc, Cur.dst)
    ELSE phase = "blocked" /\ c = Cmd(FirstCommand, pc, Cur.task)

Distinct(q) == \A i, k \in DOMAIN q : q[i] = q[k] => i = k

CommandsOK ==
    \A d \in Device : Distinct(queue[d]) /\ \A c \in Range(queue[d]) : CommandOK(c)

\* Launch e has not run, and may yet; some launch of task t is like that.
Unrun(e) ==
    /\ prog[e].op = "exec"
    /\ launch[e] = "created" \/ ~Completed(prog[e].task, Cmd("launch", e, prog[e].task))
Busy(t) == \E e \in 1 .. Len(prog) : Unrun(e) /\ prog[e].task = t

\* The command of the current call has changed tray t.
Moved(t) ==
    \/ /\ phase = "blocked" /\ Completed(Cur.task, Cmd(FirstCommand, pc, Cur.task))
       /\ (FirstCommand = "write" /\ t = Cur.task) \/ (FirstCommand = "copy" /\ t = Cur.dst)
    \/ phase = "blockedPut" /\ Completed(Cur.dst, Cmd("put", pc, Cur.dst)) /\ t = Cur.dst

\* A tray that waits for a launch is as it was before it, and no later call has
\* changed it; any other is as the calls so far have left it.
UnrunOK ==
    \A e \in 1 .. Len(prog) : Unrun(e) =>
        /\ tray[prog[e].task] = Mem(prog, lost)[e - 1][prog[e].task]
        /\ Mem(prog, lost)[pc - 1][prog[e].task] = Mem(prog, lost)[e][prog[e].task]
IdleOK ==
    \A t \in Task : ~Busy(t) =>
        tray[t] = IF Moved(t) THEN Mem(prog, lost)[pc][t] ELSE Mem(prog, lost)[pc - 1][t]
TraysOK == DOMAIN tray = Task /\ tray = [t \in Task |-> tray[t]] /\ UnrunOK /\ IdleOK

\* What the current call has read, and what the earlier ones have.
HostOK ==
    /\ phase = "blocked" /\ FirstCommand = "read" /\ Completed(Cur.task, Cmd("read", pc, Cur.task)) =>
          /\ host = Mem(prog, lost)[pc - 1][Cur.task]
          /\ Cur.op = "read" => result[pc] = Mem(prog, lost)[pc - 1][Cur.task]
    /\ phase = "blockedPut" => host = Mem(prog, lost)[pc - 1][Cur.task]

ResultsOK ==
    /\ DOMAIN result = Pos
    /\ \A c \in 1 .. Len(prog) :
          prog[c].op = "read" /\ c < pc => result[c] = Mem(prog, lost)[c - 1][prog[c].task]

LiveOK ==
    /\ WaitsOK /\ SizesOK /\ ArgsOK /\ lost \subseteq 1 .. pc - 1
    /\ ThreadsOK /\ CommandsOK /\ TraysOK /\ HostOK
    /\ DOMAIN finish = Pos

MemInv == RuntimeInv /\ (Waited => ResultsOK /\ (phase # "exited" => LiveOK))

----------------------------------------------------------------------------
\* Lemma: an array filled by call n was filled by it, or by the last one before.
LEMMA SizeAtNext ==
    ASSUME NEW p, NEW a, NEW n \in Nat \ {0}
    PROVE  SizeAt(p, a, n + 1) = IF p[n].op = "setSize" /\ p[n].array = a THEN n ELSE SizeAt(p, a, n)
<1>1. CASE p[n].op = "setSize" /\ p[n].array = a
  <2>1. n \in Sizes(p, a, n + 1) /\ Sizes(p, a, n + 1) \in SUBSET Nat
    BY <1>1 DEF Sizes
  <2>2. \A k \in Sizes(p, a, n + 1) : k <= n
    BY DEF Sizes
  <2> QED
    BY <1>1, <2>1, <2>2, LatestIs DEF SizeAt
<1>2. CASE ~(p[n].op = "setSize" /\ p[n].array = a)
  <2>1. Sizes(p, a, n + 1) = Sizes(p, a, n)
    BY <1>2 DEF Sizes
  <2> QED
    BY <1>2, <2>1 DEF SizeAt
<1> QED
  BY <1>1, <1>2

\* Lemma: the commands of a queue that one is added to.
LEMMA RangeAppend ==
    ASSUME NEW S, NEW q \in Seq(S), NEW c \in S
    PROVE  /\ Range(Append(q, c)) = Range(q) \cup {c}
           /\ Distinct(q) /\ c \notin Range(q) => Distinct(Append(q, c))
<1>1. /\ Append(q, c) \in Seq(S) /\ Len(q) \in Nat /\ DOMAIN q = 1 .. Len(q)
      /\ DOMAIN Append(q, c) = 1 .. Len(q) + 1
  OBVIOUS
<1>2. \A i \in 1 .. Len(q) : Append(q, c)[i] = q[i]
  OBVIOUS
<1>3. Append(q, c)[Len(q) + 1] = c
  OBVIOUS
<1> DEFINE r == Append(q, c)
<1> HIDE DEF r
<1>4. Range(r) = Range(q) \cup {c}
  BY <1>1, <1>2, <1>3 DEF Range, r
<1>5. ASSUME Distinct(q), c \notin Range(q), NEW i \in DOMAIN r, NEW k \in DOMAIN r, r[i] = r[k]
      PROVE  i = k
  <2>1. CASE i \in 1 .. Len(q) /\ k \in 1 .. Len(q)
    BY <1>1, <1>2, <1>5, <2>1 DEF Distinct, r
  <2>2. CASE i = Len(q) + 1 \/ k = Len(q) + 1
    BY <1>1, <1>2, <1>3, <1>5, <2>2 DEF Range, r
  <2> QED
    BY <1>1, <2>1, <2>2 DEF r
<1> QED
  BY <1>4, <1>5 DEF Distinct, r

\* Lemma: the commands of a queue whose oldest one is taken.
LEMMA RangeTail ==
    ASSUME NEW S, NEW q \in Seq(S), q # << >>, Distinct(q)
    PROVE  /\ Range(Tail(q)) = Range(q) \ {Head(q)}
           /\ Distinct(Tail(q))
           /\ Head(q) \in Range(q)
<1>1. /\ Tail(q) \in Seq(S) /\ Len(q) \in Nat \ {0} /\ DOMAIN q = 1 .. Len(q)
      /\ DOMAIN Tail(q) = 1 .. Len(q) - 1 /\ Head(q) = q[1]
  OBVIOUS
<1>2. \A i \in 1 .. Len(q) - 1 : Tail(q)[i] = q[i + 1]
  OBVIOUS
<1> DEFINE r == Tail(q)
<1> HIDE DEF r
<1>3. ASSUME NEW x \in Range(r) PROVE x \in Range(q) \ {Head(q)}
  <2>1. PICK i \in 1 .. Len(q) - 1 : x = q[i + 1]
    BY <1>1, <1>2 DEF Range, r
  <2>2. i + 1 \in 1 .. Len(q) /\ i + 1 # 1 /\ 1 \in 1 .. Len(q)
    BY <1>1
  <2> QED
    BY <1>1, <2>1, <2>2 DEF Range, Distinct
<1>4. ASSUME NEW x \in Range(q) \ {Head(q)} PROVE x \in Range(r)
  <2>1. PICK i \in 1 .. Len(q) : x = q[i]
    BY <1>1 DEF Range
  <2>2. i - 1 \in 1 .. Len(q) - 1 /\ i - 1 + 1 = i
    BY <1>1, <2>1
  <2>3. r[i - 1] = x
    BY <1>2, <2>1, <2>2 DEF r
  <2> QED
    BY <1>1, <2>2, <2>3 DEF Range, r
<1>5. ASSUME NEW i \in DOMAIN r, NEW k \in DOMAIN r, r[i] = r[k] PROVE i = k
  <2>1. i \in 1 .. Len(q) - 1 /\ k \in 1 .. Len(q) - 1
    BY <1>1 DEF r
  <2>2. q[i + 1] = q[k + 1] /\ i + 1 \in 1 .. Len(q) /\ k + 1 \in 1 .. Len(q)
    BY <1>1, <1>2, <1>5, <2>1 DEF r
  <2>3. i + 1 = k + 1
    BY <1>1, <2>2 DEF Distinct
  <2> QED BY <2>1, <2>3
<1>6. Head(q) \in Range(q)
  BY <1>1 DEF Range
<1> QED
  BY <1>3, <1>4, <1>5, <1>6 DEF Distinct, r

\* Lemma: what the invariant says of the program, the tasks and the commands.
LEMMA Basics ==
    ASSUME RuntimeInv
    PROVE  /\ prog \in Programs /\ Len(prog) \in Nat /\ DOMAIN prog = 1 .. Len(prog)
           /\ pc \in Nat \ {0} /\ pc <= Len(prog) + 1
           /\ 1 .. Len(prog) \subseteq Pos
           /\ devOf \in [Task -> Device] /\ queue \in [Device -> Seq(Command)]
           /\ \A c \in 1 .. Len(prog) :
                 /\ prog[c].op \in {"create", "waitAll", "exec", "read", "write", "waitFor", "copy", "setSize"}
                 /\ prog[c].op \in {"exec", "read", "write", "copy"} => prog[c].task \in Task
                 /\ prog[c].op = "copy" => prog[c].dst \in Task
                 /\ prog[c].op \in {"exec", "setSize"} => prog[c].array \in Array
           /\ \A d \in Device : \A c \in Range(queue[d]) : c \in Command /\ c.task \in Task /\ devOf[c.task] = d
<1>1. prog \in Programs /\ Len(prog) \in Nat /\ DOMAIN prog = 1 .. Len(prog) /\ pc \in Nat \ {0} /\ pc <= Len(prog) + 1
  BY TaskRuntimeAssumption DEF RuntimeInv, TypeOK
<1>2. 1 .. Len(prog) \subseteq Pos
  BY <1>1, CallOfProgram
<1>3. devOf \in [Task -> Device] /\ queue \in [Device -> Seq(Command)]
  BY TaskRuntimeAssumption DEF RuntimeInv, TypeOK, QueueOK
<1>4. ASSUME NEW c \in 1 .. Len(prog)
      PROVE  /\ prog[c].op \in {"create", "waitAll", "exec", "read", "write", "waitFor", "copy", "setSize"}
             /\ prog[c].op \in {"exec", "read", "write", "copy"} => prog[c].task \in Task
             /\ prog[c].op = "copy" => prog[c].dst \in Task
             /\ prog[c].op \in {"exec", "setSize"} => prog[c].array \in Array
  BY <1>1, CallOfProgram, CallFields
<1>5. ASSUME NEW d \in Device, NEW c \in Range(queue[d])
      PROVE  c \in Command /\ c.task \in Task /\ devOf[c.task] = d
  <2>1. PICK i \in DOMAIN queue[d] : c = queue[d][i]
    BY DEF Range
  <2>2. c \in Command
    BY <2>1, <1>3
  <2>3. devOf[c.task] = d
    BY <2>1 DEF RuntimeInv, TypeOK
  <2> QED
    BY <2>2, <2>3 DEF Command
<1> QED
  BY <1>1, <1>2, <1>3, <1>4, <1>5

\* Lemma: a thread with something left to do is not disturbed by the calls up to
\* the current one.
LEMMA Quiet ==
    ASSUME RuntimeInv, Waited, WaitsOK, NEW e \in 1 .. Len(prog), NEW c \in 1 .. Len(prog),
           prog[e].op = "exec", Active(e), e < c, c <= pc
    PROVE  ~Uses(prog, c, e)
<1>1. SUFFICES ASSUME Uses(prog, c, e) PROVE FALSE
  OBVIOUS
<1>2. DOMAIN prog = 1 .. Len(prog) /\ Len(prog) \in Nat /\ pc \in Nat
  BY Basics
<1>3. Touches(c, e)
  BY <1>1 DEF Touches, Uses
<1>4. PICK w \in e + 1 .. c - 1 : Covers(w, prog[e].task)
  BY <1>2, <1>3 DEF Waited
<1>5. w \in 1 .. Len(prog) /\ e < w /\ w < pc
  BY <1>2
<1> QED
  BY <1>4, <1>5 DEF WaitsOK

\* Lemma: a launch that has not run has a thread with something left to do, and was
\* not lost.
LEMMA UnrunActive ==
    ASSUME RuntimeInv, ThreadsOK, CommandsOK, NEW e \in 1 .. Len(prog), Unrun(e)
    PROVE  Active(e) /\ e < pc /\ e \notin lost /\ prog[e].op = "exec" /\ prog[e].task \in Task
<1>1. prog[e].op = "exec" /\ prog[e].task \in Task /\ devOf[prog[e].task] \in Device
  BY Basics DEF Unrun
<1>2. CASE launch[e] = "created"
  BY <1>1, <1>2 DEF Active, ThreadsOK, ThreadOK
<1>3. CASE launch[e] # "created"
  <2> DEFINE c == Cmd("launch", e, prog[e].task)
  <2>1. c \in Range(queue[devOf[prog[e].task]]) /\ c.op = "launch" /\ c.n = e
    BY <1>3 DEF Unrun, Completed, Cmd
  <2>2. CommandOK(c)
    BY <1>1, <2>1 DEF CommandsOK
  <2>3. launch[e] \in {"queued", "finishing"} /\ e \notin lost
    BY <2>1, <2>2 DEF CommandOK
  <2> QED
    BY <1>1, <2>3 DEF Active, ThreadsOK, ThreadOK
<1> QED
  BY <1>2, <1>3

\* Lemma: a task has at most one launch that has not run, and the current call does
\* not use it.
LEMMA UnrunAlone ==
    ASSUME RuntimeInv, Waited, WaitsOK, ThreadsOK, CommandsOK, NEW e \in 1 .. Len(prog), Unrun(e)
    PROVE  /\ pc <= Len(prog) => ~Uses(prog, pc, e)
           /\ \A f \in 1 .. Len(prog) : Unrun(f) /\ prog[f].task = prog[e].task => f = e
<1>1. Active(e) /\ e < pc /\ prog[e].op = "exec"
  BY UnrunActive
<1>2. pc \in Nat \ {0} /\ Len(prog) \in Nat
  BY Basics
<1>3. pc <= Len(prog) => ~Uses(prog, pc, e)
  BY <1>1, <1>2, Quiet
<1>4. ASSUME NEW f \in 1 .. Len(prog), Unrun(f), prog[f].task = prog[e].task PROVE f = e
  <2>1. Active(f) /\ f < pc /\ prog[f].op = "exec"
    BY <1>4, UnrunActive
  <2>2. f < e => ~Uses(prog, e, f)
    BY <1>1, <1>2, <2>1, Quiet
  <2>3. e < f => ~Uses(prog, f, e)
    BY <1>1, <1>2, <2>1, Quiet
  <2> QED
    BY <1>1, <1>4, <2>1, <2>2, <2>3 DEF Uses
<1> QED
  BY <1>3, <1>4

----------------------------------------------------------------------------
(* The calls that end: the rank goes on to the next one                    *)

\* Lemma: a call leaves a tray alone that waits for a launch.
LEMMA UnrunKeepsTray ==
    ASSUME RuntimeInv, Waited, WaitsOK, ThreadsOK, CommandsOK, pc <= Len(prog), NEW l,
           NEW e \in 1 .. Len(prog), Unrun(e)
    PROVE  Mem(prog, l)[pc][prog[e].task] = Mem(prog, l)[pc - 1][prog[e].task]
<1>1. ~Uses(prog, pc, e) /\ prog[e].task \in Task
  BY UnrunAlone, UnrunActive
<1>2. prog \in Programs /\ pc \in 1 .. Len(prog)
  BY Basics
<1>3. Mem(prog, l)[pc][prog[e].task] = TrayAfter(prog, l, pc, Mem(prog, l)[pc - 1], prog[e].task)
  BY <1>1, <1>2, MemTrays
<1> QED
  BY <1>1, <1>3 DEF TrayAfter, Uses

\* Lemma: the sizes after the current call.
LEMMA SizeAtCall ==
    ASSUME RuntimeInv
    PROVE  \A a \in Array : SizeAt(prog, a, pc + 1) =
              IF prog[pc].op = "setSize" /\ prog[pc].array = a THEN pc ELSE SizeAt(prog, a, pc)
<1>1. pc \in Nat \ {0}
  BY Basics
<1> QED
  BY <1>1, SizeAtNext

\* Lemma: what follows when a call other than a launch returns, if its work is done:
\* no command of its own is left, and what it wrote and read is as it should be.
LEMMA Advance ==
    ASSUME RuntimeInv, Waited, LiveOK, ResultsOK, pc <= Len(prog), Cur.op # "exec",
           phase' = "call", pc' = pc + 1,
           UNCHANGED << prog, devOf, args, queue, tray, launch, th_kernel, ran, lost, finish, result >>,
           \A a \in Array : size'[a] = IF Cur.op = "setSize" /\ Cur.array = a THEN pc ELSE size[a],
           \A e \in 1 .. pc - 1 : prog[e].op = "exec" /\ Covers(pc, prog[e].task) => ~Active(e),
           \A d \in Device : \A c \in Range(queue[d]) : c.op = "launch",
           \A t \in Task : ~Busy(t) => tray[t] = Mem(prog, lost)[pc][t],
           Cur.op = "read" => result[pc] = Mem(prog, lost)[pc - 1][Cur.task]
    PROVE  LiveOK' /\ ResultsOK'
<1> DEFINE M == Mem(prog, lost)
<1>0. /\ WaitsOK /\ SizesOK /\ ThreadsOK /\ CommandsOK /\ UnrunOK
      /\ Len(prog) \in Nat /\ pc \in 1 .. Len(prog) /\ pc' - 1 = pc
  BY Basics DEF LiveOK, TraysOK
<1>1. WaitsOK'
  <2> SUFFICES ASSUME NEW e \in 1 .. Len(prog), NEW w \in 1 .. Len(prog), e < w, w < pc + 1,
                      prog[e].op = "exec", Covers(w, prog[e].task)
               PROVE  ~Active(e)
    BY DEF WaitsOK, Active, Covers
  <2>1. CASE w = pc
    <3>1. e \in 1 .. pc - 1
      BY <1>0, <2>1
    <3> QED BY <2>1, <3>1
  <2>2. CASE w < pc
    BY <1>0, <2>2 DEF WaitsOK
  <2> QED BY <1>0, <2>1, <2>2
<1>2. SizesOK'
  <2>1. \A a \in Array : SizeAt(prog, a, pc + 1) = IF prog[pc].op = "setSize" /\ prog[pc].array = a THEN pc ELSE SizeAt(prog, a, pc)
    BY SizeAtCall
  <2> QED
    BY <1>0, <2>1 DEF SizesOK, Cur
<1>3. ArgsOK' /\ (lost \subseteq 1 .. pc - 1)'
  BY <1>0 DEF ArgsOK, LiveOK
<1>4. ThreadsOK'
  <2> SUFFICES ASSUME NEW e \in 1 .. Len(prog) PROVE ThreadOK(e)'
    BY DEF ThreadsOK
  <2>1. ThreadOK(e)
    BY <1>0 DEF ThreadsOK
  <2>2. launch[e] = "created" => size'[prog[e].array] = size[prog[e].array]
    <3> SUFFICES ASSUME launch[e] = "created" PROVE size'[prog[e].array] = size[prog[e].array]
      OBVIOUS
    <3>1. e < pc /\ prog[e].op = "exec" /\ Active(e) /\ prog[e].array \in Array
      BY <1>0, <2>1, Basics DEF ThreadOK, Active, RuntimeInv, LaunchOK
    <3>2. ~Uses(prog, pc, e)
      BY <1>0, <3>1, Quiet
    <3> QED
      BY <3>1, <3>2 DEF Uses, Cur
  <2> QED
    BY <1>0, <2>1, <2>2 DEF ThreadOK, Cur
<1>5. CommandsOK'
  <2> SUFFICES ASSUME NEW d \in Device
               PROVE  Distinct(queue[d]) /\ \A c \in Range(queue[d]) : CommandOK(c)'
    BY DEF CommandsOK
  <2>1. Distinct(queue[d])
    BY <1>0 DEF CommandsOK
  <2>2. ASSUME NEW c \in Range(queue[d]) PROVE CommandOK(c)'
    <3>1. CommandOK(c) /\ c.op = "launch"
      BY <1>0 DEF CommandsOK
    <3> QED
      BY <3>1 DEF CommandOK
  <2> QED BY <2>1, <2>2
<1>6. \A e \in 1 .. Len(prog) : Unrun(e)' <=> Unrun(e)
  BY DEF Unrun, Completed
<1>7. UnrunOK'
  <2> SUFFICES ASSUME NEW e \in 1 .. Len(prog), Unrun(e)
               PROVE  /\ tray[prog[e].task] = M[e - 1][prog[e].task]
                      /\ M[pc][prog[e].task] = M[e][prog[e].task]
    BY <1>0, <1>6 DEF UnrunOK
  <2> QED
    BY <1>0, UnrunKeepsTray DEF UnrunOK
<1>8. IdleOK'
  <2>1. \A t \in Task : ~Moved(t)'
    BY DEF Moved
  <2>2. \A t \in Task : Busy(t)' <=> Busy(t)
    BY <1>6 DEF Busy
  <2> QED
    BY <1>0, <2>1, <2>2 DEF IdleOK
<1>9. HostOK'
  BY DEF HostOK
<1>10. ResultsOK'
  BY <1>0 DEF ResultsOK, Cur
<1> QED
  BY <1>1, <1>2, <1>3, <1>4, <1>5, <1>7, <1>8, <1>9, <1>10 DEF LiveOK, TraysOK

\* Lemma: between its transfers the rank has no command in a queue.
LEMMA NoTransfer ==
    ASSUME LiveOK, phase \in {"call", "enqueue"}
    PROVE  /\ \A d \in Device : \A c \in Range(queue[d]) : c.op = "launch"
           /\ \A t \in Task : ~Moved(t)
<1>1. ASSUME NEW d \in Device, NEW c \in Range(queue[d]) PROVE c.op = "launch"
  <2>1. CommandOK(c)
    BY DEF LiveOK, CommandsOK
  <2> QED BY <2>1 DEF CommandOK
<1>2. \A t \in Task : ~Moved(t)
  BY DEF Moved
<1> QED
  BY <1>1, <1>2

\* Lemma: a call that is not a transfer or a launch changes no tray.
LEMMA NoEffect ==
    ASSUME RuntimeInv, LiveOK, phase = "call", pc <= Len(prog), Cur.op \notin {"write", "copy", "exec"}
    PROVE  \A t \in Task : ~Busy(t) => tray[t] = Mem(prog, lost)[pc][t]
<1>1. prog \in Programs /\ pc \in 1 .. Len(prog)
  BY Basics
<1>2. \A t \in Task : Mem(prog, lost)[pc][t] = TrayAfter(prog, lost, pc, Mem(prog, lost)[pc - 1], t)
  BY <1>1, MemTrays
<1>3. \A t \in Task : Mem(prog, lost)[pc][t] = Mem(prog, lost)[pc - 1][t]
  BY <1>2 DEF TrayAfter, Cur
<1> QED
  BY <1>3, NoTransfer DEF LiveOK, TraysOK, IdleOK

\* Lemma: creating a kernel keeps the invariant.
LEMMA CreateStep ==
    ASSUME RuntimeInv, Waited, LiveOK, ResultsOK, XclCreateKernel PROVE LiveOK' /\ ResultsOK'
<1>1. pc <= Len(prog) /\ phase = "call" /\ Cur.op = "create"
  BY DEF XclCreateKernel, AtCall
<1>2. \A t : ~Covers(pc, t)
  BY <1>1 DEF Covers, Cur
<1>3. /\ UNCHANGED << prog, devOf, args, queue, tray, launch, th_kernel, ran, lost, finish, result, size >>
      /\ phase' = "call" /\ pc' = pc + 1
  BY DEF XclCreateKernel, Return, threadVars
<1> QED
  BY <1>1, <1>2, <1>3, NoTransfer, NoEffect, Advance

\* Lemma: filling an array of sizes keeps the invariant.
LEMMA SetSizeStep ==
    ASSUME RuntimeInv, Waited, LiveOK, ResultsOK, SetSize PROVE LiveOK' /\ ResultsOK'
<1>1. pc <= Len(prog) /\ phase = "call" /\ Cur.op = "setSize"
  BY DEF SetSize, AtCall
<1>2. \A t : ~Covers(pc, t)
  BY <1>1 DEF Covers, Cur
<1>3. /\ UNCHANGED << prog, devOf, args, queue, tray, launch, th_kernel, ran, lost, finish, result >>
      /\ phase' = "call" /\ pc' = pc + 1
  BY DEF SetSize, Return, threadVars
<1>4. \A a \in Array : size'[a] = IF Cur.op = "setSize" /\ Cur.array = a THEN pc ELSE size[a]
  BY <1>1 DEF SetSize, RuntimeInv, TypeOK
<1> QED
  BY <1>1, <1>2, <1>3, <1>4, NoTransfer, NoEffect, Advance

\* Lemma: a wait keeps the invariant.  It joins the last thread of a task; the
\* application has waited for the others before it launched the task again.
LEMMA WaitStep ==
    ASSUME RuntimeInv, Waited, LiveOK, ResultsOK, Wait PROVE LiveOK' /\ ResultsOK'
<1>1. pc <= Len(prog) /\ phase = "call" /\ Cur.op \in {"waitAll", "waitFor"}
  BY DEF Wait, AtCall
<1>2. ASSUME NEW e \in 1 .. pc - 1, prog[e].op = "exec", Covers(pc, prog[e].task)
      PROVE  ~Active(e)
  <2>1. SUFFICES ASSUME Active(e) PROVE FALSE
    OBVIOUS
  <2>2. e \in 1 .. Len(prog) /\ prog[e].task \in Task /\ pc \in Nat /\ Len(prog) \in Nat
        /\ DOMAIN prog = 1 .. Len(prog)
    BY <1>1, <1>2, Basics
  <2>3. e \in Started(prog[e].task, pc)
    BY <1>2, <2>1, <2>2 DEF Started, IsExec, Active
  <2>4. (\A f \in Started(prog[e].task, pc) : f <= e) => launch[e] = "done"
    BY <1>2, <2>2, <2>3 DEF Wait
  <2>5. PICK f \in Started(prog[e].task, pc) : ~(f <= e)
    BY <2>1, <2>4 DEF Active
  <2>6. f \in 1 .. Len(prog) /\ e < f /\ f < pc /\ Uses(prog, f, e)
    BY <2>2, <2>5 DEF Started, IsExec, Uses
  <2> QED
    BY <1>2, <2>1, <2>2, <2>6, Quiet DEF LiveOK
<1>3. /\ UNCHANGED << prog, devOf, args, queue, tray, launch, th_kernel, ran, lost, finish, result, size >>
      /\ phase' = "call" /\ pc' = pc + 1
  BY DEF Wait, Return, threadVars
<1> QED
  BY <1>1, <1>2, <1>3, NoTransfer, NoEffect, Advance

\* Lemma: setting the arguments of a kernel keeps the invariant: no launch that uses
\* the kernel on this task is pending.
LEMMA SetArgsStep ==
    ASSUME RuntimeInv, Waited, LiveOK, ResultsOK, SetKernelArgs PROVE LiveOK' /\ ResultsOK'
<1>0. /\ WaitsOK /\ SizesOK /\ ThreadsOK /\ CommandsOK /\ UnrunOK /\ IdleOK
      /\ pc \in 1 .. Len(prog) /\ Len(prog) \in Nat
      /\ phase = "call" /\ prog[pc].op = "exec" /\ prog[pc].task \in Task /\ pc \in Pos
  BY Basics DEF LiveOK, TraysOK, SetKernelArgs, AtCall, Cur
<1>1. /\ UNCHANGED << prog, devOf, pc, kernel, queue, tray, launch, th_kernel, ran, lost, finish, result, size, host >>
      /\ phase' = "enqueue"
      /\ args' = [args EXCEPT ![kernel][prog[pc].task] = pc]
  BY DEF SetKernelArgs, Goto, threadVars, Cur
<1>2. kernel \in Pos /\ args \in [Pos -> [Task -> Pos]] /\ th_kernel \in [Pos -> Pos]
  BY DEF RuntimeInv, TypeOK
<1>3. WaitsOK' /\ SizesOK' /\ (lost \subseteq 1 .. pc - 1)'
  BY <1>0, <1>1 DEF WaitsOK, SizesOK, Active, Covers, LiveOK
<1>4. ArgsOK'
  BY <1>0, <1>1, <1>2 DEF ArgsOK, Cur
<1>5. ThreadsOK'
  <2> SUFFICES ASSUME NEW e \in 1 .. Len(prog) PROVE ThreadOK(e)'
    BY <1>1 DEF ThreadsOK
  <2>1. ThreadOK(e) /\ e \in Pos
    BY <1>0, Basics DEF ThreadsOK
  <2>2. launch[e] = "created" => args'[th_kernel[e]][prog[e].task] = args[th_kernel[e]][prog[e].task]
    <3> SUFFICES ASSUME launch[e] = "created"
                 PROVE  args'[th_kernel[e]][prog[e].task] = args[th_kernel[e]][prog[e].task]
      OBVIOUS
    <3>1. e < pc /\ prog[e].op = "exec" /\ Active(e) /\ prog[e].task \in Task
      BY <1>0, <2>1, Basics DEF ThreadOK, Active, RuntimeInv, LaunchOK
    <3>2. ~Uses(prog, pc, e)
      BY <1>0, <3>1, Quiet
    <3>3. prog[e].task # prog[pc].task
      BY <1>0, <3>2 DEF Uses
    <3> QED
      BY <1>0, <1>1, <1>2, <2>1, <3>1, <3>3
  <2> QED
    BY <1>1, <2>1, <2>2 DEF ThreadOK
<1>6. CommandsOK'
  <2> SUFFICES ASSUME NEW d \in Device, NEW c \in Range(queue[d]) PROVE CommandOK(c)'
    BY <1>0, <1>1 DEF CommandsOK
  <2>1. CommandOK(c) /\ c.op = "launch"
    BY <1>0, NoTransfer DEF CommandsOK
  <2> QED
    BY <1>1, <2>1 DEF CommandOK
<1>7. \A e \in 1 .. Len(prog) : Unrun(e)' <=> Unrun(e)
  BY <1>1 DEF Unrun, Completed
<1>8. UnrunOK'
  BY <1>0, <1>1, <1>7 DEF UnrunOK
<1>9. IdleOK'
  <2>1. \A t \in Task : ~Moved(t)' /\ ~Moved(t)
    BY <1>0, <1>1 DEF Moved
  <2>2. \A t \in Task : Busy(t)' <=> Busy(t)
    BY <1>1, <1>7 DEF Busy
  <2> QED
    BY <1>0, <1>1, <2>1, <2>2 DEF IdleOK
<1>10. HostOK' /\ ResultsOK'
  BY <1>1 DEF HostOK, ResultsOK
<1> QED
  BY <1>1, <1>3, <1>4, <1>5, <1>6, <1>8, <1>9, <1>10 DEF LiveOK, TraysOK

\* Lemma: starting the thread of a launch keeps the invariant.
LEMMA EnqueueKernelStep ==
    ASSUME RuntimeInv, Waited, LiveOK, ResultsOK, EnqueueKernel PROVE LiveOK' /\ ResultsOK'
<1> DEFINE M == Mem(prog, lost)
<1>0. /\ WaitsOK /\ SizesOK /\ ArgsOK /\ lost \subseteq 1 .. pc - 1 /\ ThreadsOK /\ CommandsOK /\ UnrunOK /\ IdleOK
      /\ prog \in Programs /\ Len(prog) \in Nat /\ pc \in Nat \ {0} /\ pc \in 1 .. Len(prog)
      /\ phase = "enqueue" /\ prog[pc].op = "exec" /\ prog[pc].task \in Task /\ prog[pc].array \in Array
      /\ pc \in Pos
  BY Basics DEF LiveOK, TraysOK, EnqueueKernel, RuntimeInv, PhaseOK, Cur
<1>1. /\ UNCHANGED << prog, devOf, kernel, args, queue, tray, ran, lost, finish, result, size, host >>
      /\ phase' = "call" /\ pc' = pc + 1 /\ pc' - 1 = pc
  BY <1>0 DEF EnqueueKernel, Return
<1>2. /\ launch'[pc] = "created" /\ th_kernel'[pc] = kernel
      /\ \A e \in 1 .. Len(prog) : e # pc => launch'[e] = launch[e] /\ th_kernel'[e] = th_kernel[e]
  BY <1>0, Basics DEF EnqueueKernel, RuntimeInv, TypeOK
<1>3. WaitsOK'
  <2> SUFFICES ASSUME NEW e \in 1 .. Len(prog), NEW w \in 1 .. Len(prog), e < w, w < pc + 1,
                      prog[e].op = "exec", Covers(w, prog[e].task)
               PROVE  ~Active(e)'
    BY <1>1 DEF WaitsOK, Covers
  <2>1. w # pc
    BY <1>0 DEF Covers
  <2>2. ~Active(e) /\ e # pc
    BY <1>0, <2>1 DEF WaitsOK
  <2> QED BY <1>2, <2>2 DEF Active
<1>4. SizesOK' /\ ArgsOK' /\ (lost \subseteq 1 .. pc - 1)'
  <2>1. \A a \in Array : SizeAt(prog, a, pc + 1) = SizeAt(prog, a, pc)
    BY <1>0, SizeAtCall
  <2> QED
    BY <1>0, <1>1, <2>1 DEF SizesOK, ArgsOK
<1>5. ThreadsOK'
  <2> SUFFICES ASSUME NEW e \in 1 .. Len(prog) PROVE ThreadOK(e)'
    BY <1>1 DEF ThreadsOK
  <2>1. ThreadOK(e)
    BY <1>0 DEF ThreadsOK
  <2>2. CASE e = pc
    <3>1. args[kernel][prog[e].task] = e /\ size[prog[e].array] = SizeAt(prog, prog[e].array, e) /\ e \notin lost
      BY <1>0, <2>2 DEF ArgsOK, SizesOK, Cur
    <3> QED
      BY <1>0, <1>1, <1>2, <2>2, <3>1 DEF ThreadOK
  <2>3. CASE e # pc
    BY <1>0, <1>1, <1>2, <2>1, <2>3 DEF ThreadOK
  <2> QED BY <2>2, <2>3
<1>6. CommandsOK'
  <2> SUFFICES ASSUME NEW d \in Device, NEW c \in Range(queue[d]) PROVE CommandOK(c)'
    BY <1>0, <1>1 DEF CommandsOK
  <2>1. CommandOK(c) /\ c.op = "launch"
    BY <1>0, NoTransfer DEF CommandsOK
  <2>2. c.n \in 1 .. Len(prog) /\ launch[c.n] \in {"queued", "finishing"}
    BY <2>1 DEF CommandOK
  <2>3. c.n # pc
    BY <1>0, <2>2 DEF ThreadsOK, ThreadOK
  <2> QED
    BY <1>1, <1>2, <2>1, <2>2, <2>3 DEF CommandOK
<1>7. \A e \in 1 .. Len(prog) : e # pc => (Unrun(e)' <=> Unrun(e))
  BY <1>1, <1>2 DEF Unrun, Completed
<1>8. \A e \in 1 .. Len(prog) : e = pc => Unrun(e)'
  BY <1>0, <1>1, <1>2 DEF Unrun
<1>9. \A e \in 1 .. Len(prog) : Unrun(e) => e # pc /\ prog[e].task # prog[pc].task /\ prog[e].task \in Task
  <2> SUFFICES ASSUME NEW e \in 1 .. Len(prog), Unrun(e)
               PROVE  e # pc /\ prog[e].task # prog[pc].task /\ prog[e].task \in Task
    OBVIOUS
  <2>1. e < pc /\ ~Uses(prog, pc, e) /\ prog[e].task \in Task
    BY <1>0, UnrunActive, UnrunAlone
  <2> QED
    BY <1>0, <2>1 DEF Uses
<1>10. \A t \in Task : ~Moved(t) /\ ~Moved(t)'
  BY <1>0, <1>1 DEF Moved
<1>11. \A t \in Task : t # prog[pc].task => M[pc][t] = M[pc - 1][t]
  <2>1. \A t \in Task : M[pc][t] = TrayAfter(prog, lost, pc, M[pc - 1], t)
    BY <1>0, MemTrays
  <2> QED
    BY <1>0, <2>1 DEF TrayAfter
<1>12. UnrunOK'
  <2> SUFFICES ASSUME NEW e \in 1 .. Len(prog), Unrun(e)'
               PROVE  /\ tray[prog[e].task] = M[e - 1][prog[e].task]
                      /\ M[pc][prog[e].task] = M[e][prog[e].task]
    BY <1>1 DEF UnrunOK
  <2>1. CASE e = pc
    <3>1. ~Busy(prog[pc].task)
      BY <1>9 DEF Busy
    <3> QED
      BY <1>0, <1>10, <2>1, <3>1 DEF IdleOK
  <2>2. CASE e # pc
    BY <1>0, <1>7, <1>9, <1>11, <2>2 DEF UnrunOK
  <2> QED BY <2>1, <2>2
<1>13. IdleOK'
  <2> SUFFICES ASSUME NEW t \in Task, ~Busy(t)' PROVE tray[t] = M[pc][t]
    BY <1>1, <1>10 DEF IdleOK
  <2>1. t # prog[pc].task
    BY <1>0, <1>1, <1>8 DEF Busy
  <2>2. ~Busy(t)
    BY <1>1, <1>7, <1>9 DEF Busy
  <2> QED
    BY <1>0, <1>10, <1>11, <2>1, <2>2 DEF IdleOK
<1>14. HostOK' /\ ResultsOK'
  BY <1>0, <1>1 DEF HostOK, ResultsOK
<1> QED
  BY <1>1, <1>3, <1>4, <1>5, <1>6, <1>12, <1>13, <1>14 DEF LiveOK, TraysOK

\* Lemma: a launch whose thread does not start is lost, and so changes nothing.
LEMMA NoThreadStep ==
    ASSUME RuntimeInv, Waited, LiveOK, ResultsOK, EnqueueKernelNoThread PROVE LiveOK' /\ ResultsOK'
<1> DEFINE M == Mem(prog, lost)  N == Mem(prog, lost')
<1>0. /\ WaitsOK /\ SizesOK /\ ArgsOK /\ lost \subseteq 1 .. pc - 1 /\ ThreadsOK /\ CommandsOK /\ UnrunOK /\ IdleOK
      /\ prog \in Programs /\ Len(prog) \in Nat /\ pc \in Nat \ {0} /\ pc \in 1 .. Len(prog)
      /\ phase = "enqueue" /\ prog[pc].op = "exec" /\ prog[pc].task \in Task /\ prog[pc].array \in Array
  BY Basics DEF LiveOK, TraysOK, EnqueueKernelNoThread, RuntimeInv, PhaseOK, Cur
<1>1. /\ UNCHANGED << prog, devOf, kernel, args, queue, tray, launch, th_kernel, ran, finish, result, size, host >>
      /\ phase' = "call" /\ pc' = pc + 1 /\ pc' - 1 = pc
      /\ lost' = lost \cup {pc}
  BY <1>0 DEF EnqueueKernelNoThread, Return
<1>2. \A m \in 0 .. pc - 1 : N[m] = M[m]
  BY <1>0, <1>1, MemLosesLater
<1>3. \A t \in Task : N[pc][t] = M[pc - 1][t]
  <2>1. \A t \in Task : N[pc][t] = TrayAfter(prog, lost', pc, N[pc - 1], t)
    BY <1>0, MemTrays
  <2>2. N[pc - 1] = M[pc - 1] /\ pc \in lost'
    <3>1. pc - 1 \in 0 .. pc - 1 /\ pc \in lost'
      BY <1>0, <1>1
    <3> HIDE DEF M, N
    <3> QED BY <1>2, <3>1
  <2> HIDE DEF M, N
  <2> QED
    BY <1>0, <2>1, <2>2 DEF TrayAfter
<1>4. WaitsOK'
  <2> SUFFICES ASSUME NEW e \in 1 .. Len(prog), NEW w \in 1 .. Len(prog), e < w, w < pc + 1,
                      prog[e].op = "exec", Covers(w, prog[e].task)
               PROVE  ~Active(e)
    BY <1>1 DEF WaitsOK, Covers, Active
  <2>1. w # pc
    BY <1>0 DEF Covers
  <2> QED BY <1>0, <2>1 DEF WaitsOK
<1>5. SizesOK' /\ ArgsOK' /\ lost' \subseteq 1 .. pc' - 1
  <2>1. \A a \in Array : SizeAt(prog, a, pc + 1) = SizeAt(prog, a, pc)
    BY <1>0, SizeAtCall
  <2>2. SizesOK' /\ ArgsOK'
    BY <1>0, <1>1, <2>1 DEF SizesOK, ArgsOK
  <2>3. lost' \subseteq 1 .. pc
    <3>1. \A n \in lost : n \in 1 .. pc - 1
      BY <1>0
    <3>2. \A n \in 1 .. pc - 1 : n \in 1 .. pc
      BY <1>0
    <3>3. pc \in 1 .. pc
      BY <1>0
    <3> QED BY <1>1, <3>1, <3>2, <3>3
  <2> QED
    BY <1>1, <2>2, <2>3
<1>6. ThreadsOK'
  <2> SUFFICES ASSUME NEW e \in 1 .. Len(prog) PROVE ThreadOK(e)'
    BY <1>1 DEF ThreadsOK
  <2>1. ThreadOK(e)
    BY <1>0 DEF ThreadsOK
  <2> QED
    BY <1>0, <1>1, <2>1 DEF ThreadOK
<1>7. CommandsOK'
  <2> SUFFICES ASSUME NEW d \in Device, NEW c \in Range(queue[d]) PROVE CommandOK(c)'
    BY <1>0, <1>1 DEF CommandsOK
  <2>1. CommandOK(c) /\ c.op = "launch"
    BY <1>0, NoTransfer DEF CommandsOK
  <2>2. c.n \in 1 .. Len(prog) /\ launch[c.n] \in {"queued", "finishing"}
    BY <2>1 DEF CommandOK
  <2>3. c.n # pc
    BY <1>0, <2>2 DEF ThreadsOK, ThreadOK
  <2> QED
    BY <1>1, <2>1, <2>3 DEF CommandOK
<1>8. \A e \in 1 .. Len(prog) : Unrun(e)' <=> Unrun(e)
  BY <1>1 DEF Unrun, Completed
<1>9. \A t \in Task : ~Moved(t) /\ ~Moved(t)'
  BY <1>0, <1>1 DEF Moved
<1>10. UnrunOK'
  <2> SUFFICES ASSUME NEW e \in 1 .. Len(prog), Unrun(e)
               PROVE  /\ tray[prog[e].task] = N[e - 1][prog[e].task]
                      /\ N[pc][prog[e].task] = N[e][prog[e].task]
    BY <1>1, <1>8 DEF UnrunOK
  <2>1. e < pc /\ prog[e].task \in Task
    BY <1>0, UnrunActive
  <2>2. e - 1 \in 0 .. pc - 1 /\ e \in 0 .. pc - 1
    BY <1>0, <2>1
  <2>3. tray[prog[e].task] = M[e - 1][prog[e].task] /\ M[pc - 1][prog[e].task] = M[e][prog[e].task]
    BY <1>0 DEF UnrunOK
  <2> HIDE DEF M, N
  <2> QED
    BY <1>2, <1>3, <2>1, <2>2, <2>3
<1>11. IdleOK'
  <2> SUFFICES ASSUME NEW t \in Task, ~Busy(t)' PROVE tray[t] = N[pc][t]
    BY <1>1, <1>9 DEF IdleOK
  <2>1. ~Busy(t)
    BY <1>1, <1>8 DEF Busy
  <2> QED
    BY <1>0, <1>3, <1>9, <2>1 DEF IdleOK
<1>12. HostOK'
  BY <1>1 DEF HostOK
<1>13. ResultsOK'
  <2>1. ASSUME NEW c \in 1 .. Len(prog), prog[c].op = "read", c < pc + 1
        PROVE  result[c] = N[c - 1][prog[c].task]
    <3>1. c < pc /\ c - 1 \in 0 .. pc - 1
      BY <1>0, <2>1
    <3>2. result[c] = M[c - 1][prog[c].task]
      BY <2>1, <3>1 DEF ResultsOK
    <3> HIDE DEF M, N
    <3> QED BY <1>2, <3>1, <3>2
  <2> QED
    BY <1>1, <2>1 DEF ResultsOK
<1> QED
  BY <1>1, <1>4, <1>5, <1>6, <1>7, <1>10, <1>11, <1>12, <1>13 DEF LiveOK, TraysOK

----------------------------------------------------------------------------
(* The transfers                                                           *)

\* Lemma: the commands of the queues when one is added.
LEMMA EnqueueRange ==
    ASSUME RuntimeInv, CommandsOK, NEW t \in Task, NEW c \in Command, Enqueue(t, c),
           c \notin Range(queue[devOf[t]])
    PROVE  \A d \in Device :
              /\ Distinct(queue'[d])
              /\ Range(queue'[d]) = IF d = devOf[t] THEN Range(queue[d]) \cup {c} ELSE Range(queue[d])
<1>1. devOf[t] \in Device /\ queue \in [Device -> Seq(Command)]
  BY Basics
<1>2. \A d \in Device : queue'[d] = IF d = devOf[t] THEN Append(queue[d], c) ELSE queue[d]
  BY <1>1 DEF Enqueue
<1>3. ASSUME NEW d \in Device
      PROVE  /\ Distinct(queue'[d])
             /\ Range(queue'[d]) = IF d = devOf[t] THEN Range(queue[d]) \cup {c} ELSE Range(queue[d])
  <2>1. Distinct(queue[d]) /\ queue[d] \in Seq(Command)
    BY <1>1 DEF CommandsOK
  <2>2. CASE d = devOf[t]
    BY <1>2, <2>1, <2>2, RangeAppend
  <2>3. CASE d # devOf[t]
    BY <1>2, <2>1, <2>3
  <2> QED BY <2>2, <2>3
<1> QED
  BY <1>3

\* Lemma: once the command the rank waits for has run, the queues hold launches.
LEMMA OnlyLaunches ==
    ASSUME RuntimeInv, CommandsOK,
           \/ phase = "blocked" /\ Completed(Cur.task, Cmd(FirstCommand, pc, Cur.task))
           \/ phase = "blockedPut" /\ Completed(Cur.dst, Cmd("put", pc, Cur.dst))
    PROVE  \A d \in Device : \A c \in Range(queue[d]) : c.op = "launch"
<1> SUFFICES ASSUME NEW d \in Device, NEW c \in Range(queue[d]), c.op # "launch" PROVE FALSE
  OBVIOUS
<1>1. CommandOK(c) /\ devOf[c.task] = d
  BY Basics DEF CommandsOK
<1>2. CASE phase = "blocked"
  <2>1. c = Cmd(FirstCommand, pc, Cur.task) /\ c.task = Cur.task
    BY <1>1, <1>2 DEF CommandOK, Cmd
  <2> QED
    BY <1>1, <1>2, <2>1 DEF Completed
<1>3. CASE phase = "blockedPut"
  <2>1. c = Cmd("put", pc, Cur.dst) /\ c.task = Cur.dst
    BY <1>1, <1>3 DEF CommandOK, Cmd
  <2> QED
    BY <1>1, <1>3, <2>1 DEF Completed
<1> QED
  BY <1>2, <1>3

\* Lemma: when the rank adds a command of its own to the queues, which hold
\* launches, and waits for it, nothing has changed yet.
LEMMA StartTransfer ==
    ASSUME RuntimeInv, LiveOK, ResultsOK, pc <= Len(prog),
           NEW t \in Task, NEW c \in Command, Enqueue(t, c), c.op # "launch",
           \A d \in Device : \A b \in Range(queue[d]) : b.op = "launch",
           UNCHANGED << prog, devOf, pc, kernel, args, size, launch, th_kernel, ran, lost, finish, host, tray, result >>,
           \/ phase' = "blocked" /\ c = Cmd(FirstCommand, pc, Cur.task) /\ t = Cur.task /\ FirstCommand # "put"
           \/ /\ phase' = "blockedPut" /\ c = Cmd("put", pc, Cur.dst) /\ t = Cur.dst
              /\ host = Mem(prog, lost)[pc - 1][Cur.task],
           \A u \in Task : ~Moved(u)
    PROVE  LiveOK' /\ ResultsOK'
<1>0. /\ WaitsOK /\ SizesOK /\ ThreadsOK /\ CommandsOK /\ UnrunOK /\ IdleOK
      /\ devOf[t] \in Device
  BY Basics DEF LiveOK, TraysOK
<1>1. c \notin Range(queue[devOf[t]])
  BY <1>0
<1>2. \A d \in Device :
         /\ Distinct(queue'[d])
         /\ Range(queue'[d]) = IF d = devOf[t] THEN Range(queue[d]) \cup {c} ELSE Range(queue[d])
  BY <1>0, <1>1, EnqueueRange
<1>3. WaitsOK' /\ SizesOK' /\ ArgsOK' /\ (lost \subseteq 1 .. pc - 1)'
  BY <1>0 DEF WaitsOK, SizesOK, ArgsOK, Active, Covers, LiveOK
<1>4. ThreadsOK'
  BY <1>0 DEF ThreadsOK, ThreadOK
<1>5. Cur' = Cur /\ FirstCommand' = FirstCommand
  BY DEF Cur, FirstCommand
<1>6. CommandsOK'
  <2> SUFFICES ASSUME NEW d \in Device, NEW b \in Range(queue'[d]) PROVE CommandOK(b)'
    BY <1>2 DEF CommandsOK
  <2>1. CASE b = c
    BY <1>5, <2>1 DEF CommandOK, Cmd
  <2>2. CASE b # c
    <3>1. b \in Range(queue[d])
      BY <1>2, <2>2
    <3>2. CommandOK(b) /\ b.op = "launch"
      BY <1>0, <3>1 DEF CommandsOK
    <3> QED
      BY <3>2 DEF CommandOK
  <2> QED BY <2>1, <2>2
<1>7. ASSUME NEW e \in 1 .. Len(prog) PROVE Unrun(e)' <=> Unrun(e)
  <2>1. prog[e].op = "exec" => devOf[prog[e].task] \in Device
    BY Basics
  <2>2. Cmd("launch", e, prog[e].task) # c
    BY DEF Cmd
  <2> QED
    BY <1>2, <2>1, <2>2 DEF Unrun, Completed
<1>8. UnrunOK'
  BY <1>0, <1>7 DEF UnrunOK
<1>9. c \in Range(queue'[devOf[t]])
  BY <1>0, <1>2
<1>10. IdleOK'
  <2>1. \A u \in Task : ~Moved(u)'
    BY <1>5, <1>9 DEF Moved, Completed
  <2>2. \A u \in Task : Busy(u)' <=> Busy(u)
    BY <1>7 DEF Busy
  <2> QED
    BY <1>0, <2>1, <2>2 DEF IdleOK
<1>11. HostOK'
  BY <1>5, <1>9 DEF HostOK, Completed
<1>12. ResultsOK'
  BY DEF ResultsOK
<1> QED
  BY <1>3, <1>4, <1>6, <1>8, <1>10, <1>11, <1>12 DEF LiveOK, TraysOK

\* Lemma: starting a transfer keeps the invariant.
LEMMA TransferStep ==
    ASSUME RuntimeInv, Waited, LiveOK, ResultsOK, Transfer PROVE LiveOK' /\ ResultsOK'
<1>1. phase = "call" /\ pc <= Len(prog) /\ Cur.op \in {"read", "write", "copy"} /\ Cur.task \in Task /\ pc \in Pos
  BY Basics DEF Transfer, AtCall, Cur
<1> DEFINE c == Cmd(FirstCommand, pc, Cur.task)
<1>2. c \in Command /\ c.op # "launch" /\ FirstCommand # "put"
  BY <1>1 DEF Cmd, Command, Ops, FirstCommand
<1>3. /\ Enqueue(Cur.task, c) /\ phase' = "blocked"
      /\ UNCHANGED << prog, devOf, pc, kernel, args, size, launch, th_kernel, ran, lost, finish, host, tray, result >>
  BY DEF Transfer, Goto, threadVars
<1> QED
  BY <1>1, <1>2, <1>3, NoTransfer, StartTransfer

\* Lemma: the end of a transfer, or of the first half of a copy between devices,
\* keeps the invariant.
LEMMA TransferDoneStep ==
    ASSUME RuntimeInv, Waited, LiveOK, ResultsOK, TransferDone PROVE LiveOK' /\ ResultsOK'
<1> DEFINE M == Mem(prog, lost)
<1>0. /\ phase = "blocked" /\ Completed(Cur.task, Cmd(FirstCommand, pc, Cur.task))
      /\ pc \in 1 .. Len(prog) /\ pc <= Len(prog) /\ pc \in Pos /\ Cur.op \in {"read", "write", "copy"}
      /\ CommandsOK /\ IdleOK /\ HostOK /\ prog \in Programs
  BY Basics DEF TransferDone, RuntimeInv, PhaseOK, LiveOK, TraysOK
<1>1. \A d \in Device : \A c \in Range(queue[d]) : c.op = "launch"
  BY <1>0, OnlyLaunches
<1>2. CASE FirstCommand # Cur.op
  <2>1. Cur.op = "copy" /\ FirstCommand = "read" /\ Cur.dst \in Task
    BY <1>0, <1>2, Basics DEF FirstCommand, Cur
  <2> DEFINE c == Cmd("put", pc, Cur.dst)
  <2>2. c \in Command /\ c.op # "launch"
    BY <1>0, <2>1 DEF Cmd, Command, Ops
  <2>3. /\ Enqueue(Cur.dst, c) /\ phase' = "blockedPut"
        /\ UNCHANGED << prog, devOf, pc, kernel, args, size, launch, th_kernel, ran, lost, finish, host, tray, result >>
    BY <1>2 DEF TransferDone, Goto, threadVars
  <2>4. host = M[pc - 1][Cur.task]
    BY <1>0, <2>1 DEF HostOK
  <2>5. \A u \in Task : ~Moved(u)
    BY <1>0, <2>1 DEF Moved
  <2> QED
    BY <1>0, <1>1, <2>1, <2>2, <2>3, <2>4, <2>5, StartTransfer
<1>3. CASE FirstCommand = Cur.op
  <2>1. /\ UNCHANGED << prog, devOf, args, queue, tray, launch, th_kernel, ran, lost, finish, result, size >>
        /\ phase' = "call" /\ pc' = pc + 1
    BY <1>3 DEF TransferDone, Return, threadVars
  <2>2. \A t : ~Covers(pc, t)
    BY <1>0 DEF Covers, Cur
  <2>3. \A t \in Task : M[pc][t] = TrayAfter(prog, lost, pc, M[pc - 1], t)
    BY <1>0, MemTrays
  <2>4. ASSUME NEW t \in Task, ~Busy(t) PROVE tray[t] = M[pc][t]
    <3>1. tray[t] = IF Moved(t) THEN M[pc][t] ELSE M[pc - 1][t]
      BY <1>0, <2>4 DEF IdleOK
    <3>2. ~Moved(t) => M[pc][t] = M[pc - 1][t]
      BY <1>0, <1>3, <2>3 DEF Moved, TrayAfter, Cur
    <3> QED BY <3>1, <3>2
  <2>5. Cur.op = "read" => result[pc] = M[pc - 1][Cur.task]
    BY <1>0, <1>3 DEF HostOK
  <2> QED
    BY <1>0, <1>1, <2>1, <2>2, <2>4, <2>5, Advance
<1> QED
  BY <1>2, <1>3

\* Lemma: the end of a copy between devices keeps the invariant.
LEMMA PutDoneStep ==
    ASSUME RuntimeInv, Waited, LiveOK, ResultsOK, PutDone PROVE LiveOK' /\ ResultsOK'
<1> DEFINE M == Mem(prog, lost)
<1>0. /\ phase = "blockedPut" /\ Completed(Cur.dst, Cmd("put", pc, Cur.dst))
      /\ pc \in 1 .. Len(prog) /\ pc <= Len(prog) /\ pc \in Pos /\ Cur.op = "copy"
      /\ CommandsOK /\ IdleOK /\ prog \in Programs
  BY Basics DEF PutDone, RuntimeInv, PhaseOK, LiveOK, TraysOK
<1>1. \A d \in Device : \A c \in Range(queue[d]) : c.op = "launch"
  BY <1>0, OnlyLaunches
<1>2. /\ UNCHANGED << prog, devOf, args, queue, tray, launch, th_kernel, ran, lost, finish, result, size >>
      /\ phase' = "call" /\ pc' = pc + 1
  BY DEF PutDone, Return, threadVars
<1>3. \A t : ~Covers(pc, t)
  BY <1>0 DEF Covers, Cur
<1>4. \A t \in Task : M[pc][t] = TrayAfter(prog, lost, pc, M[pc - 1], t)
  BY <1>0, MemTrays
<1>5. ASSUME NEW t \in Task, ~Busy(t) PROVE tray[t] = M[pc][t]
  <2>1. tray[t] = IF Moved(t) THEN M[pc][t] ELSE M[pc - 1][t]
    BY <1>0, <1>5 DEF IdleOK
  <2>2. ~Moved(t) => M[pc][t] = M[pc - 1][t]
    BY <1>0, <1>4 DEF Moved, TrayAfter, Cur
  <2> QED BY <2>1, <2>2
<1> QED
  BY <1>0, <1>1, <1>2, <1>3, <1>5, Advance

----------------------------------------------------------------------------
(* The threads                                                             *)

\* Lemma: a tray that waits for a launch is not used by the current call.
LEMMA UnrunNotUsed ==
    ASSUME RuntimeInv, Waited, WaitsOK, ThreadsOK, CommandsOK, NEW e \in 1 .. Len(prog), Unrun(e)
    PROVE  /\ ~Moved(prog[e].task)
           /\ phase \in {"blocked", "blockedPut"} => Cur.task # prog[e].task
           /\ phase \in {"blocked", "blockedPut"} /\ Cur.op = "copy" => Cur.dst # prog[e].task
<1>1. CASE phase \in {"blocked", "blockedPut"}
  <2>1. pc <= Len(prog) /\ Cur.op \in {"read", "write", "copy"} /\ (phase = "blockedPut" => Cur.op = "copy")
    BY <1>1 DEF RuntimeInv, PhaseOK
  <2>2. ~Uses(prog, pc, e)
    BY <2>1, UnrunAlone
  <2>3. Cur.task # prog[e].task /\ (Cur.op = "copy" => Cur.dst # prog[e].task)
    BY <2>1, <2>2 DEF Uses, Cur
  <2> QED
    BY <2>1, <2>3 DEF Moved, FirstCommand
<1>2. CASE phase \notin {"blocked", "blockedPut"}
  BY <1>2 DEF Moved
<1> QED
  BY <1>1, <1>2

\* The current call has read its tray.
HasRead == phase = "blocked" /\ FirstCommand = "read" /\ Completed(Cur.task, Cmd("read", pc, Cur.task))

\* Lemma: where the rank is does not depend on the commands of launches.
LEMMA SameRank ==
    ASSUME RuntimeInv, UNCHANGED << prog, devOf, pc, phase >>,
           \A d \in Device : \A b : b.op # "launch" => (b \in Range(queue'[d]) <=> b \in Range(queue[d]))
    PROVE  /\ \A t \in Task : Moved(t)' <=> Moved(t)
           /\ HasRead' <=> HasRead
<1>1. Cur' = Cur /\ FirstCommand' = FirstCommand
  BY DEF Cur, FirstCommand
<1>2. CASE phase = "blocked"
  <2>1. /\ pc <= Len(prog) /\ Cur.op \in {"read", "write", "copy"} /\ FirstCommand # "launch"
        /\ devOf[Cur.task] \in Device
    BY <1>2, Basics DEF RuntimeInv, PhaseOK, FirstCommand, Cur
  <2>2. Cmd(FirstCommand, pc, Cur.task).op # "launch" /\ Cmd("read", pc, Cur.task).op # "launch"
    BY <2>1 DEF Cmd
  <2> QED
    BY <1>1, <1>2, <2>1, <2>2 DEF Moved, HasRead, Completed
<1>3. CASE phase = "blockedPut"
  <2>1. pc <= Len(prog) /\ Cur.op = "copy" /\ devOf[Cur.dst] \in Device
    BY <1>3, Basics DEF RuntimeInv, PhaseOK, Cur
  <2>2. Cmd("put", pc, Cur.dst).op # "launch"
    BY DEF Cmd
  <2> QED
    BY <1>1, <1>3, <2>1, <2>2 DEF Moved, HasRead, Completed
<1>4. CASE phase \notin {"blocked", "blockedPut"}
  BY <1>4 DEF Moved, HasRead
<1> QED
  BY <1>2, <1>3, <1>4

\* Lemma: a launch is enqueued with the kernel, the arguments and the sizes of its
\* call, and keeps the invariant.
LEMMA ThreadEnqueueStep ==
    ASSUME RuntimeInv, Waited, LiveOK, ResultsOK, NEW e \in 1 .. MaxCalls, ThreadEnqueue(e)
    PROVE  LiveOK' /\ ResultsOK'
<1>0. /\ WaitsOK /\ SizesOK /\ ArgsOK /\ lost \subseteq 1 .. pc - 1 /\ ThreadsOK /\ CommandsOK
      /\ UnrunOK /\ IdleOK /\ HostOK /\ DOMAIN finish = Pos
  BY DEF LiveOK, TraysOK
<1>1. e \in Pos /\ launch[e] = "created"
  BY TaskRuntimeAssumption DEF Pos, ThreadEnqueue
<1>2. e \in 1 .. Len(prog) /\ prog[e].op = "exec" /\ th_kernel[e] = LastCreate(prog, e)
  BY <1>1 DEF RuntimeInv, LaunchOK
<1>3. prog[e].task \in Task /\ devOf[prog[e].task] \in Device
  BY <1>2, Basics
<1>4. UNCHANGED << prog, devOf, pc, phase, kernel, args, size, th_kernel, lost, finish, host, tray, result >>
  BY DEF ThreadEnqueue
<1>5. /\ launch'[e] = "queued" /\ ran'[e] = << e, th_kernel[e], args[th_kernel[e]][prog[e].task], size[prog[e].array] >>
      /\ \A f \in 1 .. Len(prog) : f # e => launch'[f] = launch[f] /\ ran'[f] = ran[f]
  BY <1>1, Basics DEF ThreadEnqueue, RuntimeInv, TypeOK
<1> DEFINE c == Cmd("launch", e, prog[e].task)
<1>6. c \in Command /\ c.op = "launch" /\ c.n = e /\ c.task = prog[e].task
  BY <1>1, <1>3 DEF Cmd, Command, Ops
<1>7. \A d \in Device : \A b \in Range(queue[d]) : CommandOK(b) /\ (b.op = "launch" => b.n # e)
  BY <1>0, <1>1 DEF CommandsOK, CommandOK
<1>8. c \notin Range(queue[devOf[prog[e].task]])
  BY <1>3, <1>6, <1>7
<1>9. Enqueue(prog[e].task, c)
  BY DEF ThreadEnqueue
<1>10. \A d \in Device :
         /\ Distinct(queue'[d])
         /\ Range(queue'[d]) = IF d = devOf[prog[e].task] THEN Range(queue[d]) \cup {c} ELSE Range(queue[d])
  <2> HIDE DEF c
  <2> QED BY <1>0, <1>3, <1>6, <1>8, <1>9, EnqueueRange
<1>11. \A f \in 1 .. Len(prog) : Active(f)' <=> Active(f)
  BY <1>1, <1>5 DEF Active
<1>12. WaitsOK' /\ SizesOK' /\ ArgsOK'
  BY <1>0, <1>4, <1>11 DEF WaitsOK, SizesOK, ArgsOK, Covers, Cur
<1>13. ThreadsOK'
  <2> SUFFICES ASSUME NEW f \in 1 .. Len(prog) PROVE ThreadOK(f)'
    BY <1>4 DEF ThreadsOK
  <2>1. ThreadOK(f) /\ ThreadOK(e)
    BY <1>0, <1>2 DEF ThreadsOK
  <2>2. CASE f = e
    <3>1. ran'[e] = Work(prog, e)
      BY <1>1, <1>2, <1>5, <2>1 DEF ThreadOK, Work
    <3> QED
      BY <1>1, <1>4, <1>5, <2>1, <2>2, <3>1 DEF ThreadOK
  <2>3. CASE f # e
    BY <1>4, <1>5, <2>1, <2>3 DEF ThreadOK
  <2> QED BY <2>2, <2>3
<1>14. CommandsOK'
  <2> SUFFICES ASSUME NEW d \in Device, NEW b \in Range(queue'[d]) PROVE CommandOK(b)'
    BY <1>10 DEF CommandsOK
  <2>1. CASE b = c
    <3>1. e \notin lost
      BY <1>0, <1>1, <1>2 DEF ThreadsOK, ThreadOK
    <3> HIDE DEF c
    <3> QED
      BY <1>2, <1>4, <1>5, <1>6, <2>1, <3>1 DEF CommandOK
  <2>2. CASE b # c
    <3>1. b \in Range(queue[d])
      <4> HIDE DEF c
      <4> QED BY <1>10, <2>2
    <3>2. CommandOK(b) /\ (b.op = "launch" => b.n # e)
      BY <1>7, <3>1
    <3>3. CASE b.op = "launch"
      BY <1>4, <1>5, <3>2, <3>3 DEF CommandOK
    <3>4. CASE b.op # "launch"
      BY <1>4, <3>2, <3>4 DEF CommandOK, FirstCommand, Cur
    <3> QED BY <3>3, <3>4
  <2> QED BY <2>1, <2>2
<1>15. ASSUME NEW f \in 1 .. Len(prog) PROVE Unrun(f)' <=> Unrun(f)
  <2>1. CASE f = e
    <3>1. Unrun(e)
      BY <1>1, <1>2 DEF Unrun
    <3>2. c \in Range(queue'[devOf[prog[e].task]])
      <4> HIDE DEF c
      <4> QED BY <1>3, <1>10
    <3>3. Unrun(f)'
      BY <1>2, <1>4, <2>1, <3>2 DEF Unrun, Completed
    <3> QED BY <2>1, <3>1, <3>3
  <2>2. CASE f # e
    <3>1. Cmd("launch", f, prog[f].task) # c
      BY <2>2 DEF Cmd
    <3>2. prog[f].op = "exec" => devOf[prog[f].task] \in Device
      BY Basics
    <3> HIDE DEF c
    <3> QED
      BY <1>4, <1>5, <1>10, <2>2, <3>1, <3>2, ZenonT(60) DEF Unrun, Completed
  <2> QED BY <2>1, <2>2
<1>16. \A d \in Device : \A b : b.op # "launch" => (b \in Range(queue'[d]) <=> b \in Range(queue[d]))
  <2> HIDE DEF c
  <2> QED BY <1>6, <1>10
<1>17. (\A t \in Task : Moved(t)' <=> Moved(t)) /\ (HasRead' <=> HasRead)
  BY <1>4, <1>16, SameRank
<1>18. UnrunOK'
  BY <1>0, <1>4, <1>15 DEF UnrunOK
<1>19. IdleOK'
  <2>1. \A t \in Task : Busy(t)' <=> Busy(t)
    BY <1>4, <1>15 DEF Busy
  <2> QED
    BY <1>0, <1>4, <1>17, <2>1 DEF IdleOK
<1>20. HostOK' /\ ResultsOK'
  BY <1>0, <1>4, <1>17 DEF HostOK, ResultsOK, HasRead, Cur
<1> QED
  BY <1>0, <1>4, <1>12, <1>13, <1>14, <1>18, <1>19, <1>20 DEF LiveOK, TraysOK

\* Lemma: a launch that cannot be enqueued is lost, which undoes it in the memory of
\* the program; no call so far has used its tray.
LEMMA ThreadEnqueueErrorStep ==
    ASSUME RuntimeInv, Waited, LiveOK, ResultsOK, NEW e \in 1 .. MaxCalls, ThreadEnqueueError(e)
    PROVE  LiveOK' /\ ResultsOK'
<1> DEFINE M == Mem(prog, lost)  N == Mem(prog, lost')
<1>0. /\ WaitsOK /\ SizesOK /\ ArgsOK /\ lost \subseteq 1 .. pc - 1 /\ ThreadsOK /\ CommandsOK
      /\ UnrunOK /\ IdleOK /\ HostOK /\ DOMAIN finish = Pos
      /\ prog \in Programs /\ Len(prog) \in Nat /\ pc \in Nat \ {0} /\ pc <= Len(prog) + 1
  BY Basics DEF LiveOK, TraysOK
<1>1. e \in Pos /\ launch[e] = "created"
  BY TaskRuntimeAssumption DEF Pos, ThreadEnqueueError
<1>2. e \in 1 .. Len(prog) /\ prog[e].op = "exec"
  BY <1>1 DEF RuntimeInv, LaunchOK
<1>3. Unrun(e) /\ Active(e) /\ e < pc /\ e \notin lost /\ prog[e].task \in Task
  BY <1>0, <1>1, <1>2, UnrunActive DEF Unrun
<1>4. /\ UNCHANGED << prog, devOf, pc, phase, kernel, args, size, th_kernel, ran, finish, queue, host, tray, result >>
      /\ lost' = lost \cup {e}
  BY DEF ThreadEnqueueError
<1>5. /\ launch'[e] = "queued"
      /\ \A f \in 1 .. Len(prog) : f # e => launch'[f] = launch[f]
  BY <1>1, Basics DEF ThreadEnqueueError, RuntimeInv, TypeOK
<1>6. \A m \in 0 .. e - 1 : N[m] = M[m]
  BY <1>0, <1>2, <1>4, MemLosesLater
<1>7. ASSUME NEW m \in e .. Len(prog), m <= pc, NEW t \in Task
      PROVE  N[m][t] = IF t = prog[e].task THEN M[e - 1][t] ELSE M[m][t]
  <2>1. \A c \in e + 1 .. m : ~Uses(prog, c, e)
    <3> SUFFICES ASSUME NEW c \in e + 1 .. m PROVE ~Uses(prog, c, e)
      OBVIOUS
    <3>1. c \in 1 .. Len(prog) /\ e < c /\ c <= pc
      BY <1>0, <1>2, <1>7
    <3> QED BY <1>0, <1>2, <1>3, <3>1, Quiet
  <2> QED
    BY <1>0, <1>2, <1>4, <2>1, MemLoses, SMTT(30)
<1>8. ASSUME NEW m \in 0 .. Len(prog), m <= pc, NEW t \in Task, t # prog[e].task PROVE N[m][t] = M[m][t]
  <2>1. CASE m < e
    <3>1. m \in 0 .. e - 1
      BY <1>2, <2>1
    <3> HIDE DEF M, N
    <3> QED BY <1>6, <3>1
  <2>2. CASE m >= e
    <3>1. m \in e .. Len(prog)
      BY <1>0, <1>2, <2>2
    <3> HIDE DEF M, N
    <3> QED BY <1>7, <1>8, <3>1
  <2> QED BY <1>2, <2>1, <2>2
<1> HIDE DEF M, N
<1>9. WaitsOK' /\ SizesOK' /\ ArgsOK'
  <2>1. \A f \in 1 .. Len(prog) : Active(f)' <=> Active(f)
    BY <1>1, <1>5 DEF Active
  <2> QED
    BY <1>0, <1>4, <2>1 DEF WaitsOK, SizesOK, ArgsOK, Covers, Cur
<1>10. lost' \subseteq 1 .. pc' - 1
  <2>1. e \in 1 .. pc - 1
    BY <1>0, <1>2, <1>3
  <2> QED BY <1>0, <1>4, <2>1
<1>11. ThreadsOK'
  <2> SUFFICES ASSUME NEW f \in 1 .. Len(prog) PROVE ThreadOK(f)'
    BY <1>4 DEF ThreadsOK
  <2>1. ThreadOK(f)
    BY <1>0 DEF ThreadsOK
  <2>2. CASE f = e
    BY <1>3, <1>4, <1>5, <2>2 DEF ThreadOK
  <2>3. CASE f # e
    BY <1>4, <1>5, <2>1, <2>3 DEF ThreadOK
  <2> QED BY <2>2, <2>3
<1>12. CommandsOK'
  <2> SUFFICES ASSUME NEW d \in Device, NEW b \in Range(queue[d]) PROVE CommandOK(b)'
    BY <1>0, <1>4 DEF CommandsOK
  <2>1. CommandOK(b) /\ (b.op = "launch" => b.n # e)
    BY <1>0, <1>1 DEF CommandsOK, CommandOK
  <2>2. CASE b.op = "launch"
    BY <1>4, <1>5, <2>1, <2>2 DEF CommandOK
  <2>3. CASE b.op # "launch"
    BY <1>4, <2>1, <2>3 DEF CommandOK, FirstCommand, Cur
  <2> QED BY <2>2, <2>3
<1>13. (\A t \in Task : Moved(t)' <=> Moved(t)) /\ (HasRead' <=> HasRead)
  BY <1>4, SameRank
<1>14. \A f \in 1 .. Len(prog) : f # e => (Unrun(f)' <=> Unrun(f))
  BY <1>4, <1>5 DEF Unrun, Completed
<1>15. \A f \in 1 .. Len(prog) : f = e => ~Unrun(f)'
  <2>1. \A d \in Device : \A b \in Range(queue[d]) : b.op = "launch" => b.n # e
    BY <1>0, <1>1 DEF CommandsOK, CommandOK
  <2>2. devOf[prog[e].task] \in Device
    BY <1>3, Basics
  <2>3. Completed(prog[e].task, Cmd("launch", e, prog[e].task))
    BY <2>1, <2>2 DEF Completed, Cmd
  <2> QED
    BY <1>4, <1>5, <2>3 DEF Unrun, Completed
<1>16. \A f \in 1 .. Len(prog) : Unrun(f) /\ f # e => prog[f].task # prog[e].task /\ f < pc /\ prog[f].task \in Task
  BY <1>0, <1>2, <1>3, UnrunAlone, UnrunActive
<1>17. UnrunOK'
  <2> SUFFICES ASSUME NEW f \in 1 .. Len(prog), Unrun(f), f # e
               PROVE  /\ tray[prog[f].task] = N[f - 1][prog[f].task]
                      /\ N[pc - 1][prog[f].task] = N[f][prog[f].task]
    BY <1>4, <1>14, <1>15 DEF UnrunOK, N
  <2>1. tray[prog[f].task] = M[f - 1][prog[f].task] /\ M[pc - 1][prog[f].task] = M[f][prog[f].task]
    BY <1>0 DEF UnrunOK, M
  <2>2. f - 1 \in 0 .. Len(prog) /\ f \in 0 .. Len(prog) /\ pc - 1 \in 0 .. Len(prog) /\ f <= pc /\ f - 1 <= pc /\ pc - 1 <= pc
    BY <1>0, <1>16
  <2> QED
    BY <1>8, <1>16, <2>1, <2>2
<1>18. IdleOK'
  <2> SUFFICES ASSUME NEW t \in Task, ~Busy(t)'
               PROVE  tray[t] = IF Moved(t) THEN N[pc][t] ELSE N[pc - 1][t]
    BY <1>4, <1>13 DEF IdleOK, N
  <2>0. pc - 1 \in 0 .. Len(prog) /\ pc - 1 <= pc /\ pc <= pc
    BY <1>0
  <2>1. CASE t = prog[e].task
    <3>1. ~Moved(t)
      BY <1>0, <1>2, <1>3, <2>1, UnrunNotUsed
    <3>2. tray[t] = M[e - 1][t]
      BY <1>0, <1>2, <1>3, <2>1 DEF UnrunOK, M
    <3>3. pc - 1 \in e .. Len(prog)
      BY <1>0, <1>2, <1>3
    <3> QED BY <1>7, <2>0, <2>1, <3>1, <3>2, <3>3
  <2>2. CASE t # prog[e].task
    <3>1. ~Busy(t)
      BY <1>4, <1>14, <2>2 DEF Busy
    <3>2. tray[t] = IF Moved(t) THEN M[pc][t] ELSE M[pc - 1][t]
      BY <1>0, <3>1 DEF IdleOK, M
    <3>3. Moved(t) => pc \in 0 .. Len(prog)
      BY <1>0 DEF Moved, RuntimeInv, PhaseOK
    <3> QED BY <1>8, <2>0, <2>2, <3>2, <3>3
  <2> QED BY <2>1, <2>2
<1>19. HostOK'
  <2>1. CASE phase \in {"blocked", "blockedPut"}
    <3>1. Cur.task # prog[e].task /\ Cur.task \in Task
      BY <1>0, <1>2, <1>3, <2>1, UnrunNotUsed, Basics DEF RuntimeInv, PhaseOK, Cur
    <3>2. pc - 1 \in 0 .. Len(prog) /\ pc - 1 <= pc
      BY <1>0
    <3>3. N[pc - 1][Cur.task] = M[pc - 1][Cur.task]
      BY <1>8, <3>1, <3>2
    <3> QED
      BY <1>0, <1>4, <1>13, <3>3 DEF HostOK, HasRead, Cur, M, N
  <2>2. CASE phase \notin {"blocked", "blockedPut"}
    BY <1>4, <2>2 DEF HostOK
  <2> QED BY <2>1, <2>2
<1>20. ResultsOK'
  <2>1. ASSUME NEW c \in 1 .. Len(prog), prog[c].op = "read", c < pc
        PROVE  result[c] = N[c - 1][prog[c].task]
    <3>1. result[c] = M[c - 1][prog[c].task] /\ prog[c].task \in Task
      BY <2>1, Basics DEF ResultsOK, M
    <3>2. CASE c <= e
      <4>1. c - 1 \in 0 .. e - 1
        BY <1>2, <3>2
      <4> QED BY <1>6, <3>1, <4>1
    <3>3. CASE e < c
      <4>1. ~Uses(prog, c, e)
        BY <1>0, <1>2, <1>3, <2>1, <3>3, Quiet
      <4>2. prog[c].task # prog[e].task
        BY <2>1, <4>1 DEF Uses
      <4>3. c - 1 \in 0 .. Len(prog) /\ c - 1 <= pc
        BY <1>0, <2>1
      <4> QED BY <1>8, <3>1, <4>2, <4>3
    <3> QED BY <1>2, <3>2, <3>3
  <2> QED
    BY <1>4, <2>1 DEF ResultsOK, N
<1> QED
  BY <1>0, <1>4, <1>9, <1>10, <1>11, <1>12, <1>17, <1>18, <1>19, <1>20 DEF LiveOK, TraysOK

\* Lemma: the clFinish of a thread, from its start to its return, keeps the
\* invariant: it waits for the thread's own command among those in the queue.
LEMMA ThreadFinishStep ==
    ASSUME RuntimeInv, Waited, LiveOK, ResultsOK, NEW e \in 1 .. MaxCalls, ThreadFinish(e) \/ ThreadExit(e)
    PROVE  LiveOK' /\ ResultsOK'
<1>0. /\ WaitsOK /\ SizesOK /\ ArgsOK /\ lost \subseteq 1 .. pc - 1 /\ ThreadsOK /\ CommandsOK
      /\ UnrunOK /\ IdleOK /\ HostOK /\ DOMAIN finish = Pos
  BY DEF LiveOK, TraysOK
<1>1. e \in Pos /\ launch[e] \in {"queued", "finishing"}
  BY TaskRuntimeAssumption DEF Pos, ThreadFinish, ThreadExit
<1>2. e \in 1 .. Len(prog) /\ prog[e].op = "exec"
  BY <1>1 DEF RuntimeInv, LaunchOK
<1>3. UNCHANGED << prog, devOf, pc, phase, kernel, args, size, th_kernel, ran, lost, queue, host, tray, result >>
  BY DEF ThreadFinish, ThreadExit
<1>4. /\ launch'[e] \in {"finishing", "done"} /\ DOMAIN finish' = Pos
      /\ \A f \in 1 .. Len(prog) : f # e => launch'[f] = launch[f] /\ finish'[f] = finish[f]
  BY <1>0, <1>1, Basics DEF ThreadFinish, ThreadExit, RuntimeInv, TypeOK
<1>5. WaitsOK' /\ SizesOK' /\ ArgsOK'
  <2>1. \A f \in 1 .. Len(prog) : Active(f)' => Active(f)
    BY <1>1, <1>4 DEF Active
  <2> QED
    BY <1>0, <1>3, <2>1 DEF WaitsOK, SizesOK, ArgsOK, Covers, Cur
<1>6. ThreadsOK'
  <2> SUFFICES ASSUME NEW f \in 1 .. Len(prog) PROVE ThreadOK(f)'
    BY <1>3 DEF ThreadsOK
  <2>1. ThreadOK(f)
    BY <1>0 DEF ThreadsOK
  <2> QED
    BY <1>1, <1>3, <1>4, <2>1 DEF ThreadOK
<1>7. CommandsOK'
  <2> SUFFICES ASSUME NEW d \in Device, NEW b \in Range(queue[d]) PROVE CommandOK(b)'
    BY <1>0, <1>3 DEF CommandsOK
  <2>1. CommandOK(b) /\ devOf[b.task] = d
    BY <1>0, Basics DEF CommandsOK
  <2>2. CASE b.op = "launch" /\ b.n = e
    <3>1. b.task = prog[e].task
      BY <2>1, <2>2 DEF CommandOK
    <3>2. CASE ThreadFinish(e)
      <4>1. launch'[e] = "finishing" /\ finish'[e] = Range(queue[d])
        BY <1>0, <1>1, <2>1, <3>1, <3>2 DEF ThreadFinish, RuntimeInv, TypeOK
      <4> QED
        BY <1>3, <2>1, <2>2, <4>1 DEF CommandOK
    <3>3. CASE ThreadExit(e)
      <4>1. launch[e] = "finishing" /\ b \in finish[e]
        BY <2>1, <2>2, <3>3 DEF ThreadExit, CommandOK
      <4>2. b \notin Range(queue[d])
        BY <2>1, <3>1, <3>3, <4>1 DEF ThreadExit, Completed
      <4> QED BY <4>2
    <3> QED BY <3>2, <3>3
  <2>3. CASE b.op = "launch" /\ b.n # e
    BY <1>3, <1>4, <2>1, <2>3 DEF CommandOK
  <2>4. CASE b.op # "launch"
    BY <1>3, <2>1, <2>4 DEF CommandOK, FirstCommand, Cur
  <2> QED BY <2>2, <2>3, <2>4
<1>8. \A f \in 1 .. Len(prog) : Unrun(f)' <=> Unrun(f)
  BY <1>1, <1>3, <1>4 DEF Unrun, Completed
<1>9. (\A t \in Task : Moved(t)' <=> Moved(t)) /\ (HasRead' <=> HasRead)
  BY <1>3, SameRank
<1>10. UnrunOK'
  BY <1>0, <1>3, <1>8 DEF UnrunOK
<1>11. IdleOK'
  <2>1. \A t \in Task : Busy(t)' <=> Busy(t)
    BY <1>3, <1>8 DEF Busy
  <2> QED
    BY <1>0, <1>3, <1>9, <2>1 DEF IdleOK
<1>12. HostOK' /\ ResultsOK'
  BY <1>0, <1>3, <1>9 DEF HostOK, ResultsOK, HasRead, Cur
<1> QED
  BY <1>0, <1>3, <1>4, <1>5, <1>6, <1>7, <1>10, <1>11, <1>12 DEF LiveOK, TraysOK

----------------------------------------------------------------------------
(* The devices                                                             *)

\* Lemma: the commands of the queues when a device takes its oldest one.
LEMMA DequeueRange ==
    ASSUME RuntimeInv, CommandsOK, NEW d \in Device, queue[d] # << >>,
           queue' = [queue EXCEPT ![d] = Tail(queue[d])]
    PROVE  /\ Head(queue[d]) \in Range(queue[d])
           /\ \A x \in Device :
                 /\ Distinct(queue'[x])
                 /\ Range(queue'[x]) = IF x = d THEN Range(queue[x]) \ {Head(queue[d])} ELSE Range(queue[x])
<1>1. queue \in [Device -> Seq(Command)] /\ \A x \in Device : Distinct(queue[x])
  BY Basics DEF CommandsOK
<1>2. \A x \in Device : queue'[x] = IF x = d THEN Tail(queue[x]) ELSE queue[x]
  BY <1>1
<1>3. /\ Range(Tail(queue[d])) = Range(queue[d]) \ {Head(queue[d])}
      /\ Distinct(Tail(queue[d])) /\ Head(queue[d]) \in Range(queue[d])
  BY <1>1, RangeTail
<1> QED
  BY <1>1, <1>2, <1>3

\* Lemma: taking a command from a queue keeps what does not depend on the trays.
LEMMA DeviceFrame ==
    ASSUME RuntimeInv, LiveOK, NEW d \in Device, DeviceRun(d)
    PROVE  /\ WaitsOK' /\ SizesOK' /\ ArgsOK' /\ lost' \subseteq 1 .. pc' - 1 /\ ThreadsOK' /\ CommandsOK'
           /\ DOMAIN finish' = Pos
           /\ UNCHANGED << prog, devOf, pc, phase, launch, ran, lost >>
           /\ Head(queue[d]) \in Range(queue[d])
           /\ \A x \in Device :
                 Range(queue'[x]) = IF x = d THEN Range(queue[x]) \ {Head(queue[d])} ELSE Range(queue[x])
<1>0. /\ WaitsOK /\ SizesOK /\ ArgsOK /\ lost \subseteq 1 .. pc - 1 /\ ThreadsOK /\ CommandsOK /\ DOMAIN finish = Pos
  BY DEF LiveOK
<1>1. UNCHANGED << prog, devOf, pc, phase, kernel, args, size, launch, th_kernel, ran, lost, finish >>
  BY DEF DeviceRun, threadVars
<1>2. /\ Head(queue[d]) \in Range(queue[d])
      /\ \A x \in Device :
            /\ Distinct(queue'[x])
            /\ Range(queue'[x]) = IF x = d THEN Range(queue[x]) \ {Head(queue[d])} ELSE Range(queue[x])
  BY <1>0, DequeueRange DEF DeviceRun
<1>3. WaitsOK' /\ SizesOK' /\ ArgsOK' /\ ThreadsOK'
  BY <1>0, <1>1 DEF WaitsOK, SizesOK, ArgsOK, Active, Covers, Cur, ThreadsOK, ThreadOK
<1>4. CommandsOK'
  <2> SUFFICES ASSUME NEW x \in Device, NEW b \in Range(queue'[x]) PROVE CommandOK(b)'
    BY <1>2 DEF CommandsOK
  <2>1. CommandOK(b)
    BY <1>0, <1>2 DEF CommandsOK
  <2> QED
    BY <1>1, <2>1 DEF CommandOK, FirstCommand, Cur
<1> QED
  BY <1>0, <1>1, <1>2, <1>3, <1>4

\* Lemma: a launch that runs leaves in its tray what its call should.
LEMMA RunLaunch ==
    ASSUME RuntimeInv, Waited, LiveOK, ResultsOK, NEW d \in Device, DeviceRun(d), Head(queue[d]).op = "launch"
    PROVE  TraysOK' /\ HostOK' /\ ResultsOK'
<1> DEFINE c == Head(queue[d])  M == Mem(prog, lost)
<1>0. /\ WaitsOK /\ ThreadsOK /\ CommandsOK /\ UnrunOK /\ IdleOK /\ HostOK
      /\ DOMAIN tray = Task /\ tray = [t \in Task |-> tray[t]] /\ prog \in Programs
  BY Basics DEF LiveOK, TraysOK
<1>1. /\ UNCHANGED << prog, devOf, pc, phase, launch, ran, lost >>
      /\ c \in Range(queue[d])
      /\ \A x \in Device : Range(queue'[x]) = IF x = d THEN Range(queue[x]) \ {c} ELSE Range(queue[x])
  BY DeviceFrame
<1>2. /\ tray' = [tray EXCEPT ![c.task] = Append(tray[c.task], ran[c.n])]
      /\ UNCHANGED << host, result >>
  BY DEF DeviceRun
<1> HIDE DEF c
<1>3. c.op = "launch"
  BY DEF c
<1>4. CommandOK(c) /\ c \in Command /\ c.task \in Task /\ devOf[c.task] = d
  BY <1>0, <1>1, Basics DEF CommandsOK
<1>5. PICK e \in 1 .. Len(prog) : e = c.n
  BY <1>3, <1>4 DEF CommandOK
<1>6. prog[e].op = "exec" /\ prog[e].task = c.task /\ e \notin lost /\ launch[e] \in {"queued", "finishing"}
  BY <1>3, <1>4, <1>5 DEF CommandOK
<1>7. c = Cmd("launch", e, prog[e].task)
  BY <1>3, <1>4, <1>5, <1>6 DEF Cmd, Command
<1>8. Unrun(e)
  BY <1>1, <1>4, <1>6, <1>7 DEF Unrun, Completed
<1>9. ran[e] = Work(prog, e)
  BY <1>0, <1>6 DEF ThreadsOK, ThreadOK
<1>10. tray[c.task] = M[e - 1][c.task] /\ M[pc - 1][c.task] = M[e][c.task]
  BY <1>0, <1>6, <1>8 DEF UnrunOK
<1>11. M[e][c.task] = Append(M[e - 1][c.task], Work(prog, e))
  <2>1. M[e][c.task] = TrayAfter(prog, lost, e, M[e - 1], c.task)
    BY <1>0, <1>4, MemTrays
  <2> HIDE DEF M
  <2> QED
    BY <1>6, <2>1 DEF TrayAfter
<1> HIDE DEF M
<1>12. tray'[c.task] = M[pc - 1][c.task] /\ \A t \in Task : t # c.task => tray'[t] = tray[t]
  BY <1>0, <1>2, <1>4, <1>5, <1>9, <1>10, <1>11
<1>13. \A f \in 1 .. Len(prog) : f # e => (Unrun(f)' <=> Unrun(f))
  <2> SUFFICES ASSUME NEW f \in 1 .. Len(prog), f # e PROVE Unrun(f)' <=> Unrun(f)
    OBVIOUS
  <2>1. Cmd("launch", f, prog[f].task) # c
    BY <1>7 DEF Cmd
  <2>2. prog[f].op = "exec" => devOf[prog[f].task] \in Device
    BY Basics
  <2> QED
    BY <1>1, <2>1, <2>2 DEF Unrun, Completed
<1>14. ~Unrun(e)'
  <2>1. c \notin Range(queue'[d])
    BY <1>1
  <2> QED
    BY <1>1, <1>4, <1>6, <1>7, <2>1 DEF Unrun, Completed
<1>15. \A f \in 1 .. Len(prog) : Unrun(f) /\ f # e => prog[f].task # c.task /\ prog[f].task \in Task
  BY <1>0, <1>6, <1>8, UnrunAlone, UnrunActive
<1>16. \A x \in Device : \A b : b.op # "launch" => (b \in Range(queue'[x]) <=> b \in Range(queue[x]))
  BY <1>1, <1>3
<1>17. (\A t \in Task : Moved(t)' <=> Moved(t)) /\ (HasRead' <=> HasRead)
  BY <1>1, <1>16, SameRank
<1>18. UnrunOK'
  BY <1>0, <1>1, <1>12, <1>13, <1>14, <1>15 DEF UnrunOK
<1>19. IdleOK'
  <2> SUFFICES ASSUME NEW t \in Task, ~Busy(t)'
               PROVE  tray'[t] = IF Moved(t) THEN M[pc][t] ELSE M[pc - 1][t]
    BY <1>1, <1>17 DEF IdleOK, M
  <2>1. CASE t = c.task
    <3>1. ~Moved(t)
      BY <1>0, <1>6, <1>8, <2>1, UnrunNotUsed
    <3> QED BY <1>12, <2>1, <3>1
  <2>2. CASE t # c.task
    <3>1. ~Busy(t)
      BY <1>1, <1>6, <1>13, <2>2 DEF Busy
    <3> QED
      BY <1>0, <1>12, <2>2, <3>1 DEF IdleOK, M
  <2> QED BY <2>1, <2>2
<1>20. DOMAIN tray' = Task /\ tray' = [t \in Task |-> tray'[t]]
  BY <1>0, <1>2
<1>21. HostOK' /\ ResultsOK'
  BY <1>0, <1>1, <1>2, <1>17 DEF HostOK, ResultsOK, HasRead, Cur
<1> QED
  BY <1>18, <1>19, <1>20, <1>21 DEF TraysOK

\* Lemma: the command of the current call does what the call should.
LEMMA RunTransfer ==
    ASSUME RuntimeInv, Waited, LiveOK, ResultsOK, NEW d \in Device, DeviceRun(d), Head(queue[d]).op # "launch"
    PROVE  TraysOK' /\ HostOK' /\ ResultsOK'
<1> DEFINE c == Head(queue[d])  M == Mem(prog, lost)
<1>0. /\ WaitsOK /\ ThreadsOK /\ CommandsOK /\ UnrunOK /\ IdleOK /\ HostOK
      /\ DOMAIN tray = Task /\ tray = [t \in Task |-> tray[t]] /\ prog \in Programs
      /\ Len(prog) \in Nat /\ pc \in Nat \ {0} /\ DOMAIN result = Pos
  BY Basics DEF LiveOK, TraysOK, ResultsOK
<1>1. /\ UNCHANGED << prog, devOf, pc, phase, launch, ran, lost >>
      /\ c \in Range(queue[d])
      /\ \A x \in Device : Range(queue'[x]) = IF x = d THEN Range(queue[x]) \ {c} ELSE Range(queue[x])
  BY DeviceFrame
<1>2. /\ c.op = "write" => tray' = [tray EXCEPT ![c.task] = << << c.n >> >>]
      /\ c.op = "copy" => tray' = [tray EXCEPT ![prog[c.n].dst] = tray[c.task]]
      /\ c.op = "put" => tray' = [tray EXCEPT ![c.task] = host]
      /\ c.op = "read" => tray' = tray
      /\ host' = IF c.op = "read" THEN tray[c.task] ELSE host
      /\ result' = IF c.op = "read" /\ prog[c.n].op = "read" THEN [result EXCEPT ![c.n] = tray[c.task]] ELSE result
  BY DEF DeviceRun
<1>3. c.op # "launch"
  OBVIOUS
<1> HIDE DEF c
<1>4. CommandOK(c) /\ c \in Command /\ c.task \in Task /\ devOf[c.task] = d
  BY <1>0, <1>1, Basics DEF CommandsOK
<1>5. phase \in {"blocked", "blockedPut"} /\ c.n = pc
  BY <1>3, <1>4 DEF CommandOK, Cmd
<1>6. /\ pc \in 1 .. Len(prog) /\ pc \in Pos
      /\ Cur.op \in {"read", "write", "copy"} /\ Cur.task \in Task /\ (Cur.op = "copy" => Cur.dst \in Task)
      /\ phase = "blockedPut" => Cur.op = "copy"
      /\ FirstCommand \in {"read", "write", "copy"}
      /\ FirstCommand = "write" => Cur.op = "write"
      /\ FirstCommand = "copy" => Cur.op = "copy"
  BY <1>0, <1>5, Basics DEF RuntimeInv, PhaseOK, Cur, FirstCommand
<1>7. /\ c.op = "put" => phase = "blockedPut" /\ c = Cmd("put", pc, Cur.dst) /\ c.task = Cur.dst
      /\ c.op # "put" => phase = "blocked" /\ c = Cmd(FirstCommand, pc, Cur.task) /\ c.op = FirstCommand /\ c.task = Cur.task
  BY <1>3, <1>4 DEF CommandOK, Cmd
<1>8. Cur' = Cur /\ FirstCommand' = FirstCommand /\ Cur = prog[pc]
  BY <1>1 DEF Cur, FirstCommand
<1>9. \A t \in Task : ~Moved(t)
  BY <1>1, <1>4, <1>7 DEF Moved, Completed
<1>10. \A f \in 1 .. Len(prog) : Unrun(f)' <=> Unrun(f)
  <2> SUFFICES ASSUME NEW f \in 1 .. Len(prog) PROVE Unrun(f)' <=> Unrun(f)
    OBVIOUS
  <2>1. Cmd("launch", f, prog[f].task) # c
    BY <1>3 DEF Cmd
  <2>2. prog[f].op = "exec" => devOf[prog[f].task] \in Device
    BY Basics
  <2> QED
    BY <1>1, <2>1, <2>2 DEF Unrun, Completed
<1>11. \A f \in 1 .. Len(prog) : Unrun(f) =>
          prog[f].task \in Task /\ prog[f].task # Cur.task /\ (Cur.op = "copy" => prog[f].task # Cur.dst)
  BY <1>0, <1>5, UnrunNotUsed, UnrunActive
<1>12. ~Busy(Cur.task) /\ (Cur.op = "copy" => ~Busy(Cur.dst))
  BY <1>11 DEF Busy
<1>13. tray[Cur.task] = M[pc - 1][Cur.task]
  BY <1>0, <1>6, <1>9, <1>12 DEF IdleOK
<1>14. c \notin Range(queue'[d])
  BY <1>1
<1>15. \A t \in Task : M[pc][t] = TrayAfter(prog, lost, pc, M[pc - 1], t)
  <2>1. prog \in Programs /\ pc \in 1 .. Len(prog)
    BY <1>0, <1>6
  <2> QED BY <2>1, MemTrays
<1> HIDE DEF M
<1>16. ASSUME NEW t \in Task, tray' = [tray EXCEPT ![t] = M[pc][t]],
              t = Cur.task \/ (Cur.op = "copy" /\ t = Cur.dst),
              \A u \in Task : Moved(u)' <=> u = t
       PROVE  TraysOK'
  <2>1. UnrunOK'
    BY <1>0, <1>1, <1>10, <1>11, <1>16 DEF UnrunOK
  <2>2. IdleOK'
    <3> SUFFICES ASSUME NEW u \in Task, ~Busy(u)
                 PROVE  tray'[u] = IF u = t THEN M[pc][u] ELSE M[pc - 1][u]
      BY <1>1, <1>10, <1>16 DEF IdleOK, M, Busy
    <3> QED
      BY <1>0, <1>9, <1>16 DEF IdleOK, M
  <2> QED
    BY <1>0, <1>16, <2>1, <2>2 DEF TraysOK
<1>17. CASE c.op = "write"
  <2>1. M[pc][Cur.task] = << << pc >> >>
    BY <1>6, <1>7, <1>8, <1>15, <1>17 DEF TrayAfter
  <2>2. \A u \in Task : Moved(u)' <=> u = Cur.task
    BY <1>1, <1>4, <1>7, <1>8, <1>14, <1>17 DEF Moved, Completed
  <2>3. TraysOK'
    BY <1>2, <1>5, <1>6, <1>7, <1>16, <1>17, <2>1, <2>2
  <2> QED
    BY <1>1, <1>2, <1>7, <1>8, <1>17, <2>3 DEF HostOK, ResultsOK
<1>18. CASE c.op = "copy"
  <2>1. M[pc][Cur.dst] = tray[Cur.task]
    BY <1>6, <1>7, <1>8, <1>13, <1>15, <1>18 DEF TrayAfter
  <2>2. \A u \in Task : Moved(u)' <=> u = Cur.dst
    BY <1>1, <1>4, <1>7, <1>8, <1>14, <1>18 DEF Moved, Completed
  <2>3. TraysOK'
    BY <1>2, <1>5, <1>6, <1>7, <1>8, <1>16, <1>18, <2>1, <2>2
  <2> QED
    BY <1>1, <1>2, <1>7, <1>8, <1>18, <2>3 DEF HostOK, ResultsOK
<1>19. CASE c.op = "put"
  <2>0. host = M[pc - 1][Cur.task]
    BY <1>0, <1>7, <1>19 DEF HostOK, M
  <2>1. M[pc][Cur.dst] = host
    BY <1>6, <1>7, <1>8, <1>15, <1>19, <2>0 DEF TrayAfter
  <2>2. \A u \in Task : Moved(u)' <=> u = Cur.dst
    BY <1>1, <1>4, <1>7, <1>8, <1>14, <1>19 DEF Moved, Completed
  <2>3. TraysOK'
    BY <1>2, <1>6, <1>7, <1>16, <1>19, <2>1, <2>2
  <2> QED
    BY <1>1, <1>2, <1>7, <1>8, <1>19, <2>0, <2>3 DEF HostOK, ResultsOK, M
<1>20. CASE c.op = "read"
  <2>1. \A u \in Task : ~Moved(u)'
    BY <1>1, <1>7, <1>8, <1>20 DEF Moved
  <2>2. TraysOK'
    <3>1. UnrunOK'
      BY <1>0, <1>1, <1>2, <1>10, <1>20 DEF UnrunOK
    <3>2. IdleOK'
      BY <1>0, <1>1, <1>2, <1>9, <1>10, <1>20, <2>1 DEF IdleOK, Busy
    <3> QED BY <1>0, <1>2, <1>20, <3>1, <3>2 DEF TraysOK
  <2>3. host' = M[pc - 1][Cur.task] /\ (Cur.op = "read" => result'[pc] = M[pc - 1][Cur.task])
    BY <1>0, <1>2, <1>5, <1>6, <1>7, <1>8, <1>13, <1>20
  <2>4. HostOK'
    BY <1>1, <1>7, <1>8, <1>20, <2>3 DEF HostOK, M
  <2>5. DOMAIN result' = Pos /\ \A k \in 1 .. Len(prog) : k # pc => result'[k] = result[k]
    BY <1>0, <1>2, <1>5, Basics
  <2>6. ResultsOK'
    BY <1>0, <1>1, <2>5 DEF ResultsOK
  <2> QED BY <2>2, <2>4, <2>6
<1> QED
  BY <1>3, <1>4, <1>17, <1>18, <1>19, <1>20 DEF Command, Ops

----------------------------------------------------------------------------
\* Lemma: the invariant of the memory holds initially.
LEMMA MemInit == Init => MemInv
<1> SUFFICES ASSUME Init PROVE MemInv
  OBVIOUS
<1>0. RuntimeInv
  BY RuntimeInit
<1>1. prog \in Programs /\ Len(prog) \in Nat /\ pc = 1 /\ phase = "call" /\ 1 .. Len(prog) \subseteq Pos
  BY <1>0, Basics DEF Init
<1>2. Mem(prog, lost)[0] = NoMemory
  BY <1>1, MemIs
<1>3. \A a : SizeAt(prog, a, 1) = 0
  BY DEF SizeAt, Sizes, Latest
<1>4. \A d \in Device : Range(queue[d]) = {} /\ Distinct(queue[d])
  BY DEF Init, Range, Distinct
<1>5. \A e \in 1 .. Len(prog) : launch[e] = "none"
  BY <1>1 DEF Init
<1>6. WaitsOK /\ SizesOK /\ ArgsOK /\ lost \subseteq 1 .. pc - 1 /\ DOMAIN finish = Pos
  BY <1>1, <1>3, <1>5 DEF Init, WaitsOK, SizesOK, ArgsOK, Active
<1>7. ThreadsOK /\ CommandsOK
  <2>1. ThreadsOK
    BY <1>1, <1>5 DEF ThreadsOK, ThreadOK
  <2>2. CommandsOK
    BY <1>4 DEF CommandsOK
  <2> QED BY <2>1, <2>2
<1>8. \A e \in 1 .. Len(prog) : ~Unrun(e)
  <2> SUFFICES ASSUME NEW e \in 1 .. Len(prog), Unrun(e) PROVE FALSE
    OBVIOUS
  <2>1. Active(e)
    BY <1>0, <1>7, UnrunActive
  <2> QED BY <1>5, <2>1 DEF Active
<1>9. TraysOK /\ HostOK /\ ResultsOK
  <2>1. \A t \in Task : tray[t] = Mem(prog, lost)[pc - 1][t] /\ ~Moved(t)
    <3>1. pc - 1 = 0 /\ tray = NoMemory
      BY <1>1 DEF Init, NoMemory
    <3>2. \A t \in Task : ~Moved(t)
      BY <1>1 DEF Moved
    <3> QED BY <1>2, <3>1, <3>2
  <2> QED
    BY <1>1, <1>8, <2>1 DEF Init, TraysOK, UnrunOK, IdleOK, HostOK, ResultsOK
<1> QED
  BY <1>0, <1>6, <1>7, <1>9 DEF MemInv, LiveOK

\* Lemma: every step keeps the invariant of the memory.
LEMMA MemNext == MemInv /\ [Next]_vars => MemInv'
<1> SUFFICES ASSUME MemInv, [Next]_vars PROVE MemInv'
  OBVIOUS
<1>0. RuntimeInv /\ RuntimeInv'
  BY RuntimeNext DEF MemInv
<1>1. CASE UNCHANGED vars
  <2>1. Waited' <=> Waited
    BY <1>1 DEF vars, Waited, Touches, Covers
  <2>2. (ResultsOK' <=> ResultsOK) /\ (LiveOK' <=> LiveOK)
    BY <1>1 DEF vars, threadVars, ResultsOK, LiveOK, WaitsOK, SizesOK, ArgsOK, Active, Covers, Cur, ThreadsOK,
       ThreadOK, CommandsOK, CommandOK, FirstCommand, TraysOK, UnrunOK, IdleOK, Unrun, Busy, Completed, Moved, HostOK
  <2> QED
    BY <1>0, <1>1, <2>1, <2>2 DEF MemInv, vars
<1>2. CASE Next
  <2>1. prog' = prog
    BY <1>2 DEF Next, MainStep, ThreadStep, XclCreateKernel, SetSize, SetKernelArgs, EnqueueKernel,
       EnqueueKernelNoThread, Wait, Transfer, TransferDone, PutDone, OpenCLError, ThreadEnqueue,
       ThreadEnqueueError, ThreadFinish, ThreadExit, DeviceRun
  <2>2. Waited' <=> Waited
    BY <2>1 DEF Waited, Touches, Covers
  <2>3. SUFFICES ASSUME Waited PROVE ResultsOK' /\ (phase' # "exited" => LiveOK')
    BY <1>0, <2>2 DEF MemInv
  <2>4. phase # "exited"
    BY <1>2 DEF Next, MainStep, ThreadStep, XclCreateKernel, SetSize, SetKernelArgs, EnqueueKernel,
       EnqueueKernelNoThread, Wait, Transfer, TransferDone, PutDone, OpenCLError, DeviceRun, AtCall
  <2>5. ResultsOK /\ LiveOK
    BY <2>3, <2>4 DEF MemInv
  <2>6. CASE OpenCLError
    BY <2>5, <2>6 DEF OpenCLError, Goto, ResultsOK, threadVars
  <2>7. CASE MainStep /\ ~OpenCLError
    BY <1>0, <2>3, <2>5, <2>7, CreateStep, SetSizeStep, SetArgsStep, EnqueueKernelStep, NoThreadStep, WaitStep,
       TransferStep, TransferDoneStep, PutDoneStep DEF MainStep
  <2>8. ASSUME NEW e \in 1 .. MaxCalls, ThreadStep(e) PROVE ResultsOK' /\ LiveOK'
    BY <1>0, <2>3, <2>5, <2>8, ThreadEnqueueStep, ThreadEnqueueErrorStep, ThreadFinishStep DEF ThreadStep
  <2>9. ASSUME NEW d \in Device, DeviceRun(d) PROVE ResultsOK' /\ LiveOK'
    BY <1>0, <2>3, <2>5, <2>9, DeviceFrame, RunLaunch, RunTransfer DEF LiveOK
  <2> QED
    BY <1>2, <2>6, <2>7, <2>8, <2>9 DEF Next
<1> QED
  BY <1>1, <1>2

\* Theorem: if the application waits for a launch before it touches the task or
\* reuses the sizes, every read returns, and in the end every tray holds, what the
\* calls produce one after the other - for every program and every binding.
THEOREM MemoryStaysSequential == Spec => []MemoryIsSequential
<1>1. MemInv => MemoryIsSequential
  <2> SUFFICES ASSUME MemInv, Waited
               PROVE  /\ \A c \in DOMAIN prog :
                            prog[c].op = "read" /\ pc > c => result[c] = After[c - 1][prog[c].task]
                      /\ /\ pc > Len(prog)
                         /\ \A e \in Pos : launch[e] \in {"none", "done"}
                         /\ \A d \in Device : queue[d] = << >>
                         => tray = After[Len(prog)]
    BY DEF MemoryIsSequential
  <2>0. /\ RuntimeInv /\ ResultsOK /\ TypeOK /\ prog \in Programs /\ Len(prog) \in Nat /\ DOMAIN prog = 1 .. Len(prog)
        /\ pc \in Nat \ {0} /\ pc <= Len(prog) + 1
    BY Basics DEF MemInv, RuntimeInv
  <2>1. \A n \in 0 .. Len(prog) : After[n] = Mem(prog, lost)[n]
    BY <2>0, AfterIsMem
  <2>2. ASSUME NEW c \in DOMAIN prog, prog[c].op = "read", pc > c
        PROVE  result[c] = After[c - 1][prog[c].task]
    <3>1. c \in 1 .. Len(prog) /\ c < pc /\ c - 1 \in 0 .. Len(prog)
      BY <2>0, <2>2
    <3> QED
      BY <2>0, <2>1, <2>2, <3>1 DEF ResultsOK
  <2>3. ASSUME pc > Len(prog), \A e \in Pos : launch[e] \in {"none", "done"}, \A d \in Device : queue[d] = << >>
        PROVE  tray = After[Len(prog)]
    <3>1. phase = "call" /\ pc - 1 = Len(prog) /\ Len(prog) \in 0 .. Len(prog)
      BY <2>0, <2>3 DEF RuntimeInv, PhaseOK
    <3>2. LiveOK
      BY <3>1 DEF MemInv
    <3>3. \A e \in 1 .. Len(prog) : ~Unrun(e)
      <4> SUFFICES ASSUME NEW e \in 1 .. Len(prog), Unrun(e) PROVE FALSE
        OBVIOUS
      <4>1. Active(e) /\ e \in Pos
        BY <2>0, <3>2, UnrunActive, Basics DEF LiveOK
      <4> QED BY <2>3, <4>1 DEF Active
    <3>4. \A t \in Task : ~Busy(t) /\ ~Moved(t)
      BY <3>1, <3>3 DEF Busy, Moved
    <3>5. \A t \in Task : tray[t] = Mem(prog, lost)[Len(prog)][t]
      BY <3>1, <3>2, <3>4 DEF LiveOK, TraysOK, IdleOK
    <3>6. tray = [t \in Task |-> tray[t]] /\ IsMemory(Mem(prog, lost)[Len(prog)])
      BY <2>0, <3>1, <3>2, MemTrays DEF LiveOK, TraysOK
    <3>7. tray = Mem(prog, lost)[Len(prog)]
      BY <3>5, <3>6 DEF IsMemory
    <3> QED BY <2>1, <3>1, <3>7
  <2> QED BY <2>2, <2>3
<1> QED
  BY <1>1, MemInit, MemNext, PTL DEF Spec
=============================================================================
