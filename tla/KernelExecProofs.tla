--------------------------- MODULE KernelExecProofs ---------------------------
(***************************************************************************)
(* Proofs about KernelExec, for every set of ranks, tasks, devices, thread  *)
(* handles and programs.                                                    *)
(***************************************************************************)
EXTENDS KernelExec, FiniteSetTheorems, WellFoundedInduction, TLAPS

\* Where a rank is inside a call agrees with the call it is making.
PhaseOK ==
    \A r \in Rank :
        /\ phase[r] # "call" => pc[r] \in DOMAIN prog
        /\ phase[r] = "args" => Cur(r).op = "exec" /\ r_rank[Cur(r).task] = r
        /\ phase[r] \in {"join", "barrier"} => Cur(r).op \in {"waitAll", "waitFor"}

\* A thread was started by a past Exec call of the rank of its task.
LaunchOK ==
    \A c \in Launch : launch[c] # "none" =>
        /\ c \in DOMAIN prog
        /\ prog[c].op = "exec"
        /\ c < pc[r_rank[prog[c].task]]
        /\ thdsInit[r_rank[prog[c].task]]

\* The calls of a program, in the form the proofs use them.
LEMMA ProgramCalls ==
    ASSUME prog \in Programs, NEW c \in DOMAIN prog
    PROVE  /\ c \in Launch
           /\ prog[c] \in Call
           /\ prog[c].op \in {"exec", "waitAll", "waitFor"}
           /\ prog[c].op = "exec" => prog[c].task \in Task
           /\ prog[c].op = "waitFor" => prog[c].taskIds \in Seq(Task)
<1>1. prog \in Seq(Call) /\ Len(prog) \in 1 .. MaxCalls /\ MaxCalls \in Nat
  BY KernelExecAssumption
<1>2. c \in Launch /\ prog[c] \in Call
  BY <1>1 DEF Launch
<1> QED
  BY <1>2 DEF Call

\* TypeOK with the two facts that make it inductive.
TypeInv == TypeOK /\ PhaseOK /\ LaunchOK

\* The initial states have the types.
LEMMA TypeInit == Init => TypeInv
<1> SUFFICES ASSUME Init PROVE TypeInv
  OBVIOUS
<1>1. MainType
  BY KernelExecAssumption DEF Init, MainType
<1>2. ThreadType
  BY DEF Init, ThreadType
<1>3. ArgType
  BY KernelExecAssumption DEF Init, ArgType
<1>4. ArrayType
  BY DEF Init, ArrayType
<1>5. SystemType
  <2>1. queue \in [Device -> Seq(Launch)]
    BY DEF Init
  <2> QED BY <2>1 DEF Init, SystemType
<1>6. PhaseOK /\ LaunchOK
  BY DEF Init, PhaseOK, LaunchOK
<1> QED
  BY <1>1, <1>2, <1>3, <1>4, <1>5, <1>6 DEF TypeInv, TypeOK

\* The variables of the main threads after a step inside a call ...
LEMMA GotoType ==
    ASSUME MainType, PhaseOK, prog' = prog, NEW r \in Rank, pc[r] \in DOMAIN prog,
           NEW ph \in {"args", "join", "barrier"}, NEW i \in Nat \ {0}, Goto(r, ph, i),
           ph = "args" => i <= NumArgs + 1 /\ Cur(r).op = "exec" /\ r_rank[Cur(r).task] = r,
           ph # "args" => Cur(r).op \in {"waitAll", "waitFor"}
    PROVE  MainType' /\ PhaseOK' /\ \A q \in Rank : pc'[q] >= pc[q]
<1>1. MainType'
  BY DEF MainType, Goto
<1>2. PhaseOK'
  BY DEF MainType, PhaseOK, Goto, Cur
<1>3. \A q \in Rank : pc'[q] >= pc[q]
  BY KernelExecAssumption DEF MainType, Goto
<1> QED
  BY <1>1, <1>2, <1>3

\* ... and after a return from it.
LEMMA ReturnType ==
    ASSUME MainType, PhaseOK, prog' = prog, NEW r \in Rank, pc[r] \in DOMAIN prog, Return(r)
    PROVE  MainType' /\ PhaseOK' /\ \A q \in Rank : pc'[q] >= pc[q]
<1>0. prog \in Seq(Call) /\ Len(prog) \in Nat
  BY KernelExecAssumption DEF MainType
<1>1. MainType'
  BY <1>0 DEF MainType, Return
<1>2. PhaseOK'
  BY <1>0 DEF MainType, PhaseOK, Return, Cur
<1>3. \A q \in Rank : pc'[q] >= pc[q]
  BY <1>0 DEF MainType, Return
<1> QED
  BY <1>1, <1>2, <1>3

\* What a step leaves alone keeps its type.
LEMMA FrameType ==
    ASSUME TypeInv
    PROVE  /\ UNCHANGED << launch, handle, finishSet >> => ThreadType'
           /\ UNCHANGED << kernelArg, ranWith >> => ArgType'
           /\ UNCHANGED arrayVars => ArrayType'
           /\ UNCHANGED << queue, entered, aborted >> => SystemType'
           /\ UNCHANGED << prog, mainVars >> => MainType' /\ PhaseOK'
<1> USE DEF TypeInv, TypeOK
<1>1. UNCHANGED << launch, handle, finishSet >> => ThreadType'
  BY DEF ThreadType
<1>2. UNCHANGED << kernelArg, ranWith >> => ArgType'
  BY DEF ArgType
<1>3. UNCHANGED arrayVars => ArrayType'
  BY DEF ArrayType, arrayVars
<1>4. UNCHANGED << queue, entered, aborted >> => SystemType'
  BY DEF SystemType
<1>5. UNCHANGED << prog, mainVars >> => MainType' /\ PhaseOK'
  BY DEF MainType, PhaseOK, Cur, mainVars
<1> QED
  BY <1>1, <1>2, <1>3, <1>4, <1>5

\* Threads that are there stay there, and ranks only move forward.
LEMMA FrameLaunch ==
    ASSUME TypeInv, prog' = prog, \A q \in Rank : pc'[q] >= pc[q],
           \A q \in Rank : thdsInit[q] => thdsInit'[q],
           \A c \in Launch : launch'[c] # "none" => launch[c] # "none",
           pc' \in [Rank -> Nat]
    PROVE  LaunchOK'
<1> SUFFICES ASSUME NEW c \in Launch, launch'[c] # "none"
             PROVE  /\ c \in DOMAIN prog
                    /\ prog[c].op = "exec"
                    /\ c < pc'[r_rank[prog[c].task]]
                    /\ thdsInit'[r_rank[prog[c].task]]
  BY DEF LaunchOK
<1>1. c \in DOMAIN prog /\ prog[c].op = "exec" /\ c < pc[r_rank[prog[c].task]]
      /\ thdsInit[r_rank[prog[c].task]]
  BY DEF TypeInv, LaunchOK
<1>2. r_rank[prog[c].task] \in Rank
  BY <1>1, ProgramCalls, KernelExecAssumption DEF TypeInv, TypeOK, MainType
<1>3. Len(prog) \in Nat /\ c \in Nat /\ pc \in [Rank -> Nat]
  BY KernelExecAssumption DEF TypeInv, TypeOK, MainType, Launch
<1> QED
  BY <1>1, <1>2, <1>3

\* Every step of a rank, a thread or a device keeps the types.
LEMMA TypeNext == TypeInv /\ [Next]_vars => TypeInv'
<1> SUFFICES ASSUME TypeInv, [Next]_vars PROVE TypeInv'
  OBVIOUS
<1> USE KernelExecAssumption
<1>0. MainType /\ PhaseOK /\ LaunchOK /\ ThreadType /\ ArgType /\ ArrayType /\ SystemType
  BY DEF TypeInv, TypeOK
<1>p. /\ prog \in Seq(Call)
      /\ Len(prog) \in 1 .. MaxCalls
      /\ pc \in [Rank -> Nat \ {0}]
  BY <1>0 DEF MainType
<1>1. ASSUME NEW r \in Rank, ExecCall(r) PROVE TypeInv'
  <2>0. pc[r] \in DOMAIN prog /\ prog' = prog
    BY <1>p, <1>1 DEF ExecCall, AtCall
  <2>1. MainType' /\ PhaseOK' /\ \A q \in Rank : pc'[q] >= pc[q]
    <3>1. CASE r_rank[Cur(r).task] = r
      BY <1>0, <1>p, <1>1, <2>0, <3>1, GotoType DEF ExecCall, AtCall
    <3>2. CASE r_rank[Cur(r).task] # r
      BY <1>0, <1>1, <2>0, <3>2, ReturnType DEF ExecCall
    <3> QED BY <3>1, <3>2
  <2>2. ThreadType' /\ ArgType' /\ ArrayType' /\ SystemType'
    BY <1>1, FrameType DEF ExecCall, threadVars
  <2>3. LaunchOK'
    BY <1>1, <1>p, <2>0, <2>1, FrameLaunch DEF ExecCall, threadVars, arrayVars, MainType
  <2> QED BY <2>1, <2>2, <2>3 DEF TypeInv, TypeOK
<1>2. ASSUME NEW r \in Rank, SetKernelArg(r) PROVE TypeInv'
  <2>0. pc[r] \in DOMAIN prog /\ prog' = prog /\ Cur(r).op = "exec" /\ r_rank[Cur(r).task] = r
    BY <1>0, <1>2 DEF SetKernelArg, At, PhaseOK
  <2>1. MainType' /\ PhaseOK' /\ \A q \in Rank : pc'[q] >= pc[q]
    <3>1. idx[r] + 1 \in Nat \ {0} /\ idx[r] + 1 <= NumArgs + 1
      BY <1>0, <1>2 DEF MainType, SetKernelArg
    <3> QED BY <1>0, <1>p, <1>2, <2>0, <3>1, GotoType DEF SetKernelArg
  <2>2. ThreadType' /\ ArrayType' /\ SystemType'
    BY <1>2, FrameType DEF SetKernelArg, threadVars
  <2>3. ArgType'
    <3>1. pc[r] \in 0 .. MaxCalls /\ Cur(r).task \in Task
      BY <1>0, <1>p, <2>0, ProgramCalls DEF Cur, MainType
    <3>2. [kernelArg[Cur(r).task] EXCEPT ![idx[r]] = pc[r]] \in [Arg -> 0 .. MaxCalls]
      BY <1>0, <3>1 DEF ArgType
    <3>3. kernelArg' \in [Task -> [Arg -> 0 .. MaxCalls]]
      BY <1>0, <1>2, <3>1, <3>2 DEF SetKernelArg, ArgType
    <3> QED BY <1>0, <1>2, <3>3 DEF SetKernelArg, ArgType, threadVars
  <2>4. LaunchOK'
    BY <1>2, <1>p, <2>0, <2>1, FrameLaunch DEF SetKernelArg, threadVars, arrayVars, MainType
  <2> QED BY <2>1, <2>2, <2>3, <2>4 DEF TypeInv, TypeOK
<1>3. ASSUME NEW r \in Rank, SetKernelArgError(r) \/ JoinCrash(r) PROVE TypeInv'
  <2>1. Abort
    BY <1>3 DEF SetKernelArgError, JoinCrash
  <2>2. MainType' /\ PhaseOK' /\ ThreadType' /\ ArgType' /\ ArrayType'
    BY <2>1, FrameType DEF Abort, threadVars
  <2>3. SystemType'
    BY <1>0, <2>1 DEF SystemType, Abort
  <2>4. LaunchOK'
    BY <1>p, <2>1, <2>2, FrameLaunch DEF Abort, mainVars, threadVars, arrayVars
  <2> QED BY <2>2, <2>3, <2>4 DEF TypeInv, TypeOK
<1>4. ASSUME NEW r \in Rank, EnqueueKernel(r) PROVE TypeInv'
  <2>0. pc[r] \in DOMAIN prog /\ prog' = prog /\ Cur(r).op = "exec" /\ r_rank[Cur(r).task] = r
    BY <1>0, <1>4 DEF EnqueueKernel, At, PhaseOK
  <2>a. pc[r] \in Launch /\ Cur(r).task \in Task
    BY <1>0, <2>0, ProgramCalls DEF MainType, Cur
  <2>1. MainType' /\ PhaseOK' /\ \A q \in Rank : pc'[q] >= pc[q]
    BY <1>0, <1>4, <2>0, ReturnType DEF EnqueueKernel
  <2>2. ArgType' /\ SystemType'
    BY <1>4, FrameType DEF EnqueueKernel
  <2>3. ThreadType'
    BY <1>0, <1>4, <2>a DEF EnqueueKernel, ThreadType, FreeHandles
  <2>4. ArrayType'
    BY <1>0, <1>4, <2>a DEF EnqueueKernel, ArrayType, FreeHandles
  <2>5. LaunchOK'
    <3> SUFFICES ASSUME NEW c \in Launch, launch'[c] # "none"
                 PROVE  /\ c \in DOMAIN prog
                        /\ prog[c].op = "exec"
                        /\ c < pc'[r_rank[prog[c].task]]
                        /\ thdsInit'[r_rank[prog[c].task]]
      BY <2>0 DEF LaunchOK
    <3>1. CASE c = pc[r]
      BY <1>0, <1>p, <1>4, <2>0, <3>1, SMTT(30) DEF EnqueueKernel, Return, Cur, ArrayType
    <3>2. CASE c # pc[r]
      <4>1. launch[c] # "none"
        BY <1>0, <1>4, <3>2 DEF EnqueueKernel, ThreadType
      <4>2. c \in DOMAIN prog /\ prog[c].op = "exec" /\ c < pc[r_rank[prog[c].task]]
            /\ thdsInit[r_rank[prog[c].task]]
        BY <1>0, <4>1 DEF LaunchOK
      <4>3. r_rank[prog[c].task] \in Rank
        BY <1>0, <4>2, ProgramCalls DEF MainType
      <4>4. c < pc'[r_rank[prog[c].task]]
        BY <1>p, <1>4, <4>2, <4>3 DEF EnqueueKernel, Return
      <4>5. thdsInit'[r_rank[prog[c].task]]
        BY <1>0, <1>4, <4>2, <4>3 DEF EnqueueKernel, ArrayType
      <4> QED BY <4>2, <4>4, <4>5
    <3> QED BY <3>1, <3>2
  <2> QED BY <2>1, <2>2, <2>3, <2>4, <2>5 DEF TypeInv, TypeOK
<1>5. ASSUME NEW r \in Rank, EnqueueKernelNoThread(r) PROVE TypeInv'
  <2>0. pc[r] \in DOMAIN prog /\ prog' = prog
    BY <1>0, <1>5 DEF EnqueueKernelNoThread, At, PhaseOK
  <2>1. MainType' /\ PhaseOK' /\ \A q \in Rank : pc'[q] >= pc[q]
    BY <1>0, <1>5, <2>0, ReturnType DEF EnqueueKernelNoThread
  <2>2. ThreadType' /\ ArgType' /\ SystemType'
    BY <1>5, FrameType DEF EnqueueKernelNoThread, threadVars
  <2>3. ArrayType'
    BY <1>0, <1>5 DEF EnqueueKernelNoThread, ArrayType
  <2>4. \A q \in Rank : thdsInit[q] => thdsInit'[q]
    BY <1>0, <1>5 DEF EnqueueKernelNoThread, ArrayType
  <2>5. LaunchOK'
    BY <1>5, <1>p, <2>0, <2>1, <2>4, FrameLaunch DEF EnqueueKernelNoThread, threadVars, MainType
  <2> QED BY <2>1, <2>2, <2>3, <2>5 DEF TypeInv, TypeOK
<1>6. ASSUME NEW r \in Rank, WaitAllCall(r) \/ WaitForCall(r) PROVE TypeInv'
  <2>0. pc[r] \in DOMAIN prog /\ prog' = prog /\ Cur(r).op \in {"waitAll", "waitFor"}
    BY <1>p, <1>6 DEF WaitAllCall, WaitForCall, AtCall
  <2>a. Goto(r, "join", 1) \/ Return(r)
    BY <1>6 DEF WaitAllCall, WaitForCall
  <2>1. MainType' /\ PhaseOK' /\ \A q \in Rank : pc'[q] >= pc[q]
    <3>1. CASE Goto(r, "join", 1)
      BY <1>0, <1>p, <2>0, <3>1, GotoType
    <3>2. CASE Return(r)
      BY <1>0, <2>0, <3>2, ReturnType
    <3> QED BY <2>a, <3>1, <3>2
  <2>2. ThreadType' /\ ArgType' /\ ArrayType' /\ SystemType'
    BY <1>6, FrameType DEF WaitAllCall, WaitForCall, threadVars
  <2>3. LaunchOK'
    BY <1>6, <1>p, <2>0, <2>1, FrameLaunch DEF WaitAllCall, WaitForCall, threadVars, arrayVars, MainType
  <2> QED BY <2>1, <2>2, <2>3 DEF TypeInv, TypeOK
<1>7. ASSUME NEW r \in Rank, SkipRemote(r) \/ Join(r) \/ JoinNoThread(r) PROVE TypeInv'
  <2>0. /\ pc[r] \in DOMAIN prog /\ prog' = prog
        /\ Cur(r).op \in {"waitAll", "waitFor"}
        /\ Goto(r, "join", idx[r] + 1)
        /\ UNCHANGED << arrayVars, kernelArg, ranWith, queue, entered, aborted >>
        /\ idx[r] + 1 \in Nat \ {0}
    BY <1>0, <1>7 DEF SkipRemote, Join, JoinNoThread, Joining, At, PhaseOK, MainType, threadVars
  <2>1. MainType' /\ PhaseOK' /\ \A q \in Rank : pc'[q] >= pc[q]
    BY <1>0, <1>p, <2>0, GotoType
  <2>2. ArgType' /\ ArrayType' /\ SystemType'
    BY <2>0, FrameType
  <2>3. ThreadType' /\ \A c \in Launch : launch'[c] # "none" => launch[c] # "none"
    BY <1>0, <1>7 DEF SkipRemote, Join, JoinNoThread, threadVars, ThreadType, Unjoined
  <2>4. LaunchOK'
    BY <1>p, <2>0, <2>1, <2>3, FrameLaunch DEF arrayVars, MainType
  <2> QED BY <2>1, <2>2, <2>3, <2>4 DEF TypeInv, TypeOK
<1>8. ASSUME NEW r \in Rank, BarrierEnter(r) PROVE TypeInv'
  <2>0. pc[r] \in DOMAIN prog /\ prog' = prog /\ Cur(r).op \in {"waitAll", "waitFor"}
    BY <1>0, <1>8 DEF BarrierEnter, At, PhaseOK
  <2>1. MainType' /\ PhaseOK' /\ \A q \in Rank : pc'[q] >= pc[q]
    BY <1>0, <1>p, <1>8, <2>0, GotoType DEF BarrierEnter
  <2>2. ThreadType' /\ ArgType' /\ ArrayType'
    BY <1>8, FrameType DEF BarrierEnter, threadVars
  <2>3. SystemType'
    BY <1>0, <1>8 DEF BarrierEnter, SystemType
  <2>4. LaunchOK'
    BY <1>8, <1>p, <2>0, <2>1, FrameLaunch DEF BarrierEnter, threadVars, arrayVars, MainType
  <2> QED BY <2>1, <2>2, <2>3, <2>4 DEF TypeInv, TypeOK
<1>9. ASSUME NEW r \in Rank, BarrierLeave(r) PROVE TypeInv'
  <2>0. pc[r] \in DOMAIN prog /\ prog' = prog
    BY <1>0, <1>9 DEF BarrierLeave, At, PhaseOK
  <2>1. MainType' /\ PhaseOK' /\ \A q \in Rank : pc'[q] >= pc[q]
    BY <1>0, <1>9, <2>0, ReturnType DEF BarrierLeave
  <2>2. ThreadType' /\ ArgType' /\ ArrayType' /\ SystemType'
    BY <1>9, FrameType DEF BarrierLeave, threadVars
  <2>3. LaunchOK'
    BY <1>9, <1>p, <2>0, <2>1, FrameLaunch DEF BarrierLeave, threadVars, arrayVars, MainType
  <2> QED BY <2>1, <2>2, <2>3 DEF TypeInv, TypeOK
<1>10. ASSUME NEW c \in Launch, ThreadStep(c) PROVE TypeInv'
  <2>0. UNCHANGED << prog, mainVars, arrayVars, handle, kernelArg, entered, aborted >>
    BY <1>10 DEF ThreadStep, ThreadEnqueue, ThreadEnqueueError, ThreadFinish, ThreadExit
  <2>a. launch[c] # "none" /\ \A e \in Launch : launch'[e] # "none" => launch[e] # "none"
    BY <1>0, <1>10 DEF ThreadStep, ThreadEnqueue, ThreadEnqueueError, ThreadFinish, ThreadExit, ThreadType
  <2>b. prog[c].task \in Task
    BY <1>0, <2>a, ProgramCalls DEF LaunchOK, MainType
  <2>c. queue \in [Device -> Seq(Launch)] /\ devOf[prog[c].task] \in Device
    BY <1>0, <2>b DEF SystemType
  <2>1. MainType' /\ PhaseOK' /\ ArrayType'
    BY <2>0, FrameType
  <2>2. ThreadType'
    <3>1. InQueue(devOf[prog[c].task]) \in SUBSET Launch
      BY <2>c DEF InQueue
    <3>2. launch' \in [Launch -> {"none", "created", "queued", "finishing", "done", "joined"}]
      BY <1>0, <1>10 DEF ThreadStep, ThreadEnqueue, ThreadEnqueueError, ThreadFinish, ThreadExit, ThreadType
    <3>3. finishSet' \in [Launch -> SUBSET Launch]
      <4>1. CASE ThreadFinish(c)
        BY <1>0, <3>1, <4>1 DEF ThreadFinish, ThreadType
      <4>2. CASE finishSet' = finishSet
        BY <1>0, <4>2 DEF ThreadType
      <4> QED BY <1>10, <4>1, <4>2 DEF ThreadStep, ThreadEnqueue, ThreadEnqueueError, ThreadExit
    <3> QED BY <1>0, <2>0, <3>2, <3>3 DEF ThreadType
  <2>3. ArgType'
    BY <1>0, <1>10, <2>b DEF ThreadStep, ThreadEnqueue, ThreadEnqueueError, ThreadFinish, ThreadExit, ArgType
  <2>4. SystemType'
    <3>1. queue' \in [Device -> Seq(Launch)]
      <4>1. CASE ThreadEnqueue(c)
        BY <2>c, <4>1 DEF ThreadEnqueue
      <4>2. CASE queue' = queue
        BY <2>c, <4>2
      <4> QED BY <1>10, <4>1, <4>2 DEF ThreadStep, ThreadEnqueueError, ThreadFinish, ThreadExit
    <3> QED BY <1>0, <2>0, <3>1 DEF SystemType
  <2>5. LaunchOK'
    BY <1>p, <2>0, <2>a, FrameLaunch DEF mainVars, arrayVars
  <2> QED BY <2>1, <2>2, <2>3, <2>4, <2>5 DEF TypeInv, TypeOK
<1>11. ASSUME NEW d \in Device, DeviceRun(d) PROVE TypeInv'
  <2>1. MainType' /\ PhaseOK' /\ ThreadType' /\ ArgType' /\ ArrayType'
    BY <1>11, FrameType DEF DeviceRun, threadVars
  <2>2. SystemType'
    <3>1. queue' \in [Device -> Seq(Launch)]
      BY <1>0, <1>11 DEF DeviceRun, SystemType
    <3> QED BY <1>0, <1>11, <3>1 DEF DeviceRun, SystemType
  <2>3. LaunchOK'
    BY <1>p, <1>11, FrameLaunch DEF DeviceRun, mainVars, threadVars, arrayVars
  <2> QED BY <2>1, <2>2, <2>3 DEF TypeInv, TypeOK
<1>12. CASE UNCHANGED vars
  <2>1. MainType' /\ PhaseOK' /\ ThreadType' /\ ArgType' /\ ArrayType' /\ SystemType'
    BY <1>12, FrameType DEF vars, mainVars, threadVars, arrayVars
  <2>2. LaunchOK'
    BY <1>p, <1>12, FrameLaunch DEF vars, mainVars, threadVars, arrayVars
  <2> QED BY <2>1, <2>2 DEF TypeInv, TypeOK
<1> QED
  BY <1>1, <1>2, <1>3, <1>4, <1>5, <1>6, <1>7, <1>8, <1>9, <1>10, <1>11, <1>12
     DEF Next, MainStep, Terminated

\* Every state a run of XCLFrame's launch and wait calls reaches is type
\* correct, whatever the ranks, tasks, devices and programs are.
THEOREM TypeCorrect == Spec => []TypeOK
<1>1. TypeInv => TypeOK
  BY DEF TypeInv
<1> QED
  BY TypeInit, TypeNext, <1>1, PTL DEF Spec

-----------------------------------------------------------------------------
(* Waits complete the last launch of every task they cover.                *)

Live(c) == launch[c] \notin {"none", "joined"}

Ended(c) == launch[c] \in {"done", "joined"}

\* Launch e is the last thread started for task t so far.
LastOf(e, t) ==
    /\ IsExec(e, t) /\ launch[e] # "none"
    /\ \A f \in Launch : f > e /\ IsExec(f, t) => launch[f] = "none"

\* Threads that are not joined yet have different pthread_t values.
HandlesDistinct ==
    \A c, e \in Launch : Live(c) /\ Live(e) /\ handle[c] = handle[e] => c = e

\* thds holds the pthread_t of the last thread of every task.
ThdsLast ==
    \A t \in Task : \A e \in Launch : LastOf(e, t) => thds[t] = handle[e]

\* A command in a queue belongs to a thread that will not end before it.
QueueOK ==
    \A d \in Device : \A e \in InQueue(d) :
        /\ launch[e] \in {"queued", "finishing"}
        /\ launch[e] = "finishing" => e \in finishSet[e]

\* A command is in the queue of the device of its task.
QueueHome ==
    \A d \in Device : \A e \in InQueue(d) : d = devOf[prog[e].task]

\* The threads of the tasks whose join is behind have ended.
LoopDone(r) ==
    phase[r] = "join" =>
        \A i \in DOMAIN Listed(r) : i < idx[r] /\ r_rank[Listed(r)[i]] = r =>
            \A e \in Launch : LastOf(e, Listed(r)[i]) => Ended(e)

BarrierDone(r) ==
    phase[r] = "barrier" =>
        \A t \in Task : r_rank[t] = r /\ Covers(pc[r], t) =>
            \A e \in Launch : LastOf(e, t) => Ended(e)

PastDone(r) ==
    \A c \in DOMAIN prog : c < pc[r] =>
        \A t \in Task : r_rank[t] = r /\ Covers(c, t) =>
            \A e \in Launch : LastStarted(e, t, c) => Ended(e)

RankInv(r) == LoopDone(r) /\ BarrierDone(r) /\ PastDone(r)

WaitInv ==
    /\ TypeInv
    /\ HandlesDistinct
    /\ ThdsLast
    /\ QueueOK
    /\ QueueHome
    /\ \A r \in Rank : RankInv(r)

\* Before the first call there is no thread and nothing to wait for.
LEMMA WaitInit == Init => WaitInv
<1> SUFFICES ASSUME Init PROVE WaitInv
  OBVIOUS
<1>1. TypeInv
  BY TypeInit
<1>2. \A c \in Launch : launch[c] = "none"
  BY DEF Init
<1>3. HandlesDistinct /\ ThdsLast
  BY <1>2 DEF HandlesDistinct, ThdsLast, Live, LastOf
<1>4. QueueOK /\ QueueHome
  BY DEF Init, QueueOK, QueueHome, InQueue
<1>5. \A r \in Rank : phase[r] = "call" /\ pc[r] = 1
  BY DEF Init
<1>6. ASSUME NEW r \in Rank PROVE RankInv(r)
  <2>1. PastDone(r)
    BY <1>5, <1>1, KernelExecAssumption DEF PastDone, TypeInv, TypeOK, MainType
  <2> QED BY <1>5, <2>1 DEF RankInv, LoopDone, BarrierDone
<1> QED
  BY <1>1, <1>3, <1>4, <1>6 DEF WaitInv

\* With a past call c, a launch before c is the last one before c ...
LEMMA LastIsLast ==
    ASSUME TypeInv, NEW t \in Task, NEW e \in Launch, LastStarted(e, t, pc[r_rank[t]])
    PROVE  LastOf(e, t)
<1> DEFINE c == pc[r_rank[t]]
<1>1. c \in Nat /\ e \in Nat /\ e < c /\ IsExec(e, t) /\ launch[e] # "none"
  BY KernelExecAssumption DEF LastStarted, TypeInv, TypeOK, MainType, Launch
<1>2. ASSUME NEW f \in Launch, f > e, IsExec(f, t), launch[f] # "none" PROVE FALSE
  <2>1. f < c
    BY <1>2, KernelExecAssumption DEF TypeInv, LaunchOK, IsExec
  <2>2. f \in e + 1 .. c - 1
    BY <1>1, <1>2, <2>1 DEF Launch
  <2> QED BY <1>2, <2>2 DEF LastStarted
<1> QED
  BY <1>1, <1>2 DEF LastOf

\* A wait goes through a sequence of tasks.
LEMMA ListedTasks ==
    ASSUME TypeInv, NEW r \in Rank, pc[r] \in DOMAIN prog, Cur(r).op \in {"waitAll", "waitFor"}
    PROVE  Listed(r) \in Seq(Task)
<1>1. pc[r] \in DOMAIN prog /\ prog[pc[r]].op \in {"waitAll", "waitFor"}
  BY DEF Cur
<1>2. CASE prog[pc[r]].op = "waitAll"
  BY <1>2, KernelExecAssumption DEF Listed, Cur
<1>3. CASE prog[pc[r]].op = "waitFor"
  BY <1>1, <1>3, ProgramCalls DEF Listed, Cur, TypeInv, TypeOK, MainType
<1> QED
  BY <1>1, <1>2, <1>3

\* A step that starts no thread for rank q, and undoes none, keeps what its past
\* waits have established.
LEMMA FramePast ==
    ASSUME TypeInv, prog' = prog, NEW q \in Rank, PastDone(q), pc'[q] = pc[q],
           \A c \in Launch : prog[c].op = "exec" /\ r_rank[prog[c].task] = q =>
               /\ launch'[c] = "none" <=> launch[c] = "none"
               /\ Ended(c) => Ended(c)'
    PROVE  PastDone(q)'
<1>1. ASSUME NEW t \in Task, r_rank[t] = q, NEW e \in Launch, NEW c \in DOMAIN prog
      PROVE  /\ LastStarted(e, t, c)' => LastStarted(e, t, c)
             /\ LastStarted(e, t, c) /\ Ended(e) => Ended(e)'
  <2>1. \A f \in e + 1 .. c - 1 : f \in Launch
    BY KernelExecAssumption DEF TypeInv, TypeOK, MainType, Launch
  <2> QED BY <1>1, <2>1 DEF LastStarted, IsExec
<1> QED
  BY <1>1 DEF PastDone, Covers

\* What other ranks, threads and devices do does not disturb rank q.
LEMMA FrameRank ==
    ASSUME TypeInv, prog' = prog, NEW q \in Rank, RankInv(q),
           pc'[q] = pc[q], phase'[q] = phase[q], idx'[q] = idx[q],
           \A c \in Launch : prog[c].op = "exec" /\ r_rank[prog[c].task] = q =>
               /\ launch'[c] = "none" <=> launch[c] = "none"
               /\ Ended(c) => Ended(c)'
    PROVE  RankInv(q)'
<1>1. ASSUME NEW t \in Task, r_rank[t] = q, NEW e \in Launch
      PROVE  /\ LastOf(e, t)' => LastOf(e, t)
             /\ LastOf(e, t) /\ Ended(e) => Ended(e)'
  BY <1>1 DEF LastOf, IsExec
<1>3. LoopDone(q)'
  <2> SUFFICES ASSUME phase'[q] = "join", NEW i \in DOMAIN Listed(q), i < idx[q],
                      r_rank[Listed(q)[i]] = q, NEW e \in Launch, LastOf(e, Listed(q)[i])'
               PROVE  Ended(e)'
    BY DEF LoopDone, Listed, Cur
  <2>1. Listed(q)[i] \in Task
    <3>1. Listed(q) \in Seq(Task)
      BY ListedTasks, ZenonT(60) DEF TypeInv, PhaseOK
    <3> QED BY <3>1
  <2>2. LastOf(e, Listed(q)[i])
    BY <1>1, <2>1 DEF Listed, Cur
  <2> QED BY <1>1, <2>1, <2>2 DEF RankInv, LoopDone
<1>4. BarrierDone(q)'
  BY <1>1 DEF RankInv, BarrierDone, Covers
<1>5. PastDone(q)'
  BY FramePast DEF RankInv
<1> QED
  BY <1>3, <1>4, <1>5 DEF RankInv

\* A rank returns from a call that, if it was a wait, has done its joins.
LEMMA ReturnRank ==
    ASSUME TypeInv, prog' = prog, NEW r \in Rank, RankInv(r), pc[r] \in DOMAIN prog, Return(r),
           \A c \in Launch : c # pc[r] => launch'[c] = launch[c],
           \A t \in Task : r_rank[t] = r /\ Covers(pc[r], t) =>
               \A e \in Launch : LastStarted(e, t, pc[r]) => Ended(e)
    PROVE  RankInv(r)'
<1>1. phase'[r] = "call" /\ pc'[r] = pc[r] + 1 /\ pc[r] \in Nat /\ DOMAIN prog \subseteq Launch
  BY KernelExecAssumption DEF TypeInv, TypeOK, MainType, Return, Launch
<1>2. PastDone(r)'
  <2> SUFFICES ASSUME NEW c \in DOMAIN prog, c < pc[r] + 1, NEW t \in Task, r_rank[t] = r,
                      Covers(c, t), NEW e \in Launch, LastStarted(e, t, c)'
               PROVE  Ended(e)'
    BY <1>1 DEF PastDone, Covers
  <2>1. c <= pc[r] /\ c \in Launch /\ e < c
    BY <1>1 DEF Launch, LastStarted
  <2>2. launch'[e] = launch[e] /\ \A f \in e + 1 .. c - 1 : launch'[f] = launch[f]
    <3>1. e # pc[r] /\ \A f \in e + 1 .. c - 1 : f \in Launch /\ f # pc[r]
      BY <1>1, <2>1, KernelExecAssumption DEF Launch
    <3> QED BY <3>1
  <2>3. LastStarted(e, t, c)
    BY <2>2 DEF LastStarted, IsExec
  <2>4. CASE c = pc[r]
    BY <2>2, <2>3, <2>4 DEF Ended
  <2>5. CASE c < pc[r]
    BY <2>2, <2>3, <2>5 DEF Ended, RankInv, PastDone
  <2> QED BY <1>1, <2>1, <2>4, <2>5 DEF Launch
<1> QED
  BY <1>1, <1>2 DEF RankInv, LoopDone, BarrierDone

\* Rank r moves inside a call, and no thread changes.
LEMMA GotoRank ==
    ASSUME TypeInv, prog' = prog, launch' = launch, NEW r \in Rank, RankInv(r),
           pc' = pc, LoopDone(r)', BarrierDone(r)'
    PROVE  RankInv(r)'
<1>1. PastDone(r)'
  BY FramePast DEF RankInv, Ended
<1> QED
  BY <1>1 DEF RankInv

\* A step of rank r that changes no launch keeps the facts about threads.
LEMMA FrameThreads ==
    ASSUME WaitInv, UNCHANGED << prog, threadVars, thds, queue >>
    PROVE  HandlesDistinct' /\ ThdsLast' /\ QueueOK' /\ QueueHome'
<1> USE DEF WaitInv, threadVars
<1>1. HandlesDistinct'
  BY DEF HandlesDistinct, Live
<1>2. ThdsLast'
  BY DEF ThdsLast, LastOf, IsExec
<1>3. QueueOK' /\ QueueHome'
  BY DEF QueueOK, QueueHome, InQueue
<1> QED
  BY <1>1, <1>2, <1>3

\* Every step of a rank, a thread or a device keeps what the waits rely on.
LEMMA WaitNext == WaitInv /\ [Next]_vars => WaitInv'
<1> SUFFICES ASSUME WaitInv, [Next]_vars PROVE WaitInv'
  OBVIOUS
<1>0. TypeInv /\ HandlesDistinct /\ ThdsLast /\ QueueOK /\ QueueHome /\ \A r \in Rank : RankInv(r)
  BY DEF WaitInv
<1>p. pc \in [Rank -> Nat \ {0}] /\ phase \in [Rank -> {"call", "args", "join", "barrier"}]
      /\ idx \in [Rank -> Nat \ {0}] /\ prog \in Seq(Call) /\ Len(prog) \in 1 .. MaxCalls
      /\ PhaseOK
  BY <1>0, KernelExecAssumption DEF TypeInv, TypeOK, MainType
<1>t. TypeInv'
  BY <1>0, TypeNext
<1>q. ASSUME NEW r \in Rank, prog' = prog, launch' = launch, Goto(r, phase'[r], idx'[r]) \/ Return(r),
             NEW q \in Rank, q # r
      PROVE  RankInv(q)'
  BY <1>0, <1>p, <1>q, FrameRank DEF Goto, Return, Ended
<1>1. ASSUME NEW r \in Rank, ExecCall(r) PROVE WaitInv'
  <2>1. HandlesDistinct' /\ ThdsLast' /\ QueueOK' /\ QueueHome'
    BY <1>1, FrameThreads DEF ExecCall, arrayVars
  <2>2. prog' = prog /\ launch' = launch /\ pc[r] \in DOMAIN prog /\ Cur(r).op = "exec"
    BY <1>1, <1>p DEF ExecCall, AtCall, threadVars
  <2>3. RankInv(r)'
    <3>1. CASE Goto(r, "args", 1)
      BY <1>0, <1>p, <2>2, <3>1, GotoRank DEF Goto, LoopDone, BarrierDone
    <3>2. CASE Return(r)
      BY <1>0, <2>2, <3>2, ReturnRank DEF Covers, Cur
    <3> QED BY <1>1, <3>1, <3>2 DEF ExecCall
  <2>4. ASSUME NEW q \in Rank, q # r PROVE RankInv(q)'
    BY <1>1, <1>p, <1>q, <2>2, <2>4 DEF ExecCall, Goto
  <2> QED BY <1>t, <2>1, <2>3, <2>4 DEF WaitInv
<1>2. ASSUME NEW r \in Rank, SetKernelArg(r) PROVE WaitInv'
  <2>1. HandlesDistinct' /\ ThdsLast' /\ QueueOK' /\ QueueHome'
    BY <1>2, FrameThreads DEF SetKernelArg, arrayVars
  <2>2. prog' = prog /\ launch' = launch /\ Goto(r, "args", idx[r] + 1)
    BY <1>2 DEF SetKernelArg, threadVars
  <2>3. RankInv(r)'
    BY <1>0, <1>p, <2>2, GotoRank DEF Goto, LoopDone, BarrierDone
  <2>4. ASSUME NEW q \in Rank, q # r PROVE RankInv(q)'
    BY <1>p, <1>q, <2>2, <2>4 DEF Goto
  <2> QED BY <1>t, <2>1, <2>3, <2>4 DEF WaitInv
<1>3. ASSUME NEW r \in Rank, SetKernelArgError(r) \/ JoinCrash(r) PROVE WaitInv'
  <2>1. Abort
    BY <1>3 DEF SetKernelArgError, JoinCrash
  <2>2. HandlesDistinct' /\ ThdsLast' /\ QueueOK' /\ QueueHome'
    BY <2>1, FrameThreads DEF Abort, arrayVars
  <2>3. ASSUME NEW q \in Rank PROVE RankInv(q)'
    BY <1>0, <2>1, FrameRank DEF Abort, mainVars, threadVars, Ended
  <2> QED BY <1>t, <2>2, <2>3 DEF WaitInv
<1>4. ASSUME NEW r \in Rank, EnqueueKernel(r) PROVE WaitInv'
  <2> DEFINE t == Cur(r).task
  <2>0. /\ pc[r] \in DOMAIN prog /\ prog' = prog /\ Cur(r).op = "exec" /\ r_rank[t] = r
        /\ pc[r] \in Launch /\ t \in Task
    <3>1. pc[r] \in DOMAIN prog /\ prog' = prog /\ Cur(r).op = "exec" /\ r_rank[t] = r
      BY <1>p, <1>4 DEF EnqueueKernel, At, PhaseOK
    <3> QED BY <1>0, <3>1, ProgramCalls DEF Cur, TypeInv, TypeOK, MainType
  <2>1. PICK h \in FreeHandles : /\ handle' = [handle EXCEPT ![pc[r]] = h]
                                 /\ thds' = [thds EXCEPT ![t] = h]
    BY <1>4 DEF EnqueueKernel
  <2>2. /\ launch[pc[r]] = "none" /\ launch'[pc[r]] = "created"
        /\ handle'[pc[r]] = h /\ thds'[t] = h
        /\ \A c \in Launch : c # pc[r] => launch'[c] = launch[c] /\ handle'[c] = handle[c]
        /\ \A u \in Task : u # t => thds'[u] = thds[u]
    <3>1. launch[pc[r]] = "none"
      BY <1>0, <1>p, <2>0 DEF TypeInv, LaunchOK, Cur
    <3> QED BY <1>0, <1>4, <2>0, <2>1, <3>1 DEF EnqueueKernel, TypeInv, TypeOK, ThreadType, ArrayType
  <2>3. HandlesDistinct'
    <3>1. \A c \in Launch : Live(c) => handle[c] # h
      BY <2>1 DEF FreeHandles, Live
    <3> QED BY <1>0, <2>2, <3>1 DEF HandlesDistinct, Live
  <2>4. ThdsLast'
    <3> SUFFICES ASSUME NEW u \in Task, NEW e \in Launch, LastOf(e, u)'
                 PROVE  thds'[u] = handle'[e]
      BY DEF ThdsLast
    <3>1. CASE e = pc[r]
      BY <2>0, <2>2, <3>1 DEF LastOf, IsExec, Cur
    <3>2. CASE e # pc[r]
      <4>1. IsExec(e, u) /\ launch[e] # "none"
        BY <2>0, <2>2, <3>2 DEF LastOf, IsExec
      <4>2. \A f \in Launch : f > e /\ IsExec(f, u) => launch[f] = "none"
        BY <2>0, <2>2 DEF LastOf, IsExec
      <4>3. u # t
        <5> SUFFICES ASSUME u = t PROVE FALSE
          OBVIOUS
        <5>1. e < pc[r]
          BY <1>0, <2>0, <4>1 DEF TypeInv, LaunchOK, IsExec
        <5>2. IsExec(pc[r], u) /\ pc[r] > e
          BY <2>0, <5>1, KernelExecAssumption DEF IsExec, Cur, Launch
        <5> QED BY <2>0, <2>2, <5>2 DEF LastOf, IsExec
      <4> QED BY <1>0, <2>2, <3>2, <4>1, <4>2, <4>3 DEF ThdsLast, LastOf
    <3> QED BY <3>1, <3>2
  <2>5. QueueOK' /\ QueueHome'
    <3>1. \A d \in Device : \A e \in InQueue(d) : e \in Launch
      BY <1>0 DEF TypeInv, TypeOK, SystemType, InQueue
    <3>2. queue' = queue /\ finishSet' = finishSet
      BY <1>4 DEF EnqueueKernel
    <3> QED BY <1>0, <2>0, <2>2, <3>1, <3>2 DEF QueueOK, QueueHome, InQueue
  <2>6. RankInv(r)'
    BY <1>0, <1>4, <2>0, <2>2, ReturnRank DEF EnqueueKernel, Covers, Cur
  <2>7. ASSUME NEW q \in Rank, q # r PROVE RankInv(q)'
    <3>1. pc'[q] = pc[q] /\ phase'[q] = phase[q] /\ idx'[q] = idx[q]
      BY <1>p, <1>4, <2>7 DEF EnqueueKernel, Return
    <3>2. \A c \in Launch : r_rank[prog[c].task] = q => launch'[c] = launch[c]
      BY <2>0, <2>2, <2>7 DEF Cur
    <3> QED BY <1>0, <2>0, <3>1, <3>2, FrameRank DEF Ended
  <2> QED BY <1>t, <2>3, <2>4, <2>5, <2>6, <2>7 DEF WaitInv
<1>5. ASSUME NEW r \in Rank, EnqueueKernelNoThread(r) PROVE WaitInv'
  <2>1. HandlesDistinct' /\ ThdsLast' /\ QueueOK' /\ QueueHome'
    BY <1>5, FrameThreads DEF EnqueueKernelNoThread
  <2>2. prog' = prog /\ launch' = launch /\ pc[r] \in DOMAIN prog /\ Cur(r).op = "exec" /\ Return(r)
    BY <1>5, <1>p DEF EnqueueKernelNoThread, At, PhaseOK, threadVars
  <2>3. RankInv(r)'
    BY <1>0, <2>2, ReturnRank DEF Covers, Cur
  <2>4. ASSUME NEW q \in Rank, q # r PROVE RankInv(q)'
    BY <1>q, <2>2, <2>4
  <2> QED BY <1>t, <2>1, <2>3, <2>4 DEF WaitInv
<1>6. ASSUME NEW r \in Rank, WaitAllCall(r) \/ WaitForCall(r) PROVE WaitInv'
  <2>1. HandlesDistinct' /\ ThdsLast' /\ QueueOK' /\ QueueHome'
    BY <1>6, FrameThreads DEF WaitAllCall, WaitForCall, arrayVars
  <2>2. prog' = prog /\ launch' = launch /\ pc[r] \in DOMAIN prog
    BY <1>6, <1>p DEF WaitAllCall, WaitForCall, AtCall, threadVars
  <2>3. RankInv(r)'
    <3>1. CASE Goto(r, "join", 1)
      <4>1. idx'[r] = 1 /\ phase'[r] = "join" /\ pc' = pc
        BY <1>p, <3>1 DEF Goto
      <4>2. \A i \in DOMAIN Listed(r)' : i \in Nat /\ i >= 1
        <5>1. Listed(r) \in Seq(Task) /\ Listed(r)' = Listed(r)
          BY <1>0, <1>6, <2>2, <4>1, ListedTasks DEF WaitAllCall, WaitForCall, AtCall, Listed, Cur
        <5> QED BY <5>1
      <4>3. LoopDone(r)'
        <5> SUFFICES ASSUME NEW i \in DOMAIN Listed(r)', i < 1 PROVE FALSE
          BY <4>1 DEF LoopDone
        <5> QED BY <4>2
      <4>4. BarrierDone(r)'
        BY <4>1 DEF BarrierDone
      <4> QED BY <1>0, <2>2, <4>1, <4>3, <4>4, GotoRank
    <3>2. CASE Return(r)
      <4>1. Cur(r).op = "waitFor" /\ ~Owns(r, Cur(r).taskIds)
        BY <1>6, <1>p, <3>2 DEF WaitAllCall, WaitForCall, AtCall, Goto, Return
      <4>2. \A t \in Task : ~(r_rank[t] = r /\ Covers(pc[r], t))
        BY <4>1 DEF Covers, Owns, Cur
      <4> QED BY <1>0, <2>2, <3>2, <4>2, ReturnRank
    <3> QED BY <1>6, <3>1, <3>2 DEF WaitAllCall, WaitForCall
  <2>4. ASSUME NEW q \in Rank, q # r PROVE RankInv(q)'
    BY <1>6, <1>p, <1>q, <2>2, <2>4 DEF WaitAllCall, WaitForCall, Goto
  <2> QED BY <1>t, <2>1, <2>3, <2>4 DEF WaitInv
<1>s. ASSUME UNCHANGED << prog, thds, handle >>,
             \A c \in Launch : /\ launch'[c] = "none" <=> launch[c] = "none"
                               /\ Live(c)' => Live(c)
      PROVE  HandlesDistinct' /\ ThdsLast'
  BY <1>0, <1>s DEF HandlesDistinct, ThdsLast, LastOf, IsExec, Live
<1>7. ASSUME NEW r \in Rank, SkipRemote(r) \/ Join(r) \/ JoinNoThread(r) PROVE WaitInv'
  <2> DEFINE t == Listed(r)[idx[r]]
  <2>0. /\ UNCHANGED << prog, thds, handle, queue, finishSet >>
        /\ Goto(r, "join", idx[r] + 1)
        /\ phase[r] = "join" /\ idx[r] <= Len(Listed(r))
    BY <1>7 DEF SkipRemote, Join, JoinNoThread, Joining, At, threadVars, arrayVars
  <2>1. Listed(r) \in Seq(Task) /\ t \in Task
    <3>1. Listed(r) \in Seq(Task)
      BY <1>0, <1>p, <2>0, ListedTasks DEF PhaseOK
    <3> QED BY <1>p, <2>0, <3>1
  <2>2. \A c \in Launch : \/ launch'[c] = launch[c]
                          \/ launch[c] = "done" /\ launch'[c] = "joined"
    <3>1. CASE Join(r)
      <4>1. PICK c \in Launch : launch[c] = "done" /\ launch' = [launch EXCEPT ![c] = "joined"]
        BY <3>1 DEF Join, Unjoined
      <4> QED BY <1>0, <4>1 DEF TypeInv, TypeOK, ThreadType
    <3>2. CASE launch' = launch
      BY <3>2
    <3> QED BY <1>7, <3>1, <3>2 DEF SkipRemote, JoinNoThread, threadVars
  <2>3. HandlesDistinct' /\ ThdsLast'
    BY <1>s, <2>0, <2>2 DEF Live
  <2>4. QueueOK' /\ QueueHome'
    <3>1. \A d \in Device : \A e \in InQueue(d) : e \in Launch
      BY <1>0 DEF TypeInv, TypeOK, SystemType, InQueue
    <3> QED BY <1>0, <2>0, <2>2, <3>1 DEF QueueOK, QueueHome, InQueue
  <2>5. r_rank[t] = r => \A e \in Launch : LastOf(e, t) => Ended(e)'
    <3> SUFFICES ASSUME r_rank[t] = r, NEW e \in Launch, LastOf(e, t) PROVE Ended(e)'
      OBVIOUS
    <3>1. thds[t] = handle[e] /\ launch[e] # "none"
      BY <1>0, <2>1 DEF ThdsLast, LastOf
    <3>2. CASE launch[e] = "joined"
      BY <2>2, <3>2 DEF Ended
    <3>3. CASE launch[e] # "joined" /\ Join(r)
      <4>1. PICK c \in Unjoined(thds[t]) : launch[c] = "done" /\ launch' = [launch EXCEPT ![c] = "joined"]
        BY <3>3 DEF Join
      <4>2. c = e
        BY <1>0, <3>1, <3>3, <4>1 DEF Unjoined, HandlesDistinct, Live
      <4> QED BY <2>2, <4>1, <4>2 DEF Ended
    <3>4. CASE launch[e] # "joined" /\ JoinNoThread(r)
      BY <3>1, <3>4 DEF JoinNoThread, Unjoined
    <3> QED BY <1>7, <3>2, <3>3, <3>4 DEF SkipRemote
  <2>6. \A e \in Launch : (Ended(e) => Ended(e)') /\ (launch'[e] = "none" <=> launch[e] = "none")
    BY <2>2 DEF Ended
  <2>7. /\ pc' = pc /\ phase'[r] = "join" /\ idx'[r] = idx[r] + 1 /\ idx[r] \in Nat
        /\ \A q \in Rank : q # r => phase'[q] = phase[q] /\ idx'[q] = idx[q]
    BY <1>p, <2>0 DEF Goto
  <2>8. RankInv(r)'
    <3>1. PastDone(r)'
      BY <1>0, <2>0, <2>6, <2>7, FramePast DEF RankInv
    <3>2. LoopDone(r)'
      <4> SUFFICES ASSUME NEW i \in DOMAIN Listed(r), i < idx[r] + 1, r_rank[Listed(r)[i]] = r,
                          NEW e \in Launch, LastOf(e, Listed(r)[i])
                   PROVE  Ended(e)'
        BY <2>0, <2>6, <2>7 DEF LoopDone, Listed, Cur, LastOf, IsExec
      <4>1. CASE i = idx[r]
        BY <2>5, <4>1
      <4>2. CASE i < idx[r]
        BY <1>0, <2>0, <2>6, <4>2 DEF RankInv, LoopDone
      <4> QED BY <2>1, <2>7, <4>1, <4>2
    <3> QED BY <2>7, <3>1, <3>2 DEF RankInv, BarrierDone
  <2>9. ASSUME NEW q \in Rank, q # r PROVE RankInv(q)'
    BY <1>0, <2>0, <2>6, <2>7, <2>9, FrameRank
  <2> QED BY <1>t, <2>3, <2>4, <2>8, <2>9 DEF WaitInv
<1>8. ASSUME NEW r \in Rank, BarrierEnter(r) PROVE WaitInv'
  <2>1. HandlesDistinct' /\ ThdsLast' /\ QueueOK' /\ QueueHome'
    BY <1>8, FrameThreads DEF BarrierEnter, arrayVars
  <2>2. /\ prog' = prog /\ launch' = launch /\ Goto(r, "barrier", 1)
        /\ phase[r] = "join" /\ idx[r] > Len(Listed(r))
    BY <1>8 DEF BarrierEnter, At, threadVars
  <2>3. pc' = pc /\ phase'[r] = "barrier"
    BY <1>p, <2>2 DEF Goto
  <2>4. BarrierDone(r)'
    <3> SUFFICES ASSUME NEW t \in Task, r_rank[t] = r, Covers(pc[r], t), NEW e \in Launch, LastOf(e, t)
                 PROVE  Ended(e)
      BY <2>2, <2>3 DEF BarrierDone, Covers, LastOf, IsExec, Ended
    <3>0. Listed(r) \in Seq(Task)
      BY <1>0, <1>p, <2>2, ListedTasks DEF PhaseOK
    <3>1. \E i \in DOMAIN Listed(r) : Listed(r)[i] = t
      <4>1. CASE Cur(r).op = "waitAll"
        <5>1. t \in {taskList[r][i] : i \in DOMAIN taskList[r]}
          BY KernelExecAssumption
        <5> QED BY <4>1, <5>1 DEF Listed
      <4>2. CASE Cur(r).op = "waitFor"
        BY <4>2 DEF Covers, Listed, Cur
      <4> QED BY <1>p, <2>2, <4>1, <4>2 DEF PhaseOK
    <3>2. PICK i \in DOMAIN Listed(r) : Listed(r)[i] = t
      BY <3>1
    <3>3. i < idx[r]
      BY <1>p, <2>2, <3>0
    <3> QED BY <1>0, <2>2, <3>2, <3>3 DEF RankInv, LoopDone
  <2>5. RankInv(r)'
    BY <1>0, <2>2, <2>3, <2>4, GotoRank DEF LoopDone
  <2>6. ASSUME NEW q \in Rank, q # r PROVE RankInv(q)'
    BY <1>p, <1>q, <2>2, <2>6 DEF Goto
  <2> QED BY <1>t, <2>1, <2>5, <2>6 DEF WaitInv
<1>9. ASSUME NEW r \in Rank, BarrierLeave(r) PROVE WaitInv'
  <2>1. HandlesDistinct' /\ ThdsLast' /\ QueueOK' /\ QueueHome'
    BY <1>9, FrameThreads DEF BarrierLeave, arrayVars
  <2>2. prog' = prog /\ launch' = launch /\ pc[r] \in DOMAIN prog /\ Return(r) /\ phase[r] = "barrier"
    BY <1>9, <1>p DEF BarrierLeave, At, PhaseOK, threadVars
  <2>3. RankInv(r)'
    <3>1. \A t \in Task : r_rank[t] = r /\ Covers(pc[r], t) =>
              \A e \in Launch : LastStarted(e, t, pc[r]) => Ended(e)
      BY <1>0, <2>2, LastIsLast DEF RankInv, BarrierDone
    <3> QED BY <1>0, <2>2, <3>1, ReturnRank
  <2>4. ASSUME NEW q \in Rank, q # r PROVE RankInv(q)'
    BY <1>q, <2>2, <2>4
  <2> QED BY <1>t, <2>1, <2>3, <2>4 DEF WaitInv
<1>10. ASSUME NEW c \in Launch, ThreadStep(c) PROVE WaitInv'
  <2> USE DEF ThreadStep, ThreadEnqueue, ThreadEnqueueError, ThreadFinish, ThreadExit
  <2>0. UNCHANGED << prog, pc, phase, idx, thds, handle >>
    BY <1>10 DEF mainVars, arrayVars
  <2>1. /\ launch[c] \in {"created", "queued", "finishing"}
        /\ launch'[c] \in {"queued", "finishing", "done"}
        /\ \A e \in Launch : e # c => launch'[e] = launch[e]
    BY <1>0, <1>10 DEF TypeInv, TypeOK, ThreadType
  <2>2. \A e \in Launch : /\ launch'[e] = "none" <=> launch[e] = "none"
                          /\ Live(e)' => Live(e)
                          /\ Ended(e) => Ended(e)'
    BY <2>1 DEF Live, Ended
  <2>3. HandlesDistinct' /\ ThdsLast'
    BY <1>s, <2>0, <2>2
  <2>4. QueueOK'
    <3>0. prog[c].task \in Task
      BY <1>0, <2>1, ProgramCalls DEF TypeInv, TypeOK, MainType, LaunchOK
    <3>1. /\ devOf[prog[c].task] \in Device /\ queue \in [Device -> Seq(Launch)]
          /\ launch \in [Launch -> {"none", "created", "queued", "finishing", "done", "joined"}]
          /\ finishSet \in [Launch -> SUBSET Launch]
          /\ \A d \in Device : \A e \in InQueue(d) : e \in Launch
      BY <1>0, <3>0, KernelExecAssumption DEF TypeInv, TypeOK, SystemType, ThreadType, InQueue
    <3>h. \A d \in Device : c \in InQueue(d) => d = devOf[prog[c].task]
      BY <1>0 DEF QueueHome
    <3>2. CASE ThreadEnqueue(c)
      <4>1. \A d \in Device : InQueue(d)' \subseteq InQueue(d) \cup {c}
        BY <3>1, <3>2 DEF InQueue
      <4>2. finishSet' = finishSet /\ launch'[c] = "queued"
        BY <3>1, <3>2
      <4> QED BY <1>0, <2>1, <3>1, <4>1, <4>2 DEF QueueOK
    <3>3. CASE ThreadEnqueueError(c)
      <4>1. finishSet' = finishSet /\ launch'[c] = "queued" /\ queue' = queue
        BY <3>1, <3>3
      <4> QED BY <1>0, <2>1, <3>1, <4>1 DEF QueueOK, InQueue
    <3>4. CASE ThreadFinish(c)
      <4>1. /\ launch'[c] = "finishing" /\ queue' = queue
            /\ finishSet'[c] = InQueue(devOf[prog[c].task])
            /\ \A e \in Launch : e # c => finishSet'[e] = finishSet[e]
        BY <3>1, <3>4
      <4> QED BY <1>0, <2>1, <3>1, <3>h, <4>1 DEF QueueOK, InQueue
    <3>5. CASE ThreadExit(c)
      <4>1. finishSet' = finishSet /\ queue' = queue /\ launch[c] = "finishing"
        BY <3>5
      <4>2. \A d \in Device : c \notin InQueue(d)
        BY <1>0, <3>5, <3>h, <4>1 DEF QueueOK
      <4> QED BY <1>0, <2>1, <3>1, <4>1, <4>2 DEF QueueOK, InQueue
    <3> QED BY <1>10, <3>2, <3>3, <3>4, <3>5
  <2>5. ASSUME NEW q \in Rank PROVE RankInv(q)'
    BY <1>0, <2>0, <2>2, FrameRank
  <2>6. QueueHome'
    <3>1. \A d \in Device : \A e \in InQueue(d)' :
            e \in InQueue(d) \/ (e = c /\ d = devOf[prog[c].task])
      <4>0. queue \in [Device -> Seq(Launch)]
        BY <1>0 DEF TypeInv, TypeOK, SystemType
      <4>1. CASE ThreadEnqueue(c)
        BY <4>0, <4>1 DEF InQueue
      <4>2. CASE queue' = queue
        BY <4>2 DEF InQueue
      <4> QED BY <1>10, <4>1, <4>2
    <3> QED BY <1>0, <2>0, <3>1 DEF QueueHome
  <2> QED BY <1>t, <2>3, <2>4, <2>5, <2>6 DEF WaitInv
<1>11. ASSUME NEW d \in Device, DeviceRun(d) PROVE WaitInv'
  <2>0. UNCHANGED << prog, pc, phase, idx, thds, threadVars >>
    BY <1>11 DEF DeviceRun, mainVars, arrayVars
  <2>1. HandlesDistinct' /\ ThdsLast'
    BY <1>s, <2>0 DEF threadVars, Live
  <2>2. \A x \in Device : InQueue(x)' \subseteq InQueue(x)
    BY <1>0, <1>11 DEF DeviceRun, InQueue, TypeInv, TypeOK, SystemType
  <2>3. QueueOK' /\ QueueHome'
    BY <1>0, <2>0, <2>2 DEF QueueOK, QueueHome, threadVars
  <2>4. ASSUME NEW q \in Rank PROVE RankInv(q)'
    BY <1>0, <2>0, FrameRank DEF threadVars, Ended
  <2> QED BY <1>t, <2>1, <2>3, <2>4 DEF WaitInv
<1>12. CASE UNCHANGED vars
  <2>1. HandlesDistinct' /\ ThdsLast' /\ QueueOK' /\ QueueHome'
    BY <1>12, FrameThreads DEF vars, threadVars
  <2>2. ASSUME NEW q \in Rank PROVE RankInv(q)'
    BY <1>0, <1>12, FrameRank DEF vars, Ended
  <2> QED BY <1>t, <2>1, <2>2 DEF WaitInv
<1> QED
  BY <1>1, <1>2, <1>3, <1>4, <1>5, <1>6, <1>7, <1>8, <1>9, <1>10, <1>11, <1>12
     DEF Next, MainStep, Terminated

\* When a rank has done the joins of a wait, the last kernels of its tasks that the
\* wait covers have run.
LEMMA WaitInvCompletes == WaitInv => WaitCompletesLastLaunch
<1> SUFFICES ASSUME WaitInv, NEW r \in Rank, NEW c \in DOMAIN prog, Joined(r, c),
                    NEW t \in Task, r_rank[t] = r, Covers(c, t),
                    NEW e \in Launch, LastStarted(e, t, c)
             PROVE  Complete(e)
  BY DEF WaitCompletesLastLaunch
<1>1. TypeInv /\ QueueOK /\ RankInv(r)
  BY DEF WaitInv
<1>2. Ended(e)
  <2>1. CASE c < pc[r]
    BY <1>1, <2>1 DEF RankInv, PastDone
  <2>2. CASE c = pc[r] /\ phase[r] = "barrier"
    BY <1>1, <2>2, LastIsLast DEF RankInv, BarrierDone
  <2> QED BY <1>1, <2>1, <2>2, KernelExecAssumption DEF Joined, TypeInv, TypeOK, MainType
<1>3. devOf[prog[e].task] \in Device
  BY <1>1, ProgramCalls, KernelExecAssumption DEF LastStarted, IsExec, TypeInv, TypeOK, MainType
<1> QED
  BY <1>1, <1>2, <1>3 DEF Complete, Ended, QueueOK

\* Once OMPI_XclWaitAllTasks or OMPI_XclWaitFor has joined the threads of its
\* rank, the last kernel started for every covered task of the rank has run,
\* for every program, every interleaving and every reuse of pthread_t values.
THEOREM WaitsComplete == Spec => []WaitCompletesLastLaunch
  BY WaitInit, WaitNext, WaitInvCompletes, PTL DEF Spec

-----------------------------------------------------------------------------
(* A wait is a global synchronisation.                                     *)

IsWait(c) == c \in DOMAIN prog /\ prog[c].op \in {"waitAll", "waitFor"}

\* The waits among the first c calls.
Waits(c) == {b \in 1 .. c : IsWait(b)}

\* While the waits behind rank r were aligned, it has entered one barrier for each
\* of them, and one for the wait it is in once its joins are done.
EnteredOK(r) ==
    Aligned(pc[r] - 1) =>
        entered[r] = Cardinality(Waits(IF phase[r] = "barrier" THEN pc[r] ELSE pc[r] - 1))

\* No rank is past an aligned wait before every rank has done its joins.
PassedOK(r) ==
    \A c \in DOMAIN prog : IsWait(c) /\ Aligned(c) /\ c < pc[r] => \A q \in Rank : Joined(q, c)

GlobalInv == WaitInv /\ \A r \in Rank : EnteredOK(r) /\ PassedOK(r)


\* The waits up to a call, counted.
LEMMA WaitsCount ==
    ASSUME NEW c \in Nat
    PROVE  /\ IsFiniteSet(Waits(c)) /\ Cardinality(Waits(c)) \in Nat
           /\ \A b \in Nat : b <= c => Cardinality(Waits(b)) <= Cardinality(Waits(c))
           /\ IsWait(c + 1) => Cardinality(Waits(c + 1)) = Cardinality(Waits(c)) + 1
           /\ ~IsWait(c + 1) => Waits(c + 1) = Waits(c)
<1>1. IsFiniteSet(1 .. c)
  BY FS_Interval
<1>2. IsFiniteSet(Waits(c)) /\ Cardinality(Waits(c)) \in Nat
  BY <1>1, FS_Subset, FS_CardinalityType DEF Waits
<1>3. ASSUME NEW b \in Nat, b <= c PROVE Cardinality(Waits(b)) <= Cardinality(Waits(c))
  <2>1. Waits(b) \in SUBSET Waits(c)
    BY <1>3 DEF Waits
  <2> QED BY <1>2, <2>1, FS_Subset
<1>4. ASSUME IsWait(c + 1) PROVE Cardinality(Waits(c + 1)) = Cardinality(Waits(c)) + 1
  <2>1. Waits(c + 1) = Waits(c) \cup {c + 1} /\ c + 1 \notin Waits(c)
    BY <1>4 DEF Waits
  <2> QED BY <1>2, <2>1, FS_AddElement
<1>5. ASSUME ~IsWait(c + 1) PROVE Waits(c + 1) = Waits(c)
  BY <1>5 DEF Waits
<1> QED
  BY <1>2, <1>3, <1>4, <1>5

\* A rank that has entered as many barriers as there are waits up to an aligned
\* wait has done the joins of that wait.
LEMMA EnteredJoined ==
    ASSUME TypeInv, NEW q \in Rank, EnteredOK(q), NEW c \in DOMAIN prog, IsWait(c), Aligned(c),
           entered[q] >= Cardinality(Waits(c))
    PROVE  Joined(q, c)
<1> SUFFICES ASSUME ~Joined(q, c) PROVE FALSE
  OBVIOUS
<1>0. c \in Nat /\ c >= 1 /\ pc[q] \in Nat /\ pc[q] >= 1
  BY KernelExecAssumption DEF TypeInv, TypeOK, MainType
<1>1. pc[q] < c \/ (pc[q] = c /\ phase[q] # "barrier")
  BY <1>0 DEF Joined
<1>2. Aligned(pc[q] - 1)
  BY <1>0, <1>1 DEF Aligned
<1> DEFINE n == IF phase[q] = "barrier" THEN pc[q] ELSE pc[q] - 1
<1>3. n \in Nat /\ n <= c - 1 /\ c - 1 \in Nat
  BY <1>0, <1>1
<1>4. entered[q] = Cardinality(Waits(n))
  BY <1>2 DEF EnteredOK
<1>5. Cardinality(Waits(n)) <= Cardinality(Waits(c - 1)) /\ Cardinality(Waits(n)) \in Nat
      /\ Cardinality(Waits(c - 1)) \in Nat
  BY <1>3, WaitsCount
<1>6. Cardinality(Waits((c - 1) + 1)) = Cardinality(Waits(c - 1)) + 1
  BY <1>0, <1>3, WaitsCount
<1>7. (c - 1) + 1 = c
  BY <1>0
<1> QED
  BY <1>4, <1>5, <1>6, <1>7

\* What past waits and counts say does not depend on the threads.
LEMMA FrameGlobal ==
    ASSUME TypeInv, prog' = prog, NEW q \in Rank,
           pc'[q] = pc[q], phase'[q] = "barrier" <=> phase[q] = "barrier", entered'[q] = entered[q]
    PROVE  EnteredOK(q) => EnteredOK(q)'
<1>1. \A c : (Waits(c))' = Waits(c) /\ (Aligned(c))' = Aligned(c)
  BY DEF Waits, IsWait, Aligned
<1> QED
  BY <1>1 DEF EnteredOK

\* Joins that are done stay done.
LEMMA JoinedStays ==
    ASSUME TypeInv, TypeInv', NEW q \in Rank, NEW c \in Nat, Joined(q, c),
           \/ pc'[q] = pc[q] /\ (phase[q] = "barrier" => phase'[q] = "barrier")
           \/ pc'[q] = pc[q] + 1
    PROVE  Joined(q, c)'
<1>1. pc[q] \in Nat /\ pc'[q] \in Nat
  BY KernelExecAssumption DEF TypeInv, TypeOK, MainType
<1> QED
  BY <1>1 DEF Joined

\* A rank returns from a call that is not an aligned wait, or one every rank has
\* done the joins of, and has entered a barrier if and only if it was a wait.
LEMMA ReturnGlobal ==
    ASSUME TypeInv, TypeInv', prog' = prog, entered' = entered, NEW r \in Rank,
           pc[r] \in DOMAIN prog, Return(r), \A s \in Rank : EnteredOK(s) /\ PassedOK(s),
           IsWait(pc[r]) /\ Aligned(pc[r]) => phase[r] = "barrier" /\ \A q \in Rank : Joined(q, pc[r]),
           phase[r] = "barrier" => IsWait(pc[r])
    PROVE  \A s \in Rank : EnteredOK(s)' /\ PassedOK(s)'
<1>0. /\ pc \in [Rank -> Nat \ {0}] /\ phase'[r] = "call" /\ pc'[r] = pc[r] + 1
      /\ \A q \in Rank : q # r => pc'[q] = pc[q] /\ phase'[q] = phase[q]
      /\ DOMAIN prog \subseteq Nat
  BY KernelExecAssumption DEF TypeInv, TypeOK, MainType, Return
<1>1. \A c : (Waits(c))' = Waits(c) /\ (Aligned(c))' = Aligned(c) /\ IsWait(c)' = IsWait(c)
  BY DEF Waits, IsWait, Aligned
<1>2. \A q \in Rank : \A c \in DOMAIN prog : Joined(q, c) => Joined(q, c)'
  BY <1>0, JoinedStays
<1>3. EnteredOK(r)'
  <2> SUFFICES ASSUME Aligned(pc[r]) PROVE entered[r] = Cardinality(Waits(pc[r]))
    BY <1>0, <1>1 DEF EnteredOK
  <2>1. Aligned(pc[r] - 1)
    BY <1>0 DEF Aligned
  <2>2. CASE phase[r] = "barrier"
    BY <2>1, <2>2 DEF EnteredOK
  <2>3. CASE phase[r] # "barrier"
    <3>1. ~IsWait(pc[r])
      BY <2>3
    <3>2. pc[r] - 1 \in Nat /\ (pc[r] - 1) + 1 = pc[r]
      BY <1>0
    <3>3. Waits(pc[r]) = Waits(pc[r] - 1)
      BY <3>1, <3>2, WaitsCount
    <3> QED BY <2>1, <2>3, <3>3 DEF EnteredOK
  <2> QED BY <2>2, <2>3
<1>4. ASSUME NEW s \in Rank, s # r PROVE EnteredOK(s)'
  BY <1>0, <1>4, FrameGlobal
<1>5. ASSUME NEW s \in Rank PROVE PassedOK(s)'
  <2> SUFFICES ASSUME NEW c \in DOMAIN prog, IsWait(c), Aligned(c), c < pc'[s], NEW q \in Rank
               PROVE  Joined(q, c)'
    BY <1>1 DEF PassedOK
  <2>1. CASE c < pc[s]
    BY <1>2, <2>1 DEF PassedOK
  <2>2. CASE s = r /\ c = pc[r]
    BY <1>2, <2>2
  <2> QED BY <1>0, <2>1, <2>2
<1> QED
  BY <1>3, <1>4, <1>5

\* No other step moves a rank to the next call.
LEMMA StayGlobal ==
    ASSUME TypeInv, TypeInv', prog' = prog, pc' = pc,
           \A s \in Rank : EnteredOK(s) /\ PassedOK(s),
           \A s \in Rank : EnteredOK(s)',
           \A s \in Rank : phase[s] = "barrier" => phase'[s] = "barrier"
    PROVE  \A s \in Rank : EnteredOK(s)' /\ PassedOK(s)'
<1>1. \A c : (Aligned(c))' = Aligned(c) /\ IsWait(c)' = IsWait(c)
  BY DEF IsWait, Aligned
<1>2. \A q \in Rank : \A c \in DOMAIN prog : Joined(q, c) => Joined(q, c)'
  <2>1. DOMAIN prog \subseteq Nat
    BY KernelExecAssumption DEF TypeInv, TypeOK, MainType
  <2> QED BY <2>1, JoinedStays
<1> QED
  BY <1>1, <1>2 DEF PassedOK

\* Every step keeps the count of the barriers and what it implies.
LEMMA GlobalNext == GlobalInv /\ [Next]_vars => GlobalInv'
<1> SUFFICES ASSUME GlobalInv, [Next]_vars PROVE \A s \in Rank : EnteredOK(s)' /\ PassedOK(s)'
  BY WaitNext DEF GlobalInv
<1>0. /\ WaitInv /\ TypeInv /\ WaitInv' /\ TypeInv'
      /\ \A s \in Rank : EnteredOK(s) /\ PassedOK(s)
  BY WaitNext DEF GlobalInv, WaitInv
<1>p. /\ pc \in [Rank -> Nat \ {0}] /\ phase \in [Rank -> {"call", "args", "join", "barrier"}]
      /\ PhaseOK /\ prog \in Seq(Call) /\ entered \in [Rank -> Nat] /\ DOMAIN prog \subseteq Nat
  BY <1>0, KernelExecAssumption DEF TypeInv, TypeOK, MainType, SystemType
<1>s. ASSUME UNCHANGED << prog, mainVars, entered >>
      PROVE  \A s \in Rank : EnteredOK(s)' /\ PassedOK(s)'
  BY <1>0, <1>s, FrameGlobal, StayGlobal DEF mainVars
<1>g. ASSUME NEW r \in Rank, phase[r] # "barrier", NEW ph \in {"args", "join"}, NEW i,
             Goto(r, ph, i), UNCHANGED << prog, entered >>
      PROVE  \A s \in Rank : EnteredOK(s)' /\ PassedOK(s)'
  <2>1. pc' = pc /\ \A s \in Rank : phase'[s] = "barrier" <=> phase[s] = "barrier"
    BY <1>p, <1>g DEF Goto
  <2> QED BY <1>0, <1>g, <2>1, FrameGlobal, StayGlobal
<1>1. ASSUME NEW r \in Rank, ExecCall(r) PROVE \A s \in Rank : EnteredOK(s)' /\ PassedOK(s)'
  <2>1. /\ UNCHANGED << prog, entered >> /\ pc[r] \in DOMAIN prog /\ phase[r] = "call"
        /\ Cur(r).op = "exec" /\ (Goto(r, "args", 1) \/ Return(r))
    BY <1>p, <1>1 DEF ExecCall, AtCall
  <2>2. CASE Goto(r, "args", 1)
    BY <1>g, <2>1, <2>2
  <2>3. CASE Return(r)
    BY <1>0, <2>1, <2>3, ReturnGlobal DEF IsWait, Cur
  <2> QED BY <2>1, <2>2, <2>3
<1>2. ASSUME NEW r \in Rank, SetKernelArg(r) PROVE \A s \in Rank : EnteredOK(s)' /\ PassedOK(s)'
  BY <1>2, <1>g DEF SetKernelArg, At
<1>3. ASSUME NEW r \in Rank, SetKernelArgError(r) \/ JoinCrash(r)
      PROVE  \A s \in Rank : EnteredOK(s)' /\ PassedOK(s)'
  BY <1>3, <1>s DEF SetKernelArgError, JoinCrash, Abort
<1>4. ASSUME NEW r \in Rank, EnqueueKernel(r) \/ EnqueueKernelNoThread(r)
      PROVE  \A s \in Rank : EnteredOK(s)' /\ PassedOK(s)'
  <2>1. UNCHANGED << prog, entered >> /\ phase[r] = "args" /\ Return(r)
    BY <1>4 DEF EnqueueKernel, EnqueueKernelNoThread, At
  <2>2. pc[r] \in DOMAIN prog /\ Cur(r).op = "exec"
    BY <1>p, <2>1 DEF PhaseOK
  <2> QED BY <1>0, <2>1, <2>2, ReturnGlobal DEF IsWait, Cur
<1>5. ASSUME NEW r \in Rank, WaitAllCall(r) \/ WaitForCall(r)
      PROVE  \A s \in Rank : EnteredOK(s)' /\ PassedOK(s)'
  <2>1. UNCHANGED << prog, entered >> /\ pc[r] \in DOMAIN prog /\ phase[r] = "call"
    BY <1>p, <1>5 DEF WaitAllCall, WaitForCall, AtCall
  <2>2. CASE Goto(r, "join", 1)
    BY <1>g, <2>1, <2>2
  <2>3. CASE Return(r)
    <3>1. Cur(r).op = "waitFor" /\ ~Owns(r, Cur(r).taskIds)
      BY <1>5, <1>p, <2>3 DEF WaitAllCall, WaitForCall, AtCall, Goto, Return
    <3>2. ~Aligned(pc[r])
      <4>1. pc[r] \in 1 .. pc[r]
        BY <1>p
      <4>2. prog[pc[r]].op = "waitFor" /\ ~Owns(r, prog[pc[r]].taskIds)
        BY <3>1 DEF Cur
      <4> QED BY <4>1, <4>2 DEF Aligned
    <3> QED BY <1>0, <2>1, <2>3, <3>2, ReturnGlobal
  <2> QED BY <1>5, <2>2, <2>3 DEF WaitAllCall, WaitForCall
<1>6. ASSUME NEW r \in Rank, SkipRemote(r) \/ Join(r) \/ JoinNoThread(r)
      PROVE  \A s \in Rank : EnteredOK(s)' /\ PassedOK(s)'
  <2>1. UNCHANGED << prog, entered >> /\ phase[r] = "join" /\ Goto(r, "join", idx[r] + 1)
    BY <1>6 DEF SkipRemote, Join, JoinNoThread, Joining, At
  <2> QED BY <1>g, <2>1
<1>7. ASSUME NEW r \in Rank, BarrierEnter(r) PROVE \A s \in Rank : EnteredOK(s)' /\ PassedOK(s)'
  <2>1. /\ prog' = prog /\ phase[r] = "join" /\ Goto(r, "barrier", 1)
        /\ entered' = [entered EXCEPT ![r] = @ + 1]
    BY <1>7 DEF BarrierEnter, At
  <2>2. /\ pc' = pc /\ phase'[r] = "barrier" /\ entered'[r] = entered[r] + 1
        /\ \A q \in Rank : q # r => phase'[q] = phase[q] /\ entered'[q] = entered[q]
    BY <1>p, <2>1 DEF Goto
  <2>3. EnteredOK(r)'
    <3> SUFFICES ASSUME Aligned(pc[r] - 1) PROVE entered'[r] = Cardinality(Waits(pc[r]))
      BY <2>1, <2>2 DEF EnteredOK, Aligned, Waits, IsWait
    <3>1. entered[r] = Cardinality(Waits(pc[r] - 1))
      BY <1>0, <2>1 DEF EnteredOK
    <3>2. pc[r] - 1 \in Nat /\ (pc[r] - 1) + 1 = pc[r]
      BY <1>p, SMTT(30)
    <3>3. IsWait(pc[r])
      BY <1>p, <2>1 DEF PhaseOK, IsWait, Cur
    <3> QED BY <2>2, <3>1, <3>2, <3>3, WaitsCount
  <2>4. ASSUME NEW s \in Rank, s # r PROVE EnteredOK(s)'
    BY <1>0, <2>1, <2>2, <2>4, FrameGlobal
  <2>5. \A s \in Rank : phase[s] = "barrier" => phase'[s] = "barrier"
    BY <2>2
  <2> QED BY <1>0, <2>1, <2>2, <2>3, <2>4, <2>5, StayGlobal
<1>8. ASSUME NEW r \in Rank, BarrierLeave(r) PROVE \A s \in Rank : EnteredOK(s)' /\ PassedOK(s)'
  <2>1. /\ prog' = prog /\ entered' = entered /\ phase[r] = "barrier" /\ Return(r)
        /\ \A q \in Rank : entered[q] >= entered[r]
    BY <1>8 DEF BarrierLeave, At
  <2>2. pc[r] \in DOMAIN prog /\ IsWait(pc[r])
    BY <1>p, <2>1 DEF PhaseOK, IsWait, Cur
  <2>3. ASSUME Aligned(pc[r]), NEW q \in Rank PROVE Joined(q, pc[r])
    <3>1. Aligned(pc[r] - 1)
      BY <1>p, <2>3 DEF Aligned
    <3>2. entered[q] >= Cardinality(Waits(pc[r]))
      BY <1>0, <2>1, <3>1 DEF EnteredOK
    <3> QED BY <1>0, <2>2, <2>3, <3>2, EnteredJoined
  <2> QED BY <1>0, <2>1, <2>2, <2>3, ReturnGlobal
<1>9. ASSUME NEW c \in Launch, ThreadStep(c) PROVE \A s \in Rank : EnteredOK(s)' /\ PassedOK(s)'
  BY <1>9, <1>s DEF ThreadStep, ThreadEnqueue, ThreadEnqueueError, ThreadFinish, ThreadExit
<1>10. ASSUME NEW d \in Device, DeviceRun(d) PROVE \A s \in Rank : EnteredOK(s)' /\ PassedOK(s)'
  BY <1>10, <1>s DEF DeviceRun
<1>11. CASE UNCHANGED vars
  BY <1>11, <1>s DEF vars, mainVars
<1> QED
  BY <1>1, <1>2, <1>3, <1>4, <1>5, <1>6, <1>7, <1>8, <1>9, <1>10, <1>11
     DEF Next, MainStep, Terminated

\* No rank has entered a barrier before its first call.
LEMMA GlobalInit == Init => GlobalInv
<1> SUFFICES ASSUME Init PROVE GlobalInv
  OBVIOUS
<1>1. WaitInv /\ TypeInv
  BY WaitInit DEF WaitInv
<1>2. ASSUME NEW r \in Rank PROVE EnteredOK(r) /\ PassedOK(r)
  <2>1. pc[r] = 1 /\ phase[r] = "call" /\ entered[r] = 0
    BY DEF Init
  <2>2. Waits(0) = {}
    BY DEF Waits
  <2>3. EnteredOK(r)
    BY <2>1, <2>2, FS_EmptySet DEF EnteredOK
  <2>4. PassedOK(r)
    BY <1>1, <2>1, KernelExecAssumption DEF PassedOK, TypeInv, TypeOK, MainType
  <2> QED BY <2>3, <2>4
<1> QED
  BY <1>1, <1>2 DEF GlobalInv

\* OMPI_XclWaitAllTasks, and OMPI_XclWaitFor on tasks of every rank, are global:
\* when one rank has returned, the last kernels of the covered tasks have run on
\* every rank, because MPI_Barrier returns only after the joins of all of them.
THEOREM WaitsAreGlobal == Spec => []WaitIsGlobal
<1>1. GlobalInv => WaitIsGlobal
  <2> SUFFICES ASSUME GlobalInv, NEW r \in Rank, NEW c \in DOMAIN prog, pc[r] > c, Aligned(c),
                      NEW t \in Task, Covers(c, t), NEW e \in Launch, LastStarted(e, t, c)
               PROVE  Complete(e)
    BY DEF WaitIsGlobal
  <2>1. WaitInv /\ TypeInv /\ PassedOK(r)
    BY DEF GlobalInv, WaitInv
  <2>2. IsWait(c) /\ r_rank[t] \in Rank
    BY KernelExecAssumption DEF Covers, IsWait
  <2>3. c < pc[r]
    BY <2>1, KernelExecAssumption DEF TypeInv, TypeOK, MainType
  <2>4. Joined(r_rank[t], c)
    BY <2>1, <2>2, <2>3 DEF PassedOK
  <2> QED BY <2>1, <2>2, <2>4, WaitInvCompletes DEF WaitCompletesLastLaunch
<1> QED
  BY GlobalInit, GlobalNext, <1>1, PTL DEF Spec

-----------------------------------------------------------------------------
(* Arguments are intact.                                                   *)

\* The arguments the loop of a rank has set still hold its values.
ArgsSet ==
    \A r \in Rank : phase[r] = "args" =>
        \A a \in Arg : a < idx[r] => kernelArg[Cur(r).task][a] = pc[r]

\* Until the thread of a separated launch has read them, the arguments are its own.
ArgsKept ==
    \A e \in Launch : launch[e] = "created" /\ Separated(e) =>
        \A a \in Arg : kernelArg[prog[e].task][a] = e

ArgInv == WaitInv /\ ArgsSet /\ ArgsKept /\ ArgumentsIntact

NatBelow == {p \in Nat \X Nat : p[1] < p[2]}

\* A set of calls has a first one.
LEMMA FirstCall ==
    ASSUME NEW S \in SUBSET Nat, S # {}
    PROVE  \E m \in S : \A n \in S : m <= n
<1>1. IsWellFoundedOn(NatBelow, Nat)
  BY NatLessThanWellFounded DEF OpToRel, NatBelow
<1>2. PICK m \in S : \A n \in S : << n, m >> \notin NatBelow
  BY <1>1, WFMin
<1>3. \A n \in S : ~(n < m)
  BY <1>2 DEF NatBelow
<1> QED
  BY <1>3

\* A rank about to launch task t again has waited for its separated launches.
LEMMA SeparatedEnded ==
    ASSUME WaitInv, NEW t \in Task, NEW e \in Launch, NEW f \in DOMAIN prog,
           IsExec(e, t), IsExec(f, t), launch[e] # "none", Separated(e), e < f,
           pc[r_rank[t]] = f
    PROVE  Ended(e)
<1>0. TypeInv /\ RankInv(r_rank[t]) /\ r_rank[t] \in Rank
  BY KernelExecAssumption DEF WaitInv
<1>1. e \in Nat /\ f \in Nat /\ f <= Len(prog) /\ Len(prog) \in Nat /\ DOMAIN prog = 1 .. Len(prog)
      /\ prog[e].task = t
  BY <1>0, KernelExecAssumption, SMTT(30) DEF TypeInv, TypeOK, MainType, Launch, IsExec
<1> DEFINE S == {g \in e + 1 .. f : IsExec(g, t)}
<1>2. S \in SUBSET Nat /\ f \in S
  BY <1>1
<1>3. PICK g \in S : \A n \in S : g <= n
  BY <1>2, FirstCall
<1>4. g \in e + 1 .. Len(prog) /\ IsExec(g, t) /\ g <= f /\ g \in Nat
  BY <1>1, <1>3
<1>5. PICK c \in e + 1 .. g - 1 : Covers(c, t)
  BY <1>1, <1>4 DEF Separated
<1>6. c \in DOMAIN prog /\ c < f /\ c \in Nat /\ e < c /\ c < g
  BY <1>1, <1>4, <1>5
<1>7. \A k \in e + 1 .. c - 1 : ~IsExec(k, t)
  <2> SUFFICES ASSUME NEW k \in e + 1 .. c - 1, IsExec(k, t) PROVE FALSE
    OBVIOUS
  <2>1. k \in S /\ k < g
    BY <1>1, <1>4, <1>6
  <2> QED BY <1>3, <1>4, <2>1
<1>8. LastStarted(e, t, c)
  BY <1>6, <1>7 DEF LastStarted
<1> QED
  BY <1>0, <1>5, <1>6, <1>8 DEF RankInv, PastDone

\* A step that leaves the arguments and the position of the ranks in their loops
\* alone, and starts no thread.
LEMMA FrameArgs ==
    ASSUME ArgInv, UNCHANGED << prog, kernelArg, ranWith >>,
           \A r \in Rank : phase'[r] = "args" =>
               phase[r] = "args" /\ pc'[r] = pc[r] /\ idx'[r] = idx[r],
           \A e \in Launch : launch'[e] = "created" => launch[e] = "created"
    PROVE  ArgsSet' /\ ArgsKept' /\ ArgumentsIntact'
<1>1. ArgsSet'
  BY DEF ArgInv, ArgsSet, Cur
<1>2. \A e : Separated(e)' = Separated(e)
  BY DEF Separated, IsExec, Covers
<1>3. ArgsKept'
  BY <1>2 DEF ArgInv, ArgsKept
<1>4. ArgumentsIntact'
  BY <1>2 DEF ArgInv, ArgumentsIntact
<1> QED
  BY <1>1, <1>3, <1>4

\* Every step keeps the arguments of the separated launches.
LEMMA ArgNext == ArgInv /\ [Next]_vars => ArgInv'
<1> SUFFICES ASSUME ArgInv, [Next]_vars PROVE ArgsSet' /\ ArgsKept' /\ ArgumentsIntact'
  BY WaitNext DEF ArgInv
<1>0. WaitInv /\ TypeInv /\ ArgsSet /\ ArgsKept /\ ArgumentsIntact
  BY DEF ArgInv, WaitInv
<1>p. /\ pc \in [Rank -> Nat \ {0}] /\ phase \in [Rank -> {"call", "args", "join", "barrier"}]
      /\ idx \in [Rank -> Nat \ {0}] /\ PhaseOK /\ LaunchOK /\ NumArgs \in Nat
      /\ kernelArg \in [Task -> [Arg -> 0 .. MaxCalls]]
      /\ ranWith \in [Launch -> [Arg -> 0 .. MaxCalls]]
      /\ launch \in [Launch -> {"none", "created", "queued", "finishing", "done", "joined"}]
  BY <1>0, KernelExecAssumption DEF TypeInv, TypeOK, MainType, ThreadType, ArgType
<1>g. ASSUME NEW r \in Rank, NEW ph \in {"join", "barrier"}, NEW i, Goto(r, ph, i) \/ Return(r),
             UNCHANGED << prog, kernelArg, ranWith >>,
             \A e \in Launch : launch'[e] = "created" => launch[e] = "created"
      PROVE  ArgsSet' /\ ArgsKept' /\ ArgumentsIntact'
  <2>1. \A q \in Rank : phase'[q] = "args" =>
            phase[q] = "args" /\ pc'[q] = pc[q] /\ idx'[q] = idx[q]
    BY <1>p, <1>g DEF Goto, Return
  <2> QED BY <1>g, <2>1, FrameArgs
<1>s. ASSUME UNCHANGED << prog, kernelArg, ranWith, mainVars >>,
             \A e \in Launch : launch'[e] = "created" => launch[e] = "created"
      PROVE  ArgsSet' /\ ArgsKept' /\ ArgumentsIntact'
  BY <1>s, FrameArgs DEF mainVars
<1>e. ASSUME prog' = prog PROVE \A e : Separated(e)' = Separated(e)
  BY <1>e DEF Separated, IsExec, Covers
<1>1. ASSUME NEW r \in Rank, ExecCall(r) PROVE ArgsSet' /\ ArgsKept' /\ ArgumentsIntact'
  <2>1. /\ UNCHANGED << prog, kernelArg, ranWith, launch >>
        /\ Goto(r, "args", 1) \/ Return(r)
    BY <1>1 DEF ExecCall, threadVars
  <2>2. CASE Return(r)
    BY <1>g, <2>1, <2>2
  <2>3. CASE Goto(r, "args", 1)
    <3>1. ArgsSet'
      <4>1. pc' = pc /\ idx'[r] = 1
            /\ \A q \in Rank : q # r => phase'[q] = phase[q] /\ idx'[q] = idx[q]
        BY <1>p, <2>3 DEF Goto
      <4>2. \A a \in Arg : ~(a < 1)
        BY <1>p DEF Arg
      <4> QED BY <1>0, <2>1, <4>1, <4>2 DEF ArgsSet, Cur
    <3>2. ArgsKept' /\ ArgumentsIntact'
      BY <1>0, <1>e, <2>1 DEF ArgsKept, ArgumentsIntact
    <3> QED BY <3>1, <3>2
  <2> QED BY <2>1, <2>2, <2>3
<1>2. ASSUME NEW r \in Rank, SetKernelArg(r) PROVE ArgsSet' /\ ArgsKept' /\ ArgumentsIntact'
  <2> DEFINE t == Cur(r).task
             f == pc[r]
  <2>0. /\ UNCHANGED << prog, ranWith, launch >> /\ phase[r] = "args" /\ idx[r] <= NumArgs
        /\ Goto(r, "args", idx[r] + 1)
        /\ kernelArg' = [kernelArg EXCEPT ![t][idx[r]] = f]
    BY <1>2 DEF SetKernelArg, At, threadVars
  <2>1. f \in DOMAIN prog /\ prog[f].op = "exec" /\ prog[f].task = t /\ r_rank[t] = r
    BY <1>p, <2>0 DEF PhaseOK, Cur
  <2>2. t \in Task /\ f \in Launch /\ idx[r] \in Arg
    BY <1>0, <1>p, <2>0, <2>1, ProgramCalls DEF TypeInv, TypeOK, MainType, Arg
  <2>3. /\ kernelArg'[t][idx[r]] = f
        /\ \A a \in Arg : a # idx[r] => kernelArg'[t][a] = kernelArg[t][a]
        /\ \A u \in Task : u # t => kernelArg'[u] = kernelArg[u]
    BY <1>p, <2>0, <2>2
  <2>4. /\ pc' = pc /\ idx'[r] = idx[r] + 1
        /\ \A q \in Rank : q # r => phase'[q] = phase[q] /\ idx'[q] = idx[q]
    BY <1>p, <2>0 DEF Goto
  <2>5. ArgsSet'
    <3> SUFFICES ASSUME NEW q \in Rank, phase'[q] = "args", NEW a \in Arg, a < idx'[q]
                 PROVE  kernelArg'[prog[pc[q]].task][a] = pc[q]
      BY <2>0, <2>4 DEF ArgsSet, Cur
    <3>1. CASE q = r
      <4>1. CASE a = idx[r]
        BY <2>1, <2>3, <3>1, <4>1
      <4>2. CASE a # idx[r]
        <5>1. a < idx[r]
          BY <1>p, <2>4, <3>1, <4>2 DEF Arg
        <5> QED BY <1>0, <2>0, <2>1, <2>3, <3>1, <4>2, <5>1 DEF ArgsSet, Cur
      <4> QED BY <4>1, <4>2
    <3>2. CASE q # r
      <4>1. phase[q] = "args" /\ a < idx[q]
        BY <2>4, <3>2
      <4>2. pc[q] \in DOMAIN prog /\ prog[pc[q]].op = "exec" /\ r_rank[prog[pc[q]].task] = q
        BY <1>p, <4>1 DEF PhaseOK, Cur
      <4>3. prog[pc[q]].task \in Task /\ prog[pc[q]].task # t
        BY <1>0, <2>1, <3>2, <4>2, ProgramCalls DEF TypeInv, TypeOK, MainType
      <4> QED BY <1>0, <2>3, <4>1, <4>3 DEF ArgsSet, Cur
    <3> QED BY <3>1, <3>2
  <2>6. ArgsKept'
    <3> SUFFICES ASSUME NEW e \in Launch, launch[e] = "created", Separated(e), NEW a \in Arg
                 PROVE  kernelArg'[prog[e].task][a] = e
      BY <1>e, <2>0 DEF ArgsKept
    <3>1. e \in DOMAIN prog /\ prog[e].op = "exec" /\ e < pc[r_rank[prog[e].task]]
      BY <1>p DEF LaunchOK
    <3>2. prog[e].task \in Task
      BY <1>0, <3>1, ProgramCalls DEF TypeInv, TypeOK, MainType
    <3>3. prog[e].task # t
      <4> SUFFICES ASSUME prog[e].task = t PROVE FALSE
        OBVIOUS
      <4>1. Ended(e)
        BY <1>0, <2>1, <2>2, <3>1, SeparatedEnded DEF IsExec
      <4> QED BY <4>1 DEF Ended
    <3> QED BY <1>0, <2>3, <3>2, <3>3 DEF ArgsKept
  <2>7. ArgumentsIntact'
    BY <1>0, <1>e, <2>0 DEF ArgumentsIntact
  <2> QED BY <2>5, <2>6, <2>7
<1>3. ASSUME NEW r \in Rank, SetKernelArgError(r) \/ JoinCrash(r)
      PROVE  ArgsSet' /\ ArgsKept' /\ ArgumentsIntact'
  BY <1>3, <1>s DEF SetKernelArgError, JoinCrash, Abort, threadVars
<1>4. ASSUME NEW r \in Rank, EnqueueKernel(r) PROVE ArgsSet' /\ ArgsKept' /\ ArgumentsIntact'
  <2>0. /\ UNCHANGED << prog, kernelArg, ranWith >> /\ phase[r] = "args" /\ idx[r] > NumArgs
        /\ Return(r) /\ launch' = [launch EXCEPT ![pc[r]] = "created"]
    BY <1>4 DEF EnqueueKernel, At
  <2>1. \A a \in Arg : kernelArg[prog[pc[r]].task][a] = pc[r]
    <3>1. \A a \in Arg : a < idx[r]
      BY <1>p, <2>0 DEF Arg
    <3> QED BY <1>0, <2>0, <3>1 DEF ArgsSet, Cur
  <2>2. ArgsSet'
    <3>1. \A q \in Rank : phase'[q] = "args" =>
              phase[q] = "args" /\ pc'[q] = pc[q] /\ idx'[q] = idx[q]
      BY <1>p, <2>0 DEF Return
    <3> QED BY <1>0, <2>0, <3>1 DEF ArgsSet, Cur
  <2>3. ArgsKept'
    <3>1. \A e \in Launch : launch'[e] = "created" => launch[e] = "created" \/ e = pc[r]
      BY <1>p, <2>0
    <3> QED BY <1>0, <1>e, <2>0, <2>1, <3>1 DEF ArgsKept
  <2>4. ArgumentsIntact'
    BY <1>0, <1>e, <2>0 DEF ArgumentsIntact
  <2> QED BY <2>2, <2>3, <2>4
<1>5. ASSUME NEW r \in Rank,
             \/ EnqueueKernelNoThread(r) \/ WaitAllCall(r) \/ WaitForCall(r) \/ SkipRemote(r)
             \/ JoinNoThread(r) \/ BarrierEnter(r) \/ BarrierLeave(r)
      PROVE  ArgsSet' /\ ArgsKept' /\ ArgumentsIntact'
  <2>1. UNCHANGED << prog, kernelArg, ranWith, launch >>
    BY <1>5 DEF EnqueueKernelNoThread, WaitAllCall, WaitForCall, SkipRemote, JoinNoThread,
                BarrierEnter, BarrierLeave, threadVars
  <2>2. \/ Goto(r, "join", 1) \/ Goto(r, "join", idx[r] + 1) \/ Goto(r, "barrier", 1)
        \/ Return(r)
    BY <1>5 DEF EnqueueKernelNoThread, WaitAllCall, WaitForCall, SkipRemote, JoinNoThread,
                BarrierEnter, BarrierLeave
  <2> QED BY <1>g, <2>1, <2>2
<1>6. ASSUME NEW r \in Rank, Join(r) PROVE ArgsSet' /\ ArgsKept' /\ ArgumentsIntact'
  <2>1. UNCHANGED << prog, kernelArg, ranWith >> /\ Goto(r, "join", idx[r] + 1)
    BY <1>6 DEF Join
  <2>2. \A e \in Launch : launch'[e] = "created" => launch[e] = "created"
    <3>1. PICK c \in Launch : launch' = [launch EXCEPT ![c] = "joined"]
      BY <1>6 DEF Join, Unjoined
    <3> QED BY <1>p, <3>1
  <2> QED BY <1>g, <2>1, <2>2
<1>7. ASSUME NEW c \in Launch, ThreadEnqueue(c) PROVE ArgsSet' /\ ArgsKept' /\ ArgumentsIntact'
  <2>0. /\ UNCHANGED << prog, pc, phase, idx, kernelArg >>
        /\ launch[c] = "created" /\ launch' = [launch EXCEPT ![c] = "queued"]
        /\ ranWith' = [ranWith EXCEPT ![c] = kernelArg[prog[c].task]]
    BY <1>7 DEF ThreadEnqueue, mainVars
  <2>1. \A e \in Launch : launch'[e] = "created" => launch[e] = "created"
    BY <1>p, <2>0
  <2>2. ArgsSet' /\ ArgsKept'
    BY <1>0, <1>e, <2>0, <2>1 DEF ArgsSet, ArgsKept, Cur
  <2>3. ArgumentsIntact'
    <3> SUFFICES ASSUME NEW e \in DOMAIN prog, prog[e].op = "exec", Separated(e), NEW a \in Arg
                 PROVE  ranWith'[e][a] \in {0, e}
      BY <1>e, <2>0 DEF ArgumentsIntact
    <3>1. CASE e = c
      BY <1>0, <1>p, <2>0, <3>1 DEF ArgsKept
    <3>2. CASE e # c
      BY <1>0, <1>p, <2>0, <3>2 DEF ArgumentsIntact
    <3> QED BY <3>1, <3>2
  <2> QED BY <2>2, <2>3
<1>8. ASSUME NEW c \in Launch, ThreadEnqueueError(c) \/ ThreadFinish(c) \/ ThreadExit(c)
      PROVE  ArgsSet' /\ ArgsKept' /\ ArgumentsIntact'
  <2>1. UNCHANGED << prog, kernelArg, ranWith, mainVars >>
    BY <1>8 DEF ThreadEnqueueError, ThreadFinish, ThreadExit
  <2>2. \A e \in Launch : launch'[e] = "created" => launch[e] = "created"
    BY <1>p, <1>8 DEF ThreadEnqueueError, ThreadFinish, ThreadExit
  <2> QED BY <1>s, <2>1, <2>2
<1>9. ASSUME NEW d \in Device, DeviceRun(d) PROVE ArgsSet' /\ ArgsKept' /\ ArgumentsIntact'
  BY <1>9, <1>s DEF DeviceRun, threadVars
<1>10. CASE UNCHANGED vars
  BY <1>10, <1>s DEF vars, mainVars
<1> QED
  BY <1>1, <1>2, <1>3, <1>4, <1>5, <1>6, <1>7, <1>8, <1>9, <1>10
     DEF Next, MainStep, ThreadStep, Terminated

\* Before the first call no argument is set and no kernel has run.
LEMMA ArgInit == Init => ArgInv
<1> SUFFICES ASSUME Init PROVE ArgInv
  OBVIOUS
<1>1. WaitInv /\ TypeInv
  BY WaitInit DEF WaitInv
<1>2. ArgsSet /\ ArgsKept
  BY DEF Init, ArgsSet, ArgsKept
<1>3. ArgumentsIntact
  <2> SUFFICES ASSUME NEW e \in DOMAIN prog, NEW a \in Arg PROVE ranWith[e][a] = 0
    BY DEF ArgumentsIntact
  <2>1. e \in Launch
    BY <1>1, ProgramCalls DEF TypeInv, TypeOK, MainType
  <2> QED BY <2>1 DEF Init
<1> QED
  BY <1>1, <1>2, <1>3 DEF ArgInv

\* A kernel that the application waits for before it launches the task again runs
\* with the arguments of its own OMPI_XclExecKernel call, although clSetKernelArg
\* and the enqueue of the command happen in different threads.
THEOREM ArgumentsStayIntact == Spec => []ArgumentsIntact
<1>1. ArgInv => ArgumentsIntact
  BY DEF ArgInv
<1> QED
  BY ArgInit, ArgNext, <1>1, PTL DEF Spec
=============================================================================
