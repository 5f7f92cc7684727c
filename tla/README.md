# XCLFrame in TLA+

The repository is a fork of Open MPI.  What it adds, and what this development is about, is the
MPI extension `ompi/mpiext/XCLFrame`: an application on top of MPI splits its work into *tasks*,
each bound to an OpenCL device of the node its rank runs on, and calls the extension to move data
between task buffers ("trays"), to launch kernels and to wait for them.  The rest of the tree
(ompi, opal, orte, oshmem, vendored tools) is upstream Open MPI.  Of that, the parts every call of
the extension rests on are modelled too: the barrier and the allgather of `coll/tuned` and the
message matching of `pml/ob1`.  Where the extension uses anything else, the models state what they
assume of it.

Paths below are relative to `src/ompi/mpiext/XCLFrame/`, those of Open MPI to `src/ompi/mca/`.

## Inventory

| Component | State | Operations | Hard behaviour |
|---|---|---|---|
| Extension hooks (`c/mpiext_XCLFrame_early.c`, `c/binding/dvMgmt/`) | `clXplr`, `cpu`, `gpu`, `accel` | `XCLFrame_init`, `XCLFrame_fini` | failure of an OpenCL query leaves stale counts |
| Device exploration and initialisation (`multiDeviceMgmt/deviceMgmt/*.c`) | platforms, devices, one context and one in-order queue per device | `deviceExploration`, `devicesInitialization` | two passes over the platforms must agree |
| Task binding (`c/binding/tskMgmt/taskScheduling.c`, `tskMgmt.c`) | `taskDevMap`, `taskList`, `l_numTasks`, racks of a device | `readTaskBinding`, `createTaskList` | the configuration file decides array indices |
| Global task map (`c/mpiext_XCLFrame_late.c`) | `g_taskList` | `OMPI_collectDevicesInfo` | same map on every rank |
| Kernel creation (`taskProcedures.c`) | program, kernel per task | `OMPI_XclCreateKernel` | every OpenCL call may fail |
| Kernel execution and waits (`late.c`, `tskExec.c`, `taskProcedures.c`) | `thds`, `th_Args`, cl_kernel arguments, queues | `OMPI_XclExecKernel`, `OMPI_XclWaitAllTasks`, `OMPI_XclWaitFor` | pthreads, queues, barriers of several ranks |
| Task buffers (`memMgmt/*.c`) | `numTrays`, `memHandler`, `tskbufferSize` | malloc, write, read, free, copy, scatter, gather | growing arrays, sizes, released objects |
| Transfers between tasks (`singleSidedComms.c`) | messages in flight, trays | `OMPI_XclSend`, `Recv`, `SendRecv`, `WriteTaskBuffer`, `ReadTaskBuffer` | ranks run ahead of each other, matching by rank and tag |
| Scatter and gather of a file (`singleSidedComms/XclScatter.c`) | `MPIentityTypeSize`, `ePerRank`, file views | `OMPI_XclScatter`, `OMPI_XclGather` | globals shared with Send and Recv, remainders, `int` sizes |
| Libraries loaded on demand (`late.c`, `tskMgmt/*.c`, `dvMgmt/*.c`) | reference counts of three libraries, the globals that live in one of them | every call: `dlopen`, use, perhaps `dlclose` | code and globals needed after the call that loaded them |
| `MPI_Barrier` (`coll/tuned/coll_tuned_barrier.c`) | the exchanges of a rank, messages under way | six algorithms and the choice between them | ranks that are a call ahead, one tag for all messages |
| `MPI_Allgather` (`coll/tuned/coll_tuned_allgather.c`) | the same, and the blocks of the receive buffer | five of six algorithms and the choice | sends read from the receive buffer later, `MPI_IN_PLACE` |
| Message matching (`pml/ob1/pml_ob1_recvfrag.c`, `_recvreq.c`, `pml_ob1.c`) | expected sequence numbers, unexpected and out-of-order messages, posted receives | callbacks, posting, `mca_pml_ob1_add_comm` | messages in any order, several threads, a lock that is given back half way, 16 bit numbers |


Every rank runs the same (SPMD) application: all ranks call the same library functions with the
same arguments, and each acts only for the tasks it owns.  The components meet in these places:

* `OMPI_collectDevicesInfo` reads the binding file, fills `taskList` and, with one
  `MPI_Allgather`, the global map `g_taskList`.  Every later call looks up there which rank owns a
  task (`r_rank`) and its local index (`l_taskIdx`).
* The trays of a task are the array `memHandler[Rack]` of its device, so the binding decides
  whether tasks own their memory.
* All commands on a device go through one in-order queue.  Transfers are blocking OpenCL calls of
  the application thread; kernels are enqueued by one pthread per launch.
* Ranks meet in `MPI_Barrier` (the waits), `MPI_Allgather` (the map), collective `MPI_File_open`s
  (scatter and gather) and in messages matched by rank and tag (the transfers).  A failing OpenCL
  call ends in `exit`, and so in the end of the job.
* `libmpi` opens the extension's libraries in each call.  Launch threads run code of
  `libmultiDeviceMgmt` after the call has returned, so what is closed matters.
* The barrier and the allgather send messages that `ob1` matches, which relies on no more
  than that messages of one sender are matched in the order sent.

What makes each part correct:

| Component | Correct when |
|---|---|
| Kernel execution and waits | after a wait the last launch of every covered task is complete, on the rank and, after the barrier, on all ranks; launches separated by a wait run with their own arguments; no rank hangs |
| Transfers between tasks | whatever the speed of the ranks, trays and reads are those of the program run call by call; a receive gets the message of its own copy; no rank hangs |
| Task buffers | a tray keeps what was last written to it whatever happens to others; no array, host buffer or object is used outside its bounds or its life |
| Task binding | every task has a device and a rack of its own |
| Global task map | all ranks have the same map and it names every task once |
| Scatter and gather of a file | trays and files are those of the program run call by call: each entity a rank is given reaches its trays, and gather writes back what is in them |
| Launches and transfers on one queue | an application that waits before it touches a tray again reads what the kernel wrote; a launch runs the kernel that was current when it was made |
| Exploration | the arrays are as long as the second pass needs, and name each device once |
| Libraries on demand | code and globals are mapped for as long as something uses them |
| Barrier, allgather | nobody leaves before all have entered, everybody leaves, all blocks are in place, nothing is left over for the next call |
| Message matching | messages of a sender do not overtake, receives do not overtake, nothing is lost or taken twice, nothing waits for ever in a list |

The README of the extension's directory is the text of Open MPI's example
extension, and there are no tests of the extension; intentions are taken from comments in the code,
from `task.h` and from the MPI manual pages in the tree.

## Modules

| Module | Models | Depends on |
|---|---|---|
| `KernelExec` | launches, pthreads, queues, waits and barriers | |
| `KernelExecProofs` | waits complete launches, on all ranks; arguments are a launch's own | `KernelExec` |
| `TaskComms` | write, read, send, receive, send-receive of several ranks | |
| `TaskCommsProofs` | the trays are those of the sequential program | `TaskComms` |
| `TrayStore` | abstract: what the buffer calls of a rank promise | |
| `TaskTrays` | `numTrays`, the arrays of handles, `tskbufferSize`, the OpenCL objects | `TrayStore` (refinement) |
| `TaskTraysProofs` | no wild access, and the refinement of `TrayStore` | `TaskTrays` |
| `TaskBinding` | `readTaskBinding`, `createTaskList`, the global map | |
| `TaskBindingProofs` | racks are distinct, tasks are bound, maps agree and are complete | `TaskBinding` |
| `ScatterGather` | scatter and gather of a file by several ranks, with the globals they share with transfers | |
| `TaskRuntime` | launches, waits, kernel creation and transfers of one rank on its queues | |
| `TaskRuntimeProofs` | launches run their kernel, memory is that of the program run call by call | `TaskRuntime` |
| `DeviceExploration` | the three passes over the OpenCL platforms | |
| `DeviceExplorationProofs` | every device is found, within the arrays | `DeviceExploration` |
| `LibHandles` | `dlopen` and `dlclose` of the extension's libraries | |
| `GlobalsProofs` | scatter and gather have the effect of the program run call by call; what the libraries hold is never lost | `ScatterGather`, `LibHandles` |
| `Barrier` | abstract: what a barrier promises | |
| `TunedUtil`, `TunedBarrier`, `TunedAllgather` | the algorithms of `coll/tuned`, each as the exchanges a rank makes | |
| `TunedColl` | ranks that run these exchanges, call after call | the three above, `Barrier` (refinement) |
| `Matching` | abstract: what matching messages with receives promises | |
| `Ob1Match` | `pml/ob1`: callbacks, lists, sequence numbers, threads | `Matching` (refinement) |
| `MatchingProofs` | order, no loss, no missed match, and the refinement of `Matching` by `Ob1Match` | `Ob1Match` |
| `MC*` | instances for TLC | the module they are named after |

The modules divide the state between them.  `TaskBinding` establishes what the others assume: a
task has one owner, all ranks know it, and no two tasks share a rack.  `TaskTrays` looks at one
rank and at the representation of the trays; `TaskComms` looks at several ranks and takes a tray as
one value that exists; `KernelExec` looks at threads and takes memory as given.  `TaskRuntime` puts
the last two together for one rank: it takes from `KernelExec` that a wait returns when the last
threads are done, and looks at what the trays hold.  `ScatterGather` takes the trays of a rank as
one sequence of bytes, whose division `TaskTrays` models.  `LibHandles` justifies that globals keep
their values between calls, which all the others take for granted.  Below them, `Ob1Match` implements
`Matching`, `TunedColl` takes messages to be matched in that way and implements `Barrier`, and
`KernelExec` and `TaskBinding` take barrier and allgather to behave like that.

### KernelExec

State: `prog` is the SPMD program, `pc`, `phase` and `idx` say where the application thread of
each rank is; `thds`, `thdsInit` are the static array of `enqueueKernel` and its NULL test;
`kernelArg` is what the task's only `cl_kernel` holds; `launch`, `handle`, `ranWith`, `finishSet`
belong to the thread of a launch; `queue` is the command queue; `entered` counts barriers.
A launch is named by the position of its `OMPI_XclExecKernel` in the program.

| Action | Code |
|---|---|
| `ExecCall` | `OMPI_XclExecKernel`: only the owner goes on |
| `SetKernelArg`, `SetKernelArgError` | one turn of the loop over `fmt` in `XclExecKernel`; an error exits |
| `EnqueueKernel`, `EnqueueKernelNoThread` | `enqueueKernel`; `pthread_create` succeeds or fails, its result is ignored |
| `ThreadEnqueue`, `ThreadEnqueueError`, `ThreadFinish`, `ThreadExit` | `enqueTaskReq`: `clEnqueueNDRangeKernel` (its status is ignored), `clFinish`, end of the thread |
| `DeviceRun` | external: the device completes the oldest command |
| `WaitAllCall`, `WaitForCall`, `SkipRemote` | the two waits, and the conversion from global to local tasks |
| `Join`, `JoinNoThread`, `JoinCrash` | `pthread_join` of `thds[i]`; for a `pthread_t` without a thread POSIX leaves the behaviour undefined: it returns an error or crashes |
| `BarrierEnter`, `BarrierLeave` | the `MPI_Barrier` at the end of both waits |

A `pthread_t` may be handed out again once its thread has been joined, so a stale entry of `thds`
may name another thread.

### TaskComms

State: `prog`, `pc`, `phase` as above; `tray` holds one value per tray, the number of the write that
produced it; `chan` holds the messages in flight per envelope (two ranks and a tag); `got` what
each read returned.  One action per call: `WriteTaskBuffer`, `ReadTaskBuffer`, `XclSend`,
`XclRecv`; `OMPI_XclSendRecv` is `IntraCopy` on a shared device and otherwise `SendRecvSend`
followed by `SendRecvRecv`, with other ranks running in between.  `DeviceError` is the exit in
`chkerr`.  `SeqMem` is the reference: the trays after each call of the program run in sequence.
Two assumptions are about the application: receives pair up with earlier sends of the same tasks
(`WellMatched`), and trays exist.  MPI is taken to be non-overtaking per envelope, and
`MPI_Isend` never to block, as the standard promises.

### TaskTrays and TrayStore

State of `TaskTrays`: `numTrays`, `slots` (the array `memHandler[Rack]`, with objects that are
live, freed or never written), the global `tskbufferSize`, the host buffer `got`, and `status`,
which is `died` after `exit` and `wild` after an access the C standard leaves undefined.  Bytes
are marked with the call and the position they came from, so that a copy to a wrong place shows.
`initNewBuffer` and `ALL_TASKS_initBuffer` are the two growth routines, with their different
tests; each call of the API is an action.  `CONSTANT Liberty` says which rules of use the
application ignores.  The rules (trays are created in order, a scatter goes to tray 0 or an
existing tray, its size divides suitably, a gather is of the tray last scattered) are written
nowhere in the repository: they are what the code needs.  A freed tray is never used again.

`TrayStore` is the abstract view: numbered trays per task, each none, live or freed, with bytes.
`ImplementsTrayStore` maps `slots` to it.

### TaskBinding

State: the lines of the file and the locals of `readTaskBinding` (`line`, `devType`,
`currentMin`, `taskDevMap`), the loop of `createTaskList` (`task`, `taskList`, `numRacks`), and
the map (`sent`, `g_taskList`, `collects`).  One action per kind of line, `EndOfFile`,
`MatchTask` for one turn of the loop, `AllgatherEnter`, `AllgatherLeave`.  `devType` is not
initialised in the code: a misspelt first device line selects any type.  Lines are complete (no
number is missing); what `strtok` and `atoi` do with broken lines is not modelled.

`Careful` says what a user has to get right in the files: the device lines name devices of the
node, by a type that is known at that line; the last `l_numTasks` line has the number of tasks
they ask for; a selected type has devices.  `MCTaskBinding` assumes it of its files, so that TLC
evaluates it: the files of the run are such files, the one with a device named twice included.

### ScatterGather

State: the program and the position of each rank in it; per rank the globals `MPIentityTypeSize`
and `ePerRank`, the bytes of its trays and the `tmphostbuffer` of the gather it is in; the files;
`opened` counts the collective opens.  A byte is named by the call that made it, its rank and its
position, so that a byte in a wrong place shows.  `viewed` records which views a rank has passed
the barrier of.

| Action | Code |
|---|---|
| `OpenToRead`, `GetSize`, `ReadPart` | `OMPI_XclScatter`: open, the size of the file and the globals, the view and the read; a query stops after the sizes |
| `ReadTrays`, `WritePart` | `OMPI_XclGather`: the trays, then the view and the write of the rank's part |
| `LeaveView`, in `ReadPart` and `WritePart` | the return of `MPI_File_set_view` |
| `Transfer`, `Kernel` | `OMPI_XclSend` and `Recv`, which overwrite `MPIentityTypeSize`; whatever gives trays new contents |

Sizes are computed with `Int32`, which wraps around at `IntLimit`, 2^31 in the code.  The reference is the program run call
by call.

The views are those of ROMIO (`io/romio/romio/mpi-io/set_view.c`).  The tree has two components for
MPI files, romio and ompio, with the same priority; `io_base_file_select.c:170,257` sorts them in
a stable order and takes the last, which is romio when both were built as plugins.  ROMIO refuses a
negative displacement (`:54`) and a datatype whose size is no multiple of that of the etype (`:118`),
and the extension passes `MPI_FLOAT` as etype of every view (`XclScatter.c:51,132`).  It ignores
the error, so a view that was refused is still the one of the open: all bytes, from the first
(`ViewAccepted`, `Displacement`).  A view that was accepted ends in a barrier (`:186`), which a
refused one skips (`ViewReturns`).  `MPI_File_write` refuses a negative count, and one whose bytes
are no int (`ToWrite`).

The properties of trays and files hold for programs with datatypes that are multiples of
`MPI_FLOAT` (`WholeFloats`), in which nothing changes the globals between a scatter and its gather,
the buffer of a gather has room and all sizes fit an int (`Clean`, `Fits`).  The bounds of
`tmphostbuffer` do not depend on the view, so `NoWildAccess` does not ask for `WholeFloats`; its
proof does.  `AllRanksFinish` asks for none of these, only that no displacement wraps to a negative
int in a view that is made: the same datatype is refused or accepted on all ranks, but a displacement
may be refused on one only.

### TaskRuntime

State: `kernel` and `args` are the cl_kernel of the tasks and its arguments, by the creation and
the call that made them; `size` is what the caller's arrays hold, which a launch reads through the
pointers in `th_Args`; `launch`, `th_kernel`, `ran`, `finish`, `lost` belong to a launch; `queue`
are the commands of a device, in order; `tray` is what was done to each tray so far.
A launch is enqueued by its thread at any time after the call.  Blocking transfers wait for
their own command (`Transfer`, `TransferDone`, and `PutDone` for the second half of a copy between
devices).  Programs that wait for a launch before they touch its tray, its array or its kernel
again are `Waited`; for these the effect must be that of the program run call by call.

### DeviceExploration

State: the platforms of the node (external), the pass (`count`, `init`, `print`), where it is, the
local `deviceCount` with its stale value after a query that finds nothing, the counts and the
arrays.  One action per platform and per device of each pass; `NotADevice` is the use of an array
entry nobody has written.

### LibHandles

State: the call the process is in and whose code it runs, the reference counts of the three
libraries, and what lives in `libmultiDeviceMgmt`: `thds`, `tskbufferSize`, the threads.  `LibCall`,
`Use`, `EndUse`, `LibReturn` follow a call through `dlopen`, the inner library, and the `dlclose`s
it makes or does not make; `DlError` is the exit after a failed `dlopen`.

### Barrier, TunedUtil, TunedBarrier, TunedAllgather, TunedColl

An algorithm is the sequence of exchanges that a rank makes: whom to send to, whom to
receive from, and which blocks.  `barrier_intra_*` and `allgather_intra_*` compute it from rank and
size as the loops of the code do, `*_dec_fixed` and `*_do_this` choose.  `TunedColl` runs them:
`Enter` makes a call and its first receive, `Isend` the send of an exchange, `Match` the
match of a posted receive with the first message of its sender, `WaitAll` ends the exchange.  A
message of more than `eager` blocks is read from the sender's buffer only when it is matched.  Ranks
go on to the next call at their own speed and all messages of a collective have one tag.
`Implements` is `Barrier!Spec`, its liveness included.

### Matching and Ob1Match

`Matching` has five variables: what was sent, how far each sender's messages have taken effect,
the unexpected ones, the requests and those that wait.  `Ob1Match` keeps the structures of the
code (`expected`, `cant`, `unexpected`, `specific`, `wild`, `pending`), and the
variables of `Matching` follow them as observed values.

| Action | Code |
|---|---|
| `CallbackMatch`, `CallbackRndv` | `mca_pml_ob1_recv_frag_callback_match`: the fast path under the lock; other headers go straight to `mca_pml_ob1_recv_frag_match` |
| `FragMatch`, `CheckCantMatch` | `mca_pml_ob1_recv_frag_match`, with the lock released and taken again before the look through `frags_cant_match` |
| `ArriveEarly`, `AddComm`, `AddPending`, `AddCantMatch`, `AddCommDone` | messages for a communicator that does not exist yet, and `mca_pml_ob1_add_comm` |
| `RecvReqStart` | `mca_pml_ob1_recv_req_start`: unexpected messages first, wildcards starting after `last_probed` |
| `Isend` | the sender: the next sequence number |

Messages arrive before `mca_pml_ob1_add_comm` is called or after it has returned, never while it runs.
`ompi_comm_activate` justifies this (`ompi/communicator/comm_cid.c:645-680`, `:796-812`): each member calls `add_comm`
before it enters the reduction that the code calls "the barrier, after which it is allowed to send
messages over the new communicator".  The same barrier would exclude the messages that arrive
earlier, but the code has a list for them and so does the model.

## Runs

| Run | Instance and bounds | Shows |
|---|---|---|
| `exec` | two ranks, one with 2 tasks on one device and one with one; 2 arguments, 2 pthread_t values; all programs of up to 2 of 6 calls, those of 3 that launch first and wait, and some of 4 (895488 states) | `WaitCompletesLastLaunch`, `WaitIsGlobal`, `ArgumentsIntact`, `AllRanksFinish` |
| `waitfor_hang` | launch and `WaitFor` of a task of one rank | counterexample to `WaitForReturns` |
| `comms` | two ranks, 3 tasks, 2 trays, 2 tags; all matched programs of up to 3 of 11 calls, and those of 4 that start with a write | `SequentialMemory`, `SequentialReads`, `ReceivesItsMessage`, `AllRanksFinish` |
| `trays` | 2 tasks, 2 trays, sizes 1 and 2, host buffers of 3; all sequences of 5 calls | `NumTraysCounts`, `NoWildAccess`, `ImplementsTrayStore` |
| `binding` | 2 ranks, 5 files, 3 selections, 2 calls | racks, bindings and maps; `AllCollect` |
| `scatter_gather` | 2 ranks of 2 tasks, files of 19, 0 and 74 bytes, ints below 32, an `MPI_FLOAT` of 2 bytes; all programs of up to 3 of 14 calls and those of 5 that scatter, compute and gather first (71296 states) | `ScatterIsSequential`, `GatherIsSequential`, `NoWildAccess`, `AllRanksFinish` |
| `runtime` | 2 tasks on one device or on two, one array; all programs of up to 3 of 9 calls and those of 5 that launch, wait and read (440604 states) | `TypeOK`, `MemoryIsSequential`, `LaunchRunsItsKernel`, `CallsReturn` |
| `explore` | all nodes of up to 2 platforms with up to 2 devices of 4 types, and some of 3 (16452 states) | `DevicesFound`, `NoWildAccess` |
| `lib_handles` | all sequences of 6 calls, up to 2 launch threads (11799 states) | `GlobalsKept`, `CodeMapped` |
| `collectives` | 2 to 6 ranks; up to 3 calls in a row, of one collective and mixed; every algorithm and the decision; eager limits 0, 1 and 4 blocks (210441 states) | `Gathered`, `NoTruncation`, `NoMessageLeft`, `Implements` |
| `allgather_in_place` | 3 and 4 ranks with MPI_IN_PLACE that pass different counts | counterexample to `InPlaceReturns` |
| `ob1` | 2 threads; 2 senders of 2 messages with 2 requests, or one of 4 with numbers modulo 3; a tag of the application and one of the collectives (458646 states) | the safety properties of `Matching` on the code's structures, `ImplementsMatching`, `MessagesProcessed` |

Why these bounds reach the interesting cases:

* Two launches of one task before a wait, with as many `pthread_t` values as live threads, are
  enough for a stale entry and for a reused value; two tasks on one device for a `clFinish` that
  waits for another task's command; the second rank for a barrier left too early.  Three or four
  calls give launch, launch, wait and launch, wait, launch, wait.  With two values a third unjoined
  launch can only fail, which is a case of its own (`EnqueueKernelNoThread`).
* Three tasks on two ranks give the three kinds of copy (same device, same rank, other rank) and two
  task pairs with the same envelope, which is what could be confused.
* Trays 0 and 1 cover the first allocation, growth and reuse; size 1 meets the `bufferSize - 2`
  boundary; a host buffer of 3 for 2 tasks has unequal shares; 5 calls include create, grow,
  scatter, free and gather in one behaviour.
* Two calls of `OMPI_collectDevicesInfo` on two ranks let one rank be a call ahead; the files
  have a device named twice, the count after the devices, a misspelt type, no task and no file.
* 19 bytes leave a remainder for entities of 2 and of 4 bytes, 74 bytes exceed an int
  below 32 and wrap around to 10, the empty file has no entity at all; entity sizes 2 and 4 tell the
  globals apart, views of entities of 1 byte are refused, and after a transfer of entities of 10 bytes
  the displacement of one rank wraps around and is refused on that rank only.
* Two tasks on one device and on two give both kinds of copy and both orders of a launch and a
  transfer on a queue.
* Sizes 2 to 6 contain powers of two, odd sizes and a size between powers, which are the cases the
  algorithms distinguish; two and three calls in a row let a message of one meet a receive of another.
* Two threads are enough for the window between the locks; sequence numbers modulo 3 with four messages
  wrap, with as many outstanding as can still be told apart (fewer than the modulus, which nothing in
  the code ensures for 2^16).

`CHECK_DEADLOCK FALSE` stands where the system may stop: bounded numbers of calls, a job that
ended on an error, and programs that hang in `exec` because a `WaitFor` is not aligned.  The liveness
properties say where it may not.

The type invariant of a module is a conjunct of the property about its memory (`NoWildAccess`,
`NoTruncation`), a property of its own (`runtime`, `ob1`), or proved and not checked again
(`KernelExec`, `TaskComms`, `LibHandles`).

Each property has a mutant, an operator with a plausible bug next to the definition it would
replace (marked `Mutant:`): a wait that does not join, a barrier left out, the last message
taken for the first, a rack not counted.  Replacing the definition by it violates the property.

## Fairness

* `KernelExec`: weak fairness for each application thread, each launch thread and each device.
  They are separate OS threads and a device that executes what it was given; the code needs no more
  (nobody waits for a lock that others could hold for ever).  Steps that may fail
  are in the same disjunction as those that succeed, so fairness forces no failure and no success.
* `TaskComms`: weak fairness for each rank.  A receive is enabled once its message was
  sent: MPI's progress rule.  `DeviceError` is never forced.
* `TaskBinding`: weak fairness for each rank; an `MPI_Allgather` returns once all ranks have
  called it.
* `ScatterGather`: weak fairness for each rank; a collective open returns once all ranks are in it, and a
  set_view that was accepted once all ranks are in one that is accepted.
* `TaskRuntime`: weak fairness for the application thread, each launch thread and each device, as
  in `KernelExec`.
* `TunedColl`: weak fairness for the progress of each rank inside a call (`Progress`); nobody is
  obliged to make the next call.  MPI makes progress on posted sends and receives inside a wait.
* `Ob1Match`: weak fairness for the arrival of each message, for the steps of each thread's callback and
  for `mca_pml_ob1_add_comm` once it runs.  Senders and the application are not fair.
* `TaskTrays`, `DeviceExploration` and `LibHandles` have no liveness property: each is one thread of
  calls or loops that return or exit.

## Proofs

The theorems hold for every value of the constants that satisfies the named `ASSUME` of the
component: in particular for any number of ranks, tasks, devices and calls.

**`KernelExecProofs`** (from `KernelExecAssumption`: owners and task lists agree, programs are
finite sequences of calls). `TypeCorrect` needs two facts besides `TypeOK`: a rank inside a call
is in a call of the right kind (`PhaseOK`), and a thread belongs to a past launch of the owner of
its task (`LaunchOK`). `WaitsComplete`, `Spec => []WaitCompletesLastLaunch`, is about joins
through an array that may be stale. The inductive invariant `WaitInv` says why they are enough:
unjoined threads have different `pthread_t` values (`HandlesDistinct`); `thds[t]` is the value of
the last thread started for `t` (`ThdsLast`), even if a `pthread_create` failed in between; a
command in a queue belongs to a thread that has not ended, and once that thread is in `clFinish`
it waits for this command (`QueueOK`, `QueueHome`). `LoopDone`, `BarrierDone` and `PastDone` carry
the conclusion along the loop of joins, through the barrier and over the later calls.

`WaitsAreGlobal`, `Spec => []WaitIsGlobal`, adds to `WaitInv` that, as long as the waits are
aligned, `entered[r]` is the number of waits of the program up to where `r` is (`EnteredOK`, a
cardinality), and that no rank is past such a wait before every rank has done its joins
(`PassedOK`). `ArgumentsStayIntact`, `Spec => []ArgumentsIntact`, follows from `ArgInv`: between
the call of a launch and its command, the `cl_kernel` holds its arguments unless a later launch of
the task has begun (`ArgsSet`, `ArgsKept`); if a wait comes before that launch, `WaitInv` has the
earlier command complete.

**`TaskCommsProofs`** (from `TaskCommsAssumption`: programs are matched, `SeqMem` satisfies
`Effect`). `MemoryIsSequential`, `ReadsAreSequential` and `MessagesMatch` are consequences of
`CommInv`: a message in flight is the unreceived message of a call already made and carries what
the sequential program has in the source tray at that call (`ChanOK`); messages of one envelope
are in program order (`Ordered`); none is lost (`Delivered`) or received before it was sent
(`RecvSent`). `SequentialMemory` alone is not inductive, because a receive depends on what is in
flight. The key lemma is `HeadMatches`: the first message of an envelope is the one of the
matching send, although nothing in it names a task.

**`TaskBindingProofs`** (from `TaskBindingAssumption`). `RacksAreDistinct` follows from `RackInv`:
a bound task is bound to an existing device and has a rack below the device's `numRacks`, which
only grows, also across repeated calls. `MapsAgree` follows from `MapInv`: a rank contributed once
per call, and its map is that of the contributions of its last completed call, whatever was
contributed since. `MapsNameEveryTask` adds that what a rank sent is the length of its `taskList`
(`ListInv`), and that a map made of lists that are concatenated rank by rank names each entry once
(`TaskMapNames`, an induction on the set of ranks done). Nothing is assumed of the files for these
beyond their lines being complete: they hold for files that bind too few or too many tasks as
well.

`CarefulTasksAreBound` and `CarefulNoWildAccess` assume `Careful`, and are false without it.
`BindInv` follows the reader of the file: after line `n` the slots filled and the tasks asked for
are those of the first `n` lines (`ReadUpTo`, with the sums `Asked` and `Filled`), every task
below the number asked for is in the interval of some slot (`Covered`), and the loop of
`createTaskList` has bound exactly the tasks before the current one (`Bound`).

**`TaskTraysProofs`** (from `TaskTraysAssumption`, and `Liberty = {}`: the application keeps the
rules of use). `NoWildAccess` and `NumTraysCounts` are inductive only together, and with a third
conjunct of `TrayInv`: the global `tskbufferSize`, which a gather uses and does not compute, holds
the shares of an earlier scatter (`SizesOK`). Every tray that the rules allow to be used is then a
live object within its array (`UseIsLive`). `CarefulImplementsTrayStore` shows the refinement step
by step: each call of `TaskTrays` is the call of `TrayStore` on the trays that `TrayOf` reads from
the arrays, or a stutter if it exits.

**`TaskRuntimeProofs`** (from `TaskRuntimeAssumption`). `LaunchesRunTheirKernel` follows from
`RuntimeInv`: `kernel` is the one of the last creation, and a launch that has started holds the
one that was current (`LaunchOK`), also when the thread enqueues much later.
`MemoryStaysSequential` is about all interleavings of the application, the launch threads and the
devices with their queues. `MemInv` states, for a program that is `Waited`, how far the trays may
be behind the sequential program: a tray whose launch has not run is as it was before it, and no
later call has changed it (`UnrunOK`); a launch that a wait has covered is over (`WaitsOK`); a
thread that has not enqueued finds the arguments and sizes of its own call, and its command
carries them (`ThreadsOK`, `CommandsOK`); any other tray holds what the sequential program has
there (`IdleOK`), and so does the host buffer of a copy (`HostOK`). The reference `Mem` is a
recursive function; the provers get its value at a call from the value at the call before it
(`Climb`), where a call in between does not touch the tray.

**`DeviceExplorationProofs`** (from `DeviceExplorationAssumption`, for any number of platforms and
devices). `DevInv` says for each pass where the loops are and what they have done: in the first,
that a count is the number of devices of its type visited; in the second, that an array lists the
visited devices of its type in order, and that the count is the number of all of them. A count is
a cardinality, so that a step is the insertion of one element into a finite set. `DevicesAreFound`
holds for all nodes, also those in which a platform without devices leaves a stale count: such a
process may read what nobody wrote, but if it gets through, its arrays are right.
`DevicesNoWildAccess` is about nodes in which every platform has a device.

**`GlobalsProofs`**, about `ScatterGather` (from `ScatterGatherAssumption`: 1 or 2 tasks, as in the
model; any number of ranks, files, bytes and calls, any int width, any size of `MPI_FLOAT`).
`ScattersSequentially`, `GathersSequentially` and `NeverWild` are consequences of `SGInv`, which has
three layers.  All three speak of programs that are `WholeFloats`: for others the first two are false,
and `NoWildAccess` is left to TLC there, while the types are proved for all programs.
`TypeInv` adds to the types where a rank is inside its call, and that a rank about to read has
computed its sizes from a file that has not become shorter since; it holds in all programs, also
those whose sizes wrap around. `SyncInv` is about the opens: `opened[r]` is the number of calls
with an open that `r` has entered (`OpenedOK`, a cardinality), so that `MPI_File_open` can return
to a rank only if all have entered the same call, and no rank is past the open of a call that
another has not entered (`SyncOK`). `SeqInv` is claimed only of programs that are `WholeFloats`,
`Clean` and `Fits`; in these every view that is made is accepted (`ViewIs`). It says of each rank that its globals are those of the last scatter as long as a gather of
it is to come (`GlobalsAt`), that its trays are those of the run call by call at its own position
(`TrayAt`), and that the buffer of its gather begins with them (`TmpAt`); and of the files that
they are those of the run call by call at the position of the *slowest* rank, except that the file
of a gather holds the blocks of the ranks that have left it (`FileOK`, `Partly`). `SyncOK` is why this is
enough: faster ranks cannot have reached a later gather. `PartlyMore` and `PartlyAll` show that
blocks written in any order add up to the sequential result. The reference `After` is a recursive function; `RefExists` and
`Climb` give its values from its definition. The arithmetic is in lemmas of its own: that
quotients, products and displacements of what fits an int fit an int (`SizesIs`, `ViewIs`), and
which block a byte is in (`PartOf`, `PartExists`).

The same module, about `LibHandles` (from `LibHandlesAssumption`, for any number of calls and
threads): `GlobalsKept` and `CodeMapped` are consequences of `LibInv`. Neither is inductive alone:
that a count stays positive after a `dlclose` depends on who has opened the library and will never
close it. `LibInv` therefore speaks of `Kept`, the count of `libmultiDeviceMgmt` that is left when
the current call has closed what it will close: it is positive once a kernel was launched
(`LaunchOK`) or a file scattered (`ScatterOK`).

**`MatchingProofs`** (from `MatchingAssumption`, for any number of senders, messages and
requests). `MatchInv` conjoins the types, that a request got a message it accepts (`GotOK`), what
is posted (`PostedOK`) and the properties themselves. `NonOvertaking` and `ReceivesInOrder` need
`NoMissedMatch`: a posted receive accepts nothing that is unexpected, so a message that arrives
and is taken can have no older acceptable one behind it. A lemma on least elements gives the
witness for "the first that accepts".

`Ob1Implements`, `Ob1Spec => ImplementsMatching`, is the refinement (from `Ob1MatchAssumption` as
well, for any number of threads and any modulus of the sequence numbers). The invariant `Ob1Inv`
has three parts. `ListsInv` says what the lists of a communicator hold: messages of the right
kind, once each, in the order of their arrival or posting, and an expected number that is the
number of messages of the sender that took effect, modulo `SeqWrap`. `PlacesInv` says that a
message that was sent and has not taken effect is in exactly one place: in flight, with a thread
between the two locks, out of order, or pending on a communicator that does not exist yet. As
fewer than `SeqWrap` messages of a sender are outstanding, a message whose number is the expected
one is then the next one, and not a later one with the same 16 bits. `LifeInv` says in which
states of the communicator which of these places can be in use. Each step of the code is one step
of `Matching` or a stutter; the look through `frags_cant_match` after the lock was released is a
step for the one message it finds. `Ob1TypeCorrect`, `Ob1DoesNotOvertake` and `Ob1ExactlyOnce`
state for the code's structures what the theorems on `Matching` say for the abstraction.

The prover cannot instantiate induction theorems that take a predicate as an operator. Where a
proof is an induction over data it is made with sets: of the numbers for which the claim fails the
least is taken (least elements of sets of naturals are given by `WellFoundedInduction`), and shown
not to exist.

The larger invariants (`MemInv`, `DevInv`, `BindInv`, `SGInv`, `Ob1Inv`) were checked by TLC on the instance of the
component's run before they were proved.

Only model-checked: the liveness properties, that of `Ob1Match` included, as the prover does not
treat fairness; `TunedColl` and its refinement of `Barrier`, whose algorithms are computed by loops
over powers of two.

## Findings

Each has a run that ends in a counterexample; the quoted statements are in `PROJECT.json`.

1. `tskExec.c:163`: `OMPI_XclWaitFor` reaches the barrier only on ranks that own a listed task.  If
   all ranks call it for a task of one rank, the owner waits for ever (`waitfor_hang`).
2. `coll/tuned/coll_tuned_decision_fixed.c:534`: with `MPI_IN_PLACE` the allgather chooses its algorithm by the
   sendcount and sendtype that the manual page says are ignored; ranks that pass different ones
   run different algorithms and hang (`allgather_in_place`).

The passing runs state the rules of use under which the code is right.  What happens without them
contradicts no document, since none states the rules, but whoever changes this code should know it.
Each can be seen by changing the constants `Liberty` or `Config`, or by dropping `Clean`, `WholeFloats`,
`Answers` or a premise from the property:

* `bufferInit.c:50`: a tray created out of order leaves `numTrays` behind the array, and
  unwritten handles within it (`NumTraysCounts`).
* `bufferInit.c:148`: a scatter into the next new tray writes past the array, and
  `bufferInit.c:141`: the shares of a scatter over 3 or more tasks may exceed the host buffer
  (`NoWildAccess`).
* `bufferRead.c:31`: a gather uses the sizes of the last scatter of any tray (`ImplementsTrayStore`).
* `taskScheduling.c:110`: a file that binds too few tasks only causes a warning and leaves tasks
  without a device (`EveryTaskBound`).
* `singleSidedComms.c:131`: a transfer between a scatter and its gather changes the size of the
  entities the gather writes (`GatherIsSequential`), and with smaller ones the space of its host
  buffer (`NoWildAccess`).
* `XclScatter.c:51,132`: the etype of the views is `MPI_FLOAT` whatever the datatype of the call.
  ROMIO refuses a datatype that is no multiple of it, the error goes unnoticed, and every rank
  reads the first block of the file (`ScatterIsSequential` without `WholeFloats`) or writes its
  part over it (`GatherIsSequential`).
* `XclScatter.c:50,131`: the displacement is an int.  If it wraps to a negative value on one rank, ROMIO
  refuses the view there, and the ranks whose views were accepted wait for ever in the barrier at the
  end of `MPI_File_set_view` (`AllRanksFinish` without its premise).
* `pml_ob1_recvfrag.c:573`: as many outstanding messages of a sender as there are sequence numbers
  could be confused (`ImplementsMatching` without the guard of `Isend`).
* `deviceExploration.c:38`: a platform without devices keeps the count of the one before
  and reads entries nobody wrote (`NoWildAccess`).

## Not modelled

* Most of Open MPI: about a million lines of transports, run-time environment, bindings, other
  collectives, I/O, checkpointing, oshmem and vendored tools (libevent, ROMIO, hwloc,
  VampirTrace, ptmalloc).  Nearly all of it is never on the path of a call of the extension, and much
  of it is generated or other projects' code.  The extension is some 3000 lines.  A model that
  named a fair share of the million lines would have to be one per subsystem, of systems this fork does not
  change; the modules here follow the extension's calls down to the matching of messages and stop there.
* The basic linear allgather (a gather and a broadcast of other files), collectives on
  intercommunicators, and the rules of a configuration file, which choose among the same algorithms.
* MPI files other than in `ScatterGather`: the ompio component, which accepts views that ROMIO
  refuses; datatypes with gaps; an error of the file system; the barrier in `MPI_File_close` on NFS.
* In `ob1`: the transfer of data after the match, cancelled receives, and `recv_sequence`, which
  would have to count to 2^32.
* `hiddenComms.c` is compiled and never called (its calls are commented out in
  `mpiext_XCLFrame_late.c:51-60`); `c/XclScatter.c` is not in any Makefile.
* Task number -1: `enqueueKernel` documents it as "all tasks", but `OMPI_XclExecKernel` reads
  `g_taskList[-1]` first, so nothing can be said of what follows.
* Failing `malloc` and `realloc`, and memory that is never given back (request and host buffer
  of every send, the old kernel of a task): they change no result the models speak of.
* Lines of the file with missing or negative numbers.
* A freed tray that is used again: the handle of a released object is passed to OpenCL.

## Plan

Done: all components of the extension that are built and called, the collectives and the matching
under them, and the proofs above.  Left:

* `NoTruncation` and `NoMessageLeft` of `TunedColl`, for exchanges that pair up: whatever the
  algorithm is, if the exchanges of a call match between the ranks, those of a sequence of calls do.
