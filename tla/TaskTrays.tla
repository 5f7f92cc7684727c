------------------------------ MODULE TaskTrays ------------------------------
(***************************************************************************)
(* The buffers of the tasks of one rank: memMgmt/*.c as the OMPI_Xcl calls  *)
(* use it.  The trays of a task are the array memHandler[Rack] of its       *)
(* device; module TaskBinding shows that no two tasks share a rack.  The    *)
(* calls are made by the only application thread of the rank; that a rank    *)
(* acts only on its own tasks is in TaskComms.  OpenCL and malloc are        *)
(* external; gather's host buffer is taken to be large enough.               *)
(*                                                                          *)
(* What the application may do is a parameter: the careful application      *)
(* (Liberty = {}) keeps to the rules under which the calls work; a liberty  *)
(* lifts one of them.                                                       *)
(***************************************************************************)
EXTENDS Integers, Sequences

CONSTANTS
    NumTasks,       \* l_numTasks
    Tray,           \* the tray numbers the application uses
    Size,           \* the buffer sizes it asks for, in bytes
    HostSize,       \* the sizes of the host buffers it scatters
    EntitySize,     \* the values of MPIentityTypeSize
    MaxCalls,       \* bound on the number of calls
    Liberty         \* the rules the application does not keep

ASSUME TaskTraysAssumption ==
    /\ NumTasks \in Nat \ {0}
    /\ Tray \subseteq Nat /\ Size \subseteq Nat /\ HostSize \subseteq Nat
    /\ EntitySize \subseteq Nat \ {0}
    /\ MaxCalls \in Nat
    /\ Liberty \subseteq {"gap", "append", "uneven", "stale"}

Task == 0 .. NumTasks - 1

VARIABLES
    numTrays,       \* taskList[t].numTrays
    slots,          \* memHandler[Rack] of each task: slots[t][y + 1] is tray y
    tskbufferSize,  \* the global array of the last scatter, << >> before it
    got,            \* what the last read or gather put in the host buffer
    status,         \* "ok", "died" (exit or a fatal signal), "wild" (undefined behaviour)
    calls           \* number of calls made

vars == << numTrays, slots, tskbufferSize, got, status, calls >>

\* A cl_mem: live or released, or memory nobody has written ("garbage").
Byte    == (0 .. MaxCalls) \X Nat
Unset   == << 0, 0 >>
Garbage == [st |-> "garbage", data |-> << >>]
clCreateBuffer(sz) == [st |-> "live", data |-> [k \in 1 .. sz |-> Unset]]
HostBuffer(v, sz)  == [k \in 1 .. sz |-> << v, k >>]

\* realloc of an array to n slots.
Realloc(s, n) == [k \in 1 .. n |-> IF k <= Len(s) THEN s[k] ELSE Garbage]

\* How many of n cl_mem handles fit in what malloc(y + 1 * sizeof(cl_mem)) asks for.
SizeOfHandle == 8
FirstCapacity(y) == (y + SizeOfHandle) \div SizeOfHandle

Ok(n, s)   == [status |-> "ok", num |-> n, slots |-> s]
Bad(t, st) == [status |-> st, num |-> numTrays[t], slots |-> slots[t]]
----------------------------------------------------------------------------
\* Mutants of initNewBuffer: a tray that exists is created again; numTrays is not
\* updated when the array grows.
initNewBufferAgain(t, y, sz) ==
    IF y + 1 <= numTrays[t]
    THEN {Ok(numTrays[t], [slots[t] EXCEPT ![y + 1] = clCreateBuffer(sz)])}
    ELSE {Ok(y + 1, Append(Realloc(slots[t], y), clCreateBuffer(sz)))}

initNewBufferForget(t, y, sz) ==
    IF y + 1 <= numTrays[t] THEN {Ok(numTrays[t], slots[t])}
    ELSE {Ok(IF y = 0 THEN 1 ELSE numTrays[t], Append(Realloc(slots[t], y), clCreateBuffer(sz)))}

\* initNewBuffer: the outcomes of making sure that task t has tray y.  The first
\* allocation is too small for more than one handle; a later one makes room for
\* tray y but counts only one more tray; a tray within numTrays is left alone.
\* (The two bytes written to make the device allocate the buffer count as unset.)
initNewBuffer(t, y, sz) ==
    LET memIdx == numTrays[t] IN
    IF memIdx = 0
    THEN IF sz = 0 THEN {Bad(t, "died")}
         ELSE {Ok(y + 1, [k \in 1 .. y + 1 |-> clCreateBuffer(sz)])}
              \cup (IF y + 1 > FirstCapacity(y) THEN {Bad(t, "wild")} ELSE {})
    ELSE IF y + 1 > memIdx
    THEN IF sz < 2 THEN {Bad(t, "died")}      \* the two bytes written at sz - 2
         ELSE {Ok(memIdx + 1, [Realloc(slots[t], y + 1) EXCEPT ![y + 1] = clCreateBuffer(sz)])}
    ELSE {Ok(memIdx, slots[t])}

\* What an OpenCL call on the first sz bytes of tray y of an array s does.
Access(s, y, sz) ==
    IF y + 1 > Len(s) \/ s[y + 1].st # "live" THEN "wild"
    ELSE IF sz = 0 \/ sz > Len(s[y + 1].data) THEN "died"
    ELSE "ok"

Overwrite(d, b) == b \o SubSeq(d, Len(b) + 1, Len(d))
WriteSlot(s, y, b) == [s EXCEPT ![y + 1].data = Overwrite(@, b)]

----------------------------------------------------------------------------
(* The rules of the careful application.                                   *)

Freed(t, y) == y < Len(slots[t]) /\ slots[t][y + 1].st = "freed"

\* Trays are made in order and not used again after a free.
MayCreate(t, y) ==
    /\ y <= numTrays[t] \/ "gap" \in Liberty
    /\ ~Freed(t, y)

MayUse(t, y) ==
    /\ y < numTrays[t] \/ "gap" \in Liberty
    /\ ~Freed(t, y)

Calling == status = "ok" /\ calls < MaxCalls /\ calls' = calls + 1

Apply(t, o) ==
    /\ status' = o.status
    /\ numTrays' = [numTrays EXCEPT ![t] = o.num]
    /\ slots' = [slots EXCEPT ![t] = o.slots]

----------------------------------------------------------------------------
XclMallocTaskBuffer(t, y, sz) ==
    /\ Calling /\ MayCreate(t, y)
    /\ \E o \in initNewBuffer(t, y, sz) : Apply(t, o)
    /\ UNCHANGED << tskbufferSize, got >>

\* Used by OMPI_XclWriteTaskBuffer and, for a received message, OMPI_XclRecv.
XclWriteTaskBuffer(t, y, sz) ==
    /\ Calling /\ MayCreate(t, y)
    /\ \E o \in initNewBuffer(t, y, sz) :
          LET acc == Access(o.slots, y, sz) IN
          IF o.status = "ok" /\ acc = "ok"
          THEN Apply(t, [o EXCEPT !.slots = WriteSlot(@, y, HostBuffer(calls + 1, sz))])
          ELSE Apply(t, IF o.status = "ok" THEN Bad(t, acc) ELSE o)
    /\ UNCHANGED << tskbufferSize, got >>

\* Used by OMPI_XclReadTaskBuffer and OMPI_XclSend.
XclReadTaskBuffer(t, y, sz) ==
    /\ Calling /\ MayUse(t, y)
    /\ status' = Access(slots[t], y, sz)
    /\ got' = IF status' = "ok" THEN SubSeq(slots[t][y + 1].data, 1, sz) ELSE got
    /\ UNCHANGED << numTrays, slots, tskbufferSize >>

\* The object is released; the handle stays in the array.
XclFreeTaskBuffer(t, y) ==
    /\ Calling /\ MayUse(t, y)
    /\ IF y < Len(slots[t]) /\ slots[t][y + 1].st = "live"
       THEN slots' = [slots EXCEPT ![t][y + 1].st = "freed"] /\ status' = "ok"
       ELSE slots' = slots /\ status' = "wild"
    /\ UNCHANGED << numTrays, tskbufferSize, got >>

\* The copy between tasks of the same device; OpenCL refuses to copy a buffer onto itself.
intracpyBuffer(t, y, u, z, sz) ==
    LET src == Access(slots[t], y, sz)
        dst == Access(slots[u], z, sz)
        ok  == src = "ok" /\ dst = "ok" /\ << t, y >> # << u, z >>
    IN
    /\ Calling /\ MayUse(t, y) /\ MayUse(u, z)
    /\ status' = IF ok THEN "ok" ELSE IF "wild" \in {src, dst} THEN "wild" ELSE "died"
    /\ slots' = IF ok
                THEN [slots EXCEPT ![u] = WriteSlot(@, z, SubSeq(slots[t][y + 1].data, 1, sz))]
                ELSE slots
    /\ UNCHANGED << numTrays, tskbufferSize, got >>

----------------------------------------------------------------------------
(* Scatter and gather over all tasks of the rank.                          *)

\* The share of each task: rounded up, and down for the last one.  (The code
\* divides floats; below 2^24 entities that rounds like integer division.)
Split(H, e) ==
    LET n == H \div e IN
    [t \in Task |-> (IF t = NumTasks - 1 THEN n \div NumTasks
                     ELSE (n + NumTasks - 1) \div NumTasks) * e]

\* The offset in the host buffer at which task t starts, and the end of the last.
Offset(size, t) == t * size[0]
End(size) == Offset(size, NumTasks - 1) + size[NumTasks - 1]

\* Mutant: the array of a task without trays is not allocated.
ALL_TASKS_initBufferNoFirst(t, y, size) ==
    IF y + 1 > Len(slots[t]) THEN Bad(t, "wild")
    ELSE Ok(numTrays[t], [slots[t] EXCEPT ![y + 1] = clCreateBuffer(size[t])])

\* ALL_TASKS_initBuffer for one task: makes room only if numTrays < trayIdx.
ALL_TASKS_initBuffer(t, y, size) ==
    LET memIdx == numTrays[t]
        grown  == IF memIdx < y THEN Realloc(slots[t], y + 1)
                  ELSE IF memIdx = 0 THEN << Garbage >> ELSE slots[t]
        num    == IF memIdx < y THEN y + 1 ELSE IF memIdx = 0 THEN 1 ELSE memIdx
    IN
    IF (memIdx = 0 /\ y > 0) \/ y + 1 > Len(grown) THEN Bad(t, "wild")
    ELSE IF size[t] = 0 THEN Bad(t, "died")
    ELSE Ok(num, [grown EXCEPT ![y + 1] = clCreateBuffer(size[t])])

\* A scatter goes to the first tray or to one every task has, and the shares add
\* up to the host buffer.
MayScatter(y, H, e) ==
    /\ \A t \in Task : \/ y < numTrays[t]
                       \/ y = 0 /\ numTrays[t] = 0
                       \/ y = numTrays[t] /\ "append" \in Liberty
                       \/ y > numTrays[t] /\ "gap" \in Liberty
    /\ End(Split(H, e)) = H \/ "uneven" \in Liberty

\* ALL_TASKS_writeBuffer copies, for every task, its share of the host buffer.
ALL_TASKS_writeBuffer(s, t, y, size) ==
    WriteSlot(s, y, SubSeq(HostBuffer(calls + 1, End(size)), Offset(size, t) + 1, Offset(size, t) + size[t]))

\* The part of OMPI_XclScatter that follows the read of the host buffer, whose
\* size is a number of entities.
XclScatter(y, H, e) ==
    LET size  == Split(H, e)
        out   == [t \in Task |-> ALL_TASKS_initBuffer(t, y, size)]
        fails == {out[t].status : t \in Task} \ {"ok"}
    IN
    /\ Calling /\ H % e = 0 /\ MayScatter(y, H, e)
    /\ tskbufferSize' = size
    /\ IF fails = {}
       THEN /\ numTrays' = [t \in Task |-> out[t].num]
            /\ slots' = [t \in Task |-> ALL_TASKS_writeBuffer(out[t].slots, t, y, size)]
            /\ status' = IF End(size) > H THEN "wild" ELSE "ok"
       ELSE /\ UNCHANGED << numTrays, slots >>
            /\ status' = IF "wild" \in fails THEN "wild" ELSE "died"
    /\ UNCHANGED got

\* A gather is of trays that have the sizes of the last scatter.
MayGather(y) ==
    /\ \A t \in Task : MayUse(t, y)
    /\ tskbufferSize # << >> /\ "stale" \notin Liberty =>
          \A t \in Task : y < Len(slots[t]) => Len(slots[t][y + 1].data) = tskbufferSize[t]

\* The host buffer after the reads of all tasks, each at its offset.
Gathered(y) ==
    [k \in 1 .. End(tskbufferSize) |->
        LET t == CHOOSE t \in Task : Offset(tskbufferSize, t) < k
                                     /\ k <= Offset(tskbufferSize, t) + tskbufferSize[t]
        IN  slots[t][y + 1].data[k - Offset(tskbufferSize, t)]]

XclGather(y) ==
    LET fails == {Access(slots[t], y, tskbufferSize[t]) : t \in Task} \ {"ok"} IN
    /\ Calling /\ MayGather(y)
    /\ IF tskbufferSize = << >> THEN got' = got /\ status' = "died"
       ELSE IF fails = {} THEN got' = Gathered(y) /\ status' = "ok"
       ELSE got' = got /\ status' = IF "wild" \in fails THEN "wild" ELSE "died"
    /\ UNCHANGED << numTrays, slots, tskbufferSize >>

\* Any OpenCL call may fail for want of resources: chkerr exits.
OpenCLError ==
    /\ status = "ok" /\ status' = "died"
    /\ UNCHANGED << numTrays, slots, tskbufferSize, got, calls >>
----------------------------------------------------------------------------
Init ==
    /\ numTrays = [t \in Task |-> 0]
    /\ slots = [t \in Task |-> << >>]
    /\ tskbufferSize = << >>
    /\ got = << >>
    /\ status = "ok"
    /\ calls = 0

Next ==
    \/ \E t \in Task, y \in Tray, sz \in Size :
          \/ XclMallocTaskBuffer(t, y, sz)
          \/ XclWriteTaskBuffer(t, y, sz)
          \/ XclReadTaskBuffer(t, y, sz)
          \/ \E u \in Task, z \in Tray : intracpyBuffer(t, y, u, z, sz)
    \/ \E t \in Task, y \in Tray : XclFreeTaskBuffer(t, y)
    \/ \E y \in Tray, H \in HostSize, e \in EntitySize : XclScatter(y, H, e)
    \/ \E y \in Tray : XclGather(y)
    \/ OpenCLError

Spec == Init /\ [][Next]_vars
----------------------------------------------------------------------------
TrayObject == [st : {"live", "freed", "garbage"}, data : Seq(Byte)]

\* The type invariant; a task never counts more trays than the application uses.
TypeOK ==
    /\ numTrays \in [Task -> {0} \cup UNION {1 .. y + 1 : y \in Tray}]
    /\ slots \in [Task -> Seq(TrayObject)]
    /\ tskbufferSize \in [Task -> Nat] \cup {<< >>}
    /\ got \in Seq(Byte)
    /\ status \in {"ok", "died", "wild"}
    /\ calls \in 0 .. MaxCalls

\* task.h says numTrays is the number of trays of the task: it is the length of
\* the array of handles, and each of these has been given a memory object.
NumTraysCounts ==
    status = "ok" =>
        \A t \in Task : /\ numTrays[t] = Len(slots[t])
                        /\ \A k \in 1 .. Len(slots[t]) : slots[t][k].st # "garbage"

\* The variables keep their types and no call reads or writes outside an array, a host buffer or a live memory
\* object: initNewBuffer and ALL_TASKS_initBuffer make room for every tray
\* that writeBuffer, readBuffer and the others use.
NoWildAccess == TypeOK /\ status # "wild"

----------------------------------------------------------------------------
(* What the tasks have in their trays, in the terms of TrayStore.          *)

TrayOf(t, y) ==
    IF y < Len(slots[t]) /\ slots[t][y + 1].st # "garbage"
    THEN slots[t][y + 1] ELSE [st |-> "none", data |-> << >>]

Store == INSTANCE TrayStore WITH
    store   <- [t \in Task |-> [y \in Tray |-> TrayOf(t, y)]],
    running <- status = "ok"

\* The arrays of handles, numTrays and tskbufferSize implement a store in which
\* a tray keeps what was last written to it, whatever is done to other trays
\* and other tasks: growing an array loses no tray, and a scatter followed by a
\* gather returns the host buffer.
ImplementsTrayStore == Store!Spec
=============================================================================
