--------------------------- MODULE TaskTraysProofs ---------------------------
(***************************************************************************)
(* Proofs about TaskTrays: for an application that keeps the rules, numTrays *)
(* counts the trays, no call touches memory it should not, and the arrays    *)
(* of handles implement the store of TrayStore.  All hold for any number of  *)
(* tasks and calls, any tray numbers and any buffer and entity sizes.        *)
(***************************************************************************)
EXTENDS TaskTrays, SequenceTheorems, WellFoundedInduction, TLAPS

----------------------------------------------------------------------------
(* The shares of a scatter.                                                *)

\* All tasks but the last have the share of task 0.
Even(size) == \A t \in Task : t # NumTasks - 1 => size[t] = size[0]

\* Products keep the order of their factors.
LEMMA ProductMonotone ==
    ASSUME NEW i \in Nat, NEW j \in Nat, NEW s \in Nat, i <= j
    PROVE  i * s \in Nat /\ j * s \in Nat /\ i * s <= j * s
  BY SMT

\* The rounding of the shares gives a number of bytes to each task.
LEMMA SplitShape ==
    ASSUME NEW H \in Nat, NEW e \in Nat \ {0}
    PROVE  Split(H, e) \in [Task -> Nat] /\ Even(Split(H, e))
<1> DEFINE n == H \div e
           up == (n + NumTasks - 1) \div NumTasks
           down == n \div NumTasks
<1>1. n \in Nat
  OBVIOUS
<1>2. up \in Nat /\ down \in Nat
  BY <1>1, TaskTraysAssumption
<1>3. up * e \in Nat /\ down * e \in Nat
  BY <1>2
<1>4. Split(H, e) = [t \in Task |-> (IF t = NumTasks - 1 THEN down ELSE up) * e]
  BY DEF Split
<1> HIDE DEF n, up, down
<1>5. Split(H, e) \in [Task -> Nat]
  BY <1>3, <1>4
<1>6. Even(Split(H, e))
  BY <1>4, TaskTraysAssumption DEF Even, Task
<1> QED
  BY <1>5, <1>6

\* The shares follow each other without gaps, up to the end of the last one.
LEMMA Offsets ==
    ASSUME NEW size \in [Task -> Nat], Even(size)
    PROVE  /\ End(size) \in Nat
           /\ \A t \in Task : /\ Offset(size, t) \in Nat
                              /\ Offset(size, t) + size[t] <= End(size)
           /\ \A t \in Task : t # NumTasks - 1 => Offset(size, t + 1) = Offset(size, t) + size[t]
           /\ \A t, u \in Task : t < u => Offset(size, t) + size[t] <= Offset(size, u)
           /\ Offset(size, 0) = 0
<1> USE TaskTraysAssumption
<1>0. 0 \in Task /\ NumTasks - 1 \in Task /\ size[0] \in Nat /\ Task \subseteq Nat
  BY DEF Task
<1>1. \A t \in Task : Offset(size, t) \in Nat
  BY <1>0, ProductMonotone DEF Offset
<1>2. End(size) \in Nat
  BY <1>0, <1>1 DEF End
<1>3. ASSUME NEW t \in Task, t # NumTasks - 1
      PROVE  Offset(size, t + 1) = Offset(size, t) + size[t]
  <2>1. size[t] = size[0]
    BY <1>3 DEF Even
  <2>2. (t + 1) * size[0] = t * size[0] + size[0]
    BY <1>0
  <2> QED BY <2>1, <2>2 DEF Offset
<1>4. ASSUME NEW t \in Task, NEW u \in Task, t < u
      PROVE  Offset(size, t) + size[t] <= Offset(size, u)
  <2>1. t # NumTasks - 1 /\ t + 1 \in Nat /\ u \in Nat /\ t + 1 <= u
    BY <1>4 DEF Task
  <2>2. Offset(size, t + 1) <= Offset(size, u)
    BY <1>0, <2>1, ProductMonotone DEF Offset
  <2> QED BY <1>3, <2>1, <2>2
<1>5. ASSUME NEW t \in Task PROVE Offset(size, t) + size[t] <= End(size)
  <2>1. CASE t = NumTasks - 1
    BY <1>0, <1>2, <2>1 DEF End
  <2>2. CASE t < NumTasks - 1
    <3>1. Offset(size, t) + size[t] <= Offset(size, NumTasks - 1)
      BY <1>0, <1>4, <2>2
    <3> QED BY <1>0, <1>1, <3>1 DEF End
  <2> QED BY <2>1, <2>2 DEF Task
<1>6. Offset(size, 0) = 0
  BY <1>0 DEF Offset
<1> QED
  BY <1>1, <1>2, <1>3, <1>4, <1>5, <1>6

NatOrder == {p \in Nat \X Nat : p[1] < p[2]}

\* Every byte of the host buffer is in the share of one task.
LEMMA ShareOfByte ==
    ASSUME NEW size \in [Task -> Nat], Even(size), NEW k \in 1 .. End(size)
    PROVE  /\ \E t \in Task : Offset(size, t) < k /\ k <= Offset(size, t) + size[t]
           /\ \A t, u \in Task :
                /\ Offset(size, t) < k /\ k <= Offset(size, t) + size[t]
                /\ Offset(size, u) < k /\ k <= Offset(size, u) + size[u]
                => t = u
<1> DEFINE S == {t \in Task : k <= Offset(size, t) + size[t]}
<1>0. NumTasks - 1 \in Task /\ Task \subseteq Nat /\ End(size) \in Nat
  BY TaskTraysAssumption, Offsets DEF Task
<1>a. k \in Nat /\ k <= End(size)
  BY <1>0
<1>1. S \subseteq Nat /\ NumTasks - 1 \in S
  BY <1>0, <1>a DEF End
<1>2. IsWellFoundedOn(NatOrder, Nat)
  BY NatLessThanWellFounded DEF OpToRel, NatOrder
<1>3. PICK m \in S : \A n \in S : << n, m >> \notin NatOrder
  BY <1>1, <1>2, WFMin
<1>4. m \in Task /\ m \in Nat /\ k <= Offset(size, m) + size[m]
  BY <1>1, <1>3
<1>5. Offset(size, m) < k
  <2>1. CASE m = 0
    BY <2>1, Offsets
  <2>2. CASE m # 0
    <3>1. m - 1 \in Task /\ m - 1 # NumTasks - 1 /\ (m - 1) + 1 = m
      BY <1>4, <2>2, TaskTraysAssumption DEF Task
    <3>2. << m - 1, m >> \in NatOrder
      BY <1>0, <1>4, <3>1 DEF NatOrder
    <3>3. m - 1 \notin S
      BY <1>3, <3>2
    <3>4. ~(k <= Offset(size, m - 1) + size[m - 1])
      BY <3>1, <3>3
    <3>5. Offset(size, m) = Offset(size, m - 1) + size[m - 1]
      BY <3>1, Offsets
    <3>6. Offset(size, m) \in Nat
      BY <1>4, Offsets
    <3> QED BY <3>4, <3>5, <3>6
  <2> QED BY <2>1, <2>2
<1>6. ASSUME NEW t \in Task, NEW u \in Task,
             Offset(size, t) < k, k <= Offset(size, t) + size[t],
             Offset(size, u) < k, k <= Offset(size, u) + size[u]
      PROVE  t = u
  <2>1. ~(t < u)
    <3> SUFFICES ASSUME t < u PROVE FALSE
      OBVIOUS
    <3>1. Offset(size, t) + size[t] <= Offset(size, u) /\ Offset(size, t) \in Nat
          /\ Offset(size, u) \in Nat /\ size[t] \in Nat
      BY Offsets
    <3> QED BY <1>6, <3>1
  <2>2. ~(u < t)
    <3> SUFFICES ASSUME u < t PROVE FALSE
      OBVIOUS
    <3>1. Offset(size, u) + size[u] <= Offset(size, t) /\ Offset(size, t) \in Nat
          /\ Offset(size, u) \in Nat /\ size[u] \in Nat
      BY Offsets
    <3> QED BY <1>6, <3>1
  <2> QED BY <1>0, <2>1, <2>2
<1> QED
  BY <1>4, <1>5, <1>6

----------------------------------------------------------------------------
(* Bytes, buffers and arrays of handles.                                   *)

\* The new memory objects and the host buffers hold bytes.
LEMMA NewBuffers ==
    ASSUME NEW sz \in Nat
    PROVE  /\ clCreateBuffer(sz) \in TrayObject /\ clCreateBuffer(sz).st = "live"
           /\ Len(clCreateBuffer(sz).data) = sz
           /\ Garbage \in TrayObject
           /\ \A v \in 0 .. MaxCalls : HostBuffer(v, sz) \in Seq(Byte) /\ Len(HostBuffer(v, sz)) = sz
<1>1. Unset \in Byte
  BY TaskTraysAssumption DEF Unset, Byte
<1>2. [k \in 1 .. sz |-> Unset] \in Seq(Byte) /\ Len([k \in 1 .. sz |-> Unset]) = sz
  BY <1>1
<1>3. clCreateBuffer(sz) \in TrayObject /\ clCreateBuffer(sz).st = "live"
      /\ Len(clCreateBuffer(sz).data) = sz
  BY <1>2 DEF clCreateBuffer, TrayObject
<1>4. Garbage \in TrayObject
  BY DEF Garbage, TrayObject
<1>5. ASSUME NEW v \in 0 .. MaxCalls
      PROVE  HostBuffer(v, sz) \in Seq(Byte) /\ Len(HostBuffer(v, sz)) = sz
  <2>1. \A k \in 1 .. sz : << v, k >> \in Byte
    BY DEF Byte
  <2> QED BY <2>1 DEF HostBuffer
<1> QED
  BY <1>3, <1>4, <1>5

\* Overwriting a buffer keeps its length; overwriting all of it leaves the new bytes.
LEMMA OverwriteBytes ==
    ASSUME NEW d \in Seq(Byte), NEW b \in Seq(Byte), Len(b) <= Len(d)
    PROVE  /\ Overwrite(d, b) \in Seq(Byte) /\ Len(Overwrite(d, b)) = Len(d)
           /\ Len(b) = Len(d) => Overwrite(d, b) = b
<1> DEFINE r == SubSeq(d, Len(b) + 1, Len(d))
<1>0. Len(d) \in Nat /\ Len(b) \in Nat
  BY LenProperties
<1>1. r \in Seq(Byte) /\ Len(r) = Len(d) - Len(b)
  <2>1. \A i \in Len(b) + 1 .. Len(d) : d[i] \in Byte
    BY <1>0, ElementOfSeq
  <2> QED BY <1>0, <2>1, SubSeqProperties
<1>2. Overwrite(d, b) = b \o r
  BY DEF Overwrite
<1>3. b \o r \in Seq(Byte) /\ Len(b \o r) = Len(d)
  BY <1>0, <1>1, ConcatProperties
<1>4. ASSUME Len(b) = Len(d) PROVE b \o r = b
  <2>1. r = << >>
    BY <1>0, <1>4, SubSeqEmpty
  <2> QED BY <2>1, ConcatEmptySeq
<1> QED
  BY <1>2, <1>3, <1>4

\* Writing to a tray changes its bytes and nothing else.
LEMMA WriteSlotArray ==
    ASSUME NEW s \in Seq(TrayObject), NEW y \in Nat, y + 1 <= Len(s),
           NEW b \in Seq(Byte), Len(b) <= Len(s[y + 1].data)
    PROVE  /\ WriteSlot(s, y, b) \in Seq(TrayObject) /\ Len(WriteSlot(s, y, b)) = Len(s)
           /\ WriteSlot(s, y, b)[y + 1].st = s[y + 1].st
           /\ WriteSlot(s, y, b)[y + 1].data = Overwrite(s[y + 1].data, b)
           /\ \A k \in 1 .. Len(s) : k # y + 1 => WriteSlot(s, y, b)[k] = s[k]
<1> DEFINE o == s[y + 1]
           d == Overwrite(o.data, b)
           p == [o EXCEPT !.data = d]
<1>1. Len(s) \in Nat /\ y + 1 \in 1 .. Len(s) /\ o \in TrayObject
  BY ElementOfSeq, LenProperties
<1>2. o.data \in Seq(Byte)
  BY <1>1 DEF TrayObject
<1>3. d \in Seq(Byte)
  BY <1>2, OverwriteBytes
<1> HIDE DEF d
<1>4. p \in TrayObject /\ p.st = o.st /\ p.data = d
  BY <1>1, <1>3 DEF TrayObject
<1>5. WriteSlot(s, y, b) = [s EXCEPT ![y + 1] = p]
  BY DEF WriteSlot, d
<1> HIDE DEF p
<1>6. /\ [s EXCEPT ![y + 1] = p] \in Seq(TrayObject) /\ Len([s EXCEPT ![y + 1] = p]) = Len(s)
      /\ \A j \in 1 .. Len(s) : [s EXCEPT ![y + 1] = p][j] = IF j = y + 1 THEN p ELSE s[j]
  BY <1>1, <1>4, ExceptSeq
<1> QED
  BY <1>1, <1>4, <1>5, <1>6 DEF d

----------------------------------------------------------------------------
(* The inductive invariant: after a call that went well every array is as   *)
(* long as numTrays says and full of memory objects, and the sizes kept     *)
(* from the last scatter are shares.                                        *)

SizesOK == tskbufferSize # << >> => Even(tskbufferSize)

TrayInv == NoWildAccess /\ NumTraysCounts /\ SizesOK

Count == {0} \cup UNION {1 .. y + 1 : y \in Tray}

\* An array of n trays, all with a memory object.
Full(n, s) ==
    /\ n \in Count /\ s \in Seq(TrayObject) /\ n = Len(s)
    /\ \A k \in 1 .. Len(s) : s[k].st # "garbage"

\* What the invariant says of one task.
LEMMA TaskFull ==
    ASSUME TrayInv, status = "ok", NEW t \in Task
    PROVE  Full(numTrays[t], slots[t]) /\ Len(slots[t]) \in Nat /\ Count \subseteq Nat
<1>1. numTrays[t] \in Count /\ slots[t] \in Seq(TrayObject)
  BY DEF TrayInv, NoWildAccess, TypeOK, Count
<1>2. Len(slots[t]) \in Nat
  BY <1>1, LenProperties
<1>3. Count \subseteq Nat
  BY TaskTraysAssumption DEF Count
<1> QED
  BY <1>1, <1>2, <1>3 DEF TrayInv, NumTraysCounts, Full

\* What the invariant says of a tray that may be used: it is live.
LEMMA UseIsLive ==
    ASSUME TrayInv, status = "ok", Liberty = {}, NEW t \in Task, NEW y \in Tray, MayUse(t, y)
    PROVE  /\ y \in Nat /\ y + 1 \in 1 .. Len(slots[t]) /\ slots[t][y + 1] \in TrayObject
           /\ slots[t][y + 1].st = "live" /\ slots[t][y + 1].data \in Seq(Byte)
<1>1. Full(numTrays[t], slots[t]) /\ Len(slots[t]) \in Nat /\ y \in Nat
  BY TaskFull, TaskTraysAssumption
<1>2. y < numTrays[t] /\ ~Freed(t, y)
  BY DEF MayUse
<1>3. y + 1 \in 1 .. Len(slots[t])
  BY <1>1, <1>2 DEF Full
<1>4. slots[t][y + 1] \in TrayObject
  BY <1>1, <1>3, ElementOfSeq DEF Full
<1>5. slots[t][y + 1].st \notin {"garbage", "freed"}
  BY <1>1, <1>2, <1>3 DEF Full, Freed
<1> QED
  BY <1>1, <1>3, <1>4, <1>5 DEF TrayObject

\* initNewBuffer ends the process, or adds tray y as the next one, or leaves alone
\* a tray that exists.
LEMMA InitNewBuffer ==
    ASSUME TrayInv, status = "ok", Liberty = {}, NEW t \in Task, NEW y \in Tray, NEW sz \in Size,
           MayCreate(t, y), NEW o \in initNewBuffer(t, y, sz)
    PROVE  \/ o = Bad(t, "died")
           \/ /\ o = Ok(o.num, o.slots) /\ Full(o.num, o.slots)
              /\ y + 1 \in 1 .. Len(o.slots) /\ o.slots[y + 1].st = "live"
              /\ \/ y < Len(slots[t]) /\ o.slots = slots[t]
                 \/ /\ y = Len(slots[t]) /\ Len(o.slots) = Len(slots[t]) + 1
                    /\ o.slots[y + 1] = clCreateBuffer(sz)
                    /\ \A k \in 1 .. Len(slots[t]) : o.slots[k] = slots[t][k]
<1>0. Full(numTrays[t], slots[t]) /\ Len(slots[t]) \in Nat /\ Count \subseteq Nat
  BY TaskFull
<1>1. y \in Nat /\ sz \in Nat /\ numTrays[t] \in Nat /\ numTrays[t] = Len(slots[t])
  BY <1>0, TaskTraysAssumption DEF Full
<1>2. y <= numTrays[t] /\ ~Freed(t, y)
  BY DEF MayCreate
<1>3. clCreateBuffer(sz) \in TrayObject /\ clCreateBuffer(sz).st = "live"
  BY <1>1, NewBuffers
<1>4. y + 1 \in Count
  BY <1>1 DEF Count
<1>5. CASE numTrays[t] = 0
  <2>1. y = 0 /\ ~(y + 1 > FirstCapacity(y))
    BY <1>1, <1>2, <1>5 DEF FirstCapacity, SizeOfHandle
  <2> DEFINE s == [k \in 1 .. y + 1 |-> clCreateBuffer(sz)]
  <2>2. o = Bad(t, "died") \/ o = Ok(y + 1, s)
    BY <1>5, <2>1 DEF initNewBuffer
  <2>3. s \in Seq(TrayObject) /\ Len(s) = 1 /\ s[1] = clCreateBuffer(sz)
    BY <1>3, <2>1
  <2> HIDE DEF s
  <2>4. Full(y + 1, s)
    BY <1>3, <1>4, <2>1, <2>3 DEF Full
  <2> QED BY <1>1, <1>3, <1>5, <2>1, <2>2, <2>3, <2>4 DEF Ok
<1>6. CASE numTrays[t] # 0 /\ y + 1 > numTrays[t]
  <2>1. y = numTrays[t] /\ y = Len(slots[t])
    BY <1>1, <1>2, <1>6
  <2> DEFINE q == Realloc(slots[t], y + 1)
             s == [q EXCEPT ![y + 1] = clCreateBuffer(sz)]
  <2>2. o = Bad(t, "died") \/ o = Ok(y + 1, s)
    BY <1>6, <2>1 DEF initNewBuffer
  <2>3. /\ q \in Seq(TrayObject) /\ Len(q) = y + 1
        /\ \A k \in 1 .. y : q[k] = slots[t][k]
    <3>1. \A k \in 1 .. y + 1 : (IF k <= Len(slots[t]) THEN slots[t][k] ELSE Garbage) \in TrayObject
      BY <1>0, <1>1, NewBuffers, ElementOfSeq DEF Full
    <3> QED BY <1>1, <2>1, <3>1 DEF Realloc
  <2> HIDE DEF q
  <2>4. /\ s \in Seq(TrayObject) /\ Len(s) = y + 1 /\ s[y + 1] = clCreateBuffer(sz)
        /\ \A k \in 1 .. y : s[k] = slots[t][k]
    BY <1>1, <1>3, <2>3
  <2> HIDE DEF s
  <2>5. Full(y + 1, s)
    BY <1>0, <1>1, <1>3, <1>4, <2>1, <2>4 DEF Full
  <2> QED BY <1>1, <1>3, <2>1, <2>2, <2>4, <2>5 DEF Ok
<1>7. CASE numTrays[t] # 0 /\ ~(y + 1 > numTrays[t])
  <2>1. o = Ok(numTrays[t], slots[t])
    BY <1>7 DEF initNewBuffer
  <2>2. MayUse(t, y)
    BY <1>1, <1>2, <1>7 DEF MayUse
  <2>3. y + 1 \in 1 .. Len(slots[t]) /\ slots[t][y + 1].st = "live"
    BY <2>2, UseIsLive
  <2> QED BY <1>0, <1>1, <2>1, <2>3 DEF Ok
<1> QED
  BY <1>5, <1>6, <1>7

----------------------------------------------------------------------------
(* Steps of TaskTrays as steps of TrayStore.                               *)

\* The state of TrayStore that a state of TaskTrays stands for.
StoreOf == [t \in Task |-> [y \in Tray |-> TrayOf(t, y)]]

\* Tray y of an array of handles.
TrayIn(s, y) ==
    IF y < Len(s) /\ s[y + 1].st # "garbage" THEN s[y + 1] ELSE Store!NoTray

\* The store reads the arrays of handles, before and after a step.
LEMMA StoreReads ==
    /\ StoreOf = [t \in Task |-> [y \in Tray |-> TrayIn(slots[t], y)]]
    /\ StoreOf' = [t \in Task |-> [y \in Tray |-> TrayIn(slots'[t], y)]]
  BY DEF StoreOf, TrayOf, TrayIn, Store!NoTray

\* The store with object x in tray y of task t.
Put(t, y, x) == [StoreOf EXCEPT ![t][y] = x]

\* The types the steps rely on.
LEMMA Types ==
    ASSUME TrayInv
    PROVE  /\ numTrays \in [Task -> Count] /\ slots \in [Task -> Seq(TrayObject)] /\ got \in Seq(Byte)
           /\ tskbufferSize \in [Task -> Nat] \cup {<< >>} /\ SizesOK
  BY DEF TrayInv, NoWildAccess, TypeOK, Count

\* What every tray call does: it makes one call more.
LEMMA CallCounts ==
    ASSUME TrayInv, Calling
    PROVE  status = "ok" /\ calls' \in 0 .. MaxCalls /\ calls' \in 1 .. MaxCalls
  BY TaskTraysAssumption DEF TrayInv, NoWildAccess, TypeOK, Calling

\* The process ends on an OpenCL error.
LEMMA DiedStep ==
    ASSUME TrayInv, status = "ok", status' = "died", UNCHANGED << numTrays, slots, got >>,
           calls' \in 0 .. MaxCalls, SizesOK', tskbufferSize' \in [Task -> Nat] \cup {<< >>}
    PROVE  TrayInv' /\ Store!Next
<1>1. TrayInv'
  BY DEF TrayInv, NoWildAccess, TypeOK, NumTraysCounts
<1>2. Store!Fail
  BY DEF Store!Fail, TrayOf
<1> QED
  BY <1>1, <1>2 DEF Store!Next

\* A call that goes well leaves the array of one task full.
LEMMA FullStep ==
    ASSUME TrayInv, status = "ok", status' = "ok", NEW t \in Task, NEW n, NEW s, Full(n, s),
           numTrays' = [numTrays EXCEPT ![t] = n], slots' = [slots EXCEPT ![t] = s],
           tskbufferSize' = tskbufferSize, got' \in Seq(Byte), calls' \in 0 .. MaxCalls
    PROVE  TrayInv'
<1>0. numTrays \in [Task -> Count] /\ slots \in [Task -> Seq(TrayObject)]
  BY DEF TrayInv, NoWildAccess, TypeOK, Count
<1>1. TypeOK'
  <2>1. numTrays' \in [Task -> Count] /\ slots' \in [Task -> Seq(TrayObject)]
    BY <1>0 DEF Full
  <2> QED BY <2>1 DEF TypeOK, Count, TrayInv, NoWildAccess
<1>2. NumTraysCounts'
  <2> SUFFICES ASSUME NEW u \in Task PROVE Full(numTrays'[u], slots'[u])
    BY DEF NumTraysCounts, Full
  <2> QED BY <1>0, TaskFull
<1>3. SizesOK'
  BY DEF TrayInv, SizesOK
<1> QED
  BY <1>1, <1>2, <1>3 DEF TrayInv, NoWildAccess

\* Replacing the object of tray y, or adding one as the next tray, changes
\* tray y of the task and no other.
LEMMA TrayRow ==
    ASSUME NEW r, Len(r) \in Nat, NEW y \in Tray, NEW n, NEW s, Full(n, s), y + 1 \in 1 .. Len(s),
           \A k \in 1 .. Len(r) : k # y + 1 => s[k] = r[k],
           Len(s) = Len(r) \/ (y = Len(r) /\ Len(s) = Len(r) + 1)
    PROVE  \A z \in Tray : TrayIn(s, z) = IF z = y THEN s[y + 1] ELSE TrayIn(r, z)
<1> SUFFICES ASSUME NEW z \in Tray
             PROVE  TrayIn(s, z) = IF z = y THEN s[y + 1] ELSE TrayIn(r, z)
  OBVIOUS
<1>1. z \in Nat /\ y \in Nat
  BY TaskTraysAssumption
<1>2. CASE z = y
  <2>1. y < Len(s) /\ s[y + 1].st # "garbage"
    BY <1>1 DEF Full
  <2> QED BY <1>2, <2>1 DEF TrayIn
<1>3. CASE z # y
  <2>1. z < Len(s) <=> z < Len(r)
    BY <1>1, <1>3
  <2>2. z < Len(r) => s[z + 1] = r[z + 1]
    BY <1>1, <1>3
  <2> QED BY <1>3, <2>1, <2>2 DEF TrayIn
<1> QED
  BY <1>2, <1>3

\* The same for a step that changes the array of one task only.
LEMMA OneTray ==
    ASSUME TrayInv, status = "ok", NEW t \in Task, NEW y \in Tray, NEW n, NEW s, Full(n, s),
           y + 1 \in 1 .. Len(s),
           \A k \in 1 .. Len(slots[t]) : k # y + 1 => s[k] = slots[t][k],
           Len(s) = Len(slots[t]) \/ (y = Len(slots[t]) /\ Len(s) = Len(slots[t]) + 1),
           slots' = [slots EXCEPT ![t] = s]
    PROVE  StoreOf' = Put(t, y, s[y + 1])
<1>0. slots \in [Task -> Seq(TrayObject)] /\ Len(slots[t]) \in Nat
  BY Types, TaskFull
<1>1. \A z \in Tray : TrayIn(s, z) = IF z = y THEN s[y + 1] ELSE TrayIn(slots[t], z)
  BY <1>0, TrayRow
<1>2. \A u \in Task : slots'[u] = IF u = t THEN s ELSE slots[u]
  BY <1>0
<1>3. StoreOf' = [u \in Task |-> [z \in Tray |-> IF u = t /\ z = y THEN s[y + 1] ELSE TrayIn(slots[u], z)]]
  BY <1>1, <1>2, StoreReads
<1>4. Put(t, y, s[y + 1])
        = [u \in Task |-> [z \in Tray |-> IF u = t /\ z = y THEN s[y + 1] ELSE TrayIn(slots[u], z)]]
  BY StoreReads DEF Put
<1> QED
  BY <1>3, <1>4

\* A tray the array has is in the store, one it has not is not.
LEMMA TrayPresent ==
    ASSUME TrayInv, status = "ok", NEW t \in Task, NEW y \in Tray
    PROVE  /\ y < Len(slots[t]) => StoreOf[t][y] = slots[t][y + 1] /\ StoreOf[t][y] # Store!NoTray
           /\ ~(y < Len(slots[t])) => StoreOf[t][y] = Store!NoTray
<1>0. StoreOf[t][y] = TrayOf(t, y)
  BY DEF StoreOf
<1>1. ASSUME y < Len(slots[t])
      PROVE  StoreOf[t][y] = slots[t][y + 1] /\ StoreOf[t][y] # Store!NoTray
  <2>1. Full(numTrays[t], slots[t]) /\ y + 1 \in 1 .. Len(slots[t])
    BY <1>1, TaskFull, TaskTraysAssumption
  <2>2. slots[t][y + 1] \in TrayObject /\ slots[t][y + 1].st # "garbage"
    BY <2>1, ElementOfSeq DEF Full
  <2>3. slots[t][y + 1].st # "none"
    BY <2>2 DEF TrayObject
  <2> QED BY <1>0, <1>1, <2>2, <2>3 DEF TrayOf, Store!NoTray
<1>2. ASSUME ~(y < Len(slots[t])) PROVE StoreOf[t][y] = Store!NoTray
  BY <1>0, <1>2 DEF TrayOf, Store!NoTray
<1> QED
  BY <1>1, <1>2

\* A live object is its bytes.
LEMMA LiveObject ==
    ASSUME NEW x \in TrayObject, x.st = "live"
    PROVE  x = Store!Live(x.data)
  BY DEF TrayObject, Store!Live

\* Creating a tray of the store.
LEMMA CreateTray ==
    ASSUME NEW t \in Task, NEW y \in Tray, NEW d, StoreOf' = Put(t, y, Store!Live(d))
    PROVE  Store!Create(t, y, d)
  BY DEF Store!Create, Put, StoreOf

\* OMPI_XclMallocTaskBuffer.
LEMMA MallocStep ==
    ASSUME TrayInv, Liberty = {}, NEW t \in Task, NEW y \in Tray, NEW sz \in Size,
           XclMallocTaskBuffer(t, y, sz)
    PROVE  TrayInv' /\ Store!Next
<1>0. status = "ok" /\ calls' \in 0 .. MaxCalls /\ MayCreate(t, y) /\ UNCHANGED << tskbufferSize, got >>
  BY CallCounts DEF XclMallocTaskBuffer
<1>t. numTrays \in [Task -> Count] /\ slots \in [Task -> Seq(TrayObject)] /\ got \in Seq(Byte)
      /\ tskbufferSize \in [Task -> Nat] \cup {<< >>} /\ SizesOK
  BY DEF TrayInv, NoWildAccess, TypeOK, Count
<1>1. PICK o \in initNewBuffer(t, y, sz) : Apply(t, o)
  BY DEF XclMallocTaskBuffer
<1>2. CASE o = Bad(t, "died")
  <2>1. status' = "died" /\ UNCHANGED << numTrays, slots >>
    BY <1>1, <1>2, <1>t DEF Apply, Bad
  <2> QED BY <1>0, <1>t, <2>1, DiedStep DEF SizesOK
<1>3. CASE o # Bad(t, "died")
  <2>1. /\ o = Ok(o.num, o.slots) /\ Full(o.num, o.slots)
        /\ y + 1 \in 1 .. Len(o.slots) /\ o.slots[y + 1].st = "live"
        /\ \/ y < Len(slots[t]) /\ o.slots = slots[t]
           \/ /\ y = Len(slots[t]) /\ Len(o.slots) = Len(slots[t]) + 1
              /\ o.slots[y + 1] = clCreateBuffer(sz)
              /\ \A k \in 1 .. Len(slots[t]) : o.slots[k] = slots[t][k]
    BY <1>0, <1>1, <1>3, InitNewBuffer
  <2>2. status' = "ok" /\ numTrays' = [numTrays EXCEPT ![t] = o.num]
        /\ slots' = [slots EXCEPT ![t] = o.slots]
    BY <1>1, <2>1 DEF Apply, Ok
  <2>3. TrayInv'
    BY <1>0, <1>t, <2>1, <2>2, FullStep
  <2>4. Store!Malloc(t, y, sz)
    <3>1. CASE y < Len(slots[t]) /\ o.slots = slots[t]
      <4>1. slots' = slots
        BY <1>t, <2>2, <3>1
      <4>2. StoreOf[t][y] # Store!NoTray /\ StoreOf' = StoreOf
        BY <1>0, <3>1, <4>1, TrayPresent DEF StoreOf, TrayOf
      <4> QED BY <1>0, <2>2, <4>2 DEF Store!Malloc, StoreOf
    <3>2. CASE ~(y < Len(slots[t]) /\ o.slots = slots[t])
      <4>1. /\ y = Len(slots[t]) /\ Len(o.slots) = Len(slots[t]) + 1
            /\ o.slots[y + 1] = clCreateBuffer(sz)
            /\ \A k \in 1 .. Len(slots[t]) : o.slots[k] = slots[t][k]
        BY <2>1, <3>2
      <4>2. StoreOf[t][y] = Store!NoTray
        BY <1>0, <4>1, TrayPresent, TaskTraysAssumption
      <4>3. StoreOf' = Put(t, y, clCreateBuffer(sz))
        <5>1. \A k \in 1 .. Len(slots[t]) : k # y + 1 => o.slots[k] = slots[t][k]
          BY <4>1
        <5> QED BY <1>0, <2>1, <2>2, <4>1, <5>1, OneTray
      <4>4. /\ clCreateBuffer(sz) = Store!Live(clCreateBuffer(sz).data)
            /\ Len(clCreateBuffer(sz).data) = sz
        BY NewBuffers, LiveObject, TaskTraysAssumption
      <4>5. StoreOf'[t][y] = clCreateBuffer(sz)
        BY <4>3 DEF StoreOf, Put
      <4> QED BY <1>0, <2>2, <4>2, <4>3, <4>4, <4>5 DEF Store!Malloc, Store!Create, StoreOf, Put
    <3> QED BY <3>1, <3>2
  <2> QED BY <1>0, <2>3, <2>4 DEF Store!Next, Store!Task, Task
<1> QED
  BY <1>2, <1>3

\* An OpenCL call on a live tray of an array does not touch other memory.
LEMMA AccessLive ==
    ASSUME NEW s, NEW y, NEW sz \in Nat, Len(s) \in Nat, y + 1 \in 1 .. Len(s), s[y + 1].st = "live",
           Len(s[y + 1].data) \in Nat
    PROVE  /\ Access(s, y, sz) \in {"ok", "died"}
           /\ Access(s, y, sz) = "ok" => sz <= Len(s[y + 1].data)
  BY DEF Access

\* Writing the bytes b to tray y of a full array.
LEMMA WriteFull ==
    ASSUME NEW n, NEW s, Full(n, s), NEW y \in Nat, y + 1 \in 1 .. Len(s), s[y + 1].st = "live",
           NEW b \in Seq(Byte), Len(b) <= Len(s[y + 1].data)
    PROVE  /\ Full(n, WriteSlot(s, y, b)) /\ Len(WriteSlot(s, y, b)) = Len(s)
           /\ WriteSlot(s, y, b)[y + 1] = Store!Live(Overwrite(s[y + 1].data, b))
           /\ \A k \in 1 .. Len(s) : k # y + 1 => WriteSlot(s, y, b)[k] = s[k]
<1> DEFINE w == WriteSlot(s, y, b)
<1>1. s \in Seq(TrayObject) /\ Len(s) \in Nat /\ y + 1 <= Len(s)
  BY LenProperties DEF Full
<1>2. /\ w \in Seq(TrayObject) /\ Len(w) = Len(s) /\ w[y + 1].st = "live"
      /\ w[y + 1].data = Overwrite(s[y + 1].data, b)
      /\ \A k \in 1 .. Len(s) : k # y + 1 => w[k] = s[k]
  BY <1>1, WriteSlotArray
<1> HIDE DEF w
<1>3. w[y + 1] = Store!Live(w[y + 1].data)
  <2>1. w[y + 1] \in TrayObject
    BY <1>2, ElementOfSeq
  <2> QED BY <1>2, <2>1, LiveObject
<1>4. Full(n, w)
  BY <1>2 DEF Full
<1> QED
  BY <1>2, <1>3, <1>4 DEF w

\* OMPI_XclWriteTaskBuffer, and the end of OMPI_XclRecv.
LEMMA WriteStep ==
    ASSUME TrayInv, Liberty = {}, NEW t \in Task, NEW y \in Tray, NEW sz \in Size,
           XclWriteTaskBuffer(t, y, sz)
    PROVE  TrayInv' /\ Store!Next
<1> DEFINE b == HostBuffer(calls + 1, sz)
<1>0. /\ status = "ok" /\ calls' \in 0 .. MaxCalls /\ calls' \in 1 .. MaxCalls /\ calls' = calls + 1
      /\ MayCreate(t, y) /\ UNCHANGED << tskbufferSize, got >>
  BY CallCounts DEF XclWriteTaskBuffer, Calling
<1>t. /\ numTrays \in [Task -> Count] /\ slots \in [Task -> Seq(TrayObject)] /\ got \in Seq(Byte)
      /\ tskbufferSize \in [Task -> Nat] \cup {<< >>} /\ SizesOK
      /\ y \in Nat /\ sz \in Nat
  BY Types, TaskTraysAssumption
<1>b. b \in Seq(Byte) /\ Len(b) = sz
  BY <1>0, <1>t, NewBuffers
<1>1. PICK o \in initNewBuffer(t, y, sz) :
          LET acc == Access(o.slots, y, sz) IN
          IF o.status = "ok" /\ acc = "ok"
          THEN Apply(t, [o EXCEPT !.slots = WriteSlot(@, y, b)])
          ELSE Apply(t, IF o.status = "ok" THEN Bad(t, acc) ELSE o)
  BY DEF XclWriteTaskBuffer
<1>d. ASSUME Apply(t, Bad(t, "died")) PROVE TrayInv' /\ Store!Next
  <2>1. status' = "died" /\ UNCHANGED << numTrays, slots >>
    BY <1>d, <1>t DEF Apply, Bad
  <2> QED BY <1>0, <1>t, <2>1, DiedStep DEF SizesOK
<1>2. CASE o = Bad(t, "died")
  <2>1. o.status # "ok"
    BY <1>2 DEF Bad
  <2> QED BY <1>1, <1>2, <1>d, <2>1
<1>3. CASE o # Bad(t, "died")
  <2> DEFINE s == o.slots
             acc == Access(s, y, sz)
             w == WriteSlot(s, y, b)
  <2>1. /\ o = Ok(o.num, s) /\ Full(o.num, s)
        /\ y + 1 \in 1 .. Len(s) /\ s[y + 1].st = "live"
        /\ \/ y < Len(slots[t]) /\ s = slots[t]
           \/ /\ y = Len(slots[t]) /\ Len(s) = Len(slots[t]) + 1
              /\ s[y + 1] = clCreateBuffer(sz)
              /\ \A k \in 1 .. Len(slots[t]) : s[k] = slots[t][k]
    BY <1>0, <1>1, <1>3, InitNewBuffer
  <2>2. /\ s \in Seq(TrayObject) /\ Len(s) \in Nat /\ s[y + 1] \in TrayObject
        /\ s[y + 1].data \in Seq(Byte) /\ Len(s[y + 1].data) \in Nat
    <3>1. s \in Seq(TrayObject) /\ Len(s) \in Nat /\ s[y + 1] \in TrayObject
      BY <2>1, LenProperties, ElementOfSeq DEF Full
    <3>2. s[y + 1].data \in Seq(Byte)
      BY <3>1 DEF TrayObject
    <3> QED BY <3>1, <3>2, LenProperties
  <2>3. acc \in {"ok", "died"} /\ (acc = "ok" => sz <= Len(s[y + 1].data))
    BY <1>t, <2>1, <2>2, AccessLive
  <2>4. o.status = "ok"
    BY <2>1 DEF Ok
  <2>5. CASE acc = "died"
    BY <1>1, <1>d, <2>4, <2>5
  <2>6. CASE acc = "ok"
    <3>1. Apply(t, [o EXCEPT !.slots = w])
      BY <1>1, <2>4, <2>6
    <3>2. [o EXCEPT !.slots = w] = Ok(o.num, w)
      BY <2>1 DEF Ok
    <3>3. status' = "ok" /\ numTrays' = [numTrays EXCEPT ![t] = o.num]
          /\ slots' = [slots EXCEPT ![t] = w]
      BY <3>1, <3>2 DEF Apply, Ok
    <3>4. /\ Full(o.num, w) /\ Len(w) = Len(s)
          /\ w[y + 1] = Store!Live(Overwrite(s[y + 1].data, b))
          /\ \A k \in 1 .. Len(s) : k # y + 1 => w[k] = s[k]
      BY <1>b, <1>t, <2>1, <2>3, <2>6, WriteFull
    <3>5. TrayInv'
      BY <1>0, <1>t, <3>3, <3>4, FullStep
    <3>6. StoreOf' = Put(t, y, w[y + 1])
      <4>1. Len(slots[t]) \in Nat
        BY <1>t, LenProperties
      <4>2. \A k \in 1 .. Len(slots[t]) : k # y + 1 => w[k] = slots[t][k]
        BY <2>1, <2>2, <3>4, <4>1
      <4>3. Len(w) = Len(slots[t]) \/ (y = Len(slots[t]) /\ Len(w) = Len(slots[t]) + 1)
        BY <2>1, <3>4
      <4> HIDE DEF w, b, s
      <4> QED BY <1>0, <2>1, <3>3, <3>4, <4>2, <4>3, OneTray, ZenonT(60)
    <3>7. Store!Write(t, y, b)
      <4>1. CASE y < Len(slots[t]) /\ s = slots[t]
        <5>1. TrayOf(t, y) = s[y + 1]
          BY <1>0, <4>1, TrayPresent DEF StoreOf
        <5>2. Store!Overwrite(s[y + 1].data, b) = Overwrite(s[y + 1].data, b)
          BY DEF Store!Overwrite, Overwrite
        <5>3. Store!Create(t, y, Store!Overwrite(s[y + 1].data, b))
          BY <3>4, <3>6, <5>2, CreateTray
        <5>4. Len(b) <= Len(s[y + 1].data)
          BY <1>b, <2>3, <2>6
        <5> HIDE DEF w, b, s
        <5> QED BY <1>0, <2>1, <3>3, <5>1, <5>3, <5>4 DEF Store!Write, Store!IsLive
      <4>2. CASE ~(y < Len(slots[t]) /\ s = slots[t])
        <5>1. y = Len(slots[t]) /\ s[y + 1] = clCreateBuffer(sz)
          BY <2>1, <4>2
        <5>2. StoreOf[t][y] = Store!NoTray
          BY <1>0, <1>t, <5>1, TrayPresent
        <5>3. Len(b) = Len(s[y + 1].data) /\ Len(b) <= Len(s[y + 1].data)
          <6>1. Len(clCreateBuffer(sz).data) = sz
            BY <1>t, NewBuffers
          <6> HIDE DEF b, s
          <6> QED BY <1>b, <1>t, <5>1, <6>1
        <5>4. Overwrite(s[y + 1].data, b) = b
          BY <1>b, <2>2, <5>3, OverwriteBytes
        <5>5. Store!Create(t, y, b)
          BY <3>4, <3>6, <5>4, CreateTray
        <5> HIDE DEF w, b, s
        <5> QED BY <1>0, <3>3, <5>2, <5>5 DEF Store!Write, StoreOf
      <4> QED BY <4>1, <4>2
    <3>8. Store!HostBuffer(calls + 1, sz) = b /\ calls + 1 \in 1 .. MaxCalls
      BY <1>0 DEF Store!HostBuffer, HostBuffer
    <3>9. Store!Next
      BY <1>0, <3>7, <3>8 DEF Store!Next, Store!Task, Task
    <3> QED BY <3>5, <3>9
  <2> QED BY <2>3, <2>5, <2>6
<1> QED
  BY <1>2, <1>3

\* OMPI_XclReadTaskBuffer, and the start of OMPI_XclSend.
LEMMA ReadStep ==
    ASSUME TrayInv, Liberty = {}, NEW t \in Task, NEW y \in Tray, NEW sz \in Size,
           XclReadTaskBuffer(t, y, sz)
    PROVE  TrayInv' /\ Store!Next
<1> DEFINE d == slots[t][y + 1].data
<1>0. /\ status = "ok" /\ calls' \in 0 .. MaxCalls /\ MayUse(t, y)
      /\ UNCHANGED << numTrays, slots, tskbufferSize >> /\ status' = Access(slots[t], y, sz)
      /\ got' = IF status' = "ok" THEN SubSeq(d, 1, sz) ELSE got
  BY CallCounts DEF XclReadTaskBuffer
<1>t. /\ numTrays \in [Task -> Count] /\ slots \in [Task -> Seq(TrayObject)] /\ got \in Seq(Byte)
      /\ tskbufferSize \in [Task -> Nat] \cup {<< >>} /\ SizesOK
      /\ y \in Nat /\ sz \in Nat
  BY Types, TaskTraysAssumption
<1>1. /\ y + 1 \in 1 .. Len(slots[t]) /\ slots[t][y + 1].st = "live" /\ d \in Seq(Byte)
      /\ Len(slots[t]) \in Nat /\ Len(d) \in Nat
  BY <1>0, <1>t, UseIsLive, LenProperties
<1>2. status' \in {"ok", "died"} /\ (status' = "ok" => sz <= Len(d))
  BY <1>0, <1>1, <1>t, AccessLive
<1>3. CASE status' = "died"
  BY <1>0, <1>t, <1>3, DiedStep DEF SizesOK
<1>4. CASE status' = "ok"
  <2>1. got' \in Seq(Byte)
    <3>1. \A i \in 1 .. sz : d[i] \in Byte
      BY <1>1, <1>2, <1>4, <1>t, ElementOfSeq
    <3>2. SubSeq(d, 1, sz) \in Seq(Byte)
      BY <1>t, <3>1, SubSeqProperties
    <3> QED BY <1>0, <1>4, <3>2
  <2>2. TrayInv'
    BY <1>0, <1>4, <2>1 DEF TrayInv, NoWildAccess, TypeOK, NumTraysCounts, SizesOK
  <2>3. StoreOf[t][y] = slots[t][y + 1]
    BY <1>0, <1>1, <1>t, TrayPresent
  <2>4. Store!Read(t, y, sz)
    BY <1>0, <1>1, <1>2, <1>4, <2>3 DEF Store!Read, Store!IsLive, StoreOf, TrayOf
  <2> QED BY <1>0, <2>2, <2>4 DEF Store!Next, Store!Task, Task
<1> QED
  BY <1>2, <1>3, <1>4

\* OMPI_XclFreeTaskBuffer.
LEMMA FreeStep ==
    ASSUME TrayInv, Liberty = {}, NEW t \in Task, NEW y \in Tray, XclFreeTaskBuffer(t, y)
    PROVE  TrayInv' /\ Store!Next
<1> DEFINE x == [slots[t][y + 1] EXCEPT !.st = "freed"]
           s == [slots[t] EXCEPT ![y + 1] = x]
<1>0. /\ status = "ok" /\ calls' \in 0 .. MaxCalls /\ MayUse(t, y)
      /\ UNCHANGED << numTrays, tskbufferSize, got >>
  BY CallCounts DEF XclFreeTaskBuffer
<1>t. /\ numTrays \in [Task -> Count] /\ slots \in [Task -> Seq(TrayObject)] /\ got \in Seq(Byte)
      /\ y \in Nat
  BY Types, TaskTraysAssumption
<1>1. /\ y + 1 \in 1 .. Len(slots[t]) /\ slots[t][y + 1].st = "live" /\ slots[t][y + 1] \in TrayObject
      /\ Len(slots[t]) \in Nat
  BY <1>0, <1>t, UseIsLive, LenProperties
<1>2. status' = "ok" /\ slots' = [slots EXCEPT ![t] = s]
  <2>1. y < Len(slots[t])
    BY <1>1, <1>t
  <2> QED BY <1>1, <2>1 DEF XclFreeTaskBuffer
<1>3. x \in TrayObject /\ x.st = "freed" /\ x.data = slots[t][y + 1].data
  BY <1>1 DEF TrayObject
<1> HIDE DEF x
<1>4. /\ s \in Seq(TrayObject) /\ Len(s) = Len(slots[t]) /\ s[y + 1] = x
      /\ \A k \in 1 .. Len(slots[t]) : k # y + 1 => s[k] = slots[t][k]
  BY <1>1, <1>3, <1>t, ExceptSeq
<1> HIDE DEF s
<1>5. Full(numTrays[t], s)
  <2>1. Full(numTrays[t], slots[t])
    BY <1>0, TaskFull
  <2> QED BY <1>1, <1>3, <1>4, <2>1 DEF Full
<1>6. TrayInv'
  <2>1. numTrays' = [numTrays EXCEPT ![t] = numTrays[t]]
    BY <1>0, <1>t
  <2> QED BY <1>0, <1>2, <1>5, <1>t, <2>1, FullStep
<1>7. StoreOf' = Put(t, y, x)
  BY <1>0, <1>1, <1>2, <1>4, <1>5, OneTray
<1>8. StoreOf[t][y] = slots[t][y + 1]
  BY <1>0, <1>1, <1>t, TrayPresent
<1>9. Put(t, y, x) = [StoreOf EXCEPT ![t][y].st = "freed"]
  BY <1>8 DEF Put, x, StoreOf
<1>10. Store!Free(t, y)
  BY <1>0, <1>1, <1>2, <1>7, <1>8, <1>9 DEF Store!Free, Store!IsLive, StoreOf
<1> QED
  BY <1>0, <1>6, <1>10 DEF Store!Next, Store!Task, Task

\* The copy between two tasks of a device.
LEMMA CopyStep ==
    ASSUME TrayInv, Liberty = {}, NEW t \in Task, NEW y \in Tray, NEW u \in Task, NEW z \in Tray,
           NEW sz \in Size, intracpyBuffer(t, y, u, z, sz)
    PROVE  TrayInv' /\ Store!Next
<1> DEFINE src == Access(slots[t], y, sz)
           dst == Access(slots[u], z, sz)
           ok == src = "ok" /\ dst = "ok" /\ << t, y >> # << u, z >>
           b == SubSeq(slots[t][y + 1].data, 1, sz)
           w == WriteSlot(slots[u], z, b)
<1>0. /\ status = "ok" /\ calls' \in 0 .. MaxCalls /\ MayUse(t, y) /\ MayUse(u, z)
      /\ UNCHANGED << numTrays, tskbufferSize, got >>
      /\ status' = IF ok THEN "ok" ELSE IF "wild" \in {src, dst} THEN "wild" ELSE "died"
      /\ slots' = IF ok THEN [slots EXCEPT ![u] = w] ELSE slots
  BY CallCounts DEF intracpyBuffer
<1>t. /\ numTrays \in [Task -> Count] /\ slots \in [Task -> Seq(TrayObject)] /\ got \in Seq(Byte)
      /\ tskbufferSize \in [Task -> Nat] \cup {<< >>} /\ SizesOK
      /\ y \in Nat /\ z \in Nat /\ sz \in Nat
  BY Types, TaskTraysAssumption
<1>1. /\ y + 1 \in 1 .. Len(slots[t]) /\ slots[t][y + 1].st = "live"
      /\ slots[t][y + 1].data \in Seq(Byte)
      /\ Len(slots[t]) \in Nat /\ Len(slots[t][y + 1].data) \in Nat
  BY <1>0, <1>t, UseIsLive, LenProperties
<1>2. /\ z + 1 \in 1 .. Len(slots[u]) /\ slots[u][z + 1].st = "live"
      /\ slots[u][z + 1].data \in Seq(Byte)
      /\ Len(slots[u]) \in Nat /\ Len(slots[u][z + 1].data) \in Nat
  BY <1>0, <1>t, UseIsLive, LenProperties
<1>3. /\ src \in {"ok", "died"} /\ dst \in {"ok", "died"}
      /\ src = "ok" => sz <= Len(slots[t][y + 1].data)
      /\ dst = "ok" => sz <= Len(slots[u][z + 1].data)
  BY <1>1, <1>2, <1>t, AccessLive
<1>4. CASE ~ok
  <2>1. status' = "died" /\ slots' = slots
    BY <1>0, <1>3, <1>4
  <2> QED BY <1>0, <1>t, <2>1, DiedStep DEF SizesOK
<1>5. CASE ok
  <2>0. sz <= Len(slots[t][y + 1].data) /\ sz <= Len(slots[u][z + 1].data)
        /\ status' = "ok" /\ slots' = [slots EXCEPT ![u] = w]
    BY <1>0, <1>3, <1>5
  <2> HIDE DEF ok
  <2>1. b \in Seq(Byte) /\ Len(b) = sz
    <3>1. \A i \in 1 .. sz : slots[t][y + 1].data[i] \in Byte
      BY <1>1, <2>0, <1>t, ElementOfSeq
    <3> QED BY <1>t, <3>1, SubSeqProperties
  <2>2. Full(numTrays[u], slots[u])
    BY <1>0, TaskFull
  <2> HIDE DEF b
  <2>3. /\ Full(numTrays[u], w) /\ Len(w) = Len(slots[u])
        /\ w[z + 1] = Store!Live(Overwrite(slots[u][z + 1].data, b))
        /\ \A k \in 1 .. Len(slots[u]) : k # z + 1 => w[k] = slots[u][k]
    BY <1>2, <1>t, <2>0, <2>1, <2>2, WriteFull
  <2> HIDE DEF w
  <2>4. TrayInv'
    <3>1. numTrays' = [numTrays EXCEPT ![u] = numTrays[u]]
      BY <1>0, <1>t
    <3> QED BY <1>0, <1>t, <2>0, <2>3, <3>1, FullStep
  <2>5. StoreOf' = Put(u, z, w[z + 1])
    BY <1>0, <1>2, <2>0, <2>3, OneTray
  <2>6. TrayOf(t, y) = slots[t][y + 1] /\ TrayOf(u, z) = slots[u][z + 1]
    BY <1>0, <1>1, <1>2, <1>t, TrayPresent DEF StoreOf
  <2>7. Store!Overwrite(slots[u][z + 1].data, b) = Overwrite(slots[u][z + 1].data, b)
    BY DEF Store!Overwrite, Overwrite
  <2>8. Store!Copy(t, y, u, z, sz)
    <3>1. Store!Create(u, z, Store!Overwrite(slots[u][z + 1].data, b))
      BY <2>3, <2>5, <2>7, CreateTray
    <3>2. Store!Create(u, z, Store!Overwrite(TrayOf(u, z).data, SubSeq(TrayOf(t, y).data, 1, sz)))
      BY <2>6, <3>1 DEF b
    <3> QED BY <1>0, <1>1, <1>2, <2>0, <2>6, <3>2 DEF Store!Copy, Store!IsLive
  <2> QED BY <1>0, <2>4, <2>8 DEF Store!Next, Store!Task, Task
<1> QED
  BY <1>4, <1>5

\* ALL_TASKS_initBuffer ends the process or puts a new object in tray y, which the
\* task has or which is its first.
LEMMA ScatterInit ==
    ASSUME TrayInv, status = "ok", NEW t \in Task, NEW y \in Tray, NEW size \in [Task -> Nat],
           y < numTrays[t] \/ (y = 0 /\ numTrays[t] = 0),
           NEW o, o = ALL_TASKS_initBuffer(t, y, size)
    PROVE  \/ o.status = "died"
           \/ /\ o.status = "ok" /\ Full(o.num, o.slots) /\ y + 1 \in 1 .. Len(o.slots)
              /\ o.slots[y + 1] = clCreateBuffer(size[t])
              /\ \/ Len(o.slots) = Len(slots[t])
                 \/ y = Len(slots[t]) /\ Len(o.slots) = Len(slots[t]) + 1
              /\ \A k \in 1 .. Len(slots[t]) : k # y + 1 => o.slots[k] = slots[t][k]
<1> DEFINE g == IF numTrays[t] = 0 THEN << Garbage >> ELSE slots[t]
           n == IF numTrays[t] = 0 THEN 1 ELSE numTrays[t]
           x == clCreateBuffer(size[t])
           s == [g EXCEPT ![y + 1] = x]
<1>0. /\ Full(numTrays[t], slots[t]) /\ Len(slots[t]) \in Nat /\ numTrays[t] = Len(slots[t])
      /\ y \in Nat /\ size[t] \in Nat /\ slots[t] \in Seq(TrayObject)
  BY TaskFull, TaskTraysAssumption DEF Full
<1>1. x \in TrayObject /\ x.st = "live" /\ Garbage \in TrayObject
  BY <1>0, NewBuffers
<1>2. /\ g \in Seq(TrayObject) /\ y + 1 \in 1 .. Len(g) /\ n = Len(g)
      /\ \/ g = slots[t] /\ n = numTrays[t]
         \/ y = 0 /\ Len(slots[t]) = 0 /\ Len(g) = 1 /\ n = 1
  <2>1. CASE numTrays[t] = 0
    <3>1. y = 0 /\ << Garbage >> \in Seq(TrayObject) /\ Len(<< Garbage >>) = 1
      BY <1>0, <1>1, <2>1
    <3> QED BY <1>0, <2>1, <3>1
  <2>2. CASE numTrays[t] # 0
    BY <1>0, <2>2
  <2> QED BY <2>1, <2>2
<1>3. o = Bad(t, "died") \/ o = Ok(n, s)
  <2>1. ~(numTrays[t] < y) /\ ~(numTrays[t] = 0 /\ y > 0) /\ ~(y + 1 > Len(g))
    BY <1>0, <1>2
  <2> QED BY <2>1 DEF ALL_TASKS_initBuffer
<1> HIDE DEF g, n, x
<1>4. /\ s \in Seq(TrayObject) /\ Len(s) = Len(g) /\ s[y + 1] = x
      /\ \A k \in 1 .. Len(g) : k # y + 1 => s[k] = g[k]
  BY <1>1, <1>2, ExceptSeq
<1> HIDE DEF s
<1>5. Full(n, s)
  <2>1. n \in Count
    <3>1. 1 \in Count
      BY <1>0 DEF Count
    <3> QED BY <1>0, <1>2, <3>1 DEF Full
  <2>2. \A k \in 1 .. Len(s) : s[k].st # "garbage"
    <3> SUFFICES ASSUME NEW k \in 1 .. Len(s) PROVE s[k].st # "garbage"
      OBVIOUS
    <3>1. CASE k = y + 1
      BY <1>1, <1>4, <3>1
    <3>2. CASE k # y + 1
      <4>1. g = slots[t]
        BY <1>2, <1>4, <3>2
      <4> QED BY <1>0, <1>4, <3>2, <4>1 DEF Full
    <3> QED BY <3>1, <3>2
  <2> QED BY <1>2, <1>4, <2>1, <2>2 DEF Full
<1>6. CASE o = Bad(t, "died")
  BY <1>6 DEF Bad
<1>7. CASE o = Ok(n, s)
  <2>1. o.status = "ok" /\ o.num = n /\ o.slots = s
    BY <1>7 DEF Ok
  <2>2. \/ Len(s) = Len(slots[t])
        \/ y = Len(slots[t]) /\ Len(s) = Len(slots[t]) + 1
    BY <1>0, <1>2, <1>4
  <2>3. \A k \in 1 .. Len(slots[t]) : k # y + 1 => s[k] = slots[t][k]
    BY <1>0, <1>2, <1>4
  <2> QED BY <1>2, <1>4, <1>5, <2>1, <2>2, <2>3 DEF x
<1> QED
  BY <1>3, <1>6, <1>7

\* The offsets are the cuts of a buffer in which the shares follow each other.
LEMMA OffsetsCut ==
    ASSUME NEW size \in [Task -> Nat], Even(size), NEW b, Len(b) = End(size), NEW y, NEW st,
           \A t \in Task : st[t][y].data = SubSeq(b, Offset(size, t) + 1, Offset(size, t) + size[t])
    PROVE  Store!Concatenates(b, st, y)
<1> DEFINE cut == [i \in 0 .. NumTasks |-> IF i = NumTasks THEN End(size) ELSE Offset(size, i)]
<1>0. /\ End(size) \in Nat /\ NumTasks \in Nat /\ 0 \in Task /\ 0 # NumTasks
      /\ \A i \in 0 .. NumTasks : i # NumTasks => i \in Task
      /\ \A t \in Task : t \in 0 .. NumTasks /\ t # NumTasks /\ t + 1 \in 0 .. NumTasks
  <2>1. End(size) \in Nat
    BY Offsets
  <2> QED BY <2>1, TaskTraysAssumption DEF Task
<1>o. \A t \in Task : /\ Offset(size, t) \in Nat /\ size[t] \in Nat
                      /\ Offset(size, t) + size[t] <= End(size)
  BY Offsets
<1>1. ASSUME NEW i \in 0 .. NumTasks PROVE cut[i] \in 0 .. End(size)
  <2>1. CASE i = NumTasks
    BY <1>0, <2>1
  <2>2. CASE i # NumTasks
    <3>1. cut[i] = Offset(size, i) /\ i \in Task
      BY <1>0, <2>2
    <3>2. Offset(size, i) \in 0 .. End(size)
      BY <1>0, <1>o, <3>1
    <3> QED BY <3>1, <3>2
  <2> QED BY <2>1, <2>2
<1>2. cut \in [0 .. NumTasks -> 0 .. Len(b)]
  BY <1>1
<1>3. cut[0] = 0 /\ cut[NumTasks] = Len(b)
  BY <1>0, Offsets
<1>4. ASSUME NEW t \in Task
      PROVE  cut[t] = Offset(size, t) /\ cut[t + 1] = Offset(size, t) + size[t]
  <2>1. cut[t] = Offset(size, t)
    BY <1>0
  <2>2. CASE t = NumTasks - 1
    <3>1. t + 1 = NumTasks
      BY <1>0, <2>2
    <3>2. cut[t + 1] = End(size)
      BY <1>0, <3>1
    <3> QED BY <2>1, <2>2, <3>2 DEF End
  <2>3. CASE t # NumTasks - 1
    <3>1. Offset(size, t + 1) = Offset(size, t) + size[t]
      BY <2>3, Offsets
    <3>2. t + 1 # NumTasks /\ t + 1 \in 0 .. NumTasks
      BY <1>0, <2>3 DEF Task
    <3> QED BY <2>1, <3>1, <3>2
  <2> QED BY <2>1, <2>2, <2>3
<1> HIDE DEF cut
<1>5. ASSUME NEW t \in Task
      PROVE  cut[t] <= cut[t + 1] /\ st[t][y].data = SubSeq(b, cut[t] + 1, cut[t + 1])
  <2>1. Offset(size, t) <= Offset(size, t) + size[t]
    BY <1>o
  <2> QED BY <1>4, <2>1
<1>6. Store!Task = Task
  BY DEF Store!Task, Task
<1> QED
  BY <1>2, <1>3, <1>5, <1>6 DEF Store!Concatenates

\* OMPI_XclScatter.
LEMMA ScatterStep ==
    ASSUME TrayInv, Liberty = {}, NEW y \in Tray, NEW H \in HostSize, NEW e \in EntitySize,
           XclScatter(y, H, e)
    PROVE  TrayInv' /\ Store!Next
<1> DEFINE size == Split(H, e)
           out == [t \in Task |-> ALL_TASKS_initBuffer(t, y, size)]
           fails == {out[t].status : t \in Task} \ {"ok"}
           b == HostBuffer(calls + 1, H)
           piece(t) == SubSeq(b, Offset(size, t) + 1, Offset(size, t) + size[t])
           w(t) == WriteSlot(out[t].slots, y, piece(t))
<1>0. /\ status = "ok" /\ calls' \in 0 .. MaxCalls /\ calls' \in 1 .. MaxCalls /\ calls' = calls + 1
      /\ MayScatter(y, H, e) /\ tskbufferSize' = size /\ got' = got
  BY CallCounts DEF XclScatter, Calling
<1>t. /\ numTrays \in [Task -> Count] /\ slots \in [Task -> Seq(TrayObject)] /\ got \in Seq(Byte)
      /\ y \in Nat /\ H \in Nat /\ e \in Nat \ {0}
  BY Types, TaskTraysAssumption
<1>s. size \in [Task -> Nat] /\ Even(size) /\ End(size) = H
  BY <1>0, <1>t, SplitShape DEF MayScatter
<1>z. SizesOK' /\ tskbufferSize' \in [Task -> Nat] \cup {<< >>}
  BY <1>0, <1>s DEF SizesOK
<1>1. /\ fails = {} => /\ numTrays' = [t \in Task |-> out[t].num]
                       /\ slots' = [t \in Task |-> w(t)]
                       /\ status' = "ok"
      /\ fails # {} => /\ UNCHANGED << numTrays, slots >>
                       /\ status' = IF "wild" \in fails THEN "wild" ELSE "died"
  <2>1. ~(End(size) > H)
    BY <1>s, <1>t
  <2>2. \A t \in Task : ALL_TASKS_writeBuffer(out[t].slots, t, y, size) = w(t)
    BY <1>s DEF ALL_TASKS_writeBuffer
  <2> HIDE DEF w, piece, b
  <2> QED BY <2>1, <2>2 DEF XclScatter
<1> HIDE DEF size
<1>2. ASSUME NEW t \in Task
      PROVE  \/ out[t].status = "died"
             \/ /\ out[t].status = "ok" /\ Full(out[t].num, out[t].slots) /\ y + 1 \in 1 .. Len(out[t].slots)
                /\ out[t].slots[y + 1] = clCreateBuffer(size[t])
                /\ \/ Len(out[t].slots) = Len(slots[t])
                   \/ y = Len(slots[t]) /\ Len(out[t].slots) = Len(slots[t]) + 1
                /\ \A k \in 1 .. Len(slots[t]) : k # y + 1 => out[t].slots[k] = slots[t][k]
  <2>1. y < numTrays[t] \/ (y = 0 /\ numTrays[t] = 0)
    BY <1>0 DEF MayScatter
  <2>2. out[t] = ALL_TASKS_initBuffer(t, y, size)
    OBVIOUS
  <2> HIDE DEF out
  <2> QED BY <1>0, <1>s, <2>1, <2>2, ScatterInit
<1>3. CASE fails # {}
  <2>1. "wild" \notin fails
    BY <1>2
  <2>2. status' = "died" /\ UNCHANGED << numTrays, slots >>
    BY <1>1, <1>3, <2>1
  <2> QED BY <1>0, <1>z, <2>2, DiedStep
<1>4. CASE fails = {}
  <2>0. /\ numTrays' = [t \in Task |-> out[t].num] /\ slots' = [t \in Task |-> w(t)]
        /\ status' = "ok"
    BY <1>1, <1>4
  <2>1. ASSUME NEW t \in Task
        PROVE  /\ Full(out[t].num, out[t].slots) /\ y + 1 \in 1 .. Len(out[t].slots)
               /\ out[t].slots[y + 1] = clCreateBuffer(size[t])
               /\ \/ Len(out[t].slots) = Len(slots[t])
                  \/ y = Len(slots[t]) /\ Len(out[t].slots) = Len(slots[t]) + 1
               /\ \A k \in 1 .. Len(slots[t]) : k # y + 1 => out[t].slots[k] = slots[t][k]
    <3>1. out[t].status = "ok"
      BY <1>4
    <3> HIDE DEF out
    <3> QED BY <1>2, <3>1
  <2> HIDE DEF out, fails
  <2>2. b \in Seq(Byte) /\ Len(b) = H
    BY <1>0, <1>t, NewBuffers
  <2> HIDE DEF b
  <2>3. ASSUME NEW t \in Task PROVE piece(t) \in Seq(Byte) /\ Len(piece(t)) = size[t]
    <3>1. /\ Offset(size, t) \in Nat /\ size[t] \in Nat
          /\ Offset(size, t) + size[t] <= Len(b)
      BY <1>s, <2>2, Offsets
    <3>2. \A i \in Offset(size, t) + 1 .. Offset(size, t) + size[t] : b[i] \in Byte
      <4>1. \A i \in Offset(size, t) + 1 .. Offset(size, t) + size[t] : i \in 1 .. Len(b)
        BY <1>t, <2>2, <3>1
      <4> QED BY <2>2, <4>1, ElementOfSeq
    <3> QED BY <3>1, <3>2, SubSeqProperties
  <2> HIDE DEF piece
  <2>4. ASSUME NEW t \in Task
        PROVE  /\ Full(out[t].num, w(t)) /\ Len(w(t)) = Len(out[t].slots)
               /\ w(t)[y + 1] = Store!Live(piece(t))
               /\ \A k \in 1 .. Len(out[t].slots) : k # y + 1 => w(t)[k] = out[t].slots[k]
    <3>1. /\ out[t].slots[y + 1].st = "live" /\ Len(out[t].slots[y + 1].data) = size[t]
          /\ size[t] \in Nat /\ out[t].slots[y + 1].data \in Seq(Byte)
      <4>1. size[t] \in Nat
        BY <1>s
      <4>2. clCreateBuffer(size[t]) \in TrayObject /\ clCreateBuffer(size[t]).st = "live"
            /\ Len(clCreateBuffer(size[t]).data) = size[t]
        BY <4>1, NewBuffers
      <4>3. clCreateBuffer(size[t]).data \in Seq(Byte)
        BY <4>2 DEF TrayObject
      <4> QED BY <2>1, <4>1, <4>2, <4>3
    <3>2. Overwrite(out[t].slots[y + 1].data, piece(t)) = piece(t)
      BY <2>3, <3>1, OverwriteBytes
    <3>3. Len(piece(t)) <= Len(out[t].slots[y + 1].data)
      BY <2>3, <3>1
    <3>4. Full(out[t].num, out[t].slots) /\ y \in Nat /\ y + 1 \in 1 .. Len(out[t].slots)
      BY <1>t, <2>1
    <3>5. piece(t) \in Seq(Byte)
      BY <2>3
    <3>6. /\ Full(out[t].num, w(t)) /\ Len(w(t)) = Len(out[t].slots)
          /\ w(t)[y + 1] = Store!Live(Overwrite(out[t].slots[y + 1].data, piece(t)))
          /\ \A k \in 1 .. Len(out[t].slots) : k # y + 1 => w(t)[k] = out[t].slots[k]
      BY <3>1, <3>3, <3>4, <3>5, WriteFull
    <3> QED BY <3>2, <3>6
  <2> HIDE DEF w
  <2>5. TrayInv'
    <3>1. numTrays' \in [Task -> Count] /\ slots' \in [Task -> Seq(TrayObject)]
      BY <2>0, <2>4 DEF Full
    <3>2. TypeOK'
      BY <1>0, <1>t, <1>z, <2>0, <3>1 DEF TypeOK, Count
    <3>3. NumTraysCounts'
      <4> SUFFICES ASSUME NEW t \in Task PROVE Full(numTrays'[t], slots'[t])
        BY DEF NumTraysCounts, Full
      <4> QED BY <2>0, <2>4
    <3> QED BY <1>z, <2>0, <3>2, <3>3 DEF TrayInv, NoWildAccess
  <2>6. ASSUME NEW t \in Task
        PROVE  \A z \in Tray :
                 TrayIn(slots'[t], z) = IF z = y THEN Store!Live(piece(t)) ELSE TrayIn(slots[t], z)
    <3>1. Len(slots[t]) \in Nat /\ slots'[t] = w(t)
      BY <1>t, <2>0, LenProperties
    <3>2. \A k \in 1 .. Len(slots[t]) : k # y + 1 => w(t)[k] = slots[t][k]
      BY <2>1, <2>4, <3>1
    <3>3. Len(w(t)) = Len(slots[t]) \/ (y = Len(slots[t]) /\ Len(w(t)) = Len(slots[t]) + 1)
      BY <2>1, <2>4
    <3>4. y + 1 \in 1 .. Len(w(t))
      BY <2>1, <2>4
    <3>5. \A z \in Tray : TrayIn(w(t), z) = IF z = y THEN w(t)[y + 1] ELSE TrayIn(slots[t], z)
      BY <2>4, <3>1, <3>2, <3>3, <3>4, TrayRow
    <3> QED BY <2>4, <3>1, <3>5
  <2>7. /\ DOMAIN StoreOf' = Task
        /\ \A t \in Task : /\ StoreOf'[t][y].data = piece(t)
                            /\ StoreOf'[t] = [StoreOf[t] EXCEPT ![y] = Store!Live(StoreOf'[t][y].data)]
    <3>1. StoreOf' = [t \in Task |-> [z \in Tray |-> TrayIn(slots'[t], z)]]
      BY StoreReads
    <3>2. ASSUME NEW t \in Task PROVE StoreOf'[t][y].data = piece(t)
      <4>1. StoreOf'[t][y] = Store!Live(piece(t))
        BY <2>6, <3>1
      <4> QED BY <4>1 DEF Store!Live
    <3>3. ASSUME NEW t \in Task PROVE StoreOf'[t] = [StoreOf[t] EXCEPT ![y] = Store!Live(piece(t))]
      <4>1. StoreOf[t] = [z \in Tray |-> TrayIn(slots[t], z)]
        BY StoreReads
      <4>2. StoreOf'[t] = [z \in Tray |-> IF z = y THEN Store!Live(piece(t)) ELSE TrayIn(slots[t], z)]
        BY <2>6, <3>1
      <4> QED BY <4>1, <4>2
    <3> QED BY <3>1, <3>2, <3>3
  <2>8. Store!Concatenates(b, StoreOf', y)
    BY <1>s, <2>2, <2>7, OffsetsCut DEF piece
  <2>9. Store!Scatter(y, b)
    <3>1. Store!Task = Task
      BY DEF Store!Task, Task
    <3> QED BY <1>0, <2>0, <2>7, <2>8, <3>1 DEF Store!Scatter, StoreOf
  <2>10. Store!HostBuffer(calls + 1, H) = b /\ calls + 1 \in 1 .. MaxCalls
    BY <1>0 DEF Store!HostBuffer, HostBuffer, b
  <2>11. Store!Next
    BY <1>0, <2>9, <2>10 DEF Store!Next
  <2> QED BY <2>5, <2>11
<1> QED
  BY <1>3, <1>4

\* What a gather reads is tray y of every task, one after the other.
LEMMA GatheredBytes ==
    ASSUME NEW y, tskbufferSize \in [Task -> Nat], Even(tskbufferSize),
           \A t \in Task : /\ slots[t][y + 1].data \in Seq(Byte)
                           /\ Len(slots[t][y + 1].data) = tskbufferSize[t]
    PROVE  /\ Gathered(y) \in Seq(Byte) /\ Len(Gathered(y)) = End(tskbufferSize)
           /\ \A t \in Task : slots[t][y + 1].data
                 = SubSeq(Gathered(y), Offset(tskbufferSize, t) + 1, Offset(tskbufferSize, t) + tskbufferSize[t])
<1> DEFINE size == tskbufferSize
           d(t) == slots[t][y + 1].data
           In(t, k) == Offset(size, t) < k /\ k <= Offset(size, t) + size[t]
           of(k) == CHOOSE t \in Task : In(t, k)
           g == Gathered(y)
<1>0. End(size) \in Nat /\ \A t \in Task : /\ Offset(size, t) \in Nat /\ size[t] \in Nat
                                           /\ Offset(size, t) + size[t] <= End(size)
  BY Offsets
<1>1. ASSUME NEW k \in 1 .. End(size), NEW t \in Task, In(t, k) PROVE of(k) = t
  <2>1. of(k) \in Task /\ In(of(k), k)
    BY <1>1
  <2> QED BY <1>1, <2>1, ShareOfByte
<1>2. ASSUME NEW k \in 1 .. End(size) PROVE of(k) \in Task /\ In(of(k), k)
  BY ShareOfByte
<1>3. g = [k \in 1 .. End(size) |-> d(of(k))[k - Offset(size, of(k))]]
  BY DEF Gathered
<1> HIDE DEF g, of
<1>4. ASSUME NEW k \in 1 .. End(size) PROVE d(of(k))[k - Offset(size, of(k))] \in Byte
  <2>1. k - Offset(size, of(k)) \in 1 .. Len(d(of(k)))
    BY <1>0, <1>2
  <2> QED BY <1>2, <2>1, ElementOfSeq
<1>5. g \in Seq(Byte) /\ Len(g) = End(size)
  <2> DEFINE v(k) == d(of(k))[k - Offset(size, of(k))]
             n == End(size)
  <2>1. n \in Nat /\ g = [k \in 1 .. n |-> v(k)] /\ \A k \in 1 .. n : v(k) \in Byte
    BY <1>0, <1>3, <1>4
  <2> HIDE DEF v, n
  <2>2. g \in Seq(Byte) /\ Len(g) = n
    BY <2>1
  <2> QED BY <2>2 DEF n
<1>6. ASSUME NEW t \in Task
      PROVE  d(t) = SubSeq(g, Offset(size, t) + 1, Offset(size, t) + size[t])
  <2> DEFINE m == Offset(size, t)
             p == SubSeq(g, m + 1, m + size[t])
  <2>0. m \in Nat /\ size[t] \in Nat /\ m + size[t] <= End(size)
    BY <1>0
  <2> HIDE DEF m
  <2>1. \A i \in m + 1 .. m + size[t] : i \in 1 .. Len(g) /\ g[i] \in Byte
    <3>1. \A i \in m + 1 .. m + size[t] : i \in 1 .. Len(g)
      BY <1>0, <1>5, <2>0
    <3> QED BY <1>5, <3>1, ElementOfSeq
  <2>2. /\ p \in Seq(Byte) /\ Len(p) = size[t]
        /\ \A j \in 1 .. size[t] : p[j] = g[m + j]
    <3>1. p \in Seq(Byte) /\ Len(p) = size[t]
      BY <2>0, <2>1, SubSeqProperties
    <3>2. \A j \in 1 .. size[t] : p[j] = g[m + j]
      <4> SUFFICES ASSUME NEW j \in 1 .. size[t] PROVE p[j] = g[m + j]
        OBVIOUS
      <4>1. m + 1 <= m + size[t] /\ j \in 1 .. (m + size[t]) - (m + 1) + 1 /\ (m + 1) + j - 1 = m + j
        BY <2>0
      <4> QED BY <2>0, <2>1, <4>1
    <3> QED BY <3>1, <3>2
  <2> HIDE DEF p
  <2>3. ASSUME NEW j \in 1 .. size[t] PROVE p[j] = d(t)[j]
    <3>1. m + j \in 1 .. End(size) /\ m < m + j /\ m + j <= m + size[t] /\ (m + j) - m = j
      BY <1>0, <2>0
    <3>2. of(m + j) = t
      BY <1>1, <3>1 DEF m
    <3>3. g[m + j] = d(t)[(m + j) - m]
      BY <1>3, <3>1, <3>2 DEF m
    <3> QED BY <2>2, <3>1, <3>3
  <2>4. p = d(t)
    <3>1. d(t) \in Seq(Byte) /\ Len(p) = Len(d(t)) /\ \A j \in 1 .. Len(p) : p[j] = d(t)[j]
      BY <2>2, <2>3
    <3> HIDE DEF d
    <3> QED BY <2>2, <3>1, SeqEqual
  <2> QED BY <2>4 DEF p, m
<1> QED
  BY <1>5, <1>6 DEF g

\* OMPI_XclGather.
LEMMA GatherStep ==
    ASSUME TrayInv, Liberty = {}, NEW y \in Tray, XclGather(y)
    PROVE  TrayInv' /\ Store!Next
<1> DEFINE fails == {Access(slots[t], y, tskbufferSize[t]) : t \in Task} \ {"ok"}
<1>0. /\ status = "ok" /\ calls' \in 0 .. MaxCalls /\ MayGather(y)
      /\ UNCHANGED << numTrays, slots, tskbufferSize >>
  BY CallCounts DEF XclGather
<1>t. /\ numTrays \in [Task -> Count] /\ slots \in [Task -> Seq(TrayObject)] /\ got \in Seq(Byte)
      /\ tskbufferSize \in [Task -> Nat] \cup {<< >>} /\ SizesOK /\ y \in Nat
  BY Types, TaskTraysAssumption
<1>1. ASSUME NEW t \in Task
      PROVE  /\ y + 1 \in 1 .. Len(slots[t]) /\ slots[t][y + 1].st = "live"
             /\ slots[t][y + 1].data \in Seq(Byte)
             /\ Len(slots[t]) \in Nat /\ Len(slots[t][y + 1].data) \in Nat
  <2>1. MayUse(t, y)
    BY <1>0 DEF MayGather
  <2> QED BY <1>0, <1>t, <2>1, UseIsLive, LenProperties
<1>2. CASE status' = "died" /\ got' = got
  BY <1>0, <1>2, <1>t, DiedStep DEF SizesOK
<1>3. CASE tskbufferSize # << >> /\ fails = {}
  <2>0. status' = "ok" /\ got' = Gathered(y) /\ tskbufferSize \in [Task -> Nat] /\ Even(tskbufferSize)
    BY <1>3, <1>t DEF XclGather, SizesOK
  <2>1. ASSUME NEW t \in Task PROVE Len(slots[t][y + 1].data) = tskbufferSize[t]
    <3>1. y < Len(slots[t])
      BY <1>1, <1>t
    <3> QED BY <1>0, <1>3, <3>1 DEF MayGather
  <2>2. /\ got' \in Seq(Byte) /\ Len(got') = End(tskbufferSize)
        /\ \A t \in Task : slots[t][y + 1].data
              = SubSeq(got', Offset(tskbufferSize, t) + 1, Offset(tskbufferSize, t) + tskbufferSize[t])
    BY <1>1, <2>0, <2>1, GatheredBytes
  <2>3. TrayInv'
    BY <1>0, <2>0, <2>2 DEF TrayInv, NoWildAccess, TypeOK, NumTraysCounts, SizesOK
  <2>4. ASSUME NEW t \in Task PROVE StoreOf[t][y] = slots[t][y + 1]
    BY <1>0, <1>1, <1>t, TrayPresent
  <2>5. Store!Concatenates(got', StoreOf, y)
    BY <2>0, <2>2, <2>4, OffsetsCut
  <2>6. Store!Gather(y)
    <3>1. Store!Task = Task
      BY DEF Store!Task, Task
    <3>2. \A t \in Task : StoreOf[t][y].st = "live"
      BY <1>1, <2>4
    <3>3. StoreOf' = StoreOf
      BY <1>0, StoreReads
    <3> QED BY <1>0, <2>0, <2>5, <3>1, <3>2, <3>3 DEF Store!Gather, Store!IsLive, StoreOf
  <2> QED BY <1>0, <2>3, <2>6 DEF Store!Next
<1>4. CASE tskbufferSize # << >> /\ fails # {}
  <2>1. "wild" \notin fails
    <3>1. ASSUME NEW t \in Task PROVE Access(slots[t], y, tskbufferSize[t]) # "wild"
      <4>1. tskbufferSize[t] \in Nat
        BY <1>4, <1>t
      <4> QED BY <1>1, <1>t, <4>1, AccessLive
    <3> QED BY <3>1
  <2>2. status' = "died" /\ got' = got
    BY <1>4, <2>1 DEF XclGather
  <2> QED BY <1>2, <2>2
<1>5. CASE tskbufferSize = << >>
  BY <1>2, <1>5 DEF XclGather
<1> QED
  BY <1>3, <1>4, <1>5

----------------------------------------------------------------------------
(* The theorems.                                                           *)

\* The first states have no trays, in the arrays and in the store.
LEMMA TrayInit == Init => TrayInv /\ Store!Init
<1> SUFFICES ASSUME Init PROVE TrayInv /\ Store!Init
  OBVIOUS
<1>1. TypeOK
  BY TaskTraysAssumption DEF Init, TypeOK
<1>2. NumTraysCounts
  BY DEF Init, NumTraysCounts
<1>3. TrayInv
  BY <1>1, <1>2 DEF Init, TrayInv, NoWildAccess, SizesOK
<1>4. \A t \in Task, y \in Tray : TrayOf(t, y) = Store!NoTray
  BY TaskTraysAssumption DEF Init, TrayOf, Store!NoTray
<1>5. Store!Init
  BY <1>4 DEF Init, Store!Init, Store!Task, Task
<1> QED
  BY <1>3, <1>5

\* Every call keeps the invariant, and is a call on the store or a stutter.
LEMMA TrayNext ==
    ASSUME Liberty = {}
    PROVE  TrayInv /\ [Next]_vars => TrayInv' /\ [Store!Next]_(Store!vars)
<1> SUFFICES ASSUME TrayInv, [Next]_vars PROVE TrayInv' /\ [Store!Next]_(Store!vars)
  OBVIOUS
<1>1. ASSUME NEW t \in Task, NEW y \in Tray, NEW sz \in Size, XclMallocTaskBuffer(t, y, sz)
      PROVE  TrayInv' /\ Store!Next
  BY <1>1, MallocStep
<1>2. ASSUME NEW t \in Task, NEW y \in Tray, NEW sz \in Size, XclWriteTaskBuffer(t, y, sz)
      PROVE  TrayInv' /\ Store!Next
  BY <1>2, WriteStep
<1>3. ASSUME NEW t \in Task, NEW y \in Tray, NEW sz \in Size, XclReadTaskBuffer(t, y, sz)
      PROVE  TrayInv' /\ Store!Next
  BY <1>3, ReadStep
<1>4. ASSUME NEW t \in Task, NEW y \in Tray, NEW sz \in Size, NEW u \in Task, NEW z \in Tray,
             intracpyBuffer(t, y, u, z, sz)
      PROVE  TrayInv' /\ Store!Next
  BY <1>4, CopyStep
<1>5. ASSUME NEW t \in Task, NEW y \in Tray, XclFreeTaskBuffer(t, y) PROVE TrayInv' /\ Store!Next
  BY <1>5, FreeStep
<1>6. ASSUME NEW y \in Tray, NEW H \in HostSize, NEW e \in EntitySize, XclScatter(y, H, e)
      PROVE  TrayInv' /\ Store!Next
  BY <1>6, ScatterStep
<1>7. ASSUME NEW y \in Tray, XclGather(y) PROVE TrayInv' /\ Store!Next
  BY <1>7, GatherStep
<1>8. ASSUME OpenCLError PROVE TrayInv' /\ Store!Next
  <2>1. status = "ok" /\ status' = "died" /\ UNCHANGED << numTrays, slots, tskbufferSize, got, calls >>
    BY <1>8 DEF OpenCLError
  <2>2. calls' \in 0 .. MaxCalls /\ SizesOK' /\ tskbufferSize' \in [Task -> Nat] \cup {<< >>}
    BY <2>1 DEF TrayInv, NoWildAccess, TypeOK, SizesOK
  <2> QED BY <2>1, <2>2, DiedStep
<1>9. ASSUME UNCHANGED vars PROVE TrayInv' /\ UNCHANGED Store!vars
  <2>1. TrayInv'
    BY <1>9 DEF vars, TrayInv, NoWildAccess, TypeOK, NumTraysCounts, SizesOK
  <2>2. UNCHANGED Store!vars
    BY <1>9 DEF vars, Store!vars, TrayOf
  <2> QED BY <2>1, <2>2
<1> QED
  BY <1>1, <1>2, <1>3, <1>4, <1>5, <1>6, <1>7, <1>8, <1>9 DEF Next

\* For an application that keeps the rules no tray call reads or writes outside
\* an array of handles, a host buffer or a live memory object.
THEOREM CarefulNoWildAccess == ASSUME Liberty = {} PROVE Spec => []NoWildAccess
<1>1. TrayInv => NoWildAccess
  BY DEF TrayInv
<1>2. TrayInv /\ [Next]_vars => TrayInv'
  BY TrayNext
<1> QED
  BY TrayInit, <1>1, <1>2, PTL DEF Spec

\* For such an application taskList[t].numTrays is the number of trays of the
\* task after every call, and every one of them has had a memory object.
THEOREM CarefulNumTraysCounts == ASSUME Liberty = {} PROVE Spec => []NumTraysCounts
<1>1. TrayInv => NumTraysCounts
  BY DEF TrayInv
<1>2. TrayInv /\ [Next]_vars => TrayInv'
  BY TrayNext
<1> QED
  BY TrayInit, <1>1, <1>2, PTL DEF Spec

\* For such an application the trays are a store: malloc, write, read, free, copy,
\* scatter and gather do to the arrays of handles what they do to TrayStore.
THEOREM CarefulImplementsTrayStore == ASSUME Liberty = {} PROVE Spec => ImplementsTrayStore
<1>1. TrayInv /\ [Next]_vars => TrayInv'
  BY TrayNext
<1>2. TrayInv /\ [Next]_vars => [Store!Next]_(Store!vars)
  BY TrayNext
<1>3. Init => TrayInv /\ Store!Init
  BY TrayInit
<1> QED
  BY <1>1, <1>2, <1>3, PTL DEF Spec, ImplementsTrayStore, Store!Spec
=============================================================================
