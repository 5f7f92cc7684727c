-------------------------- MODULE TaskBindingProofs --------------------------
(***************************************************************************)
(* Proofs about TaskBinding, for any number of ranks, devices and calls.    *)
(* For every taskSched.cfg and device selection: no two tasks of a rank     *)
(* share a rack, all ranks build the same global map, and the map names     *)
(* every task once.  For files that match the node: every task is bound,    *)
(* and no array is accessed outside its bounds.                             *)
(***************************************************************************)
EXTENDS TaskBinding, WellFoundedInduction, TLAPS

----------------------------------------------------------------------------
(* Racks.  RacksDistinct is inductive given the types of the variables of   *)
(* createTaskList and that a bound task has one of the node's devices: the  *)
(* new rack, numRacks of the device, is above every rack in use.            *)

BoundToDevice == \A r \in Rank : \A t \in Bound(r) : taskList[r][t].device \in Device

RackInv == MatchType /\ BoundToDevice /\ RacksDistinct

\* Initially no task has a device.
LEMMA RackInit == Init => RackInv
<1> SUFFICES ASSUME Init PROVE RackInv
  OBVIOUS
<1>1. MatchType
  BY DEF Init, MatchType
<1>2. \A r \in Rank : Bound(r) = {}
  BY DEF Init, Bound
<1>3. BoundToDevice /\ RacksDistinct
  BY <1>2 DEF BoundToDevice, RacksDistinct
<1> QED
  BY <1>1, <1>3 DEF RackInv

\* A step that leaves the variables of createTaskList alone.
LEMMA RackUnchanged == RackInv /\ UNCHANGED matchVars => RackInv'
  BY DEF RackInv, matchVars, MatchType, BoundToDevice, RacksDistinct, Bound

\* EndOfFile starts again with a list in which no task is bound.
LEMMA RackEndOfFile ==
  ASSUME RackInv, NEW r \in Rank, EndOfFile(r)
  PROVE  RackInv'
<1>1. /\ taskList' = [taskList EXCEPT ![r] = [t \in 0 .. l_numTasks[r] - 1 |-> Unbound]]
      /\ task' = [task EXCEPT ![r] = 0]
      /\ numRacks' = numRacks
  BY DEF EndOfFile
<1>2. Unbound \in Entry
  BY DEF Unbound, Entry
<1>3. MatchType'
  BY <1>1, <1>2 DEF RackInv, MatchType
<1>4. Bound(r)' = {}
  BY <1>1 DEF Bound, RackInv, MatchType
<1>5. ASSUME NEW q \in Rank, q # r PROVE Bound(q)' = Bound(q) /\ taskList'[q] = taskList[q]
  BY <1>1, <1>5 DEF Bound, RackInv, MatchType
<1>6. BoundToDevice' /\ RacksDistinct'
  BY <1>1, <1>4, <1>5 DEF BoundToDevice, RacksDistinct, RackInv
<1> QED
  BY <1>3, <1>6 DEF RackInv

\* MatchTask hands out the rack numRacks[r][d], which no task has.
LEMMA RackMatchTask ==
  ASSUME RackInv, NEW r \in Rank, MatchTask(r)
  PROVE  RackInv'
<1> DEFINE t == task[r]
           d == DeviceFor(r, task[r])
           e == [device |-> d, Rack |-> numRacks[r][d]]
<1>1. CASE UNCHANGED matchVars
  BY <1>1, RackUnchanged
<1>2. CASE ~ UNCHANGED matchVars
  <2>1. /\ d \in Device
        /\ taskList' = [taskList EXCEPT ![r][t] = e]
        /\ numRacks' = [numRacks EXCEPT ![r][d] = @ + 1]
        /\ task' = [task EXCEPT ![r] = @ + 1]
    BY <1>2 DEF MatchTask
  <2>2. PICK tt, dd, ee : tt = t /\ dd = d /\ ee = e
    OBVIOUS
  <2>21. numRacks[r][d] \in Nat /\ e \in Entry /\ e.device = d /\ e.Rack = numRacks[r][d]
    BY <2>1 DEF Entry, RackInv, MatchType
  <2> HIDE DEF t, d, e
  <2>3. /\ dd \in Device
        /\ taskList' = [taskList EXCEPT ![r] = [taskList[r] EXCEPT ![tt] = ee]]
        /\ numRacks' = [numRacks EXCEPT ![r] = [numRacks[r] EXCEPT ![dd] = numRacks[r][dd] + 1]]
        /\ ee.device = dd /\ ee.Rack = numRacks[r][dd] /\ ee \in Entry
        /\ task' = [task EXCEPT ![r] = @ + 1]
    BY <2>1, <2>2, <2>21
  <2>4. /\ numRacks'[r] \in [Device -> Nat]
        /\ numRacks'[r][dd] = numRacks[r][dd] + 1
        /\ \A x \in Device \ {dd} : numRacks'[r][x] = numRacks[r][x]
    BY <2>3 DEF RackInv, MatchType
  <2>5. taskList'[r] = [u \in DOMAIN taskList[r] |-> IF u = tt THEN ee ELSE taskList[r][u]]
    BY <2>3 DEF RackInv, MatchType
  <2>6. MatchType'
    <3>1. task' \in [Rank -> Nat]
      BY <2>3 DEF RackInv, MatchType
    <3>2. numRacks' \in [Rank -> [Device -> Nat]]
      BY <2>3, <2>4 DEF RackInv, MatchType
    <3>3. DOMAIN taskList' = Rank
      BY <2>3 DEF RackInv, MatchType
    <3>4. taskList'[r] \in [DOMAIN taskList'[r] -> Entry]
      BY <2>3, <2>5 DEF RackInv, MatchType
    <3>5. ASSUME NEW q \in Rank, q # r PROVE taskList'[q] \in [DOMAIN taskList'[q] -> Entry]
      <4>1. taskList'[q] = taskList[q]
        BY <3>5, <2>3 DEF RackInv, MatchType
      <4> QED
        BY <4>1 DEF RackInv, MatchType
    <3> QED
      BY <3>1, <3>2, <3>3, <3>4, <3>5 DEF MatchType
  <2>7. ASSUME NEW q \in Rank, q # r
        PROVE  Bound(q)' = Bound(q) /\ taskList'[q] = taskList[q] /\ numRacks'[q] = numRacks[q]
    BY <2>3, <2>7 DEF Bound, RackInv, MatchType
  <2>8. Bound(r)' \subseteq Bound(r) \cup {tt}
    BY <2>5 DEF Bound
  <2>9. ASSUME NEW u \in Bound(r)', u # tt
        PROVE  /\ u \in Bound(r) /\ taskList'[r][u] = taskList[r][u]
               /\ taskList[r][u].device \in Device
               /\ taskList[r][u].Rack \in Nat
               /\ taskList[r][u].Rack < numRacks[r][taskList[r][u].device]
    <3>1. u \in Bound(r) /\ u \in DOMAIN taskList[r]
      BY <2>8, <2>9 DEF Bound
    <3>2. taskList'[r][u] = taskList[r][u]
      BY <3>1, <2>5, <2>9
    <3>3. taskList[r][u].Rack \in Nat
      BY <3>1 DEF RackInv, MatchType, Entry
    <3> QED
      BY <3>1, <3>2, <3>3 DEF RackInv, BoundToDevice, RacksDistinct
  <2>10. tt \in Bound(r)' => taskList'[r][tt] = ee
    BY <2>5 DEF Bound
  <2>11. \A u \in Bound(r)' : /\ taskList'[r][u].device \in Device
                              /\ taskList'[r][u].Rack < numRacks'[r][taskList'[r][u].device]
    <3> SUFFICES ASSUME NEW u \in Bound(r)'
                 PROVE  /\ taskList'[r][u].device \in Device
                        /\ taskList'[r][u].Rack < numRacks'[r][taskList'[r][u].device]
      OBVIOUS
    <3>1. numRacks[r] \in [Device -> Nat]
      BY DEF RackInv, MatchType
    <3>2. CASE u = tt
      BY <3>1, <3>2, <2>3, <2>4, <2>10
    <3>3. CASE u # tt
      BY <3>1, <3>3, <2>3, <2>4, <2>9
    <3> QED
      BY <3>2, <3>3
  <2>12. ASSUME NEW u \in Bound(r)', NEW v \in Bound(r)', u # v,
                taskList'[r][u].device = taskList'[r][v].device
         PROVE  taskList'[r][u].Rack # taskList'[r][v].Rack
    <3>1. CASE u = tt
      BY <3>1, <2>12, <2>3, <2>9, <2>10
    <3>2. CASE v = tt
      BY <3>2, <2>12, <2>3, <2>9, <2>10
    <3>3. CASE u # tt /\ v # tt
      BY <3>3, <2>12, <2>9 DEF RackInv, RacksDistinct
    <3> QED
      BY <3>1, <3>2, <3>3
  <2>13. BoundToDevice'
    BY <2>7, <2>11 DEF BoundToDevice, RackInv
  <2>14. RacksDistinct'
    BY <2>7, <2>11, <2>12 DEF RacksDistinct, RackInv
  <2> QED
    BY <2>6, <2>13, <2>14 DEF RackInv
<1> QED
  BY <1>1, <1>2

\* RackInv is an invariant.
THEOREM RackInvariant == Spec => []RackInv
<1>1. ASSUME RackInv, [Next]_vars PROVE RackInv'
  <2> USE <1>1
  <2>1. CASE UNCHANGED vars
    BY <2>1, RackUnchanged DEF vars
  <2>2. ASSUME NEW r \in Rank, Step(r) PROVE RackInv'
    <3>1. CASE EndOfFile(r)
      BY <3>1, RackEndOfFile
    <3>2. CASE MatchTask(r)
      BY <3>2, RackMatchTask
    <3>3. CASE \E c \in Config, sel \in Selections : CollectCall(r, c, sel)
      BY <3>3, RackUnchanged DEF CollectCall
    <3>4. CASE CollectNoFile(r) \/ ReadComment(r) \/ ReadNumTasks(r) \/ ReadDevice(r)
      BY <3>4, RackUnchanged DEF CollectNoFile, ReadComment, ReadNumTasks, ReadDevice
    <3>5. CASE AllgatherEnter(r) \/ AllgatherLeave(r)
      BY <3>5, RackUnchanged DEF AllgatherEnter, AllgatherLeave
    <3> QED
      BY <2>2, <3>1, <3>2, <3>3, <3>4, <3>5 DEF Step
  <2> QED
    BY <2>1, <2>2 DEF Next
<1> QED
  BY <1>1, RackInit, PTL DEF Spec

\* No two tasks of a rank share a rack of a device, so that the trays of a task
\* (memHandler[Rack]) are its own: createTaskList, for every file, selection and
\* number of calls.
THEOREM RacksAreDistinct == Spec => []RacksDistinct
<1>1. RackInv => RacksDistinct
  BY DEF RackInv
<1> QED
  BY <1>1, RackInvariant, PTL

----------------------------------------------------------------------------
(* The global map.  MapAgrees alone is not inductive: that two ranks that   *)
(* leave the same MPI_Allgather at different times see the same values      *)
(* needs that a rank has contributed once per call, and that the map of a   *)
(* rank is that of its last completed call, whatever was contributed since. *)

ReadInv ==
    /\ pc \in [Rank -> {"idle", "read", "match", "gather", "wild"}]
    /\ l_numTasks \in [Rank -> Nat]
    /\ line \in [Rank -> Nat \ {0}]
    /\ DOMAIN config = Rank
    /\ \A r \in Rank : pc[r] = "read" => config[r] \in Seq(LineOf)

\* A rank that reads a file has one, and the numbers in it are naturals.
LEMMA ReadInvariant == Spec => []ReadInv
<1>1. Init => ReadInv
  BY DEF Init, ReadInv
<1>2. ASSUME ReadInv, [Next]_vars PROVE ReadInv'
  <2> USE <1>2
  <2>1. CASE UNCHANGED vars
    BY <2>1 DEF vars, readVars, ReadInv
  <2>2. ASSUME NEW r \in Rank, Step(r) PROVE ReadInv'
    <3>1. ASSUME NEW c \in Config, NEW sel \in Selections, CollectCall(r, c, sel) PROVE ReadInv'
      <4>1. c \in Seq(LineOf)
        BY <3>1, TaskBindingAssumption DEF CollectCall
      <4> QED
        BY <3>1, <4>1 DEF CollectCall, Goto, ReadInv
    <3>2. CASE CollectNoFile(r)
      BY <3>2 DEF CollectNoFile, readVars, ReadInv
    <3>3. CASE ReadComment(r)
      BY <3>3 DEF ReadComment, NextLine, ReadInv
    <3>4. CASE ReadNumTasks(r)
      <4>1. config[r] \in Seq(LineOf) /\ line[r] \in 1 .. Len(config[r])
        BY <3>4 DEF ReadNumTasks, AtLine, At, ReadInv
      <4>2. config[r][line[r]] \in LineOf
        BY <4>1
      <4>3. Line(r).n \in Nat
        BY <4>2 DEF Line, LineOf
      <4> QED
        BY <3>4, <4>3 DEF ReadNumTasks, NextLine, ReadInv
    <3>5. CASE ReadDevice(r)
      <4>1. /\ pc' = pc \/ pc' = [pc EXCEPT ![r] = "wild"]
            /\ line' = [line EXCEPT ![r] = @ + 1]
            /\ config' = config /\ l_numTasks' = l_numTasks
        BY <3>5 DEF ReadDevice, NextLine, Goto
      <4> QED
        BY <4>1 DEF ReadInv
    <3>6. CASE EndOfFile(r)
      BY <3>6 DEF EndOfFile, Goto, readVars, ReadInv
    <3>7. CASE MatchTask(r)
      <4>1. /\ pc' = pc \/ pc' = [pc EXCEPT ![r] = "wild"]
            /\ line' = line /\ config' = config /\ l_numTasks' = l_numTasks
        BY <3>7 DEF MatchTask, Goto, readVars
      <4> QED
        BY <4>1 DEF ReadInv
    <3>8. CASE AllgatherEnter(r)
      BY <3>8 DEF AllgatherEnter, Goto, readVars, ReadInv
    <3>9. CASE AllgatherLeave(r)
      BY <3>9 DEF AllgatherLeave, Goto, readVars, ReadInv
    <3> QED
      BY <2>2, <3>1, <3>2, <3>3, <3>4, <3>5, <3>6, <3>7, <3>8, <3>9 DEF Step
  <2> QED
    BY <2>1, <2>2 DEF Next
<1> QED
  BY <1>1, <1>2, PTL DEF Spec

MapOf(k) == IF k = 0 THEN << >> ELSE TaskMap([q \in Rank |-> sent[q][k]])

MapInv ==
    /\ pc \in [Rank -> {"idle", "read", "match", "gather", "wild"}]
    /\ l_numTasks \in [Rank -> Nat]
    /\ sent \in [Rank -> Seq(Nat)]
    /\ collects \in [Rank -> Nat]
    /\ \A r \in Rank : Len(sent[r]) = collects[r] + (IF pc[r] = "gather" THEN 1 ELSE 0)
    /\ \A r, q \in Rank : collects[r] <= Len(sent[q])
    /\ g_taskList = [r \in Rank |-> MapOf(collects[r])]

\* Initially nothing was contributed and the maps are empty.
LEMMA MapInit == Init => MapInv
  BY DEF Init, MapInv, MapOf

\* The steps of readTaskBinding and createTaskList: they neither enter nor leave
\* the collective.
LEMMA MapUnchanged ==
  ASSUME MapInv, UNCHANGED mapVars,
         pc' \in [Rank -> {"idle", "read", "match", "gather", "wild"}],
         l_numTasks' \in [Rank -> Nat],
         \A r \in Rank : pc'[r] = "gather" <=> pc[r] = "gather"
  PROVE  MapInv'
<1>1. sent' = sent /\ collects' = collects /\ g_taskList' = g_taskList
  BY DEF mapVars
<1>2. \A k : MapOf(k)' = MapOf(k)
  BY <1>1 DEF MapOf
<1>3. \A r \in Rank : Len(sent'[r]) = collects'[r] + (IF pc'[r] = "gather" THEN 1 ELSE 0)
  BY <1>1 DEF MapInv
<1>4. g_taskList' = [r \in Rank |-> MapOf(collects[r])']
  BY <1>1, <1>2 DEF MapInv, MapOf
<1> QED
  BY <1>1, <1>3, <1>4 DEF MapInv

\* Entering the collective appends a contribution; the maps of completed calls
\* do not look at it.
LEMMA MapEnter ==
  ASSUME MapInv, NEW r \in Rank, AllgatherEnter(r)
  PROVE  MapInv'
<1>1. /\ pc[r] = "match" /\ pc' = [pc EXCEPT ![r] = "gather"]
      /\ sent' = [sent EXCEPT ![r] = Append(@, l_numTasks[r])]
      /\ l_numTasks' = l_numTasks /\ g_taskList' = g_taskList /\ collects' = collects
  BY DEF AllgatherEnter, At, Goto, readVars
<1>2. l_numTasks[r] \in Nat /\ sent[r] \in Seq(Nat)
  BY DEF MapInv
<1>3. /\ sent'[r] = Append(sent[r], l_numTasks[r])
      /\ \A q \in Rank \ {r} : sent'[q] = sent[q]
  BY <1>1 DEF MapInv
<1>4. /\ Len(sent'[r]) = Len(sent[r]) + 1
      /\ \A k \in 1 .. Len(sent[r]) : sent'[r][k] = sent[r][k]
  BY <1>2, <1>3
<1>5. sent' \in [Rank -> Seq(Nat)]
  BY <1>1, <1>2 DEF MapInv
<1>6. ASSUME NEW q \in Rank PROVE MapOf(collects[q])' = MapOf(collects[q])
  <2>1. CASE collects[q] = 0
    BY <2>1, <1>1 DEF MapOf
  <2>2. CASE collects[q] # 0
    <3>1. collects[q] \in Nat /\ \A s \in Rank : collects[q] \in 1 .. Len(sent[s])
      BY <2>2 DEF MapInv
    <3>2. PICK k : k = collects[q]
      OBVIOUS
    <3>3. \A s \in Rank : sent'[s][k] = sent[s][k]
      BY <3>1, <3>2, <1>3, <1>4
    <3>4. [s \in Rank |-> sent'[s][k]] = [s \in Rank |-> sent[s][k]]
      BY <3>3
    <3>5. MapOf(collects[q])' = TaskMap([s \in Rank |-> sent'[s][k]])
      <4>1. collects'[q] = k /\ k # 0
        BY <2>2, <1>1, <3>2
      <4>2. MapOf(collects[q])' = TaskMap([s \in Rank |-> sent'[s][collects'[q]]])
        BY <4>1 DEF MapOf
      <4> QED
        BY <4>1, <4>2
    <3>6. MapOf(collects[q]) = TaskMap([s \in Rank |-> sent[s][k]])
      BY <2>2, <3>2 DEF MapOf
    <3> QED
      BY <3>4, <3>5, <3>6
  <2> QED
    BY <2>1, <2>2
<1>7. g_taskList' = [q \in Rank |-> MapOf(collects[q])']
  BY <1>1, <1>6 DEF MapInv
<1>8. \A q \in Rank : Len(sent'[q]) = collects'[q] + (IF pc'[q] = "gather" THEN 1 ELSE 0)
  BY <1>1, <1>3, <1>4 DEF MapInv
<1>9. \A s, q \in Rank : collects'[s] <= Len(sent'[q])
  BY <1>1, <1>3, <1>4 DEF MapInv
<1>10. pc' \in [Rank -> {"idle", "read", "match", "gather", "wild"}]
  BY <1>1 DEF MapInv
<1> QED
  BY <1>1, <1>5, <1>7, <1>8, <1>9, <1>10 DEF MapInv

\* Leaving it: the map is built from the contributions of this call.
LEMMA MapLeave ==
  ASSUME MapInv, NEW r \in Rank, AllgatherLeave(r)
  PROVE  MapInv'
<1>1. PICK k : k = Len(sent[r])
  OBVIOUS
<1>2. /\ pc[r] = "gather" /\ pc' = [pc EXCEPT ![r] = "idle"]
      /\ \A q \in Rank : Len(sent[q]) >= k
      /\ g_taskList' = [g_taskList EXCEPT ![r] = TaskMap([q \in Rank |-> sent[q][k]])]
      /\ collects' = [collects EXCEPT ![r] = @ + 1]
      /\ l_numTasks' = l_numTasks /\ sent' = sent
  BY <1>1 DEF AllgatherLeave, At, Goto, readVars
<1>3. k = collects[r] + 1 /\ k \in Nat /\ k # 0 /\ collects[r] \in Nat
  BY <1>1, <1>2 DEF MapInv
<1>4. collects'[r] = k /\ \A q \in Rank \ {r} : collects'[q] = collects[q]
  BY <1>2, <1>3 DEF MapInv
<1>5. ASSUME NEW q \in Rank PROVE g_taskList'[q] = MapOf(collects[q])'
  <2>1. CASE q = r
    <3>1. g_taskList'[q] = TaskMap([s \in Rank |-> sent[s][k]])
      BY <2>1, <1>2 DEF MapInv
    <3>2. MapOf(collects[q])' = TaskMap([s \in Rank |-> sent[s][k]])
      BY <2>1, <1>2, <1>3, <1>4 DEF MapOf
    <3> QED
      BY <3>1, <3>2
  <2>2. CASE q # r
    <3>1. g_taskList'[q] = MapOf(collects[q])
      BY <2>2, <1>2 DEF MapInv
    <3>2. MapOf(collects[q])' = MapOf(collects[q])
      BY <2>2, <1>2, <1>4 DEF MapOf, TaskMap
    <3> QED
      BY <3>1, <3>2
  <2> QED
    BY <2>1, <2>2
<1>6. g_taskList' = [q \in Rank |-> g_taskList'[q]]
  BY <1>2 DEF MapInv
<1>7. g_taskList' = [q \in Rank |-> MapOf(collects[q])']
  BY <1>5, <1>6
<1>8. \A q \in Rank : Len(sent'[q]) = collects'[q] + (IF pc'[q] = "gather" THEN 1 ELSE 0)
  BY <1>1, <1>2, <1>3, <1>4 DEF MapInv
<1>9. \A s, q \in Rank : collects'[s] <= Len(sent'[q])
  BY <1>2, <1>3, <1>4 DEF MapInv
<1>10. /\ pc' \in [Rank -> {"idle", "read", "match", "gather", "wild"}]
       /\ collects' \in [Rank -> Nat]
  BY <1>2 DEF MapInv
<1> QED
  BY <1>2, <1>7, <1>8, <1>9, <1>10 DEF MapInv

\* MapInv is an invariant.
THEOREM MapInvariant == Spec => []MapInv
<1>1. ASSUME MapInv, ReadInv, ReadInv', [Next]_vars PROVE MapInv'
  <2> USE <1>1
  <2>1. CASE UNCHANGED vars
    BY <2>1, MapUnchanged DEF vars, readVars, MapInv
  <2>2. ASSUME NEW r \in Rank, Step(r) PROVE MapInv'
    <3>1. CASE \E c \in Config, sel \in Selections : CollectCall(r, c, sel)
      BY <3>1, MapUnchanged DEF CollectCall, At, Goto, MapInv
    <3>2. CASE CollectNoFile(r)
      BY <3>2, MapUnchanged DEF CollectNoFile, readVars, MapInv
    <3>3. CASE ReadComment(r)
      BY <3>3, MapUnchanged DEF ReadComment, MapInv
    <3>4. CASE ReadNumTasks(r)
      BY <3>4, MapUnchanged DEF ReadNumTasks, MapInv, ReadInv
    <3>5. CASE ReadDevice(r)
      <4>1. pc[r] = "read" /\ (pc' = pc \/ pc' = [pc EXCEPT ![r] = "wild"])
            /\ l_numTasks' = l_numTasks /\ UNCHANGED mapVars
        BY <3>5 DEF ReadDevice, AtLine, At, Goto
      <4> QED
        BY <4>1, MapUnchanged DEF MapInv
    <3>6. CASE EndOfFile(r)
      BY <3>6, MapUnchanged DEF EndOfFile, At, Goto, readVars, MapInv
    <3>7. CASE MatchTask(r)
      <4>1. pc[r] = "match" /\ (pc' = pc \/ pc' = [pc EXCEPT ![r] = "wild"])
            /\ l_numTasks' = l_numTasks /\ UNCHANGED mapVars
        BY <3>7 DEF MatchTask, At, Goto, readVars
      <4> QED
        BY <4>1, MapUnchanged DEF MapInv
    <3>8. CASE AllgatherEnter(r)
      BY <3>8, MapEnter
    <3>9. CASE AllgatherLeave(r)
      BY <3>9, MapLeave
    <3> QED
      BY <2>2, <3>1, <3>2, <3>3, <3>4, <3>5, <3>6, <3>7, <3>8, <3>9 DEF Step
  <2> QED
    BY <2>1, <2>2 DEF Next
<1> QED
  BY <1>1, MapInit, ReadInvariant, PTL DEF Spec

\* Ranks that have returned from the same number of calls of
\* OMPI_collectDevicesInfo have the same g_taskList, however far ahead of each
\* other they are.
THEOREM MapsAgree == Spec => []MapAgrees
<1>1. MapInv => MapAgrees
  BY DEF MapInv, MapAgrees
<1> QED
  BY <1>1, MapInvariant, PTL

----------------------------------------------------------------------------
(* What the map holds.  TaskMap concatenates one sequence per rank; that    *)
(* the result names each task once is an induction over the ranks, carried  *)
(* out on the set of the numbers of ranks for which it is right.            *)

NatBelow == {x \in Nat \X Nat : x[1] < x[2]}

\* Induction from a to k, for the sets that hold the numbers it is about.
LEMMA Climb ==
  ASSUME NEW a \in Nat, NEW k \in Nat, NEW S, a \in S, \A n \in a .. k - 1 : n \in S => n + 1 \in S
  PROVE  \A n \in a .. k : n \in S
<1> DEFINE T == {n \in a .. k : n \notin S}
<1>1. SUFFICES ASSUME T # {} PROVE FALSE
  OBVIOUS
<1>2. IsWellFoundedOn(NatBelow, Nat)
  BY NatLessThanWellFounded DEF OpToRel, NatBelow
<1>3. T \subseteq Nat
  OBVIOUS
<1>4. PICK m \in T : \A n \in T : << n, m >> \notin NatBelow
  <2> HIDE DEF T
  <2> QED
    BY <1>1, <1>2, <1>3, WFMin
<1>5. m # a /\ m \in a .. k /\ m \notin S
  BY <1>4
<1>6. m - 1 \in a .. k - 1 /\ m - 1 \notin S
  <2>1. m - 1 \in a .. k - 1 /\ m - 1 + 1 = m
    BY <1>5
  <2> QED
    BY <2>1, <1>5
<1>7. m - 1 \in T /\ << m - 1, m >> \in NatBelow
  BY <1>5, <1>6 DEF NatBelow
<1> QED
  BY <1>4, <1>7

\* f holds the concatenations of the first sequences of s.
Cat(a, b) == a \o b
IsFlat(s, k, f) == f = [i \in 1 .. k |-> IF i = 1 THEN s[i] ELSE Cat(f[i - 1], s[i])]

\* What a concatenation holds.
LEMMA CatIs ==
  ASSUME NEW T, NEW a \in Seq(T), NEW b \in Seq(T)
  PROVE  /\ Cat(a, b) \in Seq(T) /\ Len(Cat(a, b)) = Len(a) + Len(b)
         /\ \A k \in 1 .. Len(a) : Cat(a, b)[k] = a[k]
         /\ \A k \in Len(a) + 1 .. Len(a) + Len(b) : Cat(a, b)[k] = b[k - Len(a)]
<1>1. Len(a) \in Nat /\ Len(b) \in Nat
  OBVIOUS
<1>2. a \o b \in Seq(T)
  OBVIOUS
<1>3. Len(a \o b) = Len(a) + Len(b)
  OBVIOUS
<1>4. \A k \in 1 .. Len(a) + Len(b) : (a \o b)[k] = IF k <= Len(a) THEN a[k] ELSE b[k - Len(a)]
  OBVIOUS
<1> QED
  BY <1>1, <1>2, <1>3, <1>4 DEF Cat

\* These concatenations exist.
LEMMA FlatExists ==
  ASSUME NEW s, NEW k \in Nat \ {0}
  PROVE  \E f : IsFlat(s, k, f)
<1> DEFINE S == {m \in Nat : \E f : IsFlat(s, m, f)}
<1>1. 1 \in S
  <2>1. IsFlat(s, 1, [i \in 1 .. 1 |-> s[i]])
    BY DEF IsFlat
  <2> QED
    BY <2>1
<1>2. ASSUME NEW m \in 1 .. k - 1, m \in S PROVE m + 1 \in S
  <2>1. PICK f : IsFlat(s, m, f)
    BY <1>2
  <2> DEFINE g == [i \in 1 .. m + 1 |-> IF i = m + 1 THEN Cat(f[m], s[i]) ELSE f[i]]
  <2>2. m \in Nat /\ m >= 1
    BY <1>2
  <2>3. \A i \in 1 .. m : f[i] = IF i = 1 THEN s[i] ELSE Cat(f[i - 1], s[i])
    BY <2>1 DEF IsFlat
  <2>4. \A i \in 1 .. m : g[i] = f[i]
    BY <2>2
  <2>5. g[m + 1] = Cat(g[m], s[m + 1])
    BY <2>2, <2>4
  <2>6. ASSUME NEW i \in 1 .. m + 1 PROVE g[i] = IF i = 1 THEN s[i] ELSE Cat(g[i - 1], s[i])
    <3>1. CASE i = m + 1
      <4>1. i # 1 /\ i - 1 = m
        BY <2>2, <3>1
      <4> HIDE DEF g
      <4> QED
        BY <4>1, <2>5, <3>1
    <3>2. CASE i # m + 1
      <4>1. i \in 1 .. m /\ (i # 1 => i - 1 \in 1 .. m)
        BY <2>2, <3>2
      <4> HIDE DEF g
      <4> QED
        BY <4>1, <2>3, <2>4
    <3> QED
      BY <3>1, <3>2
  <2>7. IsFlat(s, m + 1, g)
    <3>1. DOMAIN g = 1 .. m + 1 /\ g = [i \in 1 .. m + 1 |-> g[i]]
      OBVIOUS
    <3> HIDE DEF g
    <3> QED
      BY <3>1, <2>6 DEF IsFlat
  <2> QED
    BY <2>2, <2>7
<1>3. k \in S
  <2> HIDE DEF S
  <2> QED
    BY <1>1, <1>2, Climb
<1> QED
  BY <1>3

\* FlattenSeq is the last of them.
LEMMA FlattenIs ==
  ASSUME NEW s, Len(s) \in Nat \ {0}
  PROVE  \E f : IsFlat(s, Len(s), f) /\ FlattenSeq(s) = f[Len(s)]
<1>1. \E f : IsFlat(s, Len(s), f)
  BY FlatExists
<1> QED
  BY <1>1 DEF IsFlat, FlattenSeq, Cat

\* The entries of rank q, and that y names the tasks of the first m ranks once each.
Task    == [r_rank : Rank, l_taskIdx : Nat]
Part(RKS, q) == [j \in 1 .. RKS[q] |-> [r_rank |-> q, l_taskIdx |-> j - 1]]
Names(y, m, RKS) ==
    /\ y \in Seq(Task)
    /\ \A k \in 1 .. Len(y) : /\ y[k].r_rank \in 0 .. m - 1
                              /\ y[k].l_taskIdx \in 0 .. RKS[y[k].r_rank] - 1
    /\ \A q \in 0 .. m - 1 : \A t \in 0 .. RKS[q] - 1 :
          \E k \in 1 .. Len(y) : y[k].r_rank = q /\ y[k].l_taskIdx = t
    /\ \A k, l \in 1 .. Len(y) :
          y[k].r_rank = y[l].r_rank /\ y[k].l_taskIdx = y[l].l_taskIdx => k = l

\* The entries of one rank.
LEMMA PartIs ==
  ASSUME NEW RKS \in [Rank -> Nat], NEW q \in Rank
  PROVE  /\ Part(RKS, q) \in Seq(Task) /\ Len(Part(RKS, q)) = RKS[q] /\ RKS[q] \in Nat
         /\ \A j \in 1 .. RKS[q] : /\ Part(RKS, q)[j].r_rank = q
                                   /\ Part(RKS, q)[j].l_taskIdx = j - 1
<1>1. RKS[q] \in Nat
  OBVIOUS
<1>2. \A j \in 1 .. RKS[q] : [r_rank |-> q, l_taskIdx |-> j - 1] \in Task
  BY <1>1 DEF Task
<1> QED
  BY <1>1, <1>2 DEF Part

\* Adding the entries of the next rank.
LEMMA NamesMore ==
  ASSUME NEW RKS \in [Rank -> Nat], NEW m \in Nat, m \in Rank, NEW y, Names(y, m, RKS)
  PROVE  Names(Cat(y, Part(RKS, m)), m + 1, RKS)
<1> DEFINE p == Part(RKS, m)
           z == Cat(y, p)
<1>1. /\ p \in Seq(Task) /\ Len(p) = RKS[m] /\ RKS[m] \in Nat
      /\ \A j \in 1 .. RKS[m] : p[j].r_rank = m /\ p[j].l_taskIdx = j - 1
  BY PartIs
<1>2. y \in Seq(Task) /\ Len(y) \in Nat
  BY DEF Names
<1> HIDE DEF p
<1>3. /\ z \in Seq(Task) /\ Len(z) = Len(y) + RKS[m]
      /\ \A k \in 1 .. Len(y) : z[k] = y[k]
      /\ \A k \in Len(y) + 1 .. Len(z) : z[k] = p[k - Len(y)]
  <2>1. p \in Seq(Task)
    BY <1>1
  <2>2. /\ z \in Seq(Task) /\ Len(z) = Len(y) + Len(p)
        /\ \A k \in 1 .. Len(y) : z[k] = y[k]
        /\ \A k \in Len(y) + 1 .. Len(y) + Len(p) : z[k] = p[k - Len(y)]
    BY <1>2, <2>1, CatIs, Zenon
  <2> HIDE DEF z
  <2> QED
    BY <1>1, <2>2
<1> HIDE DEF z
<1>4. ASSUME NEW k \in 1 .. Len(z), ~(k \in 1 .. Len(y))
      PROVE  z[k].r_rank = m /\ z[k].l_taskIdx = k - Len(y) - 1 /\ k - Len(y) \in 1 .. RKS[m]
  <2>1. k \in Len(y) + 1 .. Len(z) /\ k - Len(y) \in 1 .. RKS[m]
    BY <1>1, <1>2, <1>3, <1>4
  <2> QED
    BY <1>1, <1>3, <2>1
<1>5. ASSUME NEW k \in 1 .. Len(y)
      PROVE  /\ k \in 1 .. Len(z) /\ z[k] = y[k] /\ z[k].r_rank \in 0 .. m - 1
             /\ z[k].l_taskIdx \in 0 .. RKS[z[k].r_rank] - 1
  BY <1>1, <1>2, <1>3 DEF Names
<1>6. ASSUME NEW k \in 1 .. Len(z)
      PROVE  z[k].r_rank \in 0 .. m /\ z[k].l_taskIdx \in 0 .. RKS[z[k].r_rank] - 1
  <2>1. CASE k \in 1 .. Len(y)
    <3>1. z[k].r_rank \in 0 .. m - 1 /\ z[k].l_taskIdx \in 0 .. RKS[z[k].r_rank] - 1
      BY <1>5, <2>1
    <3> QED
      BY <3>1
  <2>2. CASE ~(k \in 1 .. Len(y))
    <3>1. z[k].r_rank = m /\ z[k].l_taskIdx = k - Len(y) - 1 /\ k - Len(y) \in 1 .. RKS[m]
      BY <1>4, <2>2
    <3>2. k - Len(y) - 1 \in 0 .. RKS[m] - 1
      BY <1>1, <1>2, <3>1
    <3> QED
      BY <3>1, <3>2
  <2> QED
    BY <2>1, <2>2
<1>7. ASSUME NEW q \in 0 .. m, NEW t \in 0 .. RKS[q] - 1
      PROVE  \E k \in 1 .. Len(z) : z[k].r_rank = q /\ z[k].l_taskIdx = t
  <2>1. CASE q = m
    <3> DEFINE k == Len(y) + t + 1
    <3>1. k \in 1 .. Len(z) /\ ~(k \in 1 .. Len(y)) /\ k - Len(y) - 1 = t
      BY <1>1, <1>2, <1>3, <2>1
    <3> HIDE DEF k
    <3> QED
      BY <1>4, <2>1, <3>1
  <2>2. CASE q # m
    <3>1. q \in 0 .. m - 1
      BY <2>2
    <3>2. PICK k \in 1 .. Len(y) : y[k].r_rank = q /\ y[k].l_taskIdx = t
      BY <3>1 DEF Names
    <3> QED
      BY <1>5, <3>2
  <2> QED
    BY <2>1, <2>2
<1>8. ASSUME NEW k \in 1 .. Len(z), NEW l \in 1 .. Len(z),
             z[k].r_rank = z[l].r_rank, z[k].l_taskIdx = z[l].l_taskIdx
      PROVE  k = l
  <2>1. \A x \in 0 .. m - 1 : x # m
    OBVIOUS
  <2>2. CASE k \in 1 .. Len(y) /\ l \in 1 .. Len(y)
    BY <1>5, <1>8, <2>2 DEF Names
  <2>3. CASE k \in 1 .. Len(y) /\ ~(l \in 1 .. Len(y))
    BY <1>4, <1>5, <1>8, <2>1, <2>3
  <2>4. CASE ~(k \in 1 .. Len(y)) /\ l \in 1 .. Len(y)
    BY <1>4, <1>5, <1>8, <2>1, <2>4
  <2>5. CASE ~(k \in 1 .. Len(y)) /\ ~(l \in 1 .. Len(y))
    <3>1. z[k].l_taskIdx = k - Len(y) - 1 /\ z[l].l_taskIdx = l - Len(y) - 1
      BY <1>4, <2>5
    <3>2. Len(z) \in Nat
      BY <1>1, <1>2, <1>3
    <3>3. k - Len(y) - 1 = l - Len(y) - 1
      BY <1>8, <3>1
    <3>4. k \in Int /\ l \in Int /\ Len(y) \in Int
      BY <1>2, <3>2
    <3> QED
      BY <3>3, <3>4
  <2> QED
    BY <2>2, <2>3, <2>4, <2>5
<1>9. m + 1 - 1 = m
  OBVIOUS
<1>10. Names(z, m + 1, RKS)
  BY <1>3, <1>6, <1>7, <1>8, <1>9 DEF Names
<1> QED
  BY <1>10 DEF z, p

\* The map names every task of every rank exactly once.
LEMMA TaskMapNames ==
  ASSUME NEW RKS \in [Rank -> Nat]
  PROVE  Names(TaskMap(RKS), NumRanks, RKS)
<1> DEFINE s == [i \in 1 .. NumRanks |-> Part(RKS, i - 1)]
<1>1. NumRanks \in Nat \ {0}
  BY TaskBindingAssumption
<1>2. Len(s) = NumRanks /\ TaskMap(RKS) = FlattenSeq(s)
  BY <1>1 DEF TaskMap, Part
<1>3. \A i \in 1 .. NumRanks : s[i] = Part(RKS, i - 1)
  OBVIOUS
<1> HIDE DEF s
<1>4. PICK f : IsFlat(s, NumRanks, f) /\ TaskMap(RKS) = f[NumRanks]
  BY <1>1, <1>2, FlattenIs
<1>5. \A i \in 1 .. NumRanks : f[i] = IF i = 1 THEN s[i] ELSE Cat(f[i - 1], s[i])
  BY <1>4 DEF IsFlat
<1> DEFINE S == {m \in Nat : Names(f[m], m, RKS)}
<1>6. 1 \in S
  <2>1. 1 \in 1 .. NumRanks /\ 0 \in Rank /\ 1 - 1 = 0
    BY <1>1 DEF Rank
  <2>2. f[1] = Part(RKS, 0)
    BY <1>3, <1>5, <2>1
  <2>3. Names(<< >>, 0, RKS)
    BY DEF Names
  <2>4. Part(RKS, 0) \in Seq(Task)
    BY <2>1, PartIs
  <2>5. Cat(<< >>, Part(RKS, 0)) = Part(RKS, 0)
    BY <2>4 DEF Cat
  <2>6. Names(Cat(<< >>, Part(RKS, 0)), 0 + 1, RKS)
    BY <2>1, <2>3, NamesMore
  <2> QED
    BY <2>2, <2>5, <2>6
<1>7. ASSUME NEW m \in 1 .. NumRanks - 1, m \in S PROVE m + 1 \in S
  <2>1. m \in Nat /\ m \in Rank /\ m + 1 \in 1 .. NumRanks /\ m + 1 # 1 /\ m + 1 - 1 = m
    BY <1>1, <1>7 DEF Rank
  <2>2. f[m + 1] = Cat(f[m], Part(RKS, m))
    <3>1. f[m + 1] = Cat(f[m + 1 - 1], s[m + 1])
      BY <1>5, <2>1
    <3>2. s[m + 1] = Part(RKS, m + 1 - 1)
      BY <1>3, <2>1
    <3> QED
      BY <2>1, <3>1, <3>2
  <2>3. Names(Cat(f[m], Part(RKS, m)), m + 1, RKS)
    BY <1>7, <2>1, NamesMore
  <2> QED
    BY <2>1, <2>2, <2>3
<1>8. NumRanks \in S
  <2> HIDE DEF S
  <2> QED
    BY <1>1, <1>6, <1>7, Climb
<1> QED
  BY <1>4, <1>8

----------------------------------------------------------------------------
(* Types, and the map against the lists.  While a rank is in a call, or     *)
(* between two calls, its taskList has the length it has contributed.       *)

\* The variables of readTaskBinding keep their types.
LEMMA ReadTypes == Spec => []ReadType
<1>1. Init => ReadType
  <2> SUFFICES ASSUME Init PROVE ReadType
    OBVIOUS
  <2>1. << >> \in Seq(Slot)
    OBVIOUS
  <2>2. taskDevMap \in [Rank -> Seq(Slot)]
    BY <2>1 DEF Init
  <2>3. aborted \in BOOLEAN
    BY Zenon DEF Init
  <2>4. /\ config \in [Rank -> Config \cup {NoFile}]
        /\ devSelection \in [Rank -> Selections \cup {"none"}]
    BY DEF Init
  <2>5. /\ pc \in [Rank -> {"idle", "read", "match", "gather", "wild"}]
        /\ line \in [Rank -> Nat \ {0}]
        /\ devType \in [Rank -> DevType \cup {"unset", "default"}]
        /\ l_numTasks \in [Rank -> Nat] /\ currentMin \in [Rank -> Nat]
    BY DEF Init
  <2> QED
    BY <2>2, <2>3, <2>4, <2>5, Zenon DEF ReadType
<1>2. ASSUME ReadType, ReadInv, [Next]_vars PROVE ReadType'
  <2> USE <1>2
  <2>1. CASE UNCHANGED vars
    BY <2>1 DEF vars, readVars, ReadType
  <2>2. ASSUME NEW r \in Rank, Step(r) PROVE ReadType'
    <3>1. ASSUME NEW c \in Config, NEW sel \in Selections, CollectCall(r, c, sel) PROVE ReadType'
      <4>1. << >> \in Seq(Slot)
        OBVIOUS
      <4> QED
        BY <3>1, <4>1 DEF CollectCall, Goto, ReadType
    <3>2. CASE CollectNoFile(r)
      BY <3>2 DEF CollectNoFile, readVars, ReadType
    <3>3. CASE ReadComment(r)
      BY <3>3 DEF ReadComment, NextLine, ReadType
    <3>4. ASSUME At(r, "read"), line[r] <= Len(config[r])
          PROVE  Line(r) \in LineOf
      <4>1. config[r] \in Seq(LineOf) /\ line[r] \in 1 .. Len(config[r])
        BY <3>4 DEF At, ReadInv
      <4> QED
        BY <4>1 DEF Line
    <3>5. CASE ReadNumTasks(r)
      <4>1. Line(r).n \in Nat
        BY <3>4, <3>5 DEF ReadNumTasks, AtLine, LineOf
      <4> QED
        BY <3>5, <4>1 DEF ReadNumTasks, NextLine, ReadType
    <3>6. CASE ReadDevice(r)
      <4>1. Line(r) \in LineOf
        BY <3>4, <3>6 DEF ReadDevice, AtLine
      <4>2. PICK k \in TypesOf(r) :
              /\ devType' = [devType EXCEPT ![r] = k]
              /\ \/ UNCHANGED << pc, currentMin, taskDevMap >>
                 \/ Goto(r, "wild") /\ UNCHANGED << currentMin, taskDevMap >>
                 \/ /\ << k, Line(r).id >> \in Device
                    /\ taskDevMap' = [taskDevMap EXCEPT ![r] = Append(@,
                          [mappedDevice |-> << k, Line(r).id >>, min_tskIdx |-> currentMin[r],
                           max_tskIdx |-> currentMin[r] + Line(r).n - 1])]
                    /\ currentMin' = [currentMin EXCEPT ![r] = @ + Line(r).n]
                    /\ pc' = pc
        BY <3>6 DEF ReadDevice
      <4>3. /\ line' = [line EXCEPT ![r] = @ + 1] /\ Line(r).key \in DevType \cup {"other"}
            /\ UNCHANGED << config, devSelection, l_numTasks, aborted >>
        BY <3>6 DEF ReadDevice, NextLine, AtLine
      <4>4. k \in DevType \cup {"unset", "default"}
        BY <4>3 DEF TypesOf, ReadType
      <4>5. devType' \in [Rank -> DevType \cup {"unset", "default"}] /\ line' \in [Rank -> Nat \ {0}]
        BY <4>2, <4>3, <4>4 DEF ReadType
      <4>6. CASE UNCHANGED << pc, currentMin, taskDevMap >>
        BY <4>3, <4>5, <4>6 DEF ReadType
      <4>7. CASE Goto(r, "wild") /\ UNCHANGED << currentMin, taskDevMap >>
        BY <4>3, <4>5, <4>7 DEF ReadType, Goto
      <4>8. CASE /\ << k, Line(r).id >> \in Device
                 /\ taskDevMap' = [taskDevMap EXCEPT ![r] = Append(@,
                       [mappedDevice |-> << k, Line(r).id >>, min_tskIdx |-> currentMin[r],
                        max_tskIdx |-> currentMin[r] + Line(r).n - 1])]
                 /\ currentMin' = [currentMin EXCEPT ![r] = @ + Line(r).n]
                 /\ pc' = pc
        <5>1. currentMin[r] \in Nat /\ Line(r).n \in Nat
          BY <4>1 DEF ReadType, LineOf
        <5>2. [mappedDevice |-> << k, Line(r).id >>, min_tskIdx |-> currentMin[r],
                 max_tskIdx |-> currentMin[r] + Line(r).n - 1] \in Slot
          BY <4>8, <5>1 DEF Slot
        <5>3. taskDevMap' \in [Rank -> Seq(Slot)]
          BY <4>8, <5>2 DEF ReadType
        <5>4. currentMin' \in [Rank -> Nat]
          BY <4>8, <5>1 DEF ReadType
        <5> QED
          BY <4>3, <4>5, <4>8, <5>3, <5>4 DEF ReadType
      <4> QED
        BY <4>2, <4>6, <4>7, <4>8
    <3>7. CASE EndOfFile(r)
      BY <3>7 DEF EndOfFile, Goto, readVars, ReadType
    <3>8. CASE MatchTask(r)
      <4>1. /\ pc' = pc \/ pc' = [pc EXCEPT ![r] = "wild"]
            /\ UNCHANGED << config, devSelection, readVars, aborted >>
        BY <3>8 DEF MatchTask, Goto
      <4> QED
        BY <4>1 DEF ReadType, readVars
    <3>9. CASE AllgatherEnter(r)
      BY <3>9 DEF AllgatherEnter, Goto, readVars, ReadType
    <3>10. CASE AllgatherLeave(r)
      BY <3>10 DEF AllgatherLeave, Goto, readVars, ReadType
    <3> QED
      BY <2>2, <3>1, <3>2, <3>3, <3>5, <3>6, <3>7, <3>8, <3>9, <3>10 DEF Step
  <2> QED
    BY <2>1, <2>2 DEF Next
<1> QED
  BY <1>1, <1>2, ReadInvariant, PTL DEF Spec

\* For the pc p of a rank, its completed calls c, its l_numTasks n, the domain of
\* its taskList and its contributions s.
ListOK(p, c, n, dom, s) ==
    /\ c \in 0 .. MaxCollects
    /\ p # "idle" => c < MaxCollects
    /\ p \in {"match", "gather"} => dom = 0 .. n - 1
    /\ p = "gather" => s[Len(s)] = n
    /\ p = "idle" /\ c > 0 => n = s[c] /\ dom = 0 .. n - 1

ListInv ==
    \A r \in Rank : ListOK(pc[r], collects[r], l_numTasks[r], DOMAIN taskList[r], sent[r])

\* The call of OMPI_collectDevicesInfo of one rank leaves the others alone.
LEMMA ListStep ==
  ASSUME ListInv, NEW r \in Rank,
         ListOK(pc'[r], collects'[r], l_numTasks'[r], DOMAIN taskList'[r], sent'[r]),
         \A q \in Rank \ {r} :
             /\ pc'[q] = pc[q] /\ collects'[q] = collects[q] /\ l_numTasks'[q] = l_numTasks[q]
             /\ taskList'[q] = taskList[q] /\ sent'[q] = sent[q]
  PROVE  ListInv'
BY DEF ListInv

\* ListInv is an invariant.
THEOREM ListInvariant == Spec => []ListInv
<1>1. Init => ListInv
  BY TaskBindingAssumption DEF Init, ListInv, ListOK
<1>2. ASSUME ListInv, ReadType, MatchType, MapInv, [Next]_vars PROVE ListInv'
  <2> USE <1>2
  <2>1. CASE UNCHANGED vars
    BY <2>1 DEF vars, readVars, matchVars, mapVars, ListInv
  <2>2. ASSUME NEW r \in Rank, Step(r) PROVE ListInv'
    <3>0. /\ ListOK(pc[r], collects[r], l_numTasks[r], DOMAIN taskList[r], sent[r])
          /\ DOMAIN pc = Rank /\ DOMAIN taskList = Rank /\ DOMAIN l_numTasks = Rank
          /\ DOMAIN sent = Rank /\ DOMAIN collects = Rank
          /\ sent[r] \in Seq(Nat) /\ collects[r] \in Nat /\ l_numTasks[r] \in Nat
      BY DEF ListInv, ReadType, MatchType, MapInv
    <3>1. ASSUME NEW c \in Config, NEW sel \in Selections, CollectCall(r, c, sel) PROVE ListInv'
      <4>1. /\ pc[r] = "idle" /\ collects[r] < MaxCollects /\ pc' = [pc EXCEPT ![r] = "read"]
            /\ UNCHANGED << l_numTasks, taskList, sent, collects >>
        BY <3>1 DEF CollectCall, At, Goto, matchVars, mapVars
      <4>2. ListOK(pc'[r], collects'[r], l_numTasks'[r], DOMAIN taskList'[r], sent'[r])
        BY <3>0, <4>1 DEF ListOK
      <4> QED
        BY <3>0, <4>1, <4>2, ListStep
    <3>2. CASE CollectNoFile(r)
      BY <3>2 DEF CollectNoFile, readVars, matchVars, mapVars, ListInv
    <3>3. CASE ReadComment(r)
      BY <3>3 DEF ReadComment, matchVars, mapVars, ListInv
    <3>4. CASE ReadNumTasks(r)
      <4>1. /\ pc[r] = "read" /\ l_numTasks' = [l_numTasks EXCEPT ![r] = Line(r).n]
            /\ UNCHANGED << pc, taskList, sent, collects >>
        BY <3>4 DEF ReadNumTasks, AtLine, At, matchVars, mapVars
      <4>2. ListOK(pc'[r], collects'[r], l_numTasks'[r], DOMAIN taskList'[r], sent'[r])
        BY <3>0, <4>1 DEF ListOK
      <4> QED
        BY <3>0, <4>1, <4>2, ListStep
    <3>5. CASE ReadDevice(r)
      <4>1. /\ pc[r] = "read" /\ (pc' = pc \/ pc' = [pc EXCEPT ![r] = "wild"])
            /\ UNCHANGED << l_numTasks, taskList, sent, collects >>
        BY <3>5 DEF ReadDevice, AtLine, At, Goto, matchVars, mapVars
      <4>2. ListOK(pc'[r], collects'[r], l_numTasks'[r], DOMAIN taskList'[r], sent'[r])
        BY <3>0, <4>1 DEF ListOK
      <4> QED
        BY <3>0, <4>1, <4>2, ListStep
    <3>6. CASE EndOfFile(r)
      <4>1. /\ pc[r] = "read" /\ pc' = [pc EXCEPT ![r] = "match"]
            /\ taskList' = [taskList EXCEPT ![r] = [t \in 0 .. l_numTasks[r] - 1 |-> Unbound]]
            /\ UNCHANGED << l_numTasks, sent, collects >>
        BY <3>6 DEF EndOfFile, At, Goto, readVars, mapVars
      <4>2. ListOK(pc'[r], collects'[r], l_numTasks'[r], DOMAIN taskList'[r], sent'[r])
        BY <3>0, <4>1 DEF ListOK
      <4> QED
        BY <3>0, <4>1, <4>2, ListStep
    <3>7. CASE MatchTask(r)
      <4>1. /\ pc[r] = "match" /\ (pc' = pc \/ pc' = [pc EXCEPT ![r] = "wild"])
            /\ UNCHANGED << l_numTasks, sent, collects >>
            /\ taskList' = taskList \/ \E t, e : taskList' = [taskList EXCEPT ![r][t] = e]
        BY <3>7 DEF MatchTask, At, Goto, readVars, mapVars, matchVars
      <4>2. DOMAIN taskList'[r] = DOMAIN taskList[r] /\ \A q \in Rank \ {r} : taskList'[q] = taskList[q]
        BY <3>0, <4>1
      <4>3. ListOK(pc'[r], collects'[r], l_numTasks'[r], DOMAIN taskList'[r], sent'[r])
        BY <3>0, <4>1, <4>2 DEF ListOK
      <4> QED
        BY <3>0, <4>1, <4>2, <4>3, ListStep
    <3>8. CASE AllgatherEnter(r)
      <4>1. /\ pc[r] = "match" /\ pc' = [pc EXCEPT ![r] = "gather"]
            /\ sent' = [sent EXCEPT ![r] = Append(@, l_numTasks[r])]
            /\ UNCHANGED << l_numTasks, taskList, collects >>
        BY <3>8 DEF AllgatherEnter, At, Goto, readVars, matchVars
      <4>2. sent'[r][Len(sent'[r])] = l_numTasks[r]
        BY <3>0, <4>1
      <4>3. ListOK(pc'[r], collects'[r], l_numTasks'[r], DOMAIN taskList'[r], sent'[r])
        BY <3>0, <4>1, <4>2 DEF ListOK
      <4> QED
        BY <3>0, <4>1, <4>3, ListStep
    <3>9. CASE AllgatherLeave(r)
      <4>1. /\ pc[r] = "gather" /\ pc' = [pc EXCEPT ![r] = "idle"]
            /\ collects' = [collects EXCEPT ![r] = @ + 1]
            /\ UNCHANGED << l_numTasks, taskList, sent >>
        BY <3>9 DEF AllgatherLeave, At, Goto, readVars, matchVars
      <4>2. Len(sent[r]) = collects[r] + 1
        BY <4>1 DEF MapInv
      <4>3. ListOK(pc'[r], collects'[r], l_numTasks'[r], DOMAIN taskList'[r], sent'[r])
        BY <3>0, <4>1, <4>2, TaskBindingAssumption DEF ListOK
      <4> QED
        BY <3>0, <4>1, <4>3, ListStep
    <3> QED
      BY <2>2, <3>1, <3>2, <3>3, <3>4, <3>5, <3>6, <3>7, <3>8, <3>9 DEF Step
  <2> QED
    BY <2>1, <2>2 DEF Next
<1>3. RackInv => MatchType
  BY DEF RackInv
<1> QED
  BY <1>1, <1>2, <1>3, RackInvariant, ReadTypes, MapInvariant, PTL DEF Spec

\* What the last map of a rank is made of.
LEMMA MapIs ==
  ASSUME MapInv, NEW r \in Rank
  PROVE  /\ g_taskList[r] \in Seq(Task)
         /\ collects[r] > 0 => Names(g_taskList[r], NumRanks, [q \in Rank |-> sent[q][collects[r]]])
<1>1. g_taskList[r] = MapOf(collects[r]) /\ collects[r] \in Nat
  BY DEF MapInv
<1>2. CASE collects[r] = 0
  BY <1>1, <1>2 DEF MapOf
<1>3. CASE collects[r] # 0
  <2>1. PICK k : k = collects[r]
    OBVIOUS
  <2>2. k \in Nat /\ \A q \in Rank : k \in 1 .. Len(sent[q]) /\ sent[q] \in Seq(Nat)
    BY <1>1, <1>3, <2>1 DEF MapInv
  <2>3. [q \in Rank |-> sent[q][k]] \in [Rank -> Nat]
    BY <2>2
  <2>4. g_taskList[r] = TaskMap([q \in Rank |-> sent[q][k]])
    BY <1>1, <1>3, <2>1 DEF MapOf
  <2>5. Names(TaskMap([q \in Rank |-> sent[q][k]]), NumRanks, [q \in Rank |-> sent[q][k]])
    BY <2>3, TaskMapNames
  <2>6. [q \in Rank |-> sent[q][k]] = [q \in Rank |-> sent[q][collects[r]]]
    BY <2>1
  <2>7. Names(g_taskList[r], NumRanks, [q \in Rank |-> sent[q][collects[r]]])
    BY <2>4, <2>5, <2>6, Zenon
  <2> QED
    BY <2>7 DEF Names
<1> QED
  BY <1>2, <1>3

\* All variables keep their types, for every file, selection and number of calls:
\* even after an access outside an array, nothing in the model is ill-typed.
THEOREM BindingTypes == Spec => []TypeOK
<1>1. RackInv => MatchType
  BY DEF RackInv
<1>2. MapInv /\ ListInv => MapType
  <2> SUFFICES ASSUME MapInv, ListInv PROVE MapType
    OBVIOUS
  <2>1. \A r \in Rank : g_taskList[r] \in Seq([r_rank : Rank, l_taskIdx : Nat])
    BY MapIs DEF Task
  <2>2. g_taskList \in [Rank -> Seq([r_rank : Rank, l_taskIdx : Nat])]
    BY <2>1 DEF MapInv
  <2>3. collects \in [Rank -> 0 .. MaxCollects]
    BY DEF MapInv, ListInv, ListOK
  <2> QED
    BY <2>2, <2>3 DEF MapInv, MapType
<1> QED
  BY <1>1, <1>2, ReadTypes, RackInvariant, MapInvariant, ListInvariant, PTL DEF TypeOK

\* The global map of a rank names every task in the taskList of every rank, by
\* its rank and its index, exactly once - for every file and any number of
\* ranks, calls and tasks per rank, ranks without tasks included.
THEOREM MapsNameEveryTask == Spec => []MapNamesEveryTask
<1>1. MapInv /\ ListInv => MapNamesEveryTask
  <2> SUFFICES ASSUME MapInv, ListInv, NEW r \in Rank, NEW q \in Rank,
                      pc[q] = "idle", collects[r] = collects[q], collects[r] > 0
               PROVE  LET mine == {k \in DOMAIN g_taskList[r] : g_taskList[r][k].r_rank = q} IN
                      /\ {g_taskList[r][k].l_taskIdx : k \in mine} = DOMAIN taskList[q]
                      /\ \A k, m \in mine :
                            g_taskList[r][k].l_taskIdx = g_taskList[r][m].l_taskIdx => k = m
    BY DEF MapNamesEveryTask
  <2> DEFINE RKS  == [x \in Rank |-> sent[x][collects[r]]]
             y    == g_taskList[r]
             mine == {k \in DOMAIN y : y[k].r_rank = q}
  <2>1. Names(y, NumRanks, RKS)
    BY MapIs
  <2>2. RKS[q] = l_numTasks[q] /\ DOMAIN taskList[q] = 0 .. RKS[q] - 1
    BY DEF ListInv, ListOK
  <2>3. q \in 0 .. NumRanks - 1
    BY DEF Rank
  <2> HIDE DEF RKS, y
  <2>4. DOMAIN y = 1 .. Len(y)
    BY <2>1 DEF Names
  <2>5. \A k \in mine : y[k].l_taskIdx \in 0 .. RKS[q] - 1
    BY <2>1, <2>4 DEF Names
  <2>6. \A t \in 0 .. RKS[q] - 1 : \E k \in mine : y[k].l_taskIdx = t
    BY <2>1, <2>3, <2>4, SMTT(30) DEF Names
  <2>7. \A k, m \in mine : y[k].l_taskIdx = y[m].l_taskIdx => k = m
    BY <2>1, <2>4 DEF Names
  <2>8. {y[k].l_taskIdx : k \in mine} = 0 .. RKS[q] - 1
    <3> HIDE DEF mine
    <3> QED
      BY <2>5, <2>6
  <2> QED
    BY <2>2, <2>7, <2>8 DEF y
<1> QED
  BY <1>1, MapInvariant, ListInvariant, PTL

----------------------------------------------------------------------------
(* Files that match.  If they do (Careful), then a rank that has read a     *)
(* part of its file has the slots and the number of tasks of that part, and *)
(* the slots cover these tasks; the end of the file hands this on to        *)
(* createTaskList, which binds one task per turn.                           *)

\* The slots of a rank cover the tasks asked for so far.
Covered(map, n) ==
    \A t \in 0 .. n - 1 : \E i \in 1 .. Len(map) : map[i].min_tskIdx <= t /\ t <= map[i].max_tskIdx

\* A rank that has read the lines before m.
ReadUpTo(c, m, typ, n, map, num) ==
    /\ m \in 1 .. Len(c) + 1
    /\ n = Asked(c)[m - 1] /\ Len(map) = Filled(c)[m - 1]
    /\ IF typ = "unset" THEN \A l \in 1 .. m - 1 : c[l].key \notin DevType
       ELSE \E l \in 1 .. m - 1 : IsLast(c, m - 1, l, DevType) /\ typ = c[l].key
    /\ \A l \in 1 .. m - 1 : IsLast(c, m - 1, l, {"l_numTasks"}) => num = c[l].n

BindOK(r) ==
    /\ pc[r] # "wild"
    /\ pc[r] \in {"read", "match"} =>
          /\ config[r] \in Config \ {NoFile} /\ devSelection[r] \in Selections
          /\ Covered(taskDevMap[r], currentMin[r])
    /\ pc[r] = "read" =>
          ReadUpTo(config[r], line[r], devType[r], currentMin[r], taskDevMap[r], l_numTasks[r])
    /\ pc[r] = "match" =>
          /\ l_numTasks[r] = Asked(config[r])[Len(config[r])] /\ currentMin[r] = l_numTasks[r]
          /\ task[r] <= l_numTasks[r] /\ Bound(r) = 0 .. task[r] - 1
    /\ pc[r] = "gather" \/ (pc[r] = "idle" /\ collects[r] > 0) => Bound(r) = 0 .. l_numTasks[r] - 1

BindInv == \A r \in Rank : BindOK(r)

\* s holds the sums of the first k elements of w.
IsSums(w, k, s) == s = [m \in 0 .. k |-> IF m = 0 THEN 0 ELSE s[m - 1] + w[m]]

\* These sums exist.
LEMMA SumsExist ==
  ASSUME NEW w, NEW k \in Nat
  PROVE  \E s : IsSums(w, k, s)
<1> DEFINE S == {m \in Nat : \E s : IsSums(w, m, s)}
<1>1. 0 \in S
  <2>1. IsSums(w, 0, [m \in 0 .. 0 |-> 0])
    BY DEF IsSums
  <2> QED
    BY <2>1
<1>2. ASSUME NEW m \in 0 .. k - 1, m \in S PROVE m + 1 \in S
  <2>1. PICK s : IsSums(w, m, s)
    BY <1>2
  <2> DEFINE g == [i \in 0 .. m + 1 |-> IF i = m + 1 THEN s[m] + w[i] ELSE s[i]]
  <2>2. m \in Nat
    BY <1>2
  <2>3. \A i \in 0 .. m : s[i] = IF i = 0 THEN 0 ELSE s[i - 1] + w[i]
    BY <2>1 DEF IsSums
  <2>4. \A i \in 0 .. m : g[i] = s[i]
    BY <2>2
  <2>5. g[m + 1] = g[m] + w[m + 1]
    BY <2>2, <2>4
  <2>6. ASSUME NEW i \in 0 .. m + 1 PROVE g[i] = IF i = 0 THEN 0 ELSE g[i - 1] + w[i]
    <3>1. CASE i = m + 1
      <4>1. i # 0 /\ i - 1 = m
        BY <2>2, <3>1
      <4> HIDE DEF g
      <4> QED
        BY <4>1, <2>5, <3>1
    <3>2. CASE i # m + 1
      <4>1. i \in 0 .. m /\ (i # 0 => i - 1 \in 0 .. m)
        BY <2>2, <3>2
      <4> HIDE DEF g
      <4> QED
        BY <4>1, <2>3, <2>4
    <3> QED
      BY <3>1, <3>2
  <2>7. IsSums(w, m + 1, g)
    <3>1. DOMAIN g = 0 .. m + 1 /\ g = [i \in 0 .. m + 1 |-> g[i]]
      OBVIOUS
    <3> HIDE DEF g
    <3> QED
      BY <3>1, <2>6 DEF IsSums
  <2> QED
    BY <2>2, <2>7
<1>3. k \in S
  <2> HIDE DEF S
  <2> QED
    BY <1>1, <1>2, Climb
<1> QED
  BY <1>3

\* What the sums are, and that they grow.
LEMMA SumsAre ==
  ASSUME NEW w \in Seq(Nat)
  PROVE  /\ Sums(w)[0] = 0
         /\ \A m \in 1 .. Len(w) : Sums(w)[m] = Sums(w)[m - 1] + w[m]
         /\ \A m \in 0 .. Len(w) : Sums(w)[m] \in Nat /\ Sums(w)[m] <= Sums(w)[Len(w)]
<1> DEFINE L == Len(w)
           s == Sums(w)
<1>1. L \in Nat /\ \A m \in 1 .. L : w[m] \in Nat
  OBVIOUS
<1>2. IsSums(w, L, s)
  <2>1. \E x : IsSums(w, Len(w), x)
    BY <1>1, SumsExist
  <2> QED
    BY <2>1 DEF IsSums, Sums
<1> HIDE DEF s
<1>3. s[0] = 0 /\ \A m \in 1 .. L : s[m] = s[m - 1] + w[m]
  BY <1>1, <1>2 DEF IsSums
<1> HIDE DEF L
<1>4. \A m \in 0 .. L : s[m] \in Nat
  <2> DEFINE S == {m \in Nat : s[m] \in Nat}
  <2>1. 0 \in S
    BY <1>3
  <2>2. ASSUME NEW m \in 0 .. L - 1, m \in S PROVE m + 1 \in S
    <3>1. m + 1 \in 1 .. L /\ m + 1 - 1 = m /\ m + 1 \in Nat
      BY <1>1, <2>2
    <3>2. s[m + 1] = s[m] + w[m + 1]
      BY <1>3, <3>1
    <3> QED
      BY <1>1, <2>2, <3>1, <3>2
  <2>3. \A m \in 0 .. L : m \in S
    <3> HIDE DEF S
    <3> QED
      BY <1>1, <2>1, <2>2, Climb
  <2> QED
    BY <2>3
<1>5. ASSUME NEW k \in 0 .. L PROVE s[k] <= s[L]
  <2> DEFINE S == {m \in Nat : s[k] <= s[m]}
  <2>1. k \in S /\ k \in Nat
    BY <1>1, <1>4
  <2>2. ASSUME NEW m \in k .. L - 1, m \in S PROVE m + 1 \in S
    <3>1. m + 1 \in 1 .. L /\ m + 1 - 1 = m /\ m + 1 \in Nat /\ m \in 0 .. L /\ m + 1 \in 0 .. L
      BY <1>1, <2>2
    <3>2. s[m + 1] = s[m] + w[m + 1]
      BY <1>3, <3>1
    <3>3. s[k] <= s[m] /\ s[k] \in Nat /\ s[m] \in Nat /\ w[m + 1] \in Nat
      BY <1>1, <1>4, <2>2, <3>1
    <3> QED
      BY <3>1, <3>2, <3>3
  <2>3. L \in S
    <3>1. \A m \in k .. L : m \in S
      <4> HIDE DEF S
      <4> QED
        BY <1>1, <2>1, <2>2, Climb
    <3> QED
      BY <1>1, <3>1
  <2> QED
    BY <2>3
<1> QED
  BY <1>3, <1>4, <1>5 DEF L, s

\* The sums of a file.
LEMMA FileSums ==
  ASSUME NEW c \in Seq(LineOf)
  PROVE  /\ Asked(c)[0] = 0 /\ Filled(c)[0] = 0 /\ Len(c) \in Nat
         /\ \A m \in 0 .. Len(c) : Asked(c)[m] \in Nat /\ Filled(c)[m] \in Nat /\ Filled(c)[m] <= Filled(c)[Len(c)]
         /\ \A m \in 1 .. Len(c) :
               /\ IsDeviceLine(c[m]) => /\ Asked(c)[m] = Asked(c)[m - 1] + c[m].n
                                        /\ Filled(c)[m] = Filled(c)[m - 1] + 1
               /\ ~IsDeviceLine(c[m]) => Asked(c)[m] = Asked(c)[m - 1] /\ Filled(c)[m] = Filled(c)[m - 1]
               /\ c[m] \in LineOf /\ c[m].n \in Nat
<1>1. Len(c) \in Nat /\ \A m \in 1 .. Len(c) : c[m] \in LineOf /\ c[m].n \in Nat
  <2>1. Len(c) \in Nat /\ \A m \in 1 .. Len(c) : c[m] \in LineOf
    OBVIOUS
  <2>2. \A x \in LineOf : x.n \in Nat
    BY DEF LineOf
  <2> QED
    BY <2>1, <2>2
<1>2. AskedBy(c) \in Seq(Nat) /\ Len(AskedBy(c)) = Len(c)
      /\ \A m \in 1 .. Len(c) : AskedBy(c)[m] = IF IsDeviceLine(c[m]) THEN c[m].n ELSE 0
  <2>1. \A m \in 1 .. Len(c) : (IF IsDeviceLine(c[m]) THEN c[m].n ELSE 0) \in Nat
    BY <1>1
  <2> QED
    BY <1>1, <2>1 DEF AskedBy
<1>3. FilledBy(c) \in Seq(Nat) /\ Len(FilledBy(c)) = Len(c)
      /\ \A m \in 1 .. Len(c) : FilledBy(c)[m] = IF IsDeviceLine(c[m]) THEN 1 ELSE 0
  BY <1>1 DEF FilledBy
<1>4. /\ Asked(c)[0] = 0
      /\ \A m \in 1 .. Len(c) : Asked(c)[m] = Asked(c)[m - 1] + AskedBy(c)[m]
      /\ \A m \in 0 .. Len(c) : Asked(c)[m] \in Nat
  BY <1>2, SumsAre DEF Asked
<1>5. /\ Filled(c)[0] = 0
      /\ \A m \in 1 .. Len(c) : Filled(c)[m] = Filled(c)[m - 1] + FilledBy(c)[m]
      /\ \A m \in 0 .. Len(c) : Filled(c)[m] \in Nat /\ Filled(c)[m] <= Filled(c)[Len(c)]
  BY <1>3, SumsAre DEF Filled
<1>6. \A m \in 1 .. Len(c) : m - 1 \in 0 .. Len(c)
  BY <1>1
<1>7. ASSUME NEW m \in 1 .. Len(c)
      PROVE  /\ IsDeviceLine(c[m]) => /\ Asked(c)[m] = Asked(c)[m - 1] + c[m].n
                                      /\ Filled(c)[m] = Filled(c)[m - 1] + 1
             /\ ~IsDeviceLine(c[m]) => Asked(c)[m] = Asked(c)[m - 1] /\ Filled(c)[m] = Filled(c)[m - 1]
  <2>1. Asked(c)[m - 1] \in Nat /\ Filled(c)[m - 1] \in Nat
    BY <1>4, <1>5, <1>6
  <2> QED
    BY <1>2, <1>3, <1>4, <1>5, <2>1, SMTT(30)
<1> QED
  BY <1>1, <1>4, <1>5, <1>7

\* Reading one more line moves the last lines of a kind on.
LEMMA LastMoves ==
  ASSUME NEW c, NEW m \in Nat \ {0}, NEW keys, NEW l \in 1 .. m
  PROVE  /\ c[m].key \notin keys => (IsLast(c, m, l, keys) <=> l # m /\ IsLast(c, m - 1, l, keys))
         /\ c[m].key \in keys => (IsLast(c, m, l, keys) <=> l = m)
<1>1. \A n \in l + 1 .. m : n = m \/ n \in l + 1 .. m - 1
  OBVIOUS
<1>2. l # m => l \in 1 .. m - 1 /\ m \in l + 1 .. m
  OBVIOUS
<1>3. \A n \in l + 1 .. m - 1 : n \in l + 1 .. m
  OBVIOUS
<1>4. l = m => \A n : n \notin l + 1 .. m
  OBVIOUS
<1> QED
  BY <1>1, <1>2, <1>3, <1>4, Zenon DEF IsLast

\* There is at most one last line of a kind.
LEMMA LastUnique ==
  ASSUME NEW c, NEW m \in Nat, NEW keys, NEW l \in 1 .. m, NEW k \in 1 .. m,
         IsLast(c, m, l, keys), IsLast(c, m, k, keys)
  PROVE  l = k
<1>1. CASE l < k
  <2>1. k \in l + 1 .. m
    BY <1>1
  <2> QED
    BY <2>1 DEF IsLast
<1>2. CASE k < l
  <2>1. l \in k + 1 .. m
    BY <1>2
  <2> QED
    BY <2>1 DEF IsLast
<1> QED
  BY <1>1, <1>2

\* Reading a line that is not a device line.
LEMMA ReadOther ==
  ASSUME NEW c \in Seq(LineOf), NEW m \in 1 .. Len(c), NEW typ, NEW n, NEW map, NEW num, NEW num2,
         ReadUpTo(c, m, typ, n, map, num), ~IsDeviceLine(c[m]),
         num2 = IF c[m].key = "l_numTasks" THEN c[m].n ELSE num
  PROVE  ReadUpTo(c, m + 1, typ, n, map, num2)
<1>1. /\ Len(c) \in Nat /\ m \in Nat \ {0} /\ m + 1 - 1 = m /\ m + 1 \in 1 .. Len(c) + 1
      /\ Asked(c)[m] = Asked(c)[m - 1] /\ Filled(c)[m] = Filled(c)[m - 1]
  BY FileSums
<1>2. c[m].key \notin DevType
  BY DEF IsDeviceLine
<1>3. ASSUME typ = "unset" PROVE \A l \in 1 .. m : c[l].key \notin DevType
  <2>1. \A l \in 1 .. m : l = m \/ l \in 1 .. m - 1
    BY <1>1
  <2> QED
    BY <1>2, <1>3, <2>1 DEF ReadUpTo
<1>4. ASSUME typ # "unset" PROVE \E l \in 1 .. m : IsLast(c, m, l, DevType) /\ typ = c[l].key
  <2>1. PICK l \in 1 .. m - 1 : IsLast(c, m - 1, l, DevType) /\ typ = c[l].key
    BY <1>4 DEF ReadUpTo
  <2>2. l \in 1 .. m /\ l # m
    BY <1>1
  <2>3. IsLast(c, m, l, DevType)
    BY <1>1, <1>2, <2>1, <2>2, LastMoves
  <2> QED
    BY <2>1, <2>2, <2>3
<1>5. ASSUME NEW l \in 1 .. m, IsLast(c, m, l, {"l_numTasks"}) PROVE num2 = c[l].n
  <2>1. CASE c[m].key = "l_numTasks"
    <3>1. l = m
      BY <1>1, <1>5, <2>1, LastMoves
    <3> QED
      BY <2>1, <3>1
  <2>2. CASE c[m].key # "l_numTasks"
    <3>1. l # m /\ IsLast(c, m - 1, l, {"l_numTasks"})
      BY <1>1, <1>5, <2>2, LastMoves
    <3>2. l \in 1 .. m - 1
      BY <1>1, <3>1
    <3> QED
      BY <2>2, <3>1, <3>2 DEF ReadUpTo
  <2> QED
    BY <2>1, <2>2
<1> QED
  BY <1>1, <1>3, <1>4, <1>5 DEF ReadUpTo

\* A device line of a file that matches selects one type, and names a device.
LEMMA TypeSelected ==
  ASSUME NEW c \in Seq(LineOf), NEW m \in 1 .. Len(c), NEW typ, NEW n, NEW map, NEW num,
         ReadUpTo(c, m, typ, n, map, num), Matches(c), IsDeviceLine(c[m])
  PROVE  /\ c[m].key # "other" => /\ << c[m].key, c[m].id >> \in Device
                                  /\ IsLast(c, m, m, DevType)
         /\ c[m].key = "other" => /\ typ # "unset" /\ << typ, c[m].id >> \in Device
                                  /\ \E l \in 1 .. m : IsLast(c, m, l, DevType) /\ typ = c[l].key
<1>1. m \in Nat \ {0} /\ m \in 1 .. m
  OBVIOUS
<1>2. PICK l \in 1 .. m : IsLast(c, m, l, DevType) /\ << c[l].key, c[m].id >> \in Device
  BY DEF Matches
<1>3. ASSUME c[m].key # "other"
      PROVE  << c[m].key, c[m].id >> \in Device /\ IsLast(c, m, m, DevType)
  <2>1. c[m].key \in DevType
    BY <1>3 DEF IsDeviceLine
  <2>2. l = m
    BY <1>1, <1>2, <2>1, LastMoves
  <2> QED
    BY <1>2, <2>2
<1>4. ASSUME c[m].key = "other"
      PROVE  /\ typ # "unset" /\ << typ, c[m].id >> \in Device
             /\ \E k \in 1 .. m : IsLast(c, m, k, DevType) /\ typ = c[k].key
  <2>1. c[m].key \notin DevType
    BY <1>4 DEF DevType
  <2>2. l # m /\ IsLast(c, m - 1, l, DevType)
    BY <1>1, <1>2, <2>1, LastMoves
  <2>3. l \in 1 .. m - 1 /\ c[l].key \in DevType /\ m - 1 \in Nat
    BY <1>1, <2>2 DEF IsLast
  <2>4. typ # "unset"
    BY <2>3 DEF ReadUpTo
  <2>5. PICK k \in 1 .. m - 1 : IsLast(c, m - 1, k, DevType) /\ typ = c[k].key
    BY <2>4 DEF ReadUpTo
  <2>6. k = l
    BY <2>2, <2>3, <2>5, LastUnique
  <2> QED
    BY <1>2, <2>4, <2>5, <2>6
<1> QED
  BY <1>3, <1>4

\* Reading a device line fills one more slot, and there is one.
LEMMA ReadDeviceLine ==
  ASSUME NEW c \in Seq(LineOf), NEW m \in 1 .. Len(c), NEW typ, NEW n, NEW map, NEW num,
         ReadUpTo(c, m, typ, n, map, num), Matches(c), IsDeviceLine(c[m]),
         NEW k, k = IF c[m].key # "other" THEN c[m].key ELSE typ,
         NEW map2, Len(map2) = Len(map) + 1
  PROVE  /\ << k, c[m].id >> \in Device /\ k \in DevType /\ Len(map) # numDevices
         /\ ReadUpTo(c, m + 1, k, n + c[m].n, map2, num)
<1>1. /\ Len(c) \in Nat /\ m \in Nat \ {0} /\ m + 1 - 1 = m /\ m + 1 \in 1 .. Len(c) + 1
      /\ Asked(c)[m] = Asked(c)[m - 1] + c[m].n /\ Filled(c)[m] = Filled(c)[m - 1] + 1
      /\ Filled(c)[m] <= Filled(c)[Len(c)] /\ Filled(c)[m - 1] \in Nat /\ Filled(c)[Len(c)] \in Nat
  <2>1. m \in 0 .. Len(c) /\ m - 1 \in 0 .. Len(c) /\ Len(c) \in 0 .. Len(c)
    OBVIOUS
  <2> QED
    BY <2>1, FileSums
<1>2. << k, c[m].id >> \in Device /\ \E l \in 1 .. m : IsLast(c, m, l, DevType) /\ k = c[l].key
  <2>1. m \in 1 .. m
    OBVIOUS
  <2> QED
    BY <2>1, TypeSelected
<1>3. k \in DevType /\ k # "unset"
  <2>1. PICK l \in 1 .. m : IsLast(c, m, l, DevType) /\ k = c[l].key
    BY <1>2
  <2> QED
    BY <2>1 DEF IsLast, DevType
<1>4. Len(map) # numDevices
  <2>1. Len(map) = Filled(c)[m - 1] /\ Filled(c)[Len(c)] <= numDevices
    BY DEF ReadUpTo, Matches
  <2>2. numDevices \in Nat
    BY TaskBindingAssumption DEF numDevices, DevType
  <2> QED
    BY <1>1, <2>1, <2>2
<1>5. n + c[m].n = Asked(c)[m] /\ Len(map2) = Filled(c)[m]
  BY <1>1 DEF ReadUpTo
<1>6. ASSUME NEW l \in 1 .. m, IsLast(c, m, l, {"l_numTasks"}) PROVE num = c[l].n
  <2>1. c[m].key \notin {"l_numTasks"}
    BY DEF IsDeviceLine, DevType
  <2>2. l # m /\ IsLast(c, m - 1, l, {"l_numTasks"})
    BY <1>1, <1>6, <2>1, LastMoves
  <2>3. l \in 1 .. m - 1
    BY <1>1, <2>2
  <2> QED
    BY <2>2, <2>3 DEF ReadUpTo
<1> QED
  BY <1>1, <1>2, <1>3, <1>4, <1>5, <1>6 DEF ReadUpTo

\* The slot covers the tasks the line asks for.
LEMMA CoverMore ==
  ASSUME NEW map \in Seq(Slot), NEW n \in Nat, NEW a \in Nat, Covered(map, n), NEW s \in Slot,
         s.min_tskIdx = n, s.max_tskIdx = n + a - 1
  PROVE  Covered(Append(map, s), n + a)
<1> DEFINE b == Append(map, s)
<1>1. /\ Len(map) \in Nat /\ Len(b) = Len(map) + 1 /\ b[Len(map) + 1] = s
      /\ \A i \in 1 .. Len(map) : b[i] = map[i]
  OBVIOUS
<1> HIDE DEF b
<1>2. ASSUME NEW t \in 0 .. n + a - 1
      PROVE  \E i \in 1 .. Len(b) : b[i].min_tskIdx <= t /\ t <= b[i].max_tskIdx
  <2>1. CASE t < n
    <3>1. t \in 0 .. n - 1
      BY <2>1
    <3>2. PICK i \in 1 .. Len(map) : map[i].min_tskIdx <= t /\ t <= map[i].max_tskIdx
      BY <3>1 DEF Covered
    <3>3. i \in 1 .. Len(b)
      BY <1>1
    <3> QED
      BY <1>1, <3>2, <3>3
  <2>2. CASE ~(t < n)
    <3>1. Len(map) + 1 \in 1 .. Len(b)
      BY <1>1
    <3>2. n <= t /\ t <= n + a - 1
      BY <2>2
    <3> QED
      BY <1>1, <3>1, <3>2
  <2> QED
    BY <2>1, <2>2
<1>3. Covered(b, n + a)
  BY <1>2 DEF Covered
<1> QED
  BY <1>3 DEF b

----------------------------------------------------------------------------
\* A rank that a step leaves alone keeps its part of the invariant.
LEMMA BindStep ==
  ASSUME BindInv, NEW r \in Rank, BindOK(r)',
         \A q \in Rank \ {r} :
             /\ pc'[q] = pc[q] /\ config'[q] = config[q] /\ devSelection'[q] = devSelection[q]
             /\ line'[q] = line[q] /\ devType'[q] = devType[q] /\ currentMin'[q] = currentMin[q]
             /\ taskDevMap'[q] = taskDevMap[q] /\ l_numTasks'[q] = l_numTasks[q]
             /\ task'[q] = task[q] /\ taskList'[q] = taskList[q] /\ collects'[q] = collects[q]
  PROVE  BindInv'
<1>1. ASSUME NEW q \in Rank \ {r} PROVE BindOK(q)'
  <2>1. BindOK(q)
    BY DEF BindInv
  <2>2. /\ pc'[q] = pc[q] /\ config'[q] = config[q] /\ devSelection'[q] = devSelection[q]
        /\ line'[q] = line[q] /\ devType'[q] = devType[q] /\ currentMin'[q] = currentMin[q]
        /\ taskDevMap'[q] = taskDevMap[q] /\ l_numTasks'[q] = l_numTasks[q]
        /\ task'[q] = task[q] /\ taskList'[q] = taskList[q] /\ collects'[q] = collects[q]
    OBVIOUS
  <2>3. Bound(q)' = Bound(q)
    BY <2>2 DEF Bound
  <2> QED
    BY <2>1, <2>2, <2>3 DEF BindOK
<1>2. \A q \in Rank : BindOK(q)'
  BY <1>1
<1> QED
  BY <1>2 DEF BindInv

\* The files of careful users.
LEMMA CarefulFile ==
  ASSUME Careful, NEW c \in Config \ {NoFile}
  PROVE  c \in Seq(LineOf) /\ Matches(c) /\ Asked(c)[Len(c)] \in Nat
<1>1. c \in Seq(LineOf) /\ Matches(c)
  BY TaskBindingAssumption DEF Careful
<1>2. Len(c) \in 0 .. Len(c)
  BY <1>1
<1> QED
  BY <1>1, <1>2, FileSums

\* A call starts with nothing read.
LEMMA BindCall ==
  ASSUME Careful, TypeOK, BindInv, NEW r \in Rank,
         NEW c \in Config, NEW sel \in Selections, CollectCall(r, c, sel)
  PROVE  BindInv'
<1>1. /\ c # NoFile /\ config' = [config EXCEPT ![r] = c] /\ pc' = [pc EXCEPT ![r] = "read"]
      /\ devSelection' = [devSelection EXCEPT ![r] = sel] /\ line' = [line EXCEPT ![r] = 1]
      /\ devType' = [devType EXCEPT ![r] = "unset"] /\ currentMin' = [currentMin EXCEPT ![r] = 0]
      /\ taskDevMap' = [taskDevMap EXCEPT ![r] = << >>]
      /\ UNCHANGED << l_numTasks, task, taskList, collects >>
  BY DEF CollectCall, Goto, matchVars, mapVars
<1>2. /\ config'[r] = c /\ pc'[r] = "read" /\ devSelection'[r] = sel /\ line'[r] = 1
      /\ devType'[r] = "unset" /\ currentMin'[r] = 0 /\ taskDevMap'[r] = << >>
  BY <1>1 DEF TypeOK, ReadType
<1>3. c \in Seq(LineOf)
  BY <1>1, CarefulFile
<1>4. ReadUpTo(c, 1, "unset", 0, << >>, l_numTasks'[r])
  <2>1. Asked(c)[0] = 0 /\ Filled(c)[0] = 0 /\ Len(c) \in Nat
    BY <1>3, FileSums
  <2>2. 1 - 1 = 0 /\ 1 \in 1 .. Len(c) + 1 /\ Len(<< >>) = 0 /\ \A l : l \notin 1 .. 1 - 1
    BY <2>1
  <2> QED
    BY <2>1, <2>2 DEF ReadUpTo
<1>5. Covered(<< >>, 0)
  BY DEF Covered
<1>6. BindOK(r)'
  BY <1>1, <1>2, <1>4, <1>5 DEF BindOK
<1>7. \A q \in Rank \ {r} :
         /\ pc'[q] = pc[q] /\ config'[q] = config[q] /\ devSelection'[q] = devSelection[q]
         /\ line'[q] = line[q] /\ devType'[q] = devType[q] /\ currentMin'[q] = currentMin[q]
         /\ taskDevMap'[q] = taskDevMap[q] /\ l_numTasks'[q] = l_numTasks[q]
         /\ task'[q] = task[q] /\ taskList'[q] = taskList[q] /\ collects'[q] = collects[q]
  BY <1>1 DEF TypeOK, ReadType
<1> QED
  BY <1>6, <1>7, BindStep

\* What a rank knows at a line of its file.
LEMMA BindAtLine ==
  ASSUME Careful, TypeOK, BindInv, NEW r \in Rank, pc[r] = "read", line[r] <= Len(config[r])
  PROVE  /\ config[r] \in Config \ {NoFile} /\ config[r] \in Seq(LineOf) /\ Matches(config[r])
         /\ devSelection[r] \in Selections /\ line[r] \in 1 .. Len(config[r])
         /\ Covered(taskDevMap[r], currentMin[r])
         /\ ReadUpTo(config[r], line[r], devType[r], currentMin[r], taskDevMap[r], l_numTasks[r])
         /\ Line(r) = config[r][line[r]] /\ Line(r).n \in Nat
<1>1. /\ config[r] \in Config \ {NoFile} /\ devSelection[r] \in Selections
      /\ Covered(taskDevMap[r], currentMin[r])
      /\ ReadUpTo(config[r], line[r], devType[r], currentMin[r], taskDevMap[r], l_numTasks[r])
  BY DEF BindInv, BindOK
<1>2. config[r] \in Seq(LineOf) /\ Matches(config[r])
  BY <1>1, CarefulFile
<1>3. line[r] \in 1 .. Len(config[r])
  BY <1>2 DEF TypeOK, ReadType
<1>4. Line(r).n \in Nat
  BY <1>2, <1>3, FileSums DEF Line
<1> QED
  BY <1>1, <1>2, <1>3, <1>4 DEF Line

\* A comment or a l_numTasks line.
LEMMA BindOther ==
  ASSUME Careful, TypeOK, BindInv, NEW r \in Rank, ReadComment(r) \/ ReadNumTasks(r)
  PROVE  BindInv'
<1>1. /\ pc[r] = "read" /\ line[r] <= Len(config[r])
      /\ line' = [line EXCEPT ![r] = @ + 1] /\ Line(r).key \in {"#", "l_numTasks"}
      /\ l_numTasks' = [l_numTasks EXCEPT ![r] = IF Line(r).key = "l_numTasks" THEN Line(r).n ELSE @]
      /\ UNCHANGED << config, pc, devSelection, devType, currentMin, taskDevMap, task, taskList, collects >>
  <2>1. CASE ReadNumTasks(r)
    BY <2>1 DEF ReadNumTasks, AtLine, At, NextLine, matchVars, mapVars
  <2>2. CASE ReadComment(r)
    <3>1. Line(r).key # "l_numTasks" /\ l_numTasks' = l_numTasks
      BY <2>2 DEF ReadComment, AtLine
    <3>2. l_numTasks = [l_numTasks EXCEPT ![r] = IF Line(r).key = "l_numTasks" THEN Line(r).n ELSE @]
      BY <3>1 DEF TypeOK, ReadType
    <3> QED
      BY <2>2, <3>1, <3>2 DEF ReadComment, AtLine, At, NextLine, matchVars, mapVars
  <2> QED
    BY <2>1, <2>2
<1>2. /\ config[r] \in Config \ {NoFile} /\ config[r] \in Seq(LineOf)
      /\ devSelection[r] \in Selections /\ line[r] \in 1 .. Len(config[r])
      /\ Covered(taskDevMap[r], currentMin[r])
      /\ ReadUpTo(config[r], line[r], devType[r], currentMin[r], taskDevMap[r], l_numTasks[r])
      /\ Line(r) = config[r][line[r]]
  BY <1>1, BindAtLine
<1>3. /\ line'[r] = line[r] + 1
      /\ l_numTasks'[r] = IF Line(r).key = "l_numTasks" THEN Line(r).n ELSE l_numTasks[r]
  BY <1>1 DEF TypeOK, ReadType
<1>4. ~IsDeviceLine(config[r][line[r]])
  BY <1>1, <1>2 DEF IsDeviceLine, DevType
<1>5. ReadUpTo(config[r], line[r] + 1, devType[r], currentMin[r], taskDevMap[r], l_numTasks'[r])
  BY <1>2, <1>3, <1>4, ReadOther
<1>6. BindOK(r)'
  BY <1>1, <1>2, <1>3, <1>5 DEF BindOK
<1>7. \A q \in Rank \ {r} : line'[q] = line[q] /\ l_numTasks'[q] = l_numTasks[q]
  BY <1>1 DEF TypeOK, ReadType
<1> QED
  BY <1>1, <1>6, <1>7, BindStep

\* A device line fills a slot: the type is known, the device exists, and a slot is left.
LEMMA BindDevice ==
  ASSUME Careful, TypeOK, BindInv, NEW r \in Rank, ReadDevice(r)
  PROVE  BindInv'
<1> DEFINE kk == IF Line(r).key # "other" THEN Line(r).key ELSE devType[r]
<1>1. /\ pc[r] = "read" /\ line[r] <= Len(config[r]) /\ Line(r).key \in DevType \cup {"other"}
      /\ line' = [line EXCEPT ![r] = @ + 1]
      /\ UNCHANGED << config, devSelection, l_numTasks, task, taskList, collects >>
  BY DEF ReadDevice, AtLine, At, NextLine, matchVars, mapVars
<1>2. /\ config[r] \in Config \ {NoFile} /\ config[r] \in Seq(LineOf) /\ Matches(config[r])
      /\ devSelection[r] \in Selections /\ line[r] \in 1 .. Len(config[r])
      /\ Covered(taskDevMap[r], currentMin[r])
      /\ ReadUpTo(config[r], line[r], devType[r], currentMin[r], taskDevMap[r], l_numTasks[r])
      /\ Line(r) = config[r][line[r]] /\ Line(r).n \in Nat
  BY <1>1, BindAtLine
<1>3. IsDeviceLine(config[r][line[r]])
  BY <1>1, <1>2 DEF IsDeviceLine
<1>4. \A map2 : Len(map2) = Len(taskDevMap[r]) + 1 =>
         /\ << kk, Line(r).id >> \in Device /\ kk \in DevType /\ Len(taskDevMap[r]) # numDevices
         /\ ReadUpTo(config[r], line[r] + 1, kk, currentMin[r] + Line(r).n, map2, l_numTasks[r])
  BY <1>2, <1>3, ReadDeviceLine, SMTT(30)
<1>5. TypesOf(r) = {kk}
  <2>1. Line(r).key = "other" => devType[r] # "unset"
    BY <1>2, <1>3, TypeSelected
  <2> QED
    BY <2>1 DEF TypesOf
<1> DEFINE s == [mappedDevice |-> << kk, Line(r).id >>, min_tskIdx |-> currentMin[r],
                 max_tskIdx |-> currentMin[r] + Line(r).n - 1]
           map == Append(taskDevMap[r], s)
<1>6. taskDevMap[r] \in Seq(Slot) /\ currentMin[r] \in Nat
  BY DEF TypeOK, ReadType
<1>7. Len(map) = Len(taskDevMap[r]) + 1
  BY <1>6
<1>8. /\ << kk, Line(r).id >> \in Device /\ kk \in DevType /\ Len(taskDevMap[r]) # numDevices
      /\ ReadUpTo(config[r], line[r] + 1, kk, currentMin[r] + Line(r).n, map, l_numTasks[r])
  <2> HIDE DEF map, kk
  <2> QED
    BY <1>4, <1>7
<1>9. kk # "default"
  BY <1>8 DEF DevType
<1>10. /\ devType' = [devType EXCEPT ![r] = kk] /\ pc' = pc
       /\ taskDevMap' = [taskDevMap EXCEPT ![r] = map]
       /\ currentMin' = [currentMin EXCEPT ![r] = @ + Line(r).n]
  <2> HIDE DEF kk
  <2> QED
    BY <1>5, <1>8, <1>9 DEF ReadDevice
<1>11. Covered(map, currentMin[r] + Line(r).n)
  <2>1. s \in Slot
    BY <1>2, <1>6, <1>8 DEF Slot
  <2>2. s.min_tskIdx = currentMin[r] /\ s.max_tskIdx = currentMin[r] + Line(r).n - 1
    OBVIOUS
  <2> HIDE DEF s
  <2> QED
    BY <1>2, <1>6, <2>1, <2>2, CoverMore
<1> HIDE DEF kk, map
<1>12. /\ line'[r] = line[r] + 1 /\ devType'[r] = kk /\ taskDevMap'[r] = map
       /\ currentMin'[r] = currentMin[r] + Line(r).n
  BY <1>1, <1>10 DEF TypeOK, ReadType
<1>13. BindOK(r)'
  BY <1>1, <1>2, <1>8, <1>10, <1>11, <1>12 DEF BindOK
<1>14. \A q \in Rank \ {r} : /\ line'[q] = line[q] /\ devType'[q] = devType[q]
                             /\ taskDevMap'[q] = taskDevMap[q] /\ currentMin'[q] = currentMin[q]
  BY <1>1, <1>10 DEF TypeOK, ReadType
<1> QED
  BY <1>1, <1>10, <1>13, <1>14, BindStep

\* At the end of the file the counts agree, and no task is bound.
LEMMA BindEndOfFile ==
  ASSUME Careful, TypeOK, BindInv, NEW r \in Rank, EndOfFile(r)
  PROVE  BindInv'
<1>1. /\ pc[r] = "read" /\ line[r] > Len(config[r]) /\ pc' = [pc EXCEPT ![r] = "match"]
      /\ task' = [task EXCEPT ![r] = 0]
      /\ taskList' = [taskList EXCEPT ![r] = [t \in 0 .. l_numTasks[r] - 1 |-> Unbound]]
      /\ UNCHANGED << config, devSelection, line, devType, l_numTasks, currentMin, taskDevMap, collects >>
  BY DEF EndOfFile, At, Goto, readVars, mapVars
<1> DEFINE c == config[r]
<1>2. /\ c \in Config \ {NoFile} /\ devSelection[r] \in Selections
      /\ Covered(taskDevMap[r], currentMin[r])
      /\ ReadUpTo(c, line[r], devType[r], currentMin[r], taskDevMap[r], l_numTasks[r])
  BY <1>1 DEF BindInv, BindOK
<1>3. c \in Seq(LineOf) /\ Matches(c) /\ Asked(c)[Len(c)] \in Nat
  BY <1>2, CarefulFile
<1>4. line[r] - 1 = Len(c) /\ Len(c) \in Nat
  <2>1. line[r] \in 1 .. Len(c) + 1
    BY <1>2 DEF ReadUpTo
  <2> QED
    BY <1>1, <1>3, <2>1
<1>5. currentMin[r] = Asked(c)[Len(c)]
  BY <1>2, <1>4 DEF ReadUpTo
<1>6. l_numTasks[r] = Asked(c)[Len(c)]
  <2>1. PICK l \in 1 .. Len(c) : IsLast(c, Len(c), l, {"l_numTasks"}) /\ c[l].n = Asked(c)[Len(c)]
    BY <1>3 DEF Matches
  <2> QED
    BY <1>2, <1>4, <2>1 DEF ReadUpTo
<1>7. /\ pc'[r] = "match" /\ task'[r] = 0
      /\ taskList'[r] = [t \in 0 .. l_numTasks[r] - 1 |-> Unbound]
  BY <1>1 DEF TypeOK, ReadType, MatchType
<1>8. Bound(r)' = {}
  BY <1>7 DEF Bound
<1>9. 0 .. 0 - 1 = {} /\ 0 <= l_numTasks[r]
  BY <1>3, <1>6
<1>10. BindOK(r)'
  BY <1>1, <1>2, <1>5, <1>6, <1>7, <1>8, <1>9 DEF BindOK
<1>11. \A q \in Rank \ {r} : pc'[q] = pc[q] /\ task'[q] = task[q] /\ taskList'[q] = taskList[q]
  BY <1>1 DEF TypeOK, ReadType, MatchType
<1> QED
  BY <1>1, <1>10, <1>11, BindStep

\* Membership in the devices of a node.
LEMMA DeviceIs ==
  /\ \A k \in DevType : \A n \in 0 .. NumDev[k] - 1 : << k, n >> \in Device
  /\ Unbound.device \notin Device
<1>1. ASSUME NEW k \in DevType, NEW n \in 0 .. NumDev[k] - 1 PROVE << k, n >> \in Device
  BY DEF Device
<1>2. ASSUME NEW d \in Device PROVE d[1] \in DevType
  BY DEF Device
<1>3. Unbound.device[1] = "none"
  BY DEF Unbound
<1>4. "none" \notin DevType
  BY DEF DevType
<1> QED
  BY <1>1, <1>2, <1>3, <1>4

\* The device of a task exists.
LEMMA DeviceForIs ==
  ASSUME Careful, TypeOK, BindInv, NEW r \in Rank, pc[r] = "match", task[r] < Limit(r)
  PROVE  task[r] \in 0 .. l_numTasks[r] - 1 /\ DeviceFor(r, task[r]) \in Device
<1> DEFINE t == task[r]
<1>1. /\ config[r] \in Config \ {NoFile} /\ devSelection[r] \in Selections
      /\ Covered(taskDevMap[r], currentMin[r])
      /\ l_numTasks[r] = Asked(config[r])[Len(config[r])] /\ currentMin[r] = l_numTasks[r]
  BY DEF BindInv, BindOK
<1>2. t \in 0 .. l_numTasks[r] - 1
  BY <1>1 DEF Limit, TypeOK, ReadType, MatchType
<1>3. devSelection[r] \in {"ALL_DEVICES", "CPU_DEVICES", "GPU_DEVICES", "ACC_DEVICES"}
  BY <1>1, TaskBindingAssumption
<1>4. \A k \in DevType : NumDev[k] \in Nat
  BY TaskBindingAssumption
<1>5. CASE devSelection[r] = "ALL_DEVICES"
  <2> DEFINE P(i) == taskDevMap[r][i].min_tskIdx <= t /\ t <= taskDevMap[r][i].max_tskIdx
             i0 == CHOOSE i \in DOMAIN taskDevMap[r] : P(i)
  <2>1. taskDevMap[r] \in Seq(Slot) /\ DOMAIN taskDevMap[r] = 1 .. Len(taskDevMap[r])
    BY DEF TypeOK, ReadType
  <2>2. \E i \in DOMAIN taskDevMap[r] : P(i)
    BY <1>1, <1>2, <2>1 DEF Covered
  <2>3. i0 \in DOMAIN taskDevMap[r]
    <3> HIDE DEF P
    <3> QED
      BY <2>2
  <2>4. DeviceFor(r, t) = taskDevMap[r][i0].mappedDevice
    BY <1>5 DEF DeviceFor
  <2> HIDE DEF i0
  <2>5. taskDevMap[r][i0] \in Slot
    BY <2>1, <2>3
  <2> QED
    BY <1>2, <2>4, <2>5 DEF Slot
<1>6. CASE devSelection[r] = "CPU_DEVICES"
  <2>1. "CPU" \in DevType /\ NumDev["CPU"] > 0
    BY <1>1, <1>6 DEF Careful, DevType
  <2>2. 0 \in 0 .. NumDev["CPU"] - 1
    BY <1>4, <2>1
  <2>3. DeviceFor(r, t) = << "CPU", 0 >>
    BY <1>6 DEF DeviceFor
  <2> QED
    BY <1>2, <2>1, <2>2, <2>3, DeviceIs
<1>7. CASE devSelection[r] = "GPU_DEVICES"
  <2>1. "GPU" \in DevType /\ NumDev["GPU"] > 0
    BY <1>1, <1>7 DEF Careful, DevType
  <2>2. 0 \in 0 .. NumDev["GPU"] - 1
    BY <1>4, <2>1
  <2>3. DeviceFor(r, t) = << "GPU", 0 >>
    BY <1>7 DEF DeviceFor
  <2> QED
    BY <1>2, <2>1, <2>2, <2>3, DeviceIs
<1>8. CASE devSelection[r] = "ACC_DEVICES"
  <2>1. "ACCEL" \in DevType /\ l_numTasks[r] <= NumDev["ACCEL"]
    BY <1>1, <1>8 DEF Careful, DevType
  <2>2. l_numTasks[r] \in Nat
    BY DEF TypeOK, ReadType
  <2>3. t \in 0 .. NumDev["ACCEL"] - 1
    BY <1>2, <1>4, <2>1, <2>2
  <2>4. DeviceFor(r, t) = << "ACCEL", t >>
    BY <1>8 DEF DeviceFor
  <2> QED
    BY <1>2, <2>1, <2>3, <2>4, DeviceIs
<1> QED
  BY <1>3, <1>5, <1>6, <1>7, <1>8

\* Each turn of the loop binds the next task.
LEMMA BindMatch ==
  ASSUME Careful, TypeOK, ListInv, BindInv, NEW r \in Rank, MatchTask(r)
  PROVE  BindInv'
<1> DEFINE t == task[r]
           d == DeviceFor(r, t)
           e == [device |-> d, Rack |-> numRacks[r][d]]
<1>1. pc[r] = "match" /\ t < Limit(r)
  BY DEF MatchTask, At
<1>2. t \in 0 .. l_numTasks[r] - 1 /\ d \in Device /\ l_numTasks[r] \in Nat /\ t \in Nat
  BY <1>1, DeviceForIs DEF TypeOK, ReadType, MatchType
<1>3. ~(t >= l_numTasks[r] \/ d \notin Device)
  BY <1>2
<1>4. /\ taskList' = [taskList EXCEPT ![r][t] = e] /\ task' = [task EXCEPT ![r] = @ + 1] /\ pc' = pc
      /\ UNCHANGED << config, devSelection, line, devType, l_numTasks, currentMin, taskDevMap, collects >>
  BY <1>3 DEF MatchTask, readVars, mapVars
<1>5. e # Unbound
  <2>1. e.device = d
    OBVIOUS
  <2> HIDE DEF e, d
  <2> QED
    BY <1>2, <2>1, DeviceIs
<1>6. DOMAIN taskList[r] = 0 .. l_numTasks[r] - 1
  BY <1>1 DEF ListInv, ListOK
<1>7. /\ config[r] \in Config \ {NoFile} /\ devSelection[r] \in Selections
      /\ Covered(taskDevMap[r], currentMin[r])
      /\ l_numTasks[r] = Asked(config[r])[Len(config[r])] /\ currentMin[r] = l_numTasks[r]
      /\ Bound(r) = 0 .. t - 1
  BY <1>1 DEF BindInv, BindOK
<1> HIDE DEF e, d
<1>8. /\ taskList'[r] = [taskList[r] EXCEPT ![t] = e] /\ task'[r] = t + 1
      /\ \A q \in Rank \ {r} : taskList'[q] = taskList[q] /\ task'[q] = task[q]
  BY <1>4 DEF TypeOK, MatchType
<1>9. Bound(r)' = Bound(r) \cup {t}
  <2>1. DOMAIN taskList'[r] = DOMAIN taskList[r] /\ taskList'[r][t] = e
        /\ \A u \in DOMAIN taskList[r] : u # t => taskList'[r][u] = taskList[r][u]
    BY <1>2, <1>6, <1>8
  <2> QED
    BY <1>2, <1>5, <1>6, <2>1 DEF Bound
<1>10. 0 .. (t + 1) - 1 = (0 .. t - 1) \cup {t} /\ t + 1 <= l_numTasks[r]
  BY <1>2
<1>11. BindOK(r)'
  BY <1>1, <1>4, <1>7, <1>8, <1>9, <1>10 DEF BindOK
<1> QED
  BY <1>4, <1>8, <1>11, BindStep

\* The loop ends when every task is bound.
LEMMA BindEnter ==
  ASSUME Careful, TypeOK, BindInv, NEW r \in Rank, AllgatherEnter(r)
  PROVE  BindInv'
<1>1. /\ pc[r] = "match" /\ task[r] >= Limit(r) /\ pc' = [pc EXCEPT ![r] = "gather"]
      /\ UNCHANGED << config, devSelection, line, devType, l_numTasks, currentMin, taskDevMap,
                      task, taskList, collects >>
  BY DEF AllgatherEnter, At, Goto, readVars, matchVars
<1>2. currentMin[r] = l_numTasks[r] /\ task[r] <= l_numTasks[r] /\ Bound(r) = 0 .. task[r] - 1
  BY <1>1 DEF BindInv, BindOK
<1>3. task[r] = l_numTasks[r]
  BY <1>1, <1>2 DEF Limit, TypeOK, ReadType, MatchType
<1>4. pc'[r] = "gather" /\ \A q \in Rank \ {r} : pc'[q] = pc[q]
  BY <1>1 DEF TypeOK, ReadType
<1>5. Bound(r)' = Bound(r)
  BY <1>1 DEF Bound
<1>6. BindOK(r)'
  BY <1>1, <1>2, <1>3, <1>4, <1>5 DEF BindOK
<1> QED
  BY <1>1, <1>4, <1>6, BindStep

\* Leaving the collective changes no list.
LEMMA BindLeave ==
  ASSUME TypeOK, BindInv, NEW r \in Rank, AllgatherLeave(r)
  PROVE  BindInv'
<1>1. /\ pc[r] = "gather" /\ pc' = [pc EXCEPT ![r] = "idle"]
      /\ collects' = [collects EXCEPT ![r] = @ + 1]
      /\ UNCHANGED << config, devSelection, line, devType, l_numTasks, currentMin, taskDevMap,
                      task, taskList >>
  BY DEF AllgatherLeave, At, Goto, readVars, matchVars
<1>2. Bound(r) = 0 .. l_numTasks[r] - 1
  BY <1>1 DEF BindInv, BindOK
<1>3. /\ pc'[r] = "idle"
      /\ \A q \in Rank \ {r} : pc'[q] = pc[q] /\ collects'[q] = collects[q]
  BY <1>1 DEF TypeOK, ReadType, MapType
<1>4. Bound(r)' = Bound(r)
  BY <1>1 DEF Bound
<1>5. BindOK(r)'
  BY <1>1, <1>2, <1>3, <1>4 DEF BindOK
<1> QED
  BY <1>1, <1>3, <1>5, BindStep

\* BindInv is an invariant when the files match.
THEOREM BindInvariant ==
  ASSUME Careful
  PROVE  Spec => []BindInv
<1>1. Init => BindInv
  BY DEF Init, BindInv, BindOK
<1>2. ASSUME BindInv, TypeOK, ListInv, [Next]_vars PROVE BindInv'
  <2> USE <1>2
  <2>1. CASE UNCHANGED vars
    BY <2>1 DEF vars, readVars, matchVars, mapVars, BindInv, BindOK, Bound
  <2>2. ASSUME NEW r \in Rank, Step(r) PROVE BindInv'
    <3>1. CASE \E c \in Config, sel \in Selections : CollectCall(r, c, sel)
      BY <3>1, BindCall
    <3>2. CASE CollectNoFile(r)
      BY <3>2 DEF CollectNoFile, readVars, matchVars, mapVars, BindInv, BindOK, Bound
    <3>3. CASE ReadComment(r) \/ ReadNumTasks(r)
      BY <3>3, BindOther
    <3>4. CASE ReadDevice(r)
      BY <3>4, BindDevice
    <3>5. CASE EndOfFile(r)
      BY <3>5, BindEndOfFile
    <3>6. CASE MatchTask(r)
      BY <3>6, BindMatch
    <3>7. CASE AllgatherEnter(r)
      BY <3>7, BindEnter
    <3>8. CASE AllgatherLeave(r)
      BY <3>8, BindLeave
    <3> QED
      BY <2>2, <3>1, <3>2, <3>3, <3>4, <3>5, <3>6, <3>7, <3>8 DEF Step
  <2> QED
    BY <2>1, <2>2 DEF Next
<1> QED
  BY <1>1, <1>2, BindingTypes, ListInvariant, PTL DEF Spec

\* task.h: "every task MUST have an associated device" - once createTaskList has
\* returned, every task of the rank has one, if the files match.
THEOREM CarefulTasksAreBound ==
  ASSUME Careful
  PROVE  Spec => []EveryTaskBound
<1>1. BindInv => EveryTaskBound
  BY DEF BindInv, BindOK, EveryTaskBound
<1> QED
  BY <1>1, BindInvariant, PTL

\* readTaskBinding and createTaskList stay within taskDevMap, the arrays of
\* devices and taskList, if the files match.
THEOREM CarefulNoWildAccess ==
  ASSUME Careful
  PROVE  Spec => []NoWildAccess
<1>1. TypeOK /\ BindInv => NoWildAccess
  BY DEF BindInv, BindOK, NoWildAccess
<1> QED
  BY <1>1, BindInvariant, BindingTypes, PTL
=============================================================================
