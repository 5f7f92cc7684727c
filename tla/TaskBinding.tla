----------------------------- MODULE TaskBinding -----------------------------
(***************************************************************************)
(* OMPI_collectDevicesInfo: every rank reads taskSched.cfg, binds its tasks *)
(* to devices and racks (readTaskBinding, createTaskList), and the ranks    *)
(* build the global task map from one MPI_Allgather.                        *)
(*                                                                          *)
(* A line of the file is a record: l_numTasks with a count, a device type   *)
(* with a device number and a count of tasks, a comment, or another word in *)
(* place of the device type.  MPI_Allgather and malloc are external.        *)
(***************************************************************************)
EXTENDS Integers, Sequences, SequencesExt

CONSTANTS
    NumRanks,       \* size of the communicator
    NumDev,         \* clXplr: the number of devices of each type on a node
    Config,         \* the contents taskSched.cfg may have on a rank
    NoFile,         \* taskSched.cfg does not exist
    Selections,     \* the values of devSelection the application uses
    MaxCollects     \* bound on the calls of OMPI_collectDevicesInfo

DevType == {"CPU", "GPU", "ACCEL"}
Rank    == 0 .. NumRanks - 1
LineOf  == [key : DevType \cup {"l_numTasks", "#", "other"}, id : Nat, n : Nat]

ASSUME TaskBindingAssumption ==
    /\ NumRanks \in Nat \ {0}
    /\ NumDev \in [DevType -> Nat]
    /\ \A c \in Config : c = NoFile \/ c \in Seq(LineOf)
    /\ Selections \subseteq {"ALL_DEVICES", "CPU_DEVICES", "GPU_DEVICES", "ACC_DEVICES"}
    /\ MaxCollects \in Nat \ {0}

Device     == UNION {{k} \X (0 .. NumDev[k] - 1) : k \in DevType}
numDevices == NumDev["CPU"] + NumDev["GPU"] + NumDev["ACCEL"]

VARIABLES
    config,         \* per rank, its taskSched.cfg
    pc,             \* per rank: "idle", "read", "match", "gather", or "wild" (undefined behaviour)
    devSelection,   \* per rank, the argument of its current call
    line,           \* per rank, the next line of the file
    devType,        \* per rank, the local variable of readTaskBinding
    l_numTasks,     \* per rank, the number of its tasks
    currentMin,     \* per rank, the number of tasks the lines read so far ask for
    taskDevMap,     \* per rank, the filled slots: a device and a range of tasks
    task,           \* per rank, the next task of the loop of createTaskList
    taskList,       \* per rank and task, its device and rack
    numRacks,       \* per rank and device, the number of racks
    sent,           \* per rank, what it contributed to each MPI_Allgather
    g_taskList,     \* per rank, the global map; its first entry is task 0
    collects,       \* per rank, the calls of OMPI_collectDevicesInfo it completed
    aborted         \* some process has exited, and the job with it

readVars  == << line, devType, l_numTasks, currentMin, taskDevMap >>
matchVars == << task, taskList, numRacks >>
mapVars   == << sent, g_taskList, collects >>
vars == << config, pc, devSelection, readVars, matchVars, mapVars, aborted >>

At(r, p)   == ~aborted /\ pc[r] = p
Goto(r, p) == pc' = [pc EXCEPT ![r] = p]

\* taskList[t].device before it is bound: memory nobody has written.
Unbound == [device |-> << "none", 0 >>, Rack |-> 0]

----------------------------------------------------------------------------
(* readTaskBinding                                                         *)

\* OMPI_collectDevicesInfo is called and finds a file c in the working directory:
\* no slot is filled, l_numTasks keeps its value.
CollectCall(r, c, sel) ==
    /\ At(r, "idle") /\ collects[r] < MaxCollects
    /\ c # NoFile
    /\ config' = [config EXCEPT ![r] = c]
    /\ Goto(r, "read")
    /\ devSelection' = [devSelection EXCEPT ![r] = sel]
    /\ line' = [line EXCEPT ![r] = 1]
    /\ devType' = [devType EXCEPT ![r] = "unset"]
    /\ currentMin' = [currentMin EXCEPT ![r] = 0]
    /\ taskDevMap' = [taskDevMap EXCEPT ![r] = << >>]
    /\ UNCHANGED << l_numTasks, matchVars, mapVars, aborted >>

\* The file is not there: exit(-1).
CollectNoFile(r) ==
    /\ At(r, "idle") /\ collects[r] < MaxCollects
    /\ NoFile \in Config
    /\ aborted' = TRUE
    /\ UNCHANGED << config, pc, devSelection, readVars, matchVars, mapVars >>

Line(r) == config[r][line[r]]
AtLine(r, keys) == At(r, "read") /\ line[r] <= Len(config[r]) /\ Line(r).key \in keys
NextLine(r) == line' = [line EXCEPT ![r] = @ + 1]

ReadComment(r) ==
    /\ AtLine(r, {"#"})
    /\ NextLine(r)
    /\ UNCHANGED << config, pc, devSelection, devType, l_numTasks, currentMin, taskDevMap,
                    matchVars, mapVars, aborted >>

ReadNumTasks(r) ==
    /\ AtLine(r, {"l_numTasks"})
    /\ NextLine(r)
    /\ l_numTasks' = [l_numTasks EXCEPT ![r] = Line(r).n]
    /\ UNCHANGED << config, pc, devSelection, devType, currentMin, taskDevMap,
                    matchVars, mapVars, aborted >>

\* The types a line may select: another word leaves devType as it is, and
\* before the first device line it has no value.
TypesOf(r) ==
    IF Line(r).key # "other" THEN {Line(r).key}
    ELSE IF devType[r] = "unset" THEN DevType \cup {"default"}
    ELSE {devType[r]}

\* Mutant: the next range of tasks begins at the last task of this one.
ReadDeviceOverlap(r) ==
    /\ AtLine(r, DevType \cup {"other"})
    /\ NextLine(r)
    /\ taskDevMap' = [taskDevMap EXCEPT ![r] = Append(@,
            [mappedDevice |-> << Line(r).key, Line(r).id >>, min_tskIdx |-> currentMin[r],
             max_tskIdx |-> currentMin[r] + Line(r).n - 1])]
    /\ currentMin' = [currentMin EXCEPT ![r] = @ + Line(r).n - 1]
    /\ devType' = [devType EXCEPT ![r] = Line(r).key]
    /\ UNCHANGED << config, pc, devSelection, l_numTasks, matchVars, mapVars, aborted >>

\* Mutant: max_tskIdx is the first task of the next range.
ReadDeviceInclusive(r) ==
    /\ AtLine(r, DevType \cup {"other"})
    /\ NextLine(r)
    /\ \E k \in TypesOf(r) :
          /\ devType' = [devType EXCEPT ![r] = k]
          /\ taskDevMap' = [taskDevMap EXCEPT ![r] = Append(@,
                [mappedDevice |-> << k, Line(r).id >>, min_tskIdx |-> currentMin[r],
                 max_tskIdx |-> currentMin[r] + Line(r).n])]
    /\ currentMin' = [currentMin EXCEPT ![r] = @ + Line(r).n + 1]
    /\ UNCHANGED << config, pc, devSelection, l_numTasks, matchVars, mapVars, aborted >>

\* A device line fills the next slot with the next n tasks.  There are
\* numDevices slots; neither the slot nor the device number is checked.
ReadDevice(r) ==
    /\ AtLine(r, DevType \cup {"other"})
    /\ NextLine(r)
    /\ \E k \in TypesOf(r) :
          LET d == << k, Line(r).id >> IN
          /\ devType' = [devType EXCEPT ![r] = k]
          /\ IF k = "default" THEN UNCHANGED << pc, currentMin, taskDevMap >>
             ELSE IF d \notin Device \/ Len(taskDevMap[r]) = numDevices
             THEN Goto(r, "wild") /\ UNCHANGED << currentMin, taskDevMap >>
             ELSE /\ taskDevMap' = [taskDevMap EXCEPT ![r] = Append(@,
                        [mappedDevice |-> d, min_tskIdx |-> currentMin[r],
                         max_tskIdx |-> currentMin[r] + Line(r).n - 1])]
                  /\ currentMin' = [currentMin EXCEPT ![r] = @ + Line(r).n]
                  /\ pc' = pc
    /\ UNCHANGED << config, devSelection, l_numTasks, matchVars, mapVars, aborted >>

----------------------------------------------------------------------------
(* createTaskList                                                          *)

\* The file ends; a mismatch of the counts only prints a warning.  A new
\* taskList of l_numTasks entries is allocated.
EndOfFile(r) ==
    /\ At(r, "read") /\ line[r] > Len(config[r])
    /\ Goto(r, "match")
    /\ task' = [task EXCEPT ![r] = 0]
    /\ taskList' = [taskList EXCEPT ![r] = [t \in 0 .. l_numTasks[r] - 1 |-> Unbound]]
    /\ UNCHANGED << config, devSelection, readVars, numRacks, mapVars, aborted >>

\* The loop goes through the slots, whose ranges follow each other, or through
\* all tasks when one type of device is selected.
Limit(r) == IF devSelection[r] = "ALL_DEVICES" THEN currentMin[r] ELSE l_numTasks[r]

DeviceFor(r, t) ==
    CASE devSelection[r] = "ALL_DEVICES" ->
            taskDevMap[r][CHOOSE i \in DOMAIN taskDevMap[r] :
                taskDevMap[r][i].min_tskIdx <= t /\ t <= taskDevMap[r][i].max_tskIdx].mappedDevice
      [] devSelection[r] = "CPU_DEVICES" -> << "CPU", 0 >>
      [] devSelection[r] = "GPU_DEVICES" -> << "GPU", 0 >>
      [] devSelection[r] = "ACC_DEVICES" -> << "ACCEL", t >>

\* Mutant: the number of racks is not increased.
MatchTaskSameRack(r) ==
    LET t == task[r] d == DeviceFor(r, t) IN
    /\ At(r, "match") /\ t < Limit(r)
    /\ taskList' = [taskList EXCEPT ![r][t] = [device |-> d, Rack |-> numRacks[r][d]]]
    /\ task' = [task EXCEPT ![r] = @ + 1]
    /\ UNCHANGED << config, pc, devSelection, readVars, numRacks, mapVars, aborted >>

\* One turn: the task gets the device and a new rack of it.  Neither the task
\* number nor, for a selected type, the device is checked.
MatchTask(r) ==
    LET t == task[r] d == DeviceFor(r, t) IN
    /\ At(r, "match") /\ t < Limit(r)
    /\ IF t >= l_numTasks[r] \/ d \notin Device
       THEN Goto(r, "wild") /\ UNCHANGED matchVars
       ELSE /\ taskList' = [taskList EXCEPT ![r][t] = [device |-> d, Rack |-> numRacks[r][d]]]
            /\ numRacks' = [numRacks EXCEPT ![r][d] = @ + 1]
            /\ task' = [task EXCEPT ![r] = @ + 1]
            /\ pc' = pc
    /\ UNCHANGED << config, devSelection, readVars, mapVars, aborted >>

----------------------------------------------------------------------------
(* The global map                                                          *)

\* Mutant: a rank without tasks has nothing to contribute and returns.
AllgatherEnterSkipped(r) ==
    /\ At(r, "match") /\ task[r] >= Limit(r)
    /\ Goto(r, IF l_numTasks[r] = 0 THEN "idle" ELSE "gather")
    /\ sent' = IF l_numTasks[r] = 0 THEN sent ELSE [sent EXCEPT ![r] = Append(@, l_numTasks[r])]
    /\ collects' = IF l_numTasks[r] = 0 THEN [collects EXCEPT ![r] = @ + 1] ELSE collects
    /\ UNCHANGED << config, devSelection, readVars, matchVars, g_taskList, aborted >>

\* The loop ends and the rank enters MPI_Allgather.
AllgatherEnter(r) ==
    /\ At(r, "match") /\ task[r] >= Limit(r)
    /\ Goto(r, "gather")
    /\ sent' = [sent EXCEPT ![r] = Append(@, l_numTasks[r])]
    /\ UNCHANGED << config, devSelection, readVars, matchVars, g_taskList, collects, aborted >>

\* Mutant: the local numbers begin at 1.
TaskMapFromOne(RKS) ==
    FlattenSeq([i \in 1 .. NumRanks |->
        [j \in 1 .. RKS[i - 1] |-> [r_rank |-> i - 1, l_taskIdx |-> j]]])

\* The map: the tasks of rank 0, then those of rank 1, and so on.
TaskMap(RKS) ==
    FlattenSeq([i \in 1 .. NumRanks |->
        [j \in 1 .. RKS[i - 1] |-> [r_rank |-> i - 1, l_taskIdx |-> j - 1]]])

\* Mutant: the result is of the last contributions, whichever call they are from.
AllgatherLeaveLatest(r) ==
    /\ At(r, "gather")
    /\ \A q \in Rank : Len(sent[q]) >= Len(sent[r])
    /\ g_taskList' = [g_taskList EXCEPT ![r] = TaskMap([q \in Rank |-> Last(sent[q])])]
    /\ collects' = [collects EXCEPT ![r] = @ + 1]
    /\ Goto(r, "idle")
    /\ UNCHANGED << config, devSelection, readVars, matchVars, sent, aborted >>

\* The k-th MPI_Allgather of a rank (external) returns the k-th contributions
\* of all ranks.
AllgatherLeave(r) ==
    LET k == Len(sent[r]) IN
    /\ At(r, "gather")
    /\ \A q \in Rank : Len(sent[q]) >= k
    /\ g_taskList' = [g_taskList EXCEPT ![r] = TaskMap([q \in Rank |-> sent[q][k]])]
    /\ collects' = [collects EXCEPT ![r] = @ + 1]
    /\ Goto(r, "idle")
    /\ UNCHANGED << config, devSelection, readVars, matchVars, sent, aborted >>
----------------------------------------------------------------------------
Init ==
    /\ config = [r \in Rank |-> NoFile]
    /\ pc = [r \in Rank |-> "idle"]
    /\ devSelection = [r \in Rank |-> "none"]
    /\ line = [r \in Rank |-> 1]
    /\ devType = [r \in Rank |-> "unset"]
    /\ l_numTasks = [r \in Rank |-> 0]
    /\ currentMin = [r \in Rank |-> 0]
    /\ taskDevMap = [r \in Rank |-> << >>]
    /\ task = [r \in Rank |-> 0]
    /\ taskList = [r \in Rank |-> [t \in {} |-> Unbound]]
    /\ numRacks = [r \in Rank |-> [d \in Device |-> 0]]
    /\ sent = [r \in Rank |-> << >>]
    /\ g_taskList = [r \in Rank |-> << >>]
    /\ collects = [r \in Rank |-> 0]
    /\ aborted = FALSE

Step(r) ==
    \/ \E c \in Config, sel \in Selections : CollectCall(r, c, sel)
    \/ CollectNoFile(r)
    \/ ReadComment(r) \/ ReadNumTasks(r) \/ ReadDevice(r) \/ EndOfFile(r)
    \/ MatchTask(r) \/ AllgatherEnter(r) \/ AllgatherLeave(r)

Next == \E r \in Rank : Step(r)

Spec == Init /\ [][Next]_vars

\* Every process runs; MPI_Allgather returns once all ranks have called it.
FairSpec == Spec /\ \A r \in Rank : WF_vars(Step(r))
----------------------------------------------------------------------------
Slot  == [mappedDevice : Device, min_tskIdx : Nat, max_tskIdx : Int]
Entry == [device : Device \cup {Unbound.device}, Rack : Nat]

ReadType ==
    /\ config \in [Rank -> Config \cup {NoFile}]
    /\ pc \in [Rank -> {"idle", "read", "match", "gather", "wild"}]
    /\ devSelection \in [Rank -> Selections \cup {"none"}]
    /\ line \in [Rank -> Nat \ {0}]
    /\ devType \in [Rank -> DevType \cup {"unset", "default"}]
    /\ l_numTasks \in [Rank -> Nat]
    /\ currentMin \in [Rank -> Nat]
    /\ taskDevMap \in [Rank -> Seq(Slot)]
    /\ aborted \in BOOLEAN

MatchType ==
    /\ task \in [Rank -> Nat]
    /\ numRacks \in [Rank -> [Device -> Nat]]
    /\ DOMAIN taskList = Rank
    /\ \A r \in Rank : taskList[r] \in [DOMAIN taskList[r] -> Entry]

MapType ==
    /\ sent \in [Rank -> Seq(Nat)]
    /\ g_taskList \in [Rank -> Seq([r_rank : Rank, l_taskIdx : Nat])]
    /\ collects \in [Rank -> 0 .. MaxCollects]

\* The type invariant.
TypeOK == ReadType /\ MatchType /\ MapType

Bound(r) == {t \in DOMAIN taskList[r] : taskList[r][t] # Unbound}

\* No two tasks of a rank share a rack of a device, and every rack that is in
\* use is below the device's numRacks, whichever lines, selections and repeated
\* calls of OMPI_collectDevicesInfo led there: the trays of a task are its own.
RacksDistinct ==
    \A r \in Rank : \A t \in Bound(r) :
        LET d == taskList[r][t].device IN
        /\ taskList[r][t].Rack < numRacks[r][d]
        /\ \A u \in Bound(r) \ {t} :
              taskList[r][u].device = d => taskList[r][u].Rack # taskList[r][t].Rack

\* task.h: "every task MUST have an associated device".  Once createTaskList
\* has returned, each of the l_numTasks tasks has been bound.
EveryTaskBound ==
    \A r \in Rank : pc[r] = "gather" \/ (pc[r] = "idle" /\ collects[r] > 0) =>
        Bound(r) = 0 .. l_numTasks[r] - 1

\* The variables keep their types and no array is written outside its bounds: taskDevMap, the arrays of devices
\* and taskList are indexed by numbers of the file that nothing checks.
NoWildAccess == TypeOK /\ \A r \in Rank : pc[r] # "wild"

\* Ranks that have completed the same number of calls have the same global map,
\* even when some of them are already in the next call.
MapAgrees ==
    \A r, q \in Rank : collects[r] = collects[q] => g_taskList[r] = g_taskList[q]

\* The map of a rank names every task of every rank exactly once, by its rank
\* and its index in the taskList of that rank.
MapNamesEveryTask ==
    \A r, q \in Rank : pc[q] = "idle" /\ collects[r] = collects[q] /\ collects[r] > 0 =>
        LET mine == {k \in DOMAIN g_taskList[r] : g_taskList[r][k].r_rank = q} IN
        /\ {g_taskList[r][k].l_taskIdx : k \in mine} = DOMAIN taskList[q]
        /\ \A k, m \in mine :
              g_taskList[r][k].l_taskIdx = g_taskList[r][m].l_taskIdx => k = m

\* Every rank returns from all its calls of OMPI_collectDevicesInfo unless a
\* process has exited: the collective is entered by all ranks equally often.
AllCollect == <>(aborted \/ \A r \in Rank : collects[r] = MaxCollects)
----------------------------------------------------------------------------
(* What a user has to get right: the code checks neither the device numbers *)
(* of taskSched.cfg, nor the number of its lines, nor its counts.           *)

\* The sums of the first elements of w.
Sums(w) == LET s[m \in 0 .. Len(w)] == IF m = 0 THEN 0 ELSE s[m - 1] + w[m] IN s

\* The tasks the first lines of a file ask for, and the slots they fill.
IsDeviceLine(l) == l.key \in DevType \cup {"other"}
AskedBy(c) == [m \in 1 .. Len(c) |-> IF IsDeviceLine(c[m]) THEN c[m].n ELSE 0]
FilledBy(c) == [m \in 1 .. Len(c) |-> IF IsDeviceLine(c[m]) THEN 1 ELSE 0]
Asked(c)   == Sums(AskedBy(c))
Filled(c)  == Sums(FilledBy(c))

\* Line l is the last one of the first m with such a key.
IsLast(c, m, l, keys) ==
    l \in 1 .. m /\ c[l].key \in keys /\ \A n \in l + 1 .. m : c[n].key \notin keys

\* Every device line names a device of the node, by its own type or that of the
\* last line that has one; there are not more of them than devices; and the
\* last l_numTasks line has the number of tasks they ask for.
Matches(c) ==
    /\ \A m \in 1 .. Len(c) :
          IsDeviceLine(c[m]) => \E l \in 1 .. m : IsLast(c, m, l, DevType) /\ << c[l].key, c[m].id >> \in Device
    /\ Filled(c)[Len(c)] <= numDevices
    /\ \E l \in 1 .. Len(c) : IsLast(c, Len(c), l, {"l_numTasks"}) /\ c[l].n = Asked(c)[Len(c)]

\* All files match, and the selected devices exist.
Careful ==
    /\ \A c \in Config \ {NoFile} : Matches(c)
    /\ "CPU_DEVICES" \in Selections => NumDev["CPU"] > 0
    /\ "GPU_DEVICES" \in Selections => NumDev["GPU"] > 0
    /\ "ACC_DEVICES" \in Selections => \A c \in Config \ {NoFile} : Asked(c)[Len(c)] <= NumDev["ACCEL"]
=============================================================================
