-------------------------- MODULE DeviceExploration --------------------------
(***************************************************************************)
(* XCLFrame_init of one process: deviceExploration counts the devices of    *)
(* each type, devicesInitialization allocates the arrays cpu, gpu and accel *)
(* with these counts and fills them in a second pass, and a third one       *)
(* prints the names.                                                        *)
(*                                                                          *)
(* The OpenCL platforms are external.  clGetDeviceIDs fails on a platform   *)
(* without devices (CL_DEVICE_NOT_FOUND); nobody looks at its result, and   *)
(* implementations differ in whether they then set the count to 0.  The      *)
(* number of platforms itself is taken to be right.                         *)
(***************************************************************************)
EXTENDS Integers, Sequences

CONSTANTS
    Systems,      \* the possible platforms: sequences of sequences of device types
    MaxGarbage    \* bound on the value of an uninitialised count

Counted == {"cpu", "gpu", "accel"}
Type    == Counted \cup {"other"}     \* other: custom devices and combinations of types

ASSUME DeviceExplorationAssumption ==
    /\ Systems \subseteq Seq(Seq(Type))
    /\ MaxGarbage \in Nat

VARIABLES
    plats,        \* the platforms of this node, each the types of its devices
    pass,         \* "count", "init", "print" or "done"
    i,            \* the platform the pass is at
    j,            \* the device the pass is at
    deviceCount,  \* the local of that name of the current pass
    devices,      \* cx.devices, per platform seen so far
    num,          \* numCPUS, numGPUS and numACCEL
    array,        \* cpu, gpu and accel
    status        \* "ok", "died" (the process exited), "wild" (undefined behaviour)

vars == << plats, pass, i, j, deviceCount, devices, num, array, status >>

\* A device is named by its platform and its number.
Ids(p)  == [k \in 1 .. Len(plats[p]) |-> << p, k >>]
Junk    == << 0, 0 >>                                 \* memory nobody has written
TypeOf(d) == plats[d[1]][d[2]]

Answers(p) == plats[p] # << >>

----------------------------------------------------------------------------
Running == status = "ok" /\ pass # "done"
AtPlatform == Running /\ i <= Len(plats) /\ j = 0
AtDevice   == Running /\ j > 0
IsDevice   == j <= Len(devices[i]) /\ devices[i][j] # Junk

\* After a device, the next one or the next platform.
Advance ==
    IF j < deviceCount THEN j' = j + 1 /\ i' = i ELSE j' = 0 /\ i' = i + 1

Stop(st) == status' = st /\ UNCHANGED << i, j >>

\* What the first clGetDeviceIDs of a platform leaves in deviceCount.
Counts == IF Answers(i) THEN {Len(plats[i])} ELSE {0, deviceCount}

\* Both calls of clGetDeviceIDs, with the malloc between them in the first pass.
EnterPlatform ==
    /\ AtPlatform
    /\ \E n \in Counts :
          /\ deviceCount' = n
          /\ IF n = 0 THEN j' = 0 /\ i' = i + 1 ELSE j' = 1 /\ i' = i
          /\ devices' = IF pass # "count" THEN devices
                        ELSE Append(devices, [k \in 1 .. n |-> IF Answers(i) THEN Ids(i)[k] ELSE Junk])
    /\ UNCHANGED << plats, pass, num, array, status >>

\* Mutant: accelerators are not counted.
CountDeviceNoAccel ==
    /\ pass = "count" /\ AtDevice /\ IsDevice
    /\ LET t == TypeOf(devices[i][j]) IN
       num' = IF t \in {"cpu", "gpu"} THEN [num EXCEPT ![t] = @ + 1] ELSE num
    /\ Advance
    /\ UNCHANGED << plats, pass, deviceCount, devices, array, status >>

\* Mutant: the type is taken as a set of flags, so that a combination counts.
CountDeviceFlags ==
    /\ pass = "count" /\ AtDevice /\ IsDevice
    /\ LET t == TypeOf(devices[i][j]) IN num' = [num EXCEPT ![IF t = "other" THEN "cpu" ELSE t] = @ + 1]
    /\ Advance
    /\ UNCHANGED << plats, pass, deviceCount, devices, array, status >>

\* One turn of the inner loop of deviceExploration.
CountDevice ==
    /\ pass = "count" /\ AtDevice /\ IsDevice
    /\ LET t == TypeOf(devices[i][j]) IN
       num' = IF t \in Counted THEN [num EXCEPT ![t] = @ + 1] ELSE num
    /\ Advance
    /\ UNCHANGED << plats, pass, deviceCount, devices, array, status >>

\* One turn of the inner loop of devicesInitialization: the device gets a Device,
\* with a context and a queue, at the end of the array of its type.
InitDevice ==
    /\ pass = "init" /\ AtDevice /\ IsDevice
    /\ LET d == devices[i][j] t == TypeOf(d) IN
       IF t \notin Counted THEN Advance /\ UNCHANGED << array, status >>
       ELSE IF Len(array[t]) = num[t] THEN Stop("wild") /\ array' = array
       ELSE /\ array' = [array EXCEPT ![t] = Append(@, d)]
            /\ Advance /\ status' = status
    /\ UNCHANGED << plats, pass, deviceCount, devices, num >>

\* createContext or createQueue fails, and chkerr exits.
InitDeviceError ==
    /\ pass = "init" /\ AtDevice
    /\ Stop("died")
    /\ UNCHANGED << plats, pass, deviceCount, devices, num, array >>

\* The loop that prints the names.
PrintDevice ==
    /\ pass = "print" /\ AtDevice /\ IsDevice
    /\ Advance
    /\ UNCHANGED << plats, pass, deviceCount, devices, num, array, status >>

\* Something that is not a device is passed to clGetDeviceInfo, or the index is
\* outside the array: the call may refuse it (then the type is none of the
\* three), or read memory that is not there, or find a type by chance.
NotADevice ==
    /\ AtDevice /\ ~IsDevice
    /\ \/ Advance /\ status' = status
       \/ Stop("wild")
    /\ UNCHANGED << plats, pass, deviceCount, devices, num, array >>

\* The local deviceCount of the next function is not initialised; the printing
\* loop goes on with that of the loop before.
NextPass ==
    /\ Running /\ i > Len(plats) /\ j = 0
    /\ i' = 1 /\ j' = 0
    /\ pass' = CASE pass = "count" -> "init" [] pass = "init" -> "print" [] OTHER -> "done"
    /\ IF pass = "count" THEN deviceCount' \in 0 .. MaxGarbage ELSE deviceCount' = deviceCount
    /\ UNCHANGED << plats, devices, num, array, status >>

Init ==
    /\ plats \in Systems
    /\ pass = "count" /\ i = 1 /\ j = 0
    /\ deviceCount \in 0 .. MaxGarbage
    /\ devices = << >>
    /\ num = [t \in Counted |-> 0]
    /\ array = [t \in Counted |-> << >>]
    /\ status = "ok"

Next ==
    \/ EnterPlatform \/ CountDevice \/ InitDevice \/ InitDeviceError \/ PrintDevice
    \/ NotADevice \/ NextPass

Spec == Init /\ [][Next]_vars
----------------------------------------------------------------------------
\* The types of the variables; the loops stay within the platforms.
TypeOK ==
    /\ plats \in Systems
    /\ pass \in {"count", "init", "print", "done"}
    /\ i \in 1 .. Len(plats) + 1 /\ deviceCount \in Nat /\ j \in 0 .. deviceCount
    /\ \A p \in DOMAIN devices : \A k \in DOMAIN devices[p] : devices[p][k] \in {<< p, k >>, Junk}
    /\ num \in [Counted -> Nat]
    /\ DOMAIN array = Counted
    /\ status \in {"ok", "died", "wild"}

\* The devices of type t, and their order: platform by platform.
OfType(t)    == {d \in UNION {{p} \X DOMAIN plats[p] : p \in DOMAIN plats} : TypeOf(d) = t}
Before(d, c) == d[1] < c[1] \/ (d[1] = c[1] /\ d[2] < c[2])

\* If the process gets through, cpu, gpu and accel hold each device of their type
\* once, in the order of the platforms, and fill the arrays that the counts of
\* the first pass were used to allocate - platforms without devices included.
DevicesFound ==
    pass \in {"print", "done"} /\ status = "ok" =>
        \A t \in Counted :
            /\ {array[t][k] : k \in DOMAIN array[t]} = OfType(t)
            /\ \A k, m \in DOMAIN array[t] : k < m => Before(array[t][k], array[t][m])
            /\ num[t] = Len(array[t])

\* The variables keep their types, and if every platform has a device nothing outside an array or before its
\* initialisation is read, whatever the uninitialised counts hold.
NoWildAccess == TypeOK /\ ((\A p \in DOMAIN plats : Answers(p)) => status # "wild")
=============================================================================
