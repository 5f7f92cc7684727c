------------------------------ MODULE TrayStore ------------------------------
(***************************************************************************)
(* What the buffer calls of one rank promise: every task has numbered       *)
(* trays; a tray exists from its first malloc, write or scatter until it is *)
(* freed, keeps its size, and holds what was last written to it, whatever   *)
(* is done to other trays.                                                  *)
(***************************************************************************)
EXTENDS Integers, Sequences

CONSTANTS
    NumTasks,   \* l_numTasks
    Tray,       \* the tray numbers an application uses
    Size,       \* the buffer sizes it asks for
    HostSize,   \* the sizes of the host buffers it scatters
    MaxCalls    \* bound on the number of calls

Task   == 0 .. NumTasks - 1
Bytes  == Seq(Nat \X Nat)
NoTray == [st |-> "none", data |-> << >>]

VARIABLES
    store,      \* per task and tray, the buffer: none, live or freed, and its bytes
    got,        \* what the last read or gather put in the host buffer
    running     \* the process has not ended on an error

vars == << store, got, running >>

Live(d)  == [st |-> "live", data |-> d]
IsLive(t, y) == store[t][y].st = "live"

\* d with its first bytes replaced by those of b.
Overwrite(d, b) == b \o SubSeq(d, Len(b) + 1, Len(d))

Init ==
    /\ store = [t \in Task |-> [y \in Tray |-> NoTray]]
    /\ got = << >>
    /\ running = TRUE

Create(t, y, d) == store' = [store EXCEPT ![t][y] = Live(d)]

\* A new tray has the size asked for and arbitrary contents; for a tray that
\* exists the call does nothing.
Malloc(t, y, sz) ==
    /\ \/ store[t][y] = NoTray /\ Len(store'[t][y].data) = sz /\ Create(t, y, store'[t][y].data)
       \/ store[t][y] # NoTray /\ store' = store
    /\ UNCHANGED << got, running >>

\* Writing b creates the tray if need be, or replaces its first bytes.
Write(t, y, b) ==
    /\ \/ store[t][y] = NoTray /\ Create(t, y, b)
       \/ IsLive(t, y) /\ Len(b) <= Len(store[t][y].data)
            /\ Create(t, y, Overwrite(store[t][y].data, b))
    /\ UNCHANGED << got, running >>

Read(t, y, sz) ==
    /\ IsLive(t, y) /\ sz <= Len(store[t][y].data)
    /\ got' = SubSeq(store[t][y].data, 1, sz)
    /\ UNCHANGED << store, running >>

Free(t, y) ==
    /\ IsLive(t, y)
    /\ store' = [store EXCEPT ![t][y].st = "freed"]
    /\ UNCHANGED << got, running >>

Copy(t, y, u, z, sz) ==
    /\ IsLive(t, y) /\ IsLive(u, z) /\ sz <= Len(store[t][y].data) /\ sz <= Len(store[u][z].data)
    /\ Create(u, z, Overwrite(store[u][z].data, SubSeq(store[t][y].data, 1, sz)))
    /\ UNCHANGED << got, running >>

\* The bytes b are those of tray y of every task of s, one after the other: they
\* can be cut at places such that each task has the piece between two of them.
Concatenates(b, s, y) ==
    \E cut \in [0 .. NumTasks -> 0 .. Len(b)] :
        /\ cut[0] = 0 /\ cut[NumTasks] = Len(b)
        /\ \A t \in Task : /\ cut[t] <= cut[t + 1]
                           /\ s[t][y].data = SubSeq(b, cut[t] + 1, cut[t + 1])

\* A scatter replaces tray y of every task: in the order of the tasks the new
\* buffers are the host buffer b.
Scatter(y, b) ==
    /\ \A t \in Task : store'[t] = [store[t] EXCEPT ![y] = Live(store'[t][y].data)]
    /\ DOMAIN store' = Task
    /\ Concatenates(b, store', y)
    /\ UNCHANGED << got, running >>

Gather(y) ==
    /\ \A t \in Task : IsLive(t, y)
    /\ Concatenates(got', store, y)
    /\ UNCHANGED << store, running >>

\* An OpenCL error ends the process.
Fail == running' = FALSE /\ UNCHANGED << store, got >>

\* Host buffers whose bytes are marked with the call that supplies them.
HostBuffer(v, sz) == [k \in 1 .. sz |-> << v, k >>]

Next ==
    /\ running
    /\ \/ \E t \in Task, y \in Tray, sz \in Size :
             \/ Malloc(t, y, sz) \/ Read(t, y, sz)
             \/ \E v \in 1 .. MaxCalls : Write(t, y, HostBuffer(v, sz))
             \/ \E u \in Task, z \in Tray : Copy(t, y, u, z, sz)
       \/ \E t \in Task, y \in Tray : Free(t, y)
       \/ \E y \in Tray :
             \/ Gather(y)
             \/ \E sz \in HostSize, v \in 1 .. MaxCalls : Scatter(y, HostBuffer(v, sz))
       \/ Fail

Spec == Init /\ [][Next]_vars
=============================================================================
