---------------------------- MODULE ScatterGather ----------------------------
(***************************************************************************)
(* OMPI_XclScatter and OMPI_XclGather of a file over the ranks of a         *)
(* communicator, with the globals MPIentityTypeSize and ePerRank they share *)
(* with each other and with OMPI_XclSend and OMPI_XclRecv.                  *)
(*                                                                          *)
(* The bytes of the tray of all tasks of a rank are one sequence here; how  *)
(* they are split between the tasks is in TaskTrays.  MPI files are         *)
(* external but for what ROMIO does with a view: a file is a sequence of    *)
(* bytes, and MPI_File_open returns when all ranks have called it.  An int  *)
(* wraps around at IntLimit.                                                *)
(***************************************************************************)
EXTENDS Integers, Sequences

CONSTANTS
    NumRanks,   \* size of the communicator
    NumTasks,   \* l_numTasks of every rank
    File,       \* the names of the files
    FileSize,   \* the size of each file when the program starts, in bytes
    IntLimit,   \* 2^31: an int is at least -IntLimit and below IntLimit
    FloatSize,  \* 4: the size of MPI_FLOAT, the etype of every view
    MaxCalls,   \* bound on the length of a program
    Programs    \* the SPMD programs

Rank == 0 .. NumRanks - 1

\* e is the size of the MPI datatype that is passed to the call; kernel stands
\* for whatever gives the trays new contents.
Call == [op : {"query", "scatter", "gather", "transfer", "kernel"},
         e : Nat \ {0}, file : File, count : Nat, src : Rank, dst : Rank]

ASSUME ScatterGatherAssumption ==
    /\ NumRanks \in Nat \ {0} /\ NumTasks \in 1 .. 2
    /\ IntLimit \in Nat \ {0} /\ FloatSize \in Nat \ {0} /\ MaxCalls \in Nat
    /\ FileSize \in [File -> Nat]
    /\ \A p \in Programs : p \in Seq(Call) /\ Len(p) \in 1 .. MaxCalls

VARIABLES
    prog,               \* the calls of the application, the same on every rank
    pc,                 \* per rank, the position of the call it is in
    phase,              \* per rank, where it is inside that call
    MPIentityTypeSize,  \* per rank, the global of that name
    ePerRank,           \* per rank, the global of that name
    tray,               \* per rank, the bytes of the tray of its tasks
    tmphostbuffer,      \* per rank, the buffer of the gather it is in
    file,               \* the files
    opened,             \* per rank, the number of MPI_File_opens it has entered
    viewed,             \* per rank, the opens after which ROMIO accepted its view
    status              \* "ok", "died" (a process exited), "wild" (undefined behaviour)

globalVars == << MPIentityTypeSize, ePerRank >>
vars == << prog, pc, phase, globalVars, tray, tmphostbuffer, file, opened, viewed, status >>

\* A byte is named by the call that made it, the rank and the position.
Byte == (0 .. MaxCalls) \X Rank \X Nat
Junk == << 0, 0, 0 >>      \* a byte nobody has written

\* Conversion of a value to int (64 bit values are truncated, products wrap).
Int32(x) == ((x + IntLimit) % (2 * IntLimit)) - IntLimit
Quot(a, b) == IF a >= 0 THEN a \div b ELSE -((-a) \div b)     \* C's /, for b > 0

\* s with the bytes of b in place of those that follow its first n bytes.
WriteAt(s, n, b) ==
    [k \in 1 .. (IF n + Len(b) > Len(s) THEN n + Len(b) ELSE Len(s)) |->
        IF k \in n + 1 .. n + Len(b) THEN b[k - n] ELSE IF k <= Len(s) THEN s[k] ELSE Junk]

----------------------------------------------------------------------------
Cur(r) == prog[pc[r]]

AtCall(r, ops) == status = "ok" /\ pc[r] <= Len(prog) /\ phase[r] = "call" /\ Cur(r).op \in ops
At(r, ph)      == status = "ok" /\ phase[r] = ph

Goto(r, ph) == phase' = [phase EXCEPT ![r] = ph] /\ pc' = pc
Return(r) ==
    /\ pc' = [pc EXCEPT ![r] = @ + 1]
    /\ phase' = [phase EXCEPT ![r] = "call"]

Stop(st) ==
    /\ status' = st
    /\ UNCHANGED << pc, phase >>

----------------------------------------------------------------------------
(* OMPI_XclScatter; a query is the call without a host buffer.             *)

\* Mutant: the file is opened by each rank on its own (MPI_COMM_SELF).
OpenReturnsAlone(r) == TRUE

\* MPI_File_open (external) returns when every rank has entered it.
OpenReturns(r) == \A q \in Rank : opened[q] >= opened[r]

\* Mutant: only rank 0 opens the file for a query.
QueryOpensOnRoot(r) ==
    /\ AtCall(r, {"query", "scatter"})
    /\ opened' = [opened EXCEPT ![r] = IF r = 0 \/ Cur(r).op = "scatter" THEN @ + 1 ELSE @]
    /\ Goto(r, "size")
    /\ UNCHANGED << prog, globalVars, tray, tmphostbuffer, file, viewed, status >>

OpenToRead(r) ==
    /\ AtCall(r, {"query", "scatter"})
    /\ opened' = [opened EXCEPT ![r] = @ + 1]
    /\ Goto(r, "size")
    /\ UNCHANGED << prog, globalVars, tray, tmphostbuffer, file, viewed, status >>

\* The entities of each rank, from the size of the file.
Sizes(size, e) == Quot(Quot(Int32(size), e), NumRanks)

\* Both globals are set, by a query too.
GetSize(r) ==
    /\ At(r, "size") /\ OpenReturns(r)
    /\ MPIentityTypeSize' = [MPIentityTypeSize EXCEPT ![r] = Cur(r).e]
    /\ ePerRank' = [ePerRank EXCEPT ![r] = Sizes(Len(file[Cur(r).file]), Cur(r).e)]
    /\ IF Cur(r).op = "query" THEN Return(r) ELSE Goto(r, "read")
    /\ UNCHANGED << prog, tray, tmphostbuffer, file, opened, viewed, status >>

----------------------------------------------------------------------------
(* MPI_File_set_view of the file just opened, in ROMIO.                    *)

\* Where the code wants the view of a rank to begin.
Offset(r) == Int32(r * ePerRank[r] * MPIentityTypeSize[r])

\* A negative displacement is refused, and a filetype (the datatype passed to the
\* call) that is no multiple of the etype.
ViewAccepted(r) == Offset(r) >= 0 /\ Cur(r).e % FloatSize = 0

\* Mutant: the displacement of the view is in entities.
DisplacementInEntities(r) == IF ViewAccepted(r) THEN Int32(r * ePerRank[r]) ELSE 0

\* Where the view begins.  The code ignores the error: a view that was refused is
\* the one of the open, all bytes of the file.
Displacement(r) == IF ViewAccepted(r) THEN Offset(r) ELSE 0

\* An accepted set_view ends in a barrier, one that is refused returns at once.
ViewReturns(r) ==
    ViewAccepted(r) =>
        \A q \in Rank :
            \/ opened[r] \in viewed[q]
            \/ opened[q] = opened[r] /\ phase[q] \in {"read", "write"} /\ ViewAccepted(q)

LeaveView(r) ==
    /\ ViewReturns(r)
    /\ viewed' = [viewed EXCEPT ![r] = IF ViewAccepted(r) THEN @ \cup {opened[r]} ELSE @]

\* MPI_File_read of ePerRank entities through the view, then the host buffer
\* goes to the trays; a task that would get a buffer of no bytes is an error.
ReadPart(r) ==
    LET n == Int32(ePerRank[r] * MPIentityTypeSize[r]) IN
    /\ At(r, "read") /\ LeaveView(r)
    /\ IF ePerRank[r] < NumTasks
       THEN Stop("died") /\ UNCHANGED tray
       ELSE /\ tray' = [tray EXCEPT ![r] =
                  SubSeq(file[Cur(r).file], Displacement(r) + 1, Displacement(r) + n)]
            /\ Return(r) /\ status' = status
    /\ UNCHANGED << prog, globalVars, tmphostbuffer, file, opened >>

----------------------------------------------------------------------------
(* OMPI_XclGather                                                          *)

\* Mutant: the buffer is for one task.
SpaceForOne(r) == Cur(r).count * MPIentityTypeSize[r]

\* The size of tmphostbuffer, an int: the code says "space enough for all tasks in this
\* process".  malloc gives nothing for one that wraps to a negative value.
Space(r) == Int32(Cur(r).count * MPIentityTypeSize[r] * NumTasks)

\* The trays are read into tmphostbuffer with the sizes of the last scatter.
ReadTrays(r) ==
    /\ AtCall(r, {"gather"})
    /\ IF tray[r] = << >> THEN Stop("died") /\ UNCHANGED << tmphostbuffer, opened >>
       ELSE IF Len(tray[r]) > Space(r) THEN Stop("wild") /\ UNCHANGED << tmphostbuffer, opened >>
       ELSE /\ tmphostbuffer' = [tmphostbuffer EXCEPT ![r] =
                  [k \in 1 .. Space(r) |-> IF k <= Len(tray[r]) THEN tray[r][k] ELSE Junk]]
            /\ opened' = [opened EXCEPT ![r] = @ + 1]
            /\ Goto(r, "write") /\ status' = status
    /\ UNCHANGED << prog, globalVars, tray, file, viewed >>

\* The bytes that MPI_File_write takes from the buffer for ePerRank entities of the type
\* passed to the call: it refuses a negative count, and one whose bytes are no int.
ToWrite(r) ==
    LET n == ePerRank[r] * Cur(r).e IN IF n \in 0 .. IntLimit - 1 THEN n ELSE 0

\* They are written through a view that the globals place.
WritePart(r) ==
    LET n == ToWrite(r) IN
    /\ At(r, "write") /\ OpenReturns(r) /\ LeaveView(r)
    /\ IF n > Len(tmphostbuffer[r]) THEN Stop("wild") /\ file' = file
       ELSE /\ file' = IF n = 0 THEN file ELSE
                 [file EXCEPT ![Cur(r).file] =
                     WriteAt(@, Displacement(r), SubSeq(tmphostbuffer[r], 1, n))]
            /\ Return(r) /\ status' = status
    /\ UNCHANGED << prog, globalVars, tray, tmphostbuffer, opened >>

----------------------------------------------------------------------------
\* OMPI_XclSend and OMPI_XclRecv, of another tray: the ranks of the two tasks
\* overwrite MPIentityTypeSize.
Transfer(r) ==
    /\ AtCall(r, {"transfer"})
    /\ MPIentityTypeSize' = IF r \in {Cur(r).src, Cur(r).dst}
                            THEN [MPIentityTypeSize EXCEPT ![r] = Cur(r).e]
                            ELSE MPIentityTypeSize
    /\ Return(r)
    /\ UNCHANGED << prog, ePerRank, tray, tmphostbuffer, file, opened, viewed, status >>

Kernel(r) ==
    /\ AtCall(r, {"kernel"})
    /\ tray' = [tray EXCEPT ![r] = [k \in DOMAIN @ |-> << pc[r], r, k >>]]
    /\ Return(r)
    /\ UNCHANGED << prog, globalVars, tmphostbuffer, file, opened, viewed, status >>

Init ==
    /\ prog \in Programs
    /\ pc = [r \in Rank |-> 1]
    /\ phase = [r \in Rank |-> "call"]
    /\ MPIentityTypeSize = [r \in Rank |-> 0]
    /\ ePerRank = [r \in Rank |-> 0]
    /\ tray = [r \in Rank |-> << >>]
    /\ tmphostbuffer = [r \in Rank |-> << >>]
    /\ file = [f \in File |-> [k \in 1 .. FileSize[f] |-> << 0, 0, k >>]]
    /\ opened = [r \in Rank |-> 0]
    /\ viewed = [r \in Rank |-> {}]
    /\ status = "ok"

Step(r) ==
    \/ OpenToRead(r) \/ GetSize(r) \/ ReadPart(r)
    \/ ReadTrays(r) \/ WritePart(r)
    \/ Transfer(r) \/ Kernel(r)

Next == \E r \in Rank : Step(r)

Spec == Init /\ [][Next]_vars

\* Every process runs, and a collective returns once all ranks have called it.
FairSpec == Spec /\ \A r \in Rank : WF_vars(Step(r))
----------------------------------------------------------------------------
\* The types of the variables.
TypeOK ==
    /\ prog \in Programs
    /\ pc \in [Rank -> 1 .. Len(prog) + 1]
    /\ phase \in [Rank -> {"call", "size", "read", "write"}]
    /\ MPIentityTypeSize \in [Rank -> Nat]
    /\ ePerRank \in [Rank -> -IntLimit .. IntLimit - 1]
    /\ tray \in [Rank -> Seq(Byte)]
    /\ tmphostbuffer \in [Rank -> Seq(Byte)]
    /\ file \in [File -> Seq(Byte)]
    /\ opened \in [Rank -> Nat]
    /\ viewed \in [Rank -> SUBSET Nat]
    /\ status \in {"ok", "died", "wild"}

----------------------------------------------------------------------------
(* The program run call by call: what scatter and gather are meant to do.  *)

SetsGlobals(c) == c.op \in {"query", "scatter", "transfer"}

\* The last scatter before call n.
LastScatter(n) ==
    {s \in 1 .. n - 1 : prog[s].op = "scatter" /\ \A m \in s + 1 .. n - 1 : prog[m].op # "scatter"}

\* A scatter gives each rank the next equal block of entities of the file, and a gather
\* puts the blocks one after the other at the beginning of the file.
ScatterBlock(c, S) == ((Len(S.file[c.file]) \div c.e) \div NumRanks) * c.e

GatheredBlocks(S) ==
    LET block == Len(S.tray[0])
    IN  [k \in 1 .. NumRanks * block |-> S.tray[(k - 1) \div block][((k - 1) % block) + 1]]

\* What call c, the n-th of the program, does to trays and files S.
Effect(n, c, S) ==
    CASE c.op = "scatter" ->
            LET block == ScatterBlock(c, S)
            IN  [S EXCEPT !.tray = [r \in Rank |-> SubSeq(S.file[c.file], r * block + 1, (r + 1) * block)]]
      [] c.op = "gather" -> [S EXCEPT !.file[c.file] = WriteAt(@, 0, GatheredBlocks(S))]
      [] c.op = "kernel" -> [S EXCEPT !.tray = [r \in Rank |-> [k \in DOMAIN S.tray[r] |-> << n, r, k >>]]]
      [] OTHER -> S

\* Trays and files when the program starts, and after n calls.
AtStart == [tray |-> [r \in Rank |-> << >>],
            file |-> [f \in File |-> [k \in 1 .. FileSize[f] |-> << 0, 0, k >>]]]

After[n \in 0 .. Len(prog)] == IF n = 0 THEN AtStart ELSE Effect(n, prog[n], After[n - 1])

\* Each gather has the datatype of the last scatter, room for its entities, and
\* no call in between has overwritten the globals with other values.
Clean ==
    \A g \in DOMAIN prog : prog[g].op = "gather" =>
        \E s \in LastScatter(g) :
            /\ prog[g].e = prog[s].e
            /\ prog[g].count * prog[g].e * NumTasks \in Len(After[s].tray[0]) .. IntLimit - 1
            /\ \A m \in s + 1 .. g - 1 : SetsGlobals(prog[m]) =>
                  /\ prog[m].e = prog[s].e
                  /\ prog[m].op = "query" =>
                        Len(After[m - 1].file[prog[m].file]) = Len(After[s - 1].file[prog[s].file])

\* The datatypes that views are made of are multiples of MPI_FLOAT.
WholeFloats ==
    \A n \in DOMAIN prog : prog[n].op \in {"scatter", "gather"} => prog[n].e % FloatSize = 0

\* The size of every file that is used fits an int.
Fits ==
    \A n \in DOMAIN prog : prog[n].op \in {"query", "scatter", "gather"} =>
        Len(After[n].file[prog[n].file]) < IntLimit

----------------------------------------------------------------------------
\* OMPI_XclScatter gives every entity of the file, but fewer than the number of
\* ranks at its end, to one rank: however far the ranks are apart, each has in
\* its trays what the program run call by call gives it.  Entities that are no
\* multiple of MPI_FLOAT are left out: every rank gets the first block of these.
ScatterIsSequential ==
    status = "ok" /\ WholeFloats /\ Clean /\ Fits => \A r \in Rank : tray[r] = After[pc[r] - 1].tray[r]

\* OMPI_XclGather puts the parts back where a scatter of the file would find
\* them: whenever no rank is in a gather of a file that another rank has not
\* completed, the file is what the program run call by call leaves.  Entities that are
\* no multiple of MPI_FLOAT are left out: all ranks write these to the first block.
GatherIsSequential ==
    /\ status = "ok" /\ WholeFloats /\ Clean /\ Fits
    /\ \A r, q \in Rank : pc[r] = pc[q]
    /\ \A r \in Rank : phase[r] = "call"
  => file = After[pc[0] - 1].file

\* The variables keep their types, ints included, and a program that passes a gather
\* the datatype and the count of the last scatter
\* reads and writes no byte outside a host buffer.
NoWildAccess == TypeOK /\ (Clean /\ Fits => status # "wild")

\* Every rank gets to the end of its program unless a process dies: all ranks open the
\* files equally often, and wait for each other in set_view, whether or not their
\* datatypes are accepted.  A displacement that wraps to a negative int on one rank is
\* left out: the ranks whose views are accepted wait for that one for ever.
AllRanksFinish ==
    [](\A r \in Rank : phase[r] \in {"read", "write"} => Offset(r) >= 0)
        => <>(status # "ok" \/ \A r \in Rank : pc[r] > Len(prog))
=============================================================================
