------------------------------ MODULE TaskComms ------------------------------
(***************************************************************************)
(* Moving data between tasks: OMPI_XclWriteTaskBuffer, ReadTaskBuffer,      *)
(* XclSend, XclRecv and XclSendRecv (singleSidedComms.c).                   *)
(*                                                                          *)
(* Every rank makes the same sequence `prog' of calls, at its own pace, and *)
(* in each call acts for the tasks it owns.  The trays the calls name have  *)
(* been allocated; how a tray comes to exist is not part of this module.    *)
(* MPI is external: messages between two ranks with the same tag are        *)
(* received in the order they were sent, and MPI_Isend never blocks.        *)
(***************************************************************************)
EXTENDS Integers, Sequences

CONSTANTS
    Rank,       \* the processes of the communicator
    Task,       \* the global task ids
    r_rank,     \* g_taskList[t].r_rank: the rank that owns a task
    deviceId,   \* taskList[i].device[0].deviceId of every task
    Tray,       \* the trays (buffers) of a task
    Tag,        \* message tags; XclSendRecv uses 0
    MaxCalls,   \* bound on the length of a program
    Programs,   \* the SPMD programs: sequences of calls to the library
    match,      \* per program and receiving call, the call that sends its message
    SeqMem      \* per program, the trays after each of its calls run in sequence

Call == [op : {"write", "read", "send", "recv", "sendRecv"},
         src : Task, srcTray : Tray, dst : Task, dstTray : Tray, tag : Tag]

\* Both tasks are on the same device of the same rank.
SameDevice(c) == r_rank[c.src] = r_rank[c.dst] /\ deviceId[c.src] = deviceId[c.dst]

IsSend(c) == c.op = "send" \/ (c.op = "sendRecv" /\ ~SameDevice(c))
IsRecv(c) == c.op = "recv" \/ (c.op = "sendRecv" /\ ~SameDevice(c))

\* What MPI matches a message by: its two ranks and its tag, not its tasks.
Envelope(c) == << r_rank[c.src], r_rank[c.dst], c.tag >>

\* Every receiving call has a sending call before it (or is one itself) that
\* names the same tasks, and calls of one envelope pair up in order.
WellMatched(p, m) ==
    \A i \in DOMAIN p : IsRecv(p[i]) =>
        /\ m[i] \in 1 .. i
        /\ IsSend(p[m[i]]) /\ p[m[i]].src = p[i].src /\ p[m[i]].dst = p[i].dst /\ p[m[i]].tag = p[i].tag
        /\ \A k \in 1 .. i - 1 : IsRecv(p[k]) /\ Envelope(p[k]) = Envelope(p[i]) => m[k] # m[i]
        /\ \A j \in 1 .. m[i] - 1 : IsSend(p[j]) /\ Envelope(p[j]) = Envelope(p[i]) =>
              \E k \in 1 .. i - 1 : IsRecv(p[k]) /\ Envelope(p[k]) = Envelope(p[i]) /\ m[k] = j

\* The trays after call n, when the calls run one after the other: a written
\* tray holds the number of the Write call, a receive copies what the matching
\* send read.
Effect(p, m, mem, n) ==
    LET c == p[n] IN
    IF c.op = "write" THEN [mem[n - 1] EXCEPT ![c.dst][c.dstTray] = n]
    ELSE IF IsRecv(c)
    THEN [mem[n - 1] EXCEPT ![c.dst][c.dstTray] = mem[m[n] - 1][c.src][p[m[n]].srcTray]]
    ELSE IF c.op = "sendRecv"
    THEN [mem[n - 1] EXCEPT ![c.dst][c.dstTray] = mem[n - 1][c.src][c.srcTray]]
    ELSE mem[n - 1]

Value  == 0 .. MaxCalls
Memory == [Task -> [Tray -> Value]]

ASSUME TaskCommsAssumption ==
    /\ r_rank \in [Task -> Rank]
    /\ MaxCalls \in Nat
    /\ 0 \in Tag
    /\ \A p \in Programs :
          /\ p \in Seq(Call) /\ Len(p) \in 1 .. MaxCalls
          /\ \A i \in DOMAIN p : p[i].op = "sendRecv" => p[i].tag = 0
          /\ WellMatched(p, match[p])
          /\ SeqMem[p] \in [0 .. Len(p) -> Memory]
          /\ SeqMem[p][0] = [t \in Task |-> [y \in Tray |-> 0]]
          /\ \A n \in 1 .. Len(p) : SeqMem[p][n] = Effect(p, match[p], SeqMem[p], n)

VARIABLES
    prog,       \* the calls of the application, the same on every rank
    pc,         \* per rank, the position of the call it is in
    phase,      \* per rank, "call", or "recv" between the halves of XclSendRecv
    tray,       \* the contents of the trays of every task
    chan,       \* per envelope, the messages that were sent and not received
    got,        \* per Read call, what it put in the host buffer
    aborted     \* some process died, and the job with it

vars == << prog, pc, phase, tray, chan, got, aborted >>

Msg == [call : 1 .. MaxCalls, val : Value]      \* call: who sent it (history)
----------------------------------------------------------------------------
Cur(r) == prog[pc[r]]

AtCall(r, op) ==
    /\ ~aborted
    /\ pc[r] <= Len(prog)
    /\ phase[r] = "call"
    /\ Cur(r).op = op

Return(r) ==
    /\ pc' = [pc EXCEPT ![r] = @ + 1]
    /\ phase' = [phase EXCEPT ![r] = "call"]

SetTray(t, y, v) == tray' = [tray EXCEPT ![t][y] = v]

\* The owner of the task writes its tray, all others return.
WriteTaskBuffer(r) ==
    /\ AtCall(r, "write")
    /\ IF r = r_rank[Cur(r).dst] THEN SetTray(Cur(r).dst, Cur(r).dstTray, pc[r]) ELSE tray' = tray
    /\ Return(r)
    /\ UNCHANGED << prog, chan, got, aborted >>

ReadTaskBuffer(r) ==
    /\ AtCall(r, "read")
    /\ got' = IF r = r_rank[Cur(r).src]
              THEN [got EXCEPT ![pc[r]] = tray[Cur(r).src][Cur(r).srcTray]]
              ELSE got
    /\ Return(r)
    /\ UNCHANGED << prog, tray, chan, aborted >>

\* Mutants: every rank sends; a message to the rank itself is not sent.
SendFromAll(r) ==
    chan' = [chan EXCEPT ![Envelope(Cur(r))] =
                Append(@, [call |-> pc[r], val |-> tray[Cur(r).src][Cur(r).srcTray]])]

SendToOthers(r) ==
    chan' = IF r = r_rank[Cur(r).src] /\ r # r_rank[Cur(r).dst]
            THEN [chan EXCEPT ![Envelope(Cur(r))] =
                    Append(@, [call |-> pc[r], val |-> tray[Cur(r).src][Cur(r).srcTray]])]
            ELSE chan

\* OMPI_XclSend reads the tray into a fresh host buffer and hands it to
\* MPI_Isend; the request is dropped and the buffer never touched again.
SendMessage(r) ==
    chan' = IF r = r_rank[Cur(r).src]
            THEN [chan EXCEPT ![Envelope(Cur(r))] =
                    Append(@, [call |-> pc[r], val |-> tray[Cur(r).src][Cur(r).srcTray]])]
            ELSE chan

\* Mutants: the last message is taken; the receive does not wait.
ReceiveLast(r) ==
    LET e == Envelope(Cur(r)) IN
    IF r = r_rank[Cur(r).dst]
    THEN /\ chan[e] # << >>
         /\ SetTray(Cur(r).dst, Cur(r).dstTray, chan[e][Len(chan[e])].val)
         /\ chan' = [chan EXCEPT ![e] = SubSeq(@, 1, Len(@) - 1)]
    ELSE UNCHANGED << tray, chan >>

ReceiveNoWait(r) ==
    LET e == Envelope(Cur(r)) IN
    IF r = r_rank[Cur(r).dst] /\ chan[e] # << >>
    THEN /\ SetTray(Cur(r).dst, Cur(r).dstTray, Head(chan[e]).val)
         /\ chan' = [chan EXCEPT ![e] = Tail(@)]
    ELSE UNCHANGED << tray, chan >>

\* OMPI_XclRecv waits for a message and writes it to the tray.
ReceiveMessage(r) ==
    LET e == Envelope(Cur(r)) IN
    IF r = r_rank[Cur(r).dst]
    THEN /\ chan[e] # << >>
         /\ SetTray(Cur(r).dst, Cur(r).dstTray, Head(chan[e]).val)
         /\ chan' = [chan EXCEPT ![e] = Tail(@)]
    ELSE UNCHANGED << tray, chan >>

XclSend(r) ==
    /\ AtCall(r, "send")
    /\ SendMessage(r)
    /\ Return(r)
    /\ UNCHANGED << prog, tray, got, aborted >>

XclRecv(r) ==
    /\ AtCall(r, "recv")
    /\ ReceiveMessage(r)
    /\ Return(r)
    /\ UNCHANGED << prog, got, aborted >>

\* The rank that owns both tasks, on one device, copies the tray there.
IntraCopy(r) ==
    /\ AtCall(r, "sendRecv")
    /\ SameDevice(Cur(r)) /\ r = r_rank[Cur(r).src]
    /\ SetTray(Cur(r).dst, Cur(r).dstTray, tray[Cur(r).src][Cur(r).srcTray])
    /\ Return(r)
    /\ UNCHANGED << prog, chan, got, aborted >>

\* All others call XclSend and then XclRecv, which act if the rank is concerned.
SendRecvSend(r) ==
    /\ AtCall(r, "sendRecv")
    /\ ~(SameDevice(Cur(r)) /\ r = r_rank[Cur(r).src])
    /\ SendMessage(r)
    /\ phase' = [phase EXCEPT ![r] = "recv"]
    /\ UNCHANGED << prog, pc, tray, got, aborted >>

SendRecvRecv(r) ==
    /\ ~aborted
    /\ phase[r] = "recv"
    /\ ReceiveMessage(r)
    /\ Return(r)
    /\ UNCHANGED << prog, got, aborted >>

\* Rank r is in MPI_Wait and no message has come.
Waiting(r) ==
    /\ Cur(r).op = "recv" \/ phase[r] = "recv"
    /\ r = r_rank[Cur(r).dst]
    /\ chan[Envelope(Cur(r))] = << >>

\* An OpenCL call on a tray of the rank fails and chkerr exits.
DeviceError(r) ==
    /\ ~aborted
    /\ pc[r] <= Len(prog)
    /\ r \in {r_rank[Cur(r).src], r_rank[Cur(r).dst]}
    /\ ~Waiting(r)
    /\ aborted' = TRUE
    /\ UNCHANGED << prog, pc, phase, tray, chan, got >>
----------------------------------------------------------------------------
Init ==
    /\ prog \in Programs
    /\ pc = [r \in Rank |-> 1]
    /\ phase = [r \in Rank |-> "call"]
    /\ tray = [t \in Task |-> [y \in Tray |-> 0]]
    /\ chan = [e \in Rank \X Rank \X Tag |-> << >>]
    /\ got = [c \in 1 .. MaxCalls |-> 0]
    /\ aborted = FALSE

Step(r) ==
    \/ WriteTaskBuffer(r) \/ ReadTaskBuffer(r)
    \/ XclSend(r) \/ XclRecv(r)
    \/ IntraCopy(r) \/ SendRecvSend(r) \/ SendRecvRecv(r)

Next == \E r \in Rank : Step(r) \/ DeviceError(r)

Spec == Init /\ [][Next]_vars

\* The scheduler runs every process, and MPI delivers what was sent.
FairSpec == Spec /\ \A r \in Rank : WF_vars(Step(r))
----------------------------------------------------------------------------
\* The types of the variables.
TypeOK ==
    /\ prog \in Programs
    /\ pc \in [Rank -> 1 .. Len(prog) + 1]
    /\ phase \in [Rank -> {"call", "recv"}]
    /\ tray \in Memory
    /\ chan \in [Rank \X Rank \X Tag -> Seq(Msg)]
    /\ got \in [1 .. MaxCalls -> Value]
    /\ aborted \in BOOLEAN

\* Although ranks run ahead of each other and messages carry no task ids, every
\* rank's trays are at every moment what the calls it has made, run one after
\* the other, leave in them.
SequentialMemory ==
    \A t \in Task : tray[t] = SeqMem[prog][pc[r_rank[t]] - 1][t]

\* OMPI_XclReadTaskBuffer returns what a sequential run would have read.
SequentialReads ==
    \A c \in DOMAIN prog : prog[c].op = "read" /\ pc[r_rank[prog[c].src]] > c =>
        got[c] = SeqMem[prog][c - 1][prog[c].src][prog[c].srcTray]

\* The message a rank takes was sent by the call that names the same tasks:
\* matching by rank and tag never hands it the data of another copy.
ReceivesItsMessage ==
    \A r \in Rank :
        LET e == Envelope(Cur(r)) IN
        /\ pc[r] <= Len(prog) /\ r = r_rank[Cur(r).dst]
        /\ Cur(r).op = "recv" \/ phase[r] = "recv"
        /\ chan[e] # << >>
        => Head(chan[e]).call = match[prog][pc[r]]

\* Every rank gets to the end of its program (or the job is aborted): the
\* blocking receives never wait for each other.
AllRanksFinish == <>(aborted \/ \A r \in Rank : pc[r] > Len(prog))
=============================================================================
