------------------------------- MODULE TunedColl -------------------------------
(***************************************************************************)
(* MPI_Barrier and MPI_Allgather as the tuned collective component runs     *)
(* them: the ranks of a communicator make the same calls, each at its own   *)
(* speed, and a call is a program of exchanges of the rank.  All messages   *)
(* of a collective have the same tag, so that one of this call can only be  *)
(* told from one of the next by the order in which they arrive.  The waits  *)
(* of XCLFrame end in a barrier, and its global task map is gathered.       *)
(*                                                                          *)
(* Point to point messages are external: of two from one rank to another    *)
(* that a receive accepts the first sent is matched (Matching); a message   *)
(* of up to eager blocks is copied when it is sent, a longer one is read    *)
(* from the sender's buffer when a receive matches it, and only then the    *)
(* send ends.                                                               *)
(***************************************************************************)
EXTENDS TunedBarrier, TunedAllgather

CONSTANTS MaxSize,  \* bound on the size of a communicator
          Comms     \* the communicators that are tried, see comm

Rank == 0 .. MaxSize - 1

ASSUME TunedCollAssumption ==
    /\ MaxSize \in Nat
    /\ \A c \in Comms :
          /\ c.size \in 2 .. MaxSize /\ c.calls \in Seq({"barrier", "allgather"})
          /\ c.barrier \in 0 .. 6 /\ (c.barrier = 5 => c.size = 2)
          /\ c.allgather \in {0} \cup 2 .. 6 /\ (c.allgather = 6 => c.size = 2)
          /\ c.eager \in Nat /\ c.in_place \in BOOLEAN /\ c.large \subseteq Rank

VARIABLES
    comm,     \* size; the calls that are made; the forced algorithms barrier and allgather, 0
              \* for none; the eager limit in blocks; in_place; and large, the ranks whose
              \* sendcount and sendtype make for 50000 bytes or more
    prog,     \* per collective and rank, the exchanges it makes
    step,     \* per rank, the exchange it is at, 0 outside the collectives
    recv,     \* per rank, the receive of that exchange: "none", "posted" or "done"
    send,     \* per rank, its send: "none", "posted" or "done"
    rbuf,     \* per rank, the blocks of its receive buffer
    net,      \* net[s][d]: the messages from s to d that no receive has matched
    entered,  \* per rank, how many calls it has made
    left      \* per rank, how many calls have returned

vars == << comm, prog, step, recv, send, rbuf, net, entered, left >>

ranks == 0 .. comm.size - 1

\* What rank r contributes to its k-th call; its send buffer, and with MPI_IN_PLACE
\* its block of the receive buffer, holds it when it calls.
Block(r, k) == << r, k >>
None == << >>
----------------------------------------------------------------------------
\* The allgather algorithm of rank r.
Alg(r) == AllgatherAlgorithm(comm.size, comm.allgather, r \in comm.large)

\* The exchanges that rank r makes in a call.
Program(r, call) ==
    IF call = "barrier" THEN barrier_intra_do_this(comm.size, comm.barrier, r)
    ELSE allgather_intra_do_this(comm.size, Alg(r), r)

Call(r) == comm.calls[entered[r]]
Now(r) == prog[Call(r)][r][step[r]]

\* MCA_COLL_BASE_TAG_BARRIER and MCA_COLL_BASE_TAG_ALLGATHER.
CollTag(call) == call

\* The blocks of a buffer from loc on.
Blocks(buf, loc, count) == [i \in 1 .. count |-> buf[loc + i - 1]]

\* buf with the blocks of a message from loc on, as far as count says.
Place(buf, loc, count, data) ==
    [b \in DOMAIN buf |-> IF b - loc + 1 \in 1 .. count /\ b - loc + 1 <= Len(data) THEN data[b - loc + 1] ELSE buf[b]]

\* The own block is put in place before the exchanges, by Bruck as the first one.  (Two
\* processes do it after their exchange, which sends from sbuf: to the same effect.)
Initialization(r, buf) ==
    LET own == Block(r, entered[r] + 1)
        inPlace == IF comm.in_place THEN [buf EXCEPT ![r] = own] ELSE buf
    IN  [inPlace EXCEPT ![IF Alg(r) = 2 THEN 0 ELSE r] = own]

\* Mutant: the blocks are not shifted on the last rank.
FinalizationNoLast(r, buf) ==
    IF Alg(r) = 2 /\ r # comm.size - 1
    THEN [b \in DOMAIN buf |-> IF b \in ranks THEN buf[(b - r + comm.size) % comm.size] ELSE buf[b]]
    ELSE buf

\* Bruck shifts the blocks to where they belong.
Finalization(r, buf) ==
    IF Alg(r) = 2
    THEN [b \in DOMAIN buf |-> IF b \in ranks THEN buf[(b - r + comm.size) % comm.size] ELSE buf[b]]
    ELSE buf
----------------------------------------------------------------------------
\* An exchange begins: its receive is posted, if it has one.
Begin(r, x) ==
    /\ recv' = [recv EXCEPT ![r] = IF x.from = NoRank THEN "done" ELSE "posted"]
    /\ send' = [send EXCEPT ![r] = IF x.to = NoRank THEN "done" ELSE "none"]

\* A rank makes its next call.
Enter(r) ==
    /\ r \in ranks /\ step[r] = 0 /\ entered[r] < Len(comm.calls)
    /\ LET call == comm.calls[entered[r] + 1]
       IN  /\ rbuf' = IF call = "allgather" THEN [rbuf EXCEPT ![r] = Initialization(r, @)] ELSE rbuf
           /\ Begin(r, prog[call][r][1])
    /\ entered' = [entered EXCEPT ![r] = @ + 1]
    /\ step' = [step EXCEPT ![r] = 1]
    /\ UNCHANGED << comm, prog, net, left >>

\* The send, after the receive was posted: an eager message takes its blocks along.
Isend(r) ==
    /\ step[r] > 0 /\ send[r] = "none"
    /\ LET x == Now(r)
           eager == x.count <= comm.eager /\ ~x.sync
       IN  /\ net' = [net EXCEPT ![r][x.to] = Append(@,
                  [tag |-> CollTag(Call(r)), loc |-> x.sloc, count |-> x.count, eager |-> eager,
                   data |-> IF eager THEN Blocks(rbuf[r], x.sloc, x.count) ELSE << >>])]
           /\ send' = [send EXCEPT ![r] = IF eager THEN "done" ELSE "posted"]
    /\ UNCHANGED << comm, prog, step, recv, rbuf, entered, left >>

\* The position of the message from s that the receive of d accepts, 0 for none.
Accepted(s, d) == SelectInSeq(net[s][d], LAMBDA m : m.tag = CollTag(Call(d)))

\* The receive of rank d matches a message, of its source or of any rank.
Match(d) ==
    /\ recv[d] = "posted"
    /\ LET x == Now(d)
       IN  \E s \in IF x.from = MPI_ANY_SOURCE THEN ranks ELSE {x.from} :
             /\ Accepted(s, d) > 0
             /\ LET m == net[s][d][Accepted(s, d)]
                IN  /\ rbuf' = [rbuf EXCEPT ![d] = Place(@, x.rloc, x.count,
                                   IF m.eager THEN m.data ELSE Blocks(rbuf[s], m.loc, m.count))]
                    /\ send' = IF m.eager THEN send ELSE [send EXCEPT ![s] = "done"]
             /\ net' = [net EXCEPT ![s][d] = RemoveAt(@, Accepted(s, d))]
    /\ recv' = [recv EXCEPT ![d] = "done"]
    /\ UNCHANGED << comm, prog, step, entered, left >>

\* The last exchange is done and the call returns.
Return(r) ==
    /\ step' = [step EXCEPT ![r] = 0]
    /\ recv' = [recv EXCEPT ![r] = "none"] /\ send' = [send EXCEPT ![r] = "none"]
    /\ rbuf' = IF Call(r) = "allgather" THEN [rbuf EXCEPT ![r] = Finalization(r, @)] ELSE rbuf
    /\ left' = [left EXCEPT ![r] = @ + 1]

\* Mutant: only the send is waited for.
WaitsSend(r) == send[r] = "done"

\* Both requests of the exchange are complete.
Waits(r) == recv[r] = "done" /\ send[r] = "done"

\* ompi_request_wait_all ends; the next exchange begins or the call returns.
WaitAll(r) ==
    /\ step[r] > 0 /\ Waits(r)
    /\ IF step[r] < Len(prog[Call(r)][r])
       THEN /\ step' = [step EXCEPT ![r] = @ + 1]
            /\ Begin(r, prog[Call(r)][r][step[r] + 1])
            /\ UNCHANGED << rbuf, left >>
       ELSE Return(r)
    /\ UNCHANGED << comm, prog, net, entered >>

Init ==
    /\ comm \in Comms
    /\ prog = [call \in {"barrier", "allgather"} |-> [r \in ranks |-> Program(r, call)]]
    /\ step = [r \in Rank |-> 0]
    /\ recv = [r \in Rank |-> "none"] /\ send = [r \in Rank |-> "none"]
    /\ rbuf = [r \in Rank |-> [b \in Rank |-> None]]
    /\ net = [s \in Rank |-> [d \in Rank |-> << >>]]
    /\ entered = [r \in Rank |-> 0] /\ left = [r \in Rank |-> 0]

Progress(r) == Isend(r) \/ Match(r) \/ WaitAll(r)

Next == \E r \in Rank : Enter(r) \/ Progress(r)

\* A rank inside a collective makes progress; nothing makes it call one.
Spec == Init /\ [][Next]_vars /\ \A r \in Rank : WF_vars(Progress(r))

----------------------------------------------------------------------------
\* The types of the variables, and no exchange reaches past the buffers.
TypeOK ==
    /\ comm \in Comms
    /\ recv \in [Rank -> {"none", "posted", "done"}] /\ send \in [Rank -> {"none", "posted", "done"}]
    /\ \A r \in ranks : step[r] > 0 =>
          /\ step[r] <= Len(prog[Call(r)][r])
          /\ Now(r).sloc + Now(r).count <= comm.size /\ Now(r).rloc + Now(r).count <= comm.size
    /\ \A r \in Rank : left[r] <= entered[r] /\ entered[r] <= Len(comm.calls)

InAllgather(r) == step[r] > 0 /\ Call(r) = "allgather"

\* A rank whose k-th call was an allgather, and that has not begun another one, holds the
\* k-th contribution of every rank at that rank's place: no block is stale, and none is of
\* a later call of a faster rank.
Gathered ==
    \A r \in ranks : \A k \in 1 .. left[r] :
        /\ comm.calls[k] = "allgather" /\ ~InAllgather(r)
        /\ \A j \in k + 1 .. left[r] : comm.calls[j] = "barrier"
        => \A q \in ranks : rbuf[r][q] = Block(q, k)

\* The variables keep their types, and a receive never matches a message of another length, as one of another exchange or of
\* another collective would be (MPI_ERR_TRUNCATE).
NoTruncation ==
    /\ TypeOK
    /\ \A r, s \in ranks : recv[r] = "posted" /\ Now(r).from \in {s, MPI_ANY_SOURCE} /\ Accepted(s, r) > 0 =>
          net[s][r][Accepted(s, r)].count = Now(r).count

\* When all ranks are out of their k-th call, no message is left over that a later one
\* would take for its own.
NoMessageLeft ==
    (\A r \in ranks : step[r] = 0 /\ entered[r] = entered[0]) => \A s, d \in ranks : net[s][d] = << >>

\* Both collectives, with every algorithm and for every size, are barriers: no rank returns
\* from its k-th call before every rank has made its k-th, even when a fast rank is already
\* in the next one, and once all have made it every rank returns.
IsBarrier == INSTANCE Barrier
Implements == IsBarrier!Spec

\* MPI_Allgather(3) on MPI_IN_PLACE: "sendcount and sendtype are ignored": whatever the
\* ranks pass for them, a call that all ranks have made returns.
InPlaceReturns == \A r \in Rank : (r \in ranks /\ \A q \in ranks : entered[q] > 0) ~> left[r] > 0
=============================================================================
