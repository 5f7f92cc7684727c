--------------------------- MODULE TaskCommsProofs ---------------------------
(***************************************************************************)
(* Proofs about TaskComms, for every set of ranks, tasks, trays and tags    *)
(* and every well-matched program.                                          *)
(***************************************************************************)
EXTENDS TaskComms, TLAPS

\* A rank is between the halves of XclSendRecv only if it takes the MPI path.
PhaseOK ==
    \A r \in Rank : phase[r] = "recv" =>
        /\ pc[r] \in DOMAIN prog
        /\ Cur(r).op = "sendRecv"
        /\ ~(SameDevice(Cur(r)) /\ r = r_rank[Cur(r).src])

TypeInv == TypeOK /\ PhaseOK

\* The calls of a program, in the form the proofs use them.
LEMMA ProgramCalls ==
    ASSUME prog \in Programs, NEW c \in DOMAIN prog
    PROVE  /\ c \in 1 .. MaxCalls /\ c \in Nat /\ c >= 1 /\ c <= Len(prog)
           /\ prog[c] \in Call
           /\ r_rank[prog[c].src] \in Rank /\ r_rank[prog[c].dst] \in Rank
           /\ Envelope(prog[c]) \in Rank \X Rank \X Tag
<1>1. prog \in Seq(Call) /\ Len(prog) \in 1 .. MaxCalls /\ MaxCalls \in Nat
  BY TaskCommsAssumption
<1>2. c \in 1 .. MaxCalls /\ prog[c] \in Call /\ c \in Nat /\ c >= 1 /\ c <= Len(prog)
  BY <1>1
<1>3. prog[c].src \in Task /\ prog[c].dst \in Task /\ prog[c].tag \in Tag
  BY <1>2 DEF Call
<1> QED
  BY <1>2, <1>3, TaskCommsAssumption DEF Envelope

\* Positions in the program are natural numbers.
LEMMA Positions == TypeInv => Len(prog) \in Nat /\ pc \in [Rank -> Nat]
<1> SUFFICES ASSUME TypeInv PROVE Len(prog) \in Nat /\ pc \in [Rank -> Nat]
  OBVIOUS
<1>1. prog \in Programs /\ pc \in [Rank -> 1 .. Len(prog) + 1]
  BY DEF TypeInv, TypeOK
<1>2. Len(prog) \in Nat
  BY <1>1, TaskCommsAssumption
<1>3. 1 .. Len(prog) + 1 \subseteq Nat
  BY <1>2
<1> QED
  BY <1>1, <1>2, <1>3

\* The initial states have the types.
LEMMA TypeInit == Init => TypeInv
<1> SUFFICES ASSUME Init PROVE TypeInv
  OBVIOUS
<1>0. Len(prog) \in 1 .. MaxCalls /\ MaxCalls \in Nat
  BY TaskCommsAssumption DEF Init
<1>1. pc \in [Rank -> 1 .. Len(prog) + 1] /\ phase \in [Rank -> {"call", "recv"}]
  BY <1>0 DEF Init
<1>2. tray \in Memory
  BY <1>0 DEF Init, Memory, Value
<1>3. chan \in [Rank \X Rank \X Tag -> Seq(Msg)]
  BY DEF Init
<1>4. got \in [1 .. MaxCalls -> Value]
  BY <1>0 DEF Init, Value
<1>5. aborted \in BOOLEAN /\ prog \in Programs
  BY DEF Init
<1>6. PhaseOK
  BY DEF Init, PhaseOK
<1> QED
  BY <1>1, <1>2, <1>3, <1>4, <1>5, <1>6 DEF TypeInv, TypeOK

\* Facts about a rank that is at a call or between the halves of XclSendRecv.
LEMMA CurrentCall ==
    ASSUME TypeInv, NEW r \in Rank, pc[r] <= Len(prog)
    PROVE  /\ pc[r] \in DOMAIN prog /\ Cur(r) = prog[pc[r]] /\ pc[r] \in Nat
           /\ Cur(r) \in Call /\ Envelope(Cur(r)) \in Rank \X Rank \X Tag
           /\ Cur(r).src \in Task /\ Cur(r).dst \in Task
           /\ Cur(r).srcTray \in Tray /\ Cur(r).dstTray \in Tray
           /\ pc[r] \in 1 .. MaxCalls /\ pc[r] \in Value
<1>1. pc[r] \in DOMAIN prog /\ pc[r] \in Nat
  BY TaskCommsAssumption DEF TypeInv, TypeOK
<1>2. Cur(r) \in Call /\ Envelope(Cur(r)) \in Rank \X Rank \X Tag /\ pc[r] \in 1 .. MaxCalls
  BY <1>1, ProgramCalls DEF Cur, TypeInv, TypeOK
<1>3. pc[r] \in Value
  BY <1>2, TaskCommsAssumption DEF Value
<1> QED
  BY <1>1, <1>2, <1>3 DEF Call, Cur

\* Returning from a call keeps the types of the control state.
LEMMA ReturnType ==
    ASSUME TypeInv, prog' = prog, NEW r \in Rank, pc[r] <= Len(prog), Return(r)
    PROVE  /\ pc' \in [Rank -> 1 .. Len(prog) + 1]
           /\ phase' \in [Rank -> {"call", "recv"}]
           /\ PhaseOK'
<1>1. Len(prog) \in Nat /\ pc[r] \in Nat
  BY Positions
<1>2. pc' \in [Rank -> 1 .. Len(prog) + 1] /\ phase' \in [Rank -> {"call", "recv"}]
  BY <1>1 DEF TypeInv, TypeOK, Return
<1>3. PhaseOK'
  BY DEF TypeInv, TypeOK, PhaseOK, Return, Cur
<1> QED
  BY <1>2, <1>3

\* Writing a value keeps the type of the trays.
LEMMA SetTrayType ==
    ASSUME TypeInv, NEW t \in Task, NEW y \in Tray, NEW v \in Value, SetTray(t, y, v)
    PROVE  tray' \in Memory
<1>1. [tray[t] EXCEPT ![y] = v] \in [Tray -> Value]
  BY DEF TypeInv, TypeOK, Memory
<1> QED
  BY <1>1 DEF TypeInv, TypeOK, Memory, SetTray

\* OMPI_XclSend keeps the type of the messages in flight.
LEMMA SendType ==
    ASSUME TypeInv, NEW r \in Rank, pc[r] <= Len(prog), SendMessage(r)
    PROVE  chan' \in [Rank \X Rank \X Tag -> Seq(Msg)]
<1> DEFINE m == [call |-> pc[r], val |-> tray[Cur(r).src][Cur(r).srcTray]]
<1>1. m \in Msg
  <2>1. /\ pc[r] \in 1 .. MaxCalls /\ tray \in [Task -> [Tray -> Value]]
        /\ Cur(r).src \in Task /\ Cur(r).srcTray \in Tray
    BY CurrentCall DEF TypeInv, TypeOK, Memory
  <2>2. tray[Cur(r).src][Cur(r).srcTray] \in Value
    BY <2>1
  <2> QED BY <2>1, <2>2 DEF Msg
<1>2. chan[Envelope(Cur(r))] \in Seq(Msg)
  BY CurrentCall DEF TypeInv, TypeOK
<1>3. Append(chan[Envelope(Cur(r))], m) \in Seq(Msg)
  BY <1>1, <1>2
<1> QED
  BY <1>3 DEF SendMessage, TypeInv, TypeOK

\* OMPI_XclRecv keeps the types of the trays and of the messages in flight.
LEMMA ReceiveType ==
    ASSUME TypeInv, NEW r \in Rank, pc[r] <= Len(prog), ReceiveMessage(r)
    PROVE  tray' \in Memory /\ chan' \in [Rank \X Rank \X Tag -> Seq(Msg)]
<1> DEFINE e == Envelope(Cur(r))
<1>1. chan[e] \in Seq(Msg)
  BY CurrentCall DEF TypeInv, TypeOK
<1>2. CASE r = r_rank[Cur(r).dst]
  <2>1. chan[e] # << >> /\ SetTray(Cur(r).dst, Cur(r).dstTray, Head(chan[e]).val)
        /\ chan' = [chan EXCEPT ![e] = Tail(@)]
    BY <1>2 DEF ReceiveMessage
  <2>2. Head(chan[e]) \in Msg /\ Tail(chan[e]) \in Seq(Msg)
    BY <1>1, <2>1
  <2>3. Head(chan[e]).val \in Value
    BY <2>2 DEF Msg
  <2>4. tray' \in Memory
    BY <2>1, <2>3, CurrentCall, SetTrayType
  <2>5. chan' \in [Rank \X Rank \X Tag -> Seq(Msg)]
    BY <2>1, <2>2 DEF TypeInv, TypeOK
  <2> QED BY <2>4, <2>5
<1>3. CASE r # r_rank[Cur(r).dst]
  BY <1>3 DEF ReceiveMessage, TypeInv, TypeOK
<1> QED
  BY <1>2, <1>3

\* Every step of a rank keeps the types.
LEMMA TypeNext == TypeInv /\ [Next]_vars => TypeInv'
<1> SUFFICES ASSUME TypeInv, [Next]_vars PROVE TypeInv'
  OBVIOUS
<1>0. TypeOK /\ PhaseOK
  BY DEF TypeInv
<1>1. ASSUME NEW r \in Rank, WriteTaskBuffer(r) PROVE TypeInv'
  <2>1. pc[r] <= Len(prog) /\ prog' = prog /\ Return(r) /\ UNCHANGED << chan, got, aborted >>
    BY <1>1 DEF WriteTaskBuffer, AtCall
  <2>2. tray' \in Memory
    BY <1>0, <1>1, <2>1, CurrentCall, SetTrayType DEF WriteTaskBuffer, TypeOK
  <2> QED BY <1>0, <2>1, <2>2, ReturnType DEF TypeInv, TypeOK
<1>2. ASSUME NEW r \in Rank, ReadTaskBuffer(r) PROVE TypeInv'
  <2>1. pc[r] <= Len(prog) /\ prog' = prog /\ Return(r) /\ UNCHANGED << chan, tray, aborted >>
    BY <1>2 DEF ReadTaskBuffer, AtCall
  <2>2. tray[Cur(r).src][Cur(r).srcTray] \in Value
    BY <1>0, <2>1, CurrentCall DEF TypeOK, Memory
  <2>3. got' \in [1 .. MaxCalls -> Value]
    BY <1>0, <1>2, <2>2 DEF ReadTaskBuffer, TypeOK
  <2> QED BY <1>0, <2>1, <2>3, ReturnType DEF TypeInv, TypeOK
<1>3. ASSUME NEW r \in Rank, XclSend(r) PROVE TypeInv'
  <2>1. /\ pc[r] <= Len(prog) /\ prog' = prog /\ Return(r) /\ SendMessage(r)
        /\ UNCHANGED << tray, got, aborted >>
    BY <1>3 DEF XclSend, AtCall
  <2> QED BY <1>0, <2>1, ReturnType, SendType DEF TypeInv, TypeOK
<1>4. ASSUME NEW r \in Rank, XclRecv(r) \/ SendRecvRecv(r) PROVE TypeInv'
  <2>1. pc[r] <= Len(prog) /\ prog' = prog /\ Return(r) /\ ReceiveMessage(r) /\ UNCHANGED << got, aborted >>
    <3>1. CASE XclRecv(r)
      BY <3>1 DEF XclRecv, AtCall
    <3>2. CASE SendRecvRecv(r)
      BY <1>0, <3>2, ProgramCalls DEF SendRecvRecv, PhaseOK, TypeOK
    <3> QED BY <1>4, <3>1, <3>2
  <2> QED BY <1>0, <2>1, ReturnType, ReceiveType DEF TypeInv, TypeOK
<1>5. ASSUME NEW r \in Rank, IntraCopy(r) PROVE TypeInv'
  <2>1. /\ pc[r] <= Len(prog) /\ prog' = prog /\ Return(r) /\ UNCHANGED << chan, got, aborted >>
        /\ SetTray(Cur(r).dst, Cur(r).dstTray, tray[Cur(r).src][Cur(r).srcTray])
    BY <1>5 DEF IntraCopy, AtCall
  <2>2. tray[Cur(r).src][Cur(r).srcTray] \in Value
    BY <1>0, <2>1, CurrentCall DEF TypeOK, Memory
  <2>3. tray' \in Memory
    BY <2>1, <2>2, CurrentCall, SetTrayType
  <2> QED BY <1>0, <2>1, <2>3, ReturnType DEF TypeInv, TypeOK
<1>6. ASSUME NEW r \in Rank, SendRecvSend(r) PROVE TypeInv'
  <2>1. /\ pc[r] <= Len(prog) /\ prog' = prog /\ SendMessage(r) /\ UNCHANGED << pc, tray, got, aborted >>
        /\ phase' = [phase EXCEPT ![r] = "recv"]
        /\ Cur(r).op = "sendRecv" /\ ~(SameDevice(Cur(r)) /\ r = r_rank[Cur(r).src])
    BY <1>6 DEF SendRecvSend, AtCall
  <2>2. phase' \in [Rank -> {"call", "recv"}]
    BY <1>0, <2>1 DEF TypeOK
  <2>3. PhaseOK'
    BY <1>0, <2>1, CurrentCall DEF TypeOK, PhaseOK, Cur
  <2> QED BY <1>0, <2>1, <2>2, <2>3, SendType DEF TypeInv, TypeOK
<1>7. ASSUME NEW r \in Rank, DeviceError(r) PROVE TypeInv'
  <2>1. UNCHANGED << prog, pc, phase, tray, chan, got >> /\ aborted' = TRUE
    BY <1>7 DEF DeviceError
  <2>2. PhaseOK'
    BY <1>0, <2>1 DEF PhaseOK, Cur
  <2> QED BY <1>0, <2>1, <2>2 DEF TypeInv, TypeOK
<1>8. CASE UNCHANGED vars
  <2>1. PhaseOK'
    BY <1>0, <1>8 DEF vars, PhaseOK, Cur
  <2> QED BY <1>0, <1>8, <2>1 DEF vars, TypeInv, TypeOK
<1> QED
  BY <1>1, <1>2, <1>3, <1>4, <1>5, <1>6, <1>7, <1>8 DEF Next, Step

\* Every state the transfers of task buffers reach is type correct.
THEOREM TypeCorrect == Spec => []TypeOK
<1>1. TypeInv => TypeOK
  BY DEF TypeInv
<1> QED
  BY TypeInit, TypeNext, <1>1, PTL DEF Spec

-----------------------------------------------------------------------------
(* Every rank's trays are those of the sequential run.                     *)

\* The sending call j has been executed by the rank of its source task.
Sent(j) ==
    LET s == r_rank[prog[j].src] IN j < pc[s] \/ (j = pc[s] /\ phase[s] = "recv")

\* The receiving call k has been executed by the rank of its destination task.
Done(k) == k < pc[r_rank[prog[k].dst]]

\* The message of the sending call j has been received.
Received(j) ==
    \E k \in DOMAIN prog : /\ IsRecv(prog[k]) /\ Done(k)
                           /\ Envelope(prog[k]) = Envelope(prog[j])
                           /\ match[prog][k] = j

\* A message is the unreceived message of a sending call, with its data.
MsgOK(e, m) ==
    /\ m.call \in DOMAIN prog /\ IsSend(prog[m.call]) /\ Envelope(prog[m.call]) = e
    /\ Sent(m.call) /\ ~Received(m.call)
    /\ m.val = SeqMem[prog][m.call - 1][prog[m.call].src][prog[m.call].srcTray]

ChanOK == \A e \in Rank \X Rank \X Tag : \A i \in DOMAIN chan[e] : MsgOK(e, chan[e][i])

\* Messages of one envelope are in the order of the calls that sent them.
Ordered ==
    \A e \in Rank \X Rank \X Tag : \A i, k \in DOMAIN chan[e] :
        i < k => chan[e][i].call < chan[e][k].call

\* Nothing that was sent is lost.
Delivered ==
    \A j \in DOMAIN prog : IsSend(prog[j]) /\ Sent(j) /\ ~Received(j) =>
        \E i \in DOMAIN chan[Envelope(prog[j])] : chan[Envelope(prog[j])][i].call = j

\* Nothing is received before it is sent.
RecvSent ==
    \A k \in DOMAIN prog : IsRecv(prog[k]) /\ Done(k) => Sent(match[prog][k])

CommInv ==
    /\ TypeInv
    /\ ChanOK /\ Ordered /\ Delivered /\ RecvSent
    /\ SequentialMemory
    /\ SequentialReads

\* How calls of a program are matched.
LEMMA Matched ==
    ASSUME prog \in Programs, NEW i \in DOMAIN prog, IsRecv(prog[i])
    PROVE  LET m == match[prog] IN
           /\ m[i] \in DOMAIN prog /\ m[i] \in Nat /\ m[i] <= i /\ m[i] >= 1
           /\ IsSend(prog[m[i]]) /\ Envelope(prog[m[i]]) = Envelope(prog[i])
           /\ prog[m[i]].src = prog[i].src
           /\ \A k \in DOMAIN prog :
                 k < i /\ IsRecv(prog[k]) /\ Envelope(prog[k]) = Envelope(prog[i]) => m[k] # m[i]
           /\ \A j \in DOMAIN prog :
                 j < m[i] /\ IsSend(prog[j]) /\ Envelope(prog[j]) = Envelope(prog[i]) =>
                    \E k \in DOMAIN prog : /\ k < i /\ IsRecv(prog[k])
                                           /\ Envelope(prog[k]) = Envelope(prog[i]) /\ m[k] = j
<1> DEFINE m == match[prog]
<1>1. WellMatched(prog, m)
  BY TaskCommsAssumption
<1>2. prog \in Seq(Call) /\ Len(prog) \in Nat /\ i \in 1 .. Len(prog)
  BY TaskCommsAssumption
<1>3. DOMAIN prog = 1 .. Len(prog)
  BY <1>2
<1>4. /\ m[i] \in 1 .. i
      /\ IsSend(prog[m[i]]) /\ prog[m[i]].src = prog[i].src
      /\ prog[m[i]].dst = prog[i].dst /\ prog[m[i]].tag = prog[i].tag
  BY <1>1 DEF WellMatched
<1>5. m[i] \in DOMAIN prog /\ m[i] \in Nat /\ m[i] <= i /\ m[i] >= 1
  BY <1>2, <1>3, <1>4
<1>6. \A k \in 1 .. i - 1 : IsRecv(prog[k]) /\ Envelope(prog[k]) = Envelope(prog[i]) => m[k] # m[i]
  BY <1>1 DEF WellMatched
<1>7. \A j \in 1 .. m[i] - 1 : IsSend(prog[j]) /\ Envelope(prog[j]) = Envelope(prog[i]) =>
          \E k \in 1 .. i - 1 : IsRecv(prog[k]) /\ Envelope(prog[k]) = Envelope(prog[i]) /\ m[k] = j
  BY <1>1 DEF WellMatched
<1>8. \A k \in DOMAIN prog : k < i => k \in 1 .. i - 1
  BY <1>2, <1>3
<1>9. \A k \in 1 .. i - 1 : k \in DOMAIN prog /\ k < i
  BY <1>2, <1>3
<1>10. \A j \in DOMAIN prog : j < m[i] => j \in 1 .. m[i] - 1
  BY <1>2, <1>3, <1>5
<1>11. Envelope(prog[m[i]]) = Envelope(prog[i])
  BY <1>4 DEF Envelope
<1> QED
  BY <1>4, <1>5, <1>6, <1>7, <1>8, <1>9, <1>10, <1>11

\* What a call does to the trays in the sequential run.
LEMMA Sequential ==
    ASSUME prog \in Programs, NEW n \in DOMAIN prog
    PROVE  LET M == SeqMem[prog]
               c == prog[n]
           IN  /\ M[n - 1] \in Memory /\ M[n] \in Memory
               /\ \A t \in Task : t # c.dst => M[n][t] = M[n - 1][t]
               /\ c.op \in {"send", "read"} => M[n] = M[n - 1]
               /\ c.op = "write" => M[n][c.dst] = [M[n - 1][c.dst] EXCEPT ![c.dstTray] = n]
               /\ IsRecv(c) => M[n][c.dst] = [M[n - 1][c.dst] EXCEPT ![c.dstTray] =
                      M[match[prog][n] - 1][c.src][prog[match[prog][n]].srcTray]]
               /\ c.op = "sendRecv" /\ ~IsRecv(c) => M[n][c.dst] =
                      [M[n - 1][c.dst] EXCEPT ![c.dstTray] = M[n - 1][c.src][c.srcTray]]
<1> DEFINE M == SeqMem[prog]
           c == prog[n]
<1>1. prog \in Seq(Call) /\ Len(prog) \in Nat /\ n \in 1 .. Len(prog)
  BY TaskCommsAssumption
<1>2. M \in [0 .. Len(prog) -> Memory] /\ M[n] = Effect(prog, match[prog], M, n)
  BY <1>1, TaskCommsAssumption
<1>3. M[n - 1] \in Memory /\ M[n] \in Memory
  BY <1>1, <1>2
<1>4. c.dst \in Task /\ c.op \in {"write", "read", "send", "recv", "sendRecv"}
  BY ProgramCalls DEF Call
<1>5. CASE c.op = "write"
  <2>1. M[n] = [M[n - 1] EXCEPT ![c.dst][c.dstTray] = n] /\ ~IsRecv(c)
    BY <1>2, <1>5 DEF Effect, IsRecv
  <2> QED BY <1>3, <1>4, <1>5, <2>1 DEF Memory
<1>6. CASE IsRecv(c)
  <2>0. c.op \notin {"send", "read", "write"}
    BY <1>6 DEF IsRecv
  <2>1. M[n] = [M[n - 1] EXCEPT ![c.dst][c.dstTray] =
                    M[match[prog][n] - 1][c.src][prog[match[prog][n]].srcTray]]
    BY <1>2, <1>6, <2>0 DEF Effect
  <2> QED BY <1>3, <1>4, <1>6, <2>0, <2>1 DEF Memory
<1>7. CASE c.op = "sendRecv" /\ ~IsRecv(c)
  <2>1. M[n] = [M[n - 1] EXCEPT ![c.dst][c.dstTray] = M[n - 1][c.src][c.srcTray]]
    BY <1>2, <1>7 DEF Effect
  <2> QED BY <1>3, <1>4, <1>7, <2>1 DEF Memory
<1>8. CASE c.op \in {"send", "read"}
  <2>1. M[n] = M[n - 1] /\ ~IsRecv(c)
    BY <1>2, <1>8 DEF Effect, IsRecv
  <2> QED BY <1>3, <1>4, <1>8, <2>1
<1> QED
  BY <1>4, <1>5, <1>6, <1>7, <1>8 DEF IsRecv

\* The message a rank takes is the one of the matching call: an earlier message
\* of the envelope would have been received, and the matching one is not gone.
LEMMA HeadMatches ==
    ASSUME CommInv, NEW r \in Rank, pc[r] <= Len(prog), IsRecv(Cur(r)),
           r = r_rank[Cur(r).dst], chan[Envelope(Cur(r))] # << >>
    PROVE  LET h == Head(chan[Envelope(Cur(r))])
           IN  h.call = match[prog][pc[r]] /\ MsgOK(Envelope(Cur(r)), h)
<1> DEFINE i == pc[r]
           e == Envelope(prog[i])
           q == chan[e]
           h == Head(q).call
           m == match[prog][i]
<1>0. TypeInv /\ ChanOK /\ Ordered /\ Delivered /\ RecvSent
  BY DEF CommInv
<1>1. /\ i \in DOMAIN prog /\ Cur(r) = prog[i] /\ e \in Rank \X Rank \X Tag /\ prog \in Programs
      /\ i \in Nat
  BY <1>0, CurrentCall DEF TypeInv, TypeOK
<1>2. q \in Seq(Msg) /\ q # << >>
  BY <1>0, <1>1 DEF TypeInv, TypeOK
<1>3. 1 \in DOMAIN q /\ Head(q) = q[1] /\ \A k \in DOMAIN q : k \in Nat /\ k >= 1
  BY <1>2
<1>4. MsgOK(e, Head(q))
  BY <1>0, <1>1, <1>3 DEF ChanOK
<1>5. h \in DOMAIN prog /\ IsSend(prog[h]) /\ Envelope(prog[h]) = e /\ Sent(h) /\ ~Received(h)
  BY <1>4 DEF MsgOK
<1>m. m \in DOMAIN prog /\ IsSend(prog[m]) /\ Envelope(prog[m]) = e
  BY <1>1, Matched
<1>6. /\ r_rank[prog[h].dst] = r /\ r_rank[prog[h].src] = r_rank[prog[m].src]
      /\ r_rank[prog[m].dst] = r /\ m \in DOMAIN prog /\ IsSend(prog[m]) /\ Envelope(prog[m]) = e
  BY <1>1, <1>5, <1>m DEF Envelope
<1>7. h \in Nat /\ m \in Nat
  BY <1>1, <1>5, <1>6, ProgramCalls
<1>8. ~(h < m)
  <2> SUFFICES ASSUME h < m PROVE FALSE
    OBVIOUS
  <2>1. PICK k \in DOMAIN prog : k < i /\ IsRecv(prog[k]) /\ Envelope(prog[k]) = e /\ match[prog][k] = h
    BY <1>1, <1>5, Matched, SMTT(30)
  <2>2. r_rank[prog[k].dst] = r
    BY <1>1, <2>1 DEF Envelope
  <2> QED BY <1>5, <2>1, <2>2 DEF Received, Done
<1>9. ~(m < h)
  <2> SUFFICES ASSUME m < h PROVE FALSE
    OBVIOUS
  <2>1. Sent(m)
    <3>1. pc[r_rank[prog[m].src]] \in Nat
      <4>1. r_rank[prog[m].src] \in Rank
        BY <1>1, <1>6, ProgramCalls
      <4> QED BY <1>0, <4>1, Positions
    <3>2. h < pc[r_rank[prog[m].src]] \/ h = pc[r_rank[prog[m].src]]
      <4>1. h < pc[r_rank[prog[h].src]] \/ h = pc[r_rank[prog[h].src]]
        BY <1>5, Zenon DEF Sent
      <4> QED BY <1>6, <4>1, Zenon
    <3>3. \A a, b, c \in Nat : a < b /\ (b < c \/ b = c) => a < c
      OBVIOUS
    <3>4. m < pc[r_rank[prog[m].src]]
      BY <1>7, <3>1, <3>2, <3>3, Zenon
    <3> QED BY <3>4 DEF Sent
  <2>2. ~Received(m)
    <3> SUFFICES ASSUME NEW k \in DOMAIN prog, IsRecv(prog[k]), Done(k),
                        Envelope(prog[k]) = e, match[prog][k] = m
                 PROVE  FALSE
      BY <1>6 DEF Received
    <3>1. r_rank[prog[k].dst] = r
      BY <1>1 DEF Envelope
    <3>2. k < i
      BY <3>1 DEF Done
    <3> QED BY <1>1, <3>2, Matched
  <2>3. PICK k \in DOMAIN q : q[k].call = m
    BY <1>0, <1>6, <2>1, <2>2 DEF Delivered
  <2>4. k = 1 \/ 1 < k
    BY <1>3
  <2> QED BY <1>0, <1>1, <1>3, <1>7, <2>3, <2>4 DEF Ordered
<1> QED
  BY <1>1, <1>4, <1>7, <1>8, <1>9

\* Before the first call nothing is in flight and all trays are empty.
LEMMA CommInit == Init => CommInv
<1> SUFFICES ASSUME Init PROVE CommInv
  OBVIOUS
<1>1. TypeInv
  BY TypeInit
<1>2. /\ prog \in Programs
      /\ \A r \in Rank : pc[r] = 1 /\ phase[r] = "call"
      /\ \A e \in Rank \X Rank \X Tag : chan[e] = << >>
  BY DEF Init
<1>3. \A j \in DOMAIN prog : ~(j < 1)
  BY <1>2, ProgramCalls
<1>4. ChanOK /\ Ordered
  BY <1>2 DEF ChanOK, Ordered
<1>5. Delivered /\ RecvSent /\ SequentialReads
  BY <1>2, <1>3, ProgramCalls, TaskCommsAssumption DEF Delivered, RecvSent, SequentialReads, Sent, Done
<1>6. SequentialMemory
  BY <1>2, TaskCommsAssumption DEF Init, SequentialMemory
<1> QED
  BY <1>1, <1>4, <1>5, <1>6 DEF CommInv

\* What returning from a call adds to the calls that are done.
LEMMA ReturnMoves ==
    ASSUME TypeInv, prog' = prog, NEW r \in Rank, pc[r] <= Len(prog), Return(r), NEW j \in DOMAIN prog
    PROVE  /\ Done(j)' <=> Done(j) \/ (j = pc[r] /\ r = r_rank[prog[j].dst])
           /\ Sent(j)' <=> Sent(j) \/ (j = pc[r] /\ r = r_rank[prog[j].src])
<1>1. /\ r_rank[prog[j].src] \in Rank /\ r_rank[prog[j].dst] \in Rank /\ j \in Nat
  BY ProgramCalls DEF TypeInv, TypeOK
<1>2. pc \in [Rank -> Nat] /\ phase \in [Rank -> {"call", "recv"}]
  BY Positions DEF TypeInv, TypeOK
<1>3. /\ pc'[r] = pc[r] + 1 /\ phase'[r] = "call"
      /\ \A q \in Rank : q # r => pc'[q] = pc[q] /\ phase'[q] = phase[q]
  BY <1>2 DEF Return
<1>4. Done(j)' <=> Done(j) \/ (j = pc[r] /\ r = r_rank[prog[j].dst])
  BY <1>1, <1>2, <1>3 DEF Done
<1>5. Sent(j)' <=> Sent(j) \/ (j = pc[r] /\ r = r_rank[prog[j].src])
  BY <1>1, <1>2, <1>3 DEF Sent
<1> QED
  BY <1>4, <1>5

\* The trays after a return: those of rank r are one call further.
LEMMA ReturnMemory ==
    ASSUME CommInv, prog' = prog, NEW r \in Rank, pc[r] <= Len(prog), Return(r),
           \A t \in Task : r_rank[t] # r => tray'[t] = tray[t],
           \A t \in Task : r_rank[t] = r => tray'[t] = SeqMem[prog][pc[r]][t]
    PROVE  SequentialMemory'
<1>1. pc \in [Rank -> Nat]
  BY Positions DEF CommInv
<1>2. /\ pc'[r] - 1 = pc[r]
      /\ \A q \in Rank : q # r => pc'[q] = pc[q]
  BY <1>1 DEF Return
<1> SUFFICES ASSUME NEW t \in Task PROVE tray'[t] = SeqMem[prog][pc'[r_rank[t]] - 1][t]
  BY DEF SequentialMemory
<1>3. CASE r_rank[t] = r
  BY <1>2, <1>3
<1>4. CASE r_rank[t] # r
  BY <1>2, <1>4, TaskCommsAssumption DEF CommInv, SequentialMemory
<1> QED
  BY <1>3, <1>4

\* A call that is not about a task of rank r, or that only sends or reads,
\* leaves the trays of r as they are, in the sequential run too.
LEMMA QuietMemory ==
    ASSUME CommInv, prog' = prog, NEW r \in Rank, pc[r] <= Len(prog), Return(r), tray' = tray,
           r # r_rank[Cur(r).dst] \/ Cur(r).op \in {"send", "read"}
    PROVE  SequentialMemory'
<1>1. pc[r] \in DOMAIN prog /\ Cur(r) = prog[pc[r]] /\ prog \in Programs
  BY CurrentCall DEF CommInv, TypeInv, TypeOK
<1>2. ASSUME NEW t \in Task, r_rank[t] = r PROVE tray'[t] = SeqMem[prog][pc[r]][t]
  <2>1. tray[t] = SeqMem[prog][pc[r] - 1][t]
    BY <1>2 DEF CommInv, SequentialMemory
  <2>2. SeqMem[prog][pc[r]][t] = SeqMem[prog][pc[r] - 1][t]
    <3>1. CASE r # r_rank[Cur(r).dst]
      <4>1. t # prog[pc[r]].dst
        BY <1>1, <1>2, <3>1
      <4> QED BY <1>1, <4>1, Sequential
    <3>2. CASE Cur(r).op \in {"send", "read"}
      <4>1. SeqMem[prog][pc[r]] = SeqMem[prog][pc[r] - 1]
        BY <1>1, <3>2, Sequential
      <4> QED BY <4>1
    <3> QED BY <3>1, <3>2
  <2> QED BY <2>1, <2>2
<1> QED
  BY <1>2, ReturnMemory

\* A return from anything but a read of a task of rank r adds no read.
LEMMA QuietReads ==
    ASSUME CommInv, prog' = prog, NEW r \in Rank, pc[r] <= Len(prog), Return(r), got' = got,
           r # r_rank[Cur(r).src] \/ Cur(r).op # "read"
    PROVE  SequentialReads'
<1> SUFFICES ASSUME NEW c \in DOMAIN prog, prog[c].op = "read", pc'[r_rank[prog[c].src]] > c
             PROVE  pc[r_rank[prog[c].src]] > c
  BY DEF CommInv, SequentialReads
<1>1. pc \in [Rank -> Nat] /\ prog \in Programs /\ c \in Nat
  BY ProgramCalls, Positions DEF CommInv, TypeInv, TypeOK
<1>2. CASE r_rank[prog[c].src] # r
  BY <1>1, <1>2, ProgramCalls DEF Return
<1>3. CASE r_rank[prog[c].src] = r
  <2>1. c # pc[r]
    BY <1>3 DEF Cur
  <2> QED BY <1>1, <1>3, <2>1 DEF Return
<1> QED
  BY <1>2, <1>3

\* The channels, when no sending and no receiving call is completed.
LEMMA QuietChannels ==
    ASSUME CommInv, prog' = prog, chan' = chan,
           \A j \in DOMAIN prog : IsSend(prog[j]) => (Sent(j)' <=> Sent(j)),
           \A j \in DOMAIN prog : IsRecv(prog[j]) => (Done(j)' <=> Done(j))
    PROVE  ChanOK' /\ Ordered' /\ Delivered' /\ RecvSent'
<1>0. prog \in Programs /\ ChanOK /\ Ordered /\ Delivered /\ RecvSent
  BY DEF CommInv, TypeInv, TypeOK
<1>1. \A j \in DOMAIN prog : Received(j)' <=> Received(j)
  BY DEF Received
<1>2. ChanOK'
  BY <1>0, <1>1 DEF ChanOK, MsgOK
<1>3. Ordered'
  BY <1>0 DEF Ordered
<1>4. Delivered'
  BY <1>0, <1>1 DEF Delivered
<1>5. RecvSent'
  BY <1>0, Matched DEF RecvSent
<1> QED
  BY <1>2, <1>3, <1>4, <1>5

\* The channels after the rank of the source task has sent its message.
LEMMA SendChannels ==
    ASSUME CommInv, prog' = prog, NEW r \in Rank, pc[r] <= Len(prog), IsSend(Cur(r)),
           r = r_rank[Cur(r).src], phase[r] = "call", SendMessage(r),
           \A j \in DOMAIN prog : IsSend(prog[j]) => (Sent(j)' <=> Sent(j) \/ j = pc[r]),
           \A j \in DOMAIN prog : IsRecv(prog[j]) => (Done(j)' <=> Done(j))
    PROVE  ChanOK' /\ Ordered' /\ Delivered' /\ RecvSent'
<1> DEFINE Env == Rank \X Rank \X Tag
<1>0. prog \in Programs /\ ChanOK /\ Ordered /\ Delivered /\ RecvSent /\ TypeInv
  BY DEF CommInv, TypeInv, TypeOK
<1>i. PICK i : i = pc[r]
  OBVIOUS
<1>e. PICK e : e = Envelope(prog[i])
  OBVIOUS
<1>m. PICK m : m = [call |-> i, val |-> tray[prog[i].src][prog[i].srcTray]]
  OBVIOUS
<1>1. i \in DOMAIN prog /\ Cur(r) = prog[i] /\ e \in Env /\ i \in Nat /\ IsSend(prog[i])
      /\ r_rank[prog[i].src] = r /\ prog[i].src \in Task
  BY <1>0, <1>i, <1>e, CurrentCall
<1>2. chan \in [Env -> Seq(Msg)] /\ chan' = [chan EXCEPT ![e] = Append(@, m)]
  BY <1>0, <1>1, <1>i, <1>e, <1>m DEF TypeInv, TypeOK, SendMessage
<1>3. /\ \A f \in Env : f # e => chan'[f] = chan[f]
      /\ chan'[e] = Append(chan[e], m) /\ chan[e] \in Seq(Msg)
  BY <1>1, <1>2
<1>4. PICK n : n = Len(chan[e]) + 1
  OBVIOUS
<1>5. /\ n \in Nat /\ n \in DOMAIN chan'[e] /\ chan'[e][n] = m
      /\ \A x \in DOMAIN chan'[e] : x \in DOMAIN chan[e] \/ x = n
      /\ \A x \in DOMAIN chan[e] : x \in DOMAIN chan'[e] /\ x \in Nat /\ x < n /\ chan'[e][x] = chan[e][x]
  <2>1. m \in Msg \cup {m} /\ chan[e] \in Seq(Msg \cup {m})
    BY <1>3
  <2> QED BY <1>3, <1>4, <2>1
<1>6. ~Sent(i)
  BY <1>1, <1>i, <1>0 DEF Sent, TypeInv, TypeOK
<1>7. \A j \in DOMAIN prog : Received(j)' <=> Received(j)
  BY DEF Received
<1>8. ~Received(i)
  BY <1>0, <1>6 DEF Received, RecvSent
<1>9. \A j \in DOMAIN prog : IsSend(prog[j]) => (Sent(j)' <=> Sent(j) \/ j = i)
  BY <1>i
<1>10. MsgOK(e, m)'
  <2>1. m.call = i /\ m.val = SeqMem[prog][i - 1][prog[i].src][prog[i].srcTray]
    BY <1>1, <1>i, <1>m DEF CommInv, SequentialMemory
  <2> QED BY <1>1, <1>7, <1>8, <1>9, <1>e, <2>1 DEF MsgOK
<1>11. \A f \in Env : \A x \in DOMAIN chan[f] : MsgOK(f, chan[f][x])
  BY <1>0 DEF ChanOK
<1>12. ASSUME NEW f, NEW u, MsgOK(f, u) PROVE MsgOK(f, u)'
  BY <1>7, <1>9, <1>12 DEF MsgOK
<1>13. ASSUME NEW u, MsgOK(e, u) PROVE u.call < i
  <2>1. u.call \in DOMAIN prog /\ Envelope(prog[u.call]) = e /\ Sent(u.call)
    BY <1>13 DEF MsgOK
  <2>2. r_rank[prog[u.call].src] = r
    BY <1>1, <1>e, <2>1 DEF Envelope
  <2> QED BY <1>i, <2>1, <2>2 DEF Sent
<1>14. ChanOK'
  <2> SUFFICES ASSUME NEW f \in Env, NEW x \in DOMAIN chan'[f] PROVE MsgOK(f, chan[f][x])'
    BY DEF ChanOK
  <2>1. CASE f # e
    <3>1. PICK u : u = chan[f][x]
      OBVIOUS
    <3>2. chan'[f][x] = u /\ x \in DOMAIN chan[f]
      BY <1>3, <2>1, <3>1
    <3>3. MsgOK(f, u)'
      BY <1>11, <1>12, <3>1, <3>2
    <3> QED BY <3>2, <3>3 DEF MsgOK
  <2>2. CASE f = e /\ x \in DOMAIN chan[e]
    <3>1. PICK u : u = chan[e][x]
      OBVIOUS
    <3>2. chan'[f][x] = u
      BY <1>5, <2>2, <3>1
    <3>3. MsgOK(f, u)'
      BY <1>11, <1>12, <2>2, <3>1
    <3> QED BY <3>2, <3>3 DEF MsgOK
  <2>3. CASE f = e /\ x = n
    BY <1>5, <1>10, <2>3 DEF MsgOK
  <2> QED BY <1>5, <2>1, <2>2, <2>3
<1>15. Ordered'
  <2> SUFFICES ASSUME NEW f \in Env, NEW x \in DOMAIN chan'[f], NEW y \in DOMAIN chan'[f], x < y
               PROVE  chan'[f][x].call < chan'[f][y].call
    BY DEF Ordered
  <2>1. CASE f # e
    BY <1>0, <1>3, <2>1 DEF Ordered
  <2>2. CASE f = e /\ y = n
    <3>1. x \in DOMAIN chan[e]
      BY <1>5, <2>2
    <3>2. chan'[f][x].call < i
      BY <1>1, <1>5, <1>11, <1>13, <2>2, <3>1
    <3> QED BY <1>5, <1>m, <2>2, <3>2
  <2>3. CASE f = e /\ y # n
    <3>1. x \in DOMAIN chan[e] /\ y \in DOMAIN chan[e]
      BY <1>5, <2>3
    <3> QED BY <1>0, <1>1, <1>5, <2>3, <3>1 DEF Ordered
  <2> QED BY <2>1, <2>2, <2>3
<1>16. Delivered'
  <2> SUFFICES ASSUME NEW j \in DOMAIN prog, IsSend(prog[j]), Sent(j)', ~Received(j)',
                      NEW f \in Env, f = Envelope(prog[j])
               PROVE  \E x \in DOMAIN chan'[f] : chan'[f][x].call = j
    BY <1>0, ProgramCalls DEF Delivered
  <2>1. CASE j = i
    BY <1>5, <1>e, <1>m, <2>1
  <2>2. CASE j # i
    <3>1. PICK x \in DOMAIN chan[f] : chan[f][x].call = j
      BY <1>0, <1>7, <1>9, <2>2 DEF Delivered
    <3> QED BY <1>3, <1>5, <3>1, SMTT(30)
  <2> QED BY <2>1, <2>2
<1>17. RecvSent'
  <2> SUFFICES ASSUME NEW k \in DOMAIN prog, IsRecv(prog[k]), Done(k) PROVE Sent(match[prog][k])'
    BY DEF RecvSent
  <2>1. PICK j : j = match[prog][k]
    OBVIOUS
  <2>2. j \in DOMAIN prog /\ IsSend(prog[j]) /\ Sent(j)
    BY <1>0, <2>1, Matched DEF RecvSent
  <2>3. Sent(j)'
    BY <1>9, <2>2
  <2> QED BY <2>1, <2>3
<1> QED
  BY <1>14, <1>15, <1>16, <1>17

\* The channels after the rank of the destination task has received a message.
LEMMA ReceiveChannels ==
    ASSUME CommInv, prog' = prog, NEW r \in Rank, pc[r] <= Len(prog), IsRecv(Cur(r)),
           r = r_rank[Cur(r).dst], chan[Envelope(Cur(r))] # << >>,
           chan' = [chan EXCEPT ![Envelope(Cur(r))] = Tail(@)],
           \A j \in DOMAIN prog : IsSend(prog[j]) => (Sent(j)' <=> Sent(j)),
           \A j \in DOMAIN prog : IsRecv(prog[j]) => (Done(j)' <=> Done(j) \/ j = pc[r])
    PROVE  ChanOK' /\ Ordered' /\ Delivered' /\ RecvSent'
<1> DEFINE Env == Rank \X Rank \X Tag
<1>0. prog \in Programs /\ ChanOK /\ Ordered /\ Delivered /\ RecvSent /\ TypeInv
  BY DEF CommInv, TypeInv, TypeOK
<1>i. PICK i : i = pc[r]
  OBVIOUS
<1>e. PICK e : e = Envelope(prog[i])
  OBVIOUS
<1>h. PICK h : h = match[prog][i]
  OBVIOUS
<1>1. i \in DOMAIN prog /\ Cur(r) = prog[i] /\ e \in Env /\ IsRecv(prog[i])
  BY <1>0, <1>i, <1>e, CurrentCall
<1>2. chan \in [Env -> Seq(Msg)] /\ chan' = [chan EXCEPT ![e] = Tail(@)] /\ chan[e] # << >>
  BY <1>0, <1>1, <1>i, <1>e DEF TypeInv, TypeOK
<1>3. /\ \A f \in Env : f # e => chan'[f] = chan[f]
      /\ chan'[e] = Tail(chan[e]) /\ chan[e] \in Seq(Msg)
  BY <1>1, <1>2
<1>4. /\ 1 \in DOMAIN chan[e] /\ Head(chan[e]) = chan[e][1]
      /\ \A x \in DOMAIN chan'[e] : /\ x \in Nat /\ x + 1 \in DOMAIN chan[e] /\ 1 < x + 1
                                    /\ chan'[e][x] = chan[e][x + 1]
      /\ \A x \in DOMAIN chan[e] : x # 1 => /\ x - 1 \in DOMAIN chan'[e]
                                            /\ chan'[e][x - 1] = chan[e][x]
  <2> DEFINE q == chan[e]
  <2>1. q \in Seq(Msg) /\ q # << >> /\ Len(q) \in Nat /\ Len(q) >= 1 /\ DOMAIN q = 1 .. Len(q)
    BY <1>2, <1>3
  <2>2. /\ 1 \in DOMAIN q /\ Head(q) = q[1] /\ Tail(q) \in Seq(Msg)
        /\ Len(Tail(q)) = Len(q) - 1 /\ DOMAIN Tail(q) = 1 .. Len(q) - 1
    BY <2>1
  <2>3. \A x \in 1 .. Len(q) - 1 : Tail(q)[x] = q[x + 1]
    BY <2>1
  <2>4. \A x \in DOMAIN Tail(q) : /\ x \in Nat /\ x + 1 \in DOMAIN q /\ 1 < x + 1
                                  /\ Tail(q)[x] = q[x + 1]
    BY <2>1, <2>2, <2>3
  <2>5. ASSUME NEW x \in DOMAIN q, x # 1 PROVE x - 1 \in DOMAIN Tail(q) /\ Tail(q)[x - 1] = q[x]
    <3>1. x \in 1 .. Len(q) /\ x - 1 \in 1 .. Len(q) - 1 /\ (x - 1) + 1 = x
      BY <2>1, <2>5
    <3> QED BY <2>2, <2>3, <3>1
  <2> QED BY <1>3, <2>2, <2>4, <2>5
<1>5. chan[e][1].call = h /\ MsgOK(e, chan[e][1])
  BY <1>1, <1>2, <1>4, <1>i, <1>e, <1>h, HeadMatches
<1>6. h \in DOMAIN prog /\ IsSend(prog[h]) /\ Envelope(prog[h]) = e /\ Sent(h) /\ h \in Nat
  BY <1>0, <1>5, ProgramCalls DEF MsgOK
<1>7. \A j \in DOMAIN prog : IsRecv(prog[j]) => (Done(j)' <=> Done(j) \/ j = i)
  BY <1>i
<1>8. \A j \in DOMAIN prog : Received(j)' <=> Received(j) \/ j = h
  <2> SUFFICES ASSUME NEW j \in DOMAIN prog PROVE Received(j)' <=> Received(j) \/ j = h
    OBVIOUS
  <2>1. Received(j)' => Received(j) \/ j = h
    BY <1>7, <1>h DEF Received
  <2>2. Received(j) => Received(j)'
    BY <1>7 DEF Received
  <2>3. j = h => Received(j)'
    BY <1>1, <1>6, <1>7, <1>e, <1>h DEF Received
  <2> QED BY <2>1, <2>2, <2>3
<1>9. \A f \in Env : \A x \in DOMAIN chan[f] : MsgOK(f, chan[f][x])
  BY <1>0 DEF ChanOK
<1>10. ASSUME NEW f, NEW u, MsgOK(f, u), u.call # h PROVE MsgOK(f, u)'
  BY <1>8, <1>10 DEF MsgOK
<1>11. \A x \in DOMAIN chan[e] : 1 < x => h < chan[e][x].call
  BY <1>0, <1>1, <1>4, <1>5 DEF Ordered
<1>12. ChanOK'
  <2> SUFFICES ASSUME NEW f \in Env, NEW x \in DOMAIN chan'[f] PROVE MsgOK(f, chan[f][x])'
    BY DEF ChanOK
  <2>1. PICK u : u = chan'[f][x]
    OBVIOUS
  <2>2. MsgOK(f, u) /\ u.call # h
    <3>1. CASE f # e
      <4>1. MsgOK(f, u)
        BY <1>3, <1>9, <2>1, <3>1
      <4> QED BY <1>6, <3>1, <4>1 DEF MsgOK
    <3>2. CASE f = e
      <4>1. x + 1 \in DOMAIN chan[e] /\ u = chan[e][x + 1] /\ 1 < x + 1
        BY <1>4, <2>1, <3>2
      <4>2. MsgOK(f, u)
        BY <1>9, <3>2, <4>1
      <4>3. h < u.call
        BY <1>11, <4>1
      <4>4. \A a \in Nat : ~(a < a)
        OBVIOUS
      <4> QED BY <1>6, <4>2, <4>3, <4>4, Zenon
    <3> QED BY <3>1, <3>2
  <2>3. MsgOK(f, u)'
    BY <1>10, <2>2
  <2> QED BY <2>1, <2>3 DEF MsgOK
<1>13. Ordered'
  <2> SUFFICES ASSUME NEW f \in Env, NEW x \in DOMAIN chan'[f], NEW y \in DOMAIN chan'[f], x < y
               PROVE  chan'[f][x].call < chan'[f][y].call
    BY DEF Ordered
  <2>1. CASE f # e
    BY <1>0, <1>3, <2>1 DEF Ordered
  <2>2. CASE f = e
    <3>1. x + 1 \in DOMAIN chan[e] /\ y + 1 \in DOMAIN chan[e] /\ x + 1 < y + 1
      BY <1>4, <2>2
    <3>2. chan[e][x + 1].call < chan[e][y + 1].call
      BY <1>0, <1>1, <3>1 DEF Ordered
    <3> QED BY <1>4, <2>2, <3>2
  <2> QED BY <2>1, <2>2
<1>14. Delivered'
  <2> SUFFICES ASSUME NEW j \in DOMAIN prog, IsSend(prog[j]), Sent(j)', ~Received(j)',
                      NEW f \in Env, f = Envelope(prog[j])
               PROVE  \E x \in DOMAIN chan'[f] : chan'[f][x].call = j
    BY <1>0, ProgramCalls DEF Delivered
  <2>1. PICK x \in DOMAIN chan[f] : chan[f][x].call = j /\ j # h
    BY <1>0, <1>8 DEF Delivered
  <2>2. CASE f # e
    BY <1>3, <2>1, <2>2
  <2>3. CASE f = e
    <3>1. x # 1
      BY <1>5, <2>1, <2>3
    <3>2. x - 1 \in DOMAIN chan'[e] /\ chan'[e][x - 1] = chan[e][x]
      BY <1>4, <2>3, <3>1, Zenon
    <3> QED BY <2>1, <2>3, <3>2, Zenon
  <2> QED BY <2>2, <2>3
<1>15. RecvSent'
  <2> SUFFICES ASSUME NEW k \in DOMAIN prog, IsRecv(prog[k]), Done(k)' PROVE Sent(match[prog][k])'
    BY DEF RecvSent
  <2>1. PICK j : j = match[prog][k]
    OBVIOUS
  <2>2. j \in DOMAIN prog /\ IsSend(prog[j])
    BY <1>0, <2>1, Matched
  <2>3. Sent(j)
    BY <1>0, <1>6, <1>7, <1>h, <2>1 DEF RecvSent
  <2>4. Sent(j)'
    BY <2>2, <2>3
  <2> QED BY <2>1, <2>4
<1> QED
  BY <1>12, <1>13, <1>14, <1>15

\* A return completes no sending call, if the call sends nothing from rank r or
\* its message left before, and no receiving call, if it receives nothing there.
LEMMA ReturnQuiet ==
    ASSUME TypeInv, prog' = prog, NEW r \in Rank, pc[r] <= Len(prog), Return(r)
    PROVE  /\ ~IsSend(Cur(r)) \/ r # r_rank[Cur(r).src] \/ phase[r] = "recv" =>
                 \A j \in DOMAIN prog : IsSend(prog[j]) => (Sent(j)' <=> Sent(j))
           /\ ~IsRecv(Cur(r)) \/ r # r_rank[Cur(r).dst] =>
                 \A j \in DOMAIN prog : IsRecv(prog[j]) => (Done(j)' <=> Done(j))
<1>1. ASSUME ~IsSend(Cur(r)) \/ r # r_rank[Cur(r).src] \/ phase[r] = "recv",
             NEW j \in DOMAIN prog, IsSend(prog[j])
      PROVE  Sent(j)' <=> Sent(j)
  <2>1. j = pc[r] /\ r = r_rank[prog[j].src] => Sent(j)
    BY <1>1 DEF Sent, Cur
  <2> QED BY <2>1, ReturnMoves
<1>2. ASSUME ~IsRecv(Cur(r)) \/ r # r_rank[Cur(r).dst], NEW j \in DOMAIN prog, IsRecv(prog[j])
      PROVE  Done(j)' <=> Done(j)
  BY <1>2, ReturnMoves DEF Cur
<1> QED
  BY <1>1, <1>2

\* The trays of rank r after it has set one tray as the sequential run does.
LEMMA SetMemory ==
    ASSUME CommInv, prog' = prog, NEW r \in Rank, pc[r] <= Len(prog), Return(r),
           r = r_rank[Cur(r).dst], NEW v, SetTray(Cur(r).dst, Cur(r).dstTray, v),
           SeqMem[prog][pc[r]][Cur(r).dst] =
               [SeqMem[prog][pc[r] - 1][Cur(r).dst] EXCEPT ![Cur(r).dstTray] = v]
    PROVE  SequentialMemory'
<1>1. /\ pc[r] \in DOMAIN prog /\ Cur(r) = prog[pc[r]] /\ prog \in Programs
      /\ Cur(r).dst \in Task /\ tray \in Memory
  BY CurrentCall DEF CommInv, TypeInv, TypeOK
<1>2. /\ tray'[Cur(r).dst] = [tray[Cur(r).dst] EXCEPT ![Cur(r).dstTray] = v]
      /\ \A t \in Task : t # Cur(r).dst => tray'[t] = tray[t]
  BY <1>1 DEF SetTray, Memory
<1>3. \A t \in Task : r_rank[t] = r => tray[t] = SeqMem[prog][pc[r] - 1][t]
  BY DEF CommInv, SequentialMemory
<1>4. ASSUME NEW t \in Task, t # Cur(r).dst
      PROVE  SeqMem[prog][pc[r]][t] = SeqMem[prog][pc[r] - 1][t]
  <2>1. t # prog[pc[r]].dst
    BY <1>1, <1>4
  <2> QED BY <1>1, <2>1, Sequential
<1>5. \A t \in Task : r_rank[t] # r => tray'[t] = tray[t]
  BY <1>2
<1>6. \A t \in Task : r_rank[t] = r => tray'[t] = SeqMem[prog][pc[r]][t]
  <2> SUFFICES ASSUME NEW t \in Task, r_rank[t] = r PROVE tray'[t] = SeqMem[prog][pc[r]][t]
    OBVIOUS
  <2>1. CASE t = Cur(r).dst
    <3>1. tray[Cur(r).dst] = SeqMem[prog][pc[r] - 1][Cur(r).dst]
      BY <1>1, <1>3, Zenon
    <3>2. tray'[Cur(r).dst] = SeqMem[prog][pc[r]][Cur(r).dst]
      BY <1>2, <3>1
    <3> QED BY <2>1, <3>2
  <2>2. CASE t # Cur(r).dst
    BY <1>2, <1>3, <1>4, <2>2, Zenon
  <2> QED BY <2>1, <2>2
<1> QED
  BY <1>5, <1>6, ReturnMemory

\* A receive, in XclRecv or as the second half of XclSendRecv.
LEMMA ReceiveStep ==
    ASSUME CommInv, TypeInv', prog' = prog, NEW r \in Rank, pc[r] <= Len(prog), Return(r),
           ReceiveMessage(r), got' = got, Cur(r).op # "read",
           r = r_rank[Cur(r).dst] => IsRecv(Cur(r)),
           ~IsSend(Cur(r)) \/ r # r_rank[Cur(r).src] \/ phase[r] = "recv"
    PROVE  CommInv'
<1>0. TypeInv
  BY DEF CommInv
<1>1. SequentialReads'
  BY QuietReads
<1>2. CASE r # r_rank[Cur(r).dst]
  <2>1. chan' = chan /\ tray' = tray
    BY <1>2 DEF ReceiveMessage
  <2>2. SequentialMemory'
    BY <1>2, <2>1, QuietMemory
  <2>3. ChanOK' /\ Ordered' /\ Delivered' /\ RecvSent'
    BY <1>0, <1>2, <2>1, ReturnQuiet, QuietChannels
  <2> QED BY <1>1, <2>2, <2>3 DEF CommInv
<1>3. CASE r = r_rank[Cur(r).dst]
  <2> DEFINE h == Head(chan[Envelope(Cur(r))])
  <2>0. IsRecv(Cur(r)) /\ pc[r] \in DOMAIN prog /\ Cur(r) = prog[pc[r]] /\ prog \in Programs
    BY <1>0, <1>3, CurrentCall DEF TypeInv, TypeOK
  <2>1. /\ chan[Envelope(Cur(r))] # << >>
        /\ SetTray(Cur(r).dst, Cur(r).dstTray, h.val)
        /\ chan' = [chan EXCEPT ![Envelope(Cur(r))] = Tail(@)]
    BY <1>3 DEF ReceiveMessage
  <2>2. h.call = match[prog][pc[r]] /\ MsgOK(Envelope(Cur(r)), h)
    BY <1>3, <2>0, <2>1, HeadMatches
  <2>3. h.val = SeqMem[prog][match[prog][pc[r]] - 1][Cur(r).src][prog[match[prog][pc[r]]].srcTray]
    <3>1. h.val = SeqMem[prog][h.call - 1][prog[h.call].src][prog[h.call].srcTray]
      BY <2>2, Zenon DEF MsgOK
    <3>2. prog[match[prog][pc[r]]].src = Cur(r).src
      BY <2>0, Matched
    <3> QED BY <2>2, <3>1, <3>2, Zenon
  <2>4. SeqMem[prog][pc[r]][Cur(r).dst] =
            [SeqMem[prog][pc[r] - 1][Cur(r).dst] EXCEPT ![Cur(r).dstTray] = h.val]
    <3>1. SeqMem[prog][pc[r]][Cur(r).dst] =
              [SeqMem[prog][pc[r] - 1][Cur(r).dst] EXCEPT ![Cur(r).dstTray] =
                  SeqMem[prog][match[prog][pc[r]] - 1][Cur(r).src][prog[match[prog][pc[r]]].srcTray]]
      BY <2>0, Sequential, ZenonT(60)
    <3> HIDE DEF h
    <3> QED BY <2>3, <3>1, Zenon
  <2>5. SequentialMemory'
    <3> HIDE DEF h
    <3> QED BY <1>3, <2>1, <2>4, SetMemory
  <2>6. \A j \in DOMAIN prog : IsSend(prog[j]) => (Sent(j)' <=> Sent(j))
    BY <1>0, ReturnQuiet
  <2>7. \A j \in DOMAIN prog : IsRecv(prog[j]) => (Done(j)' <=> Done(j) \/ j = pc[r])
    BY <1>0, <1>3, <2>0, ReturnMoves
  <2>8. ChanOK' /\ Ordered' /\ Delivered' /\ RecvSent'
    BY <1>3, <2>0, <2>1, <2>6, <2>7, ReceiveChannels
  <2> QED BY <1>1, <2>5, <2>8 DEF CommInv
<1> QED
  BY <1>2, <1>3

\* The channels, when the first half of a sending call has run on rank r.
LEMMA SendStep ==
    ASSUME CommInv, prog' = prog, NEW r \in Rank, pc[r] <= Len(prog), SendMessage(r),
           phase[r] = "call", r = r_rank[Cur(r).src] => IsSend(Cur(r)),
           \A j \in DOMAIN prog : IsSend(prog[j]) =>
               (Sent(j)' <=> Sent(j) \/ (j = pc[r] /\ r = r_rank[prog[j].src])),
           \A j \in DOMAIN prog : IsRecv(prog[j]) => (Done(j)' <=> Done(j))
    PROVE  ChanOK' /\ Ordered' /\ Delivered' /\ RecvSent'
<1>1. pc[r] \in DOMAIN prog /\ Cur(r) = prog[pc[r]]
  BY CurrentCall DEF CommInv
<1>2. CASE r = r_rank[Cur(r).src]
  BY <1>1, <1>2, SendChannels
<1>3. CASE r # r_rank[Cur(r).src]
  <2>1. chan' = chan
    BY <1>3 DEF SendMessage
  <2>2. \A j \in DOMAIN prog : IsSend(prog[j]) => (Sent(j)' <=> Sent(j))
    BY <1>1, <1>3
  <2> QED BY <2>1, <2>2, QuietChannels
<1> QED
  BY <1>2, <1>3

\* Every call of a rank keeps the invariant.
LEMMA CommNext == CommInv /\ [Next]_vars => CommInv'
<1> SUFFICES ASSUME CommInv, [Next]_vars PROVE CommInv'
  OBVIOUS
<1>0. TypeInv /\ TypeOK /\ PhaseOK /\ TypeInv'
  BY TypeNext DEF CommInv, TypeInv
<1>1. ASSUME NEW r \in Rank, WriteTaskBuffer(r) PROVE CommInv'
  <2>1. /\ pc[r] <= Len(prog) /\ prog' = prog /\ Return(r) /\ got' = got /\ chan' = chan
        /\ Cur(r).op = "write"
    BY <1>1 DEF WriteTaskBuffer, AtCall
  <2>2. ~IsSend(Cur(r)) /\ ~IsRecv(Cur(r))
    BY <2>1 DEF IsSend, IsRecv
  <2>3. ChanOK' /\ Ordered' /\ Delivered' /\ RecvSent'
    BY <1>0, <2>1, <2>2, ReturnQuiet, QuietChannels
  <2>4. SequentialReads'
    BY <2>1, QuietReads
  <2>5. CASE r = r_rank[Cur(r).dst]
    <3>1. SetTray(Cur(r).dst, Cur(r).dstTray, pc[r])
      BY <1>1, <2>5 DEF WriteTaskBuffer
    <3>2. SeqMem[prog][pc[r]][Cur(r).dst] =
              [SeqMem[prog][pc[r] - 1][Cur(r).dst] EXCEPT ![Cur(r).dstTray] = pc[r]]
      BY <1>0, <2>1, CurrentCall, Sequential DEF TypeOK
    <3>3. SequentialMemory'
      BY <2>1, <2>5, <3>1, <3>2, SetMemory
    <3> QED BY <1>0, <2>3, <2>4, <3>3 DEF CommInv
  <2>6. CASE r # r_rank[Cur(r).dst]
    <3>1. SequentialMemory'
      BY <1>1, <2>1, <2>6, QuietMemory DEF WriteTaskBuffer
    <3> QED BY <1>0, <2>3, <2>4, <3>1 DEF CommInv
  <2> QED BY <2>5, <2>6
<1>2. ASSUME NEW r \in Rank, ReadTaskBuffer(r) PROVE CommInv'
  <2>1. /\ pc[r] <= Len(prog) /\ prog' = prog /\ Return(r) /\ tray' = tray /\ chan' = chan
        /\ Cur(r).op = "read"
    BY <1>2 DEF ReadTaskBuffer, AtCall
  <2>2. ~IsSend(Cur(r)) /\ ~IsRecv(Cur(r))
    BY <2>1 DEF IsSend, IsRecv
  <2>3. ChanOK' /\ Ordered' /\ Delivered' /\ RecvSent'
    BY <1>0, <2>1, <2>2, ReturnQuiet, QuietChannels
  <2>4. SequentialMemory'
    BY <2>1, QuietMemory
  <2>5. SequentialReads'
    <3>1. CASE r # r_rank[Cur(r).src]
      BY <1>2, <2>1, <3>1, QuietReads DEF ReadTaskBuffer
    <3>2. CASE r = r_rank[Cur(r).src]
      <4>1. /\ pc[r] \in DOMAIN prog /\ Cur(r) = prog[pc[r]] /\ Cur(r).src \in Task
            /\ pc[r] \in 1 .. MaxCalls /\ pc \in [Rank -> Nat] /\ prog \in Programs
        BY <1>0, <2>1, CurrentCall, Positions DEF TypeOK
      <4>2. got' = [got EXCEPT ![pc[r]] = tray[Cur(r).src][Cur(r).srcTray]]
        BY <1>2, <3>2 DEF ReadTaskBuffer
      <4>3. got'[pc[r]] = SeqMem[prog][pc[r] - 1][Cur(r).src][Cur(r).srcTray]
        <5>1. tray[Cur(r).src] = SeqMem[prog][pc[r] - 1][Cur(r).src]
          BY <3>2, <4>1 DEF CommInv, SequentialMemory
        <5>2. got'[pc[r]] = tray[Cur(r).src][Cur(r).srcTray]
          BY <1>0, <4>1, <4>2 DEF TypeOK
        <5> QED BY <5>1, <5>2
      <4> SUFFICES ASSUME NEW c \in DOMAIN prog, prog[c].op = "read",
                          pc'[r_rank[prog[c].src]] > c
                   PROVE  got'[c] = SeqMem[prog][c - 1][prog[c].src][prog[c].srcTray]
        BY <2>1 DEF SequentialReads
      <4>4. CASE c = pc[r]
        BY <4>1, <4>3, <4>4
      <4>5. CASE c # pc[r]
        <5>0. r_rank[prog[c].src] \in Rank /\ c \in Nat
          BY <4>1, ProgramCalls
        <5>1. pc[r_rank[prog[c].src]] > c
          BY <2>1, <4>1, <4>5, <5>0 DEF Return
        <5>2. got[c] = SeqMem[prog][c - 1][prog[c].src][prog[c].srcTray]
          BY <5>1 DEF CommInv, SequentialReads
        <5>3. got'[c] = got[c]
          BY <1>0, <4>1, <4>2, <4>5, ProgramCalls DEF TypeOK
        <5> QED BY <5>2, <5>3
      <4> QED BY <4>4, <4>5
    <3> QED BY <3>1, <3>2
  <2> QED BY <1>0, <2>3, <2>4, <2>5 DEF CommInv
<1>3. ASSUME NEW r \in Rank, XclSend(r) PROVE CommInv'
  <2>1. /\ pc[r] <= Len(prog) /\ prog' = prog /\ Return(r) /\ tray' = tray /\ got' = got
        /\ SendMessage(r) /\ Cur(r).op = "send" /\ phase[r] = "call"
    BY <1>3 DEF XclSend, AtCall
  <2>2. IsSend(Cur(r)) /\ ~IsRecv(Cur(r))
    BY <2>1 DEF IsSend, IsRecv
  <2>3. \A j \in DOMAIN prog : Sent(j)' <=> Sent(j) \/ (j = pc[r] /\ r = r_rank[prog[j].src])
    BY <1>0, <2>1, ReturnMoves
  <2>4. \A j \in DOMAIN prog : IsRecv(prog[j]) => (Done(j)' <=> Done(j))
    BY <1>0, <2>1, <2>2, ReturnQuiet
  <2>5. ChanOK' /\ Ordered' /\ Delivered' /\ RecvSent'
    BY <2>1, <2>2, <2>3, <2>4, SendStep
  <2>6. SequentialMemory' /\ SequentialReads'
    BY <2>1, QuietMemory, QuietReads
  <2> QED BY <1>0, <2>5, <2>6 DEF CommInv
<1>4. ASSUME NEW r \in Rank, XclRecv(r) PROVE CommInv'
  <2>1. /\ pc[r] <= Len(prog) /\ prog' = prog /\ Return(r) /\ ReceiveMessage(r) /\ got' = got
        /\ Cur(r).op = "recv"
    BY <1>4 DEF XclRecv, AtCall
  <2>2. IsRecv(Cur(r)) /\ ~IsSend(Cur(r))
    BY <2>1 DEF IsRecv, IsSend
  <2> QED BY <1>0, <2>1, <2>2, ReceiveStep
<1>5. ASSUME NEW r \in Rank, SendRecvRecv(r) PROVE CommInv'
  <2>1. prog' = prog /\ Return(r) /\ ReceiveMessage(r) /\ got' = got /\ phase[r] = "recv"
    BY <1>5 DEF SendRecvRecv
  <2>2. /\ pc[r] <= Len(prog) /\ Cur(r).op = "sendRecv"
        /\ ~(SameDevice(Cur(r)) /\ r = r_rank[Cur(r).src])
    BY <1>0, <2>1, ProgramCalls DEF PhaseOK, TypeOK
  <2>3. r = r_rank[Cur(r).dst] => IsRecv(Cur(r))
    BY <2>2 DEF IsRecv, SameDevice
  <2> QED BY <1>0, <2>1, <2>2, <2>3, ReceiveStep
<1>6. ASSUME NEW r \in Rank, IntraCopy(r) PROVE CommInv'
  <2>1. /\ pc[r] <= Len(prog) /\ prog' = prog /\ Return(r) /\ got' = got /\ chan' = chan
        /\ Cur(r).op = "sendRecv" /\ SameDevice(Cur(r)) /\ r = r_rank[Cur(r).src]
        /\ SetTray(Cur(r).dst, Cur(r).dstTray, tray[Cur(r).src][Cur(r).srcTray])
    BY <1>6 DEF IntraCopy, AtCall
  <2>2. ~IsSend(Cur(r)) /\ ~IsRecv(Cur(r)) /\ r = r_rank[Cur(r).dst]
    BY <2>1 DEF IsSend, IsRecv, SameDevice
  <2>3. ChanOK' /\ Ordered' /\ Delivered' /\ RecvSent'
    BY <1>0, <2>1, <2>2, ReturnQuiet, QuietChannels
  <2>4. SequentialReads'
    BY <2>1, QuietReads
  <2>5. /\ pc[r] \in DOMAIN prog /\ Cur(r) = prog[pc[r]] /\ prog \in Programs
        /\ Cur(r).src \in Task
    BY <1>0, <2>1, CurrentCall DEF TypeOK
  <2>6. SeqMem[prog][pc[r]][Cur(r).dst] =
            [SeqMem[prog][pc[r] - 1][Cur(r).dst] EXCEPT ![Cur(r).dstTray] =
                SeqMem[prog][pc[r] - 1][Cur(r).src][Cur(r).srcTray]]
    <3>1. prog[pc[r]].op = "sendRecv" /\ ~IsRecv(prog[pc[r]])
      BY <2>1, <2>2, <2>5
    <3>2. SeqMem[prog][pc[r]][prog[pc[r]].dst] =
              [SeqMem[prog][pc[r] - 1][prog[pc[r]].dst] EXCEPT ![prog[pc[r]].dstTray] =
                  SeqMem[prog][pc[r] - 1][prog[pc[r]].src][prog[pc[r]].srcTray]]
      BY <2>5, <3>1, Sequential
    <3> QED BY <2>5, <3>2, Zenon
  <2>7. tray[Cur(r).src] = SeqMem[prog][pc[r] - 1][Cur(r).src]
    BY <2>1, <2>5 DEF CommInv, SequentialMemory
  <2>8. SeqMem[prog][pc[r]][Cur(r).dst] =
            [SeqMem[prog][pc[r] - 1][Cur(r).dst] EXCEPT ![Cur(r).dstTray] =
                tray[Cur(r).src][Cur(r).srcTray]]
    BY <2>6, <2>7, Zenon
  <2>9. SequentialMemory'
    BY <2>1, <2>2, <2>8, SetMemory
  <2> QED BY <1>0, <2>3, <2>4, <2>9 DEF CommInv
<1>7. ASSUME NEW r \in Rank, SendRecvSend(r) PROVE CommInv'
  <2>1. /\ pc[r] <= Len(prog) /\ SendMessage(r) /\ UNCHANGED << prog, pc, tray, got >>
        /\ phase' = [phase EXCEPT ![r] = "recv"] /\ phase[r] = "call"
        /\ Cur(r).op = "sendRecv" /\ ~(SameDevice(Cur(r)) /\ r = r_rank[Cur(r).src])
    BY <1>7 DEF SendRecvSend, AtCall
  <2>2. r = r_rank[Cur(r).src] => IsSend(Cur(r))
    BY <2>1 DEF IsSend
  <2>3. \A j \in DOMAIN prog : Sent(j)' <=> Sent(j) \/ (j = pc[r] /\ r = r_rank[prog[j].src])
    BY <1>0, <2>1, ProgramCalls DEF Sent, TypeOK
  <2>4. \A j \in DOMAIN prog : Done(j)' <=> Done(j)
    BY <2>1 DEF Done
  <2>5. ChanOK' /\ Ordered' /\ Delivered' /\ RecvSent'
    BY <2>1, <2>2, <2>3, <2>4, SendStep
  <2>6. SequentialMemory' /\ SequentialReads'
    BY <2>1 DEF CommInv, SequentialMemory, SequentialReads
  <2> QED BY <1>0, <2>5, <2>6 DEF CommInv
<1>8. ASSUME UNCHANGED << prog, pc, phase, tray, chan, got >> PROVE CommInv'
  <2>1. \A j \in DOMAIN prog : (Sent(j)' <=> Sent(j)) /\ (Done(j)' <=> Done(j))
    BY <1>8 DEF Sent, Done
  <2>2. ChanOK' /\ Ordered' /\ Delivered' /\ RecvSent'
    BY <1>8, <2>1, QuietChannels
  <2>3. SequentialMemory' /\ SequentialReads'
    BY <1>8 DEF CommInv, SequentialMemory, SequentialReads
  <2> QED BY <1>0, <2>2, <2>3 DEF CommInv
<1>9. ASSUME NEW r \in Rank, DeviceError(r) PROVE CommInv'
  BY <1>8, <1>9 DEF DeviceError
<1>10. CASE UNCHANGED vars
  BY <1>8, <1>10 DEF vars
<1> QED
  BY <1>1, <1>2, <1>3, <1>4, <1>5, <1>6, <1>7, <1>9, <1>10 DEF Next, Step

\* For every program whose sends and receives pair up, every rank's trays are at
\* every moment those of the sequential run of the calls it has made.
THEOREM MemoryIsSequential == Spec => []SequentialMemory
<1>1. CommInv => SequentialMemory
  BY DEF CommInv
<1> QED
  BY CommInit, CommNext, <1>1, PTL DEF Spec

\* Every read of a task buffer returns what a sequential run would have read.
THEOREM ReadsAreSequential == Spec => []SequentialReads
<1>1. CommInv => SequentialReads
  BY DEF CommInv
<1> QED
  BY CommInit, CommNext, <1>1, PTL DEF Spec

\* A receive takes the message of the call that names the same tasks.
THEOREM MessagesMatch == Spec => []ReceivesItsMessage
<1>1. CommInv => ReceivesItsMessage
  <2> SUFFICES ASSUME CommInv, NEW r \in Rank, pc[r] <= Len(prog), r = r_rank[Cur(r).dst],
                      Cur(r).op = "recv" \/ phase[r] = "recv", chan[Envelope(Cur(r))] # << >>
               PROVE  Head(chan[Envelope(Cur(r))]).call = match[prog][pc[r]]
    BY DEF ReceivesItsMessage
  <2>1. IsRecv(Cur(r))
    BY DEF CommInv, TypeInv, PhaseOK, IsRecv, SameDevice
  <2> QED BY <2>1, HeadMatches
<1> QED
  BY CommInit, CommNext, <1>1, PTL DEF Spec
=============================================================================
