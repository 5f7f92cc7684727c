----------------------------- MODULE MCTaskComms -----------------------------
(* Small SPMD programs for TaskComms: all sequences of up to 4 calls in which *)
(* every receive has a send.  Rank r1 has tasks t1 and t2 on two devices,     *)
(* rank r2 has task t3.                                                       *)
EXTENDS TaskComms, FiniteSets, TLC

CONSTANTS r1, r2, t1, t2, t3

Owners  == t1 :> r1 @@ t2 :> r1 @@ t3 :> r2
Devices == t1 :> 1 @@ t2 :> 2 @@ t3 :> 1

Copy(op, s, ys, d, yd, g) ==
    [op |-> op, src |-> s, srcTray |-> ys, dst |-> d, dstTray |-> yd, tag |-> g]

Calls == {
    Copy("write", t1, 1, t1, 1, 0), Copy("write", t3, 1, t3, 1, 0),
    Copy("read", t3, 1, t3, 1, 0),
    Copy("sendRecv", t1, 1, t1, 2, 0),      \* on one device
    Copy("sendRecv", t1, 1, t2, 1, 0),      \* between devices of a rank
    Copy("sendRecv", t1, 1, t3, 1, 0),      \* between ranks
    Copy("sendRecv", t3, 1, t2, 1, 0),
    Copy("send", t1, 1, t3, 1, 1), Copy("recv", t1, 1, t3, 1, 1),
    Copy("send", t2, 1, t3, 1, 1), Copy("recv", t2, 1, t3, 2, 1) }

\* The k-th receive of an envelope takes its k-th send; 0 if there is none.
Nth(p, i) ==
    LET Receives == {k \in 1 .. i : IsRecv(p[k]) /\ Envelope(p[k]) = Envelope(p[i])}
        Sends    == {j \in 1 .. i : IsSend(p[j]) /\ Envelope(p[j]) = Envelope(p[i])}
        Upto(j)  == {l \in Sends : l <= j}
        Found    == {j \in Sends : Cardinality(Upto(j)) = Cardinality(Receives)}
    IN  IF Found = {} THEN 0 ELSE CHOOSE j \in Found : TRUE

MatchOf(p) == [i \in DOMAIN p |-> IF IsRecv(p[i]) THEN Nth(p, i) ELSE 0]

SmallPrograms ==
    {p \in UNION {[1 .. n -> Calls] : n \in 1 .. 4} : WellMatched(p, MatchOf(p))}

\* Bound of the run: three calls, or four that start with the same write.
ShortPrograms ==
    {p \in SmallPrograms : Len(p) <= 3 \/ (p[1] = Copy("write", t1, 1, t1, 1, 0)
                                          /\ "write" \notin {p[2].op, p[4].op})}

Matches == [p \in ShortPrograms |-> MatchOf(p)]

SeqMems ==
    [p \in ShortPrograms |->
        LET mem[n \in 0 .. Len(p)] ==
                IF n = 0 THEN [t \in Task |-> [y \in Tray |-> 0]]
                ELSE Effect(p, MatchOf(p), mem, n)
        IN  mem]
=============================================================================
