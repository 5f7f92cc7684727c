------------------------------- MODULE Matching -------------------------------
(***************************************************************************)
(* What a receiver may rely on when it matches messages with receives on    *)
(* one communicator, whatever order the network delivers them in and        *)
(* whichever thread handles them: the messages of a source take effect one  *)
(* after another in the order sent, each goes to the first receive posted   *)
(* that accepts it, and a new receive takes the oldest message that it      *)
(* accepts.  Nothing is promised between sources.  Ob1Match is shown to     *)
(* implement this; TaskComms and TunedColl build on it.                     *)
(***************************************************************************)
EXTENDS Integers, Sequences

CONSTANTS Source,   \* the ranks that send
          Tag,      \* the tags of messages
          Requests, \* the requests that are tried: source, tag and kind
          MaxSent,  \* bound on the number of messages of a source
          MaxReqs   \* bound on the number of requests

MPI_ANY_SOURCE == -1
OMPI_ANY_TAG == -1

\* A receive (or MPI_Mprobe) waits for a message and takes it, MPI_Probe waits and
\* leaves it, MPI_Improbe and MPI_Iprobe do the same and do not wait.
Kind == {"recv", "probe", "improbe", "iprobe"}
Takes(kind) == kind \in {"recv", "improbe"}
Waits(kind) == kind \in {"recv", "probe"}

ASSUME MatchingAssumption ==
    /\ Source \subseteq Nat
    /\ Tag \subseteq Int \ {OMPI_ANY_TAG}
    /\ Requests \subseteq (Source \cup {MPI_ANY_SOURCE}) \X (Tag \cup {OMPI_ANY_TAG}) \X Kind
    /\ MaxSent \in Nat /\ MaxReqs \in Nat

VARIABLES
    tags,    \* per source, the tags of the messages it has sent
    done,    \* per source, how many of them have taken effect
    unexp,   \* per source, those that took effect and that no receive has taken
    reqs,    \* the receives and probes that were started
    posted   \* those that wait for a message

vars == << tags, done, unexp, reqs, posted >>

NoMessage == << MPI_ANY_SOURCE, 0 >>

\* A wildcard tag accepts the tags of the application, which are not negative, and
\* never those of the collectives.
TagAccepts(want, tag) == want = tag \/ (want = OMPI_ANY_TAG /\ tag >= 0)

Accepts(q, s, k) == q.src \in {s, MPI_ANY_SOURCE} /\ TagAccepts(q.tag, tags[s][k])

----------------------------------------------------------------------------
Send(s, t) ==
    /\ Len(tags[s]) < MaxSent
    /\ tags' = [tags EXCEPT ![s] = Append(@, t)]
    /\ UNCHANGED << done, unexp, reqs, posted >>

\* Message k of source s takes effect: the probes posted before the first receive that
\* accepts it see it, and that receive takes it.
Deliver(s) ==
    LET k == done[s] + 1
        accepting == {i \in posted : Accepts(reqs[i], s, k)}
        takers == {i \in accepting : Takes(reqs[i].kind)}
        served == {i \in accepting : \A j \in takers : i <= j}
    IN  /\ k <= Len(tags[s])
        /\ done' = [done EXCEPT ![s] = k]
        /\ reqs' = [i \in DOMAIN reqs |-> IF i \in served THEN [reqs[i] EXCEPT !.got = << s, k >>] ELSE reqs[i]]
        /\ posted' = posted \ served
        /\ unexp' = IF takers = {} THEN [unexp EXCEPT ![s] = @ \cup {k}] ELSE unexp
        /\ UNCHANGED tags

\* A new request finds, of some source, the oldest message that it accepts.
Find(q, s, k) ==
    /\ s \in Source /\ k \in unexp[s] /\ Accepts(q, s, k)
    /\ \A j \in unexp[s] : Accepts(q, s, j) => k <= j
    /\ reqs' = Append(reqs, [q EXCEPT !.got = << s, k >>])
    /\ unexp' = IF Takes(q.kind) THEN [unexp EXCEPT ![s] = @ \ {k}] ELSE unexp
    /\ posted' = posted

\* It waits when there is none at all.
Post(q) ==
    /\ \A s \in Source : \A k \in unexp[s] : ~Accepts(q, s, k)
    /\ reqs' = Append(reqs, q)
    /\ posted' = IF Waits(q.kind) THEN posted \cup {Len(reqs) + 1} ELSE posted
    /\ unexp' = unexp

Start(r) ==
    /\ Len(reqs) < MaxReqs
    /\ LET q == [src |-> r[1], tag |-> r[2], kind |-> r[3], got |-> NoMessage]
       IN  (\E s \in Source, k \in 1 .. MaxSent : Find(q, s, k)) \/ Post(q)
    /\ UNCHANGED << tags, done >>

Init ==
    /\ tags = [s \in Source |-> << >>] /\ done = [s \in Source |-> 0]
    /\ unexp = [s \in Source |-> {}]
    /\ reqs = << >> /\ posted = {}

Next ==
    \/ \E s \in Source, t \in Tag : Send(s, t)
    \/ \E s \in Source : Deliver(s)
    \/ \E r \in Requests : Start(r)

Spec == Init /\ [][Next]_vars
----------------------------------------------------------------------------
Request == [src : Source \cup {MPI_ANY_SOURCE}, tag : Tag \cup {OMPI_ANY_TAG}, kind : Kind,
            got : (Source \X Nat) \cup {NoMessage}]

\* Request i has taken message k of source s.
Took(i, s, k) == i \in DOMAIN reqs /\ Takes(reqs[i].kind) /\ reqs[i].got = << s, k >>

\* The types of the variables.
TypeOK ==
    /\ tags \in [Source -> Seq(Tag)] /\ done \in [Source -> Nat]
    /\ \A s \in Source : done[s] <= Len(tags[s])
    /\ unexp \in [Source -> SUBSET Nat]
    /\ \A s \in Source : unexp[s] \subseteq 1 .. done[s]
    /\ reqs \in Seq(Request) /\ posted \subseteq DOMAIN reqs

\* Messages do not overtake: a receive that has taken a message of a source left no
\* older one of that source behind that it accepts too.
NonOvertaking ==
    \A i \in DOMAIN reqs : Takes(reqs[i].kind) /\ reqs[i].got # NoMessage =>
        \A j \in 1 .. reqs[i].got[2] - 1 :
            Accepts(reqs[i], reqs[i].got[1], j) => \E h \in DOMAIN reqs : Took(h, reqs[i].got[1], j)

\* Receives do not overtake: while a receive or a probe waits, no later one has taken
\* a message that it accepts.
ReceivesInOrder ==
    \A i \in DOMAIN reqs, h \in posted : Takes(reqs[i].kind) /\ reqs[i].got # NoMessage /\ h < i =>
        ~Accepts(reqs[h], reqs[i].got[1], reqs[i].got[2])

\* No message is taken twice.
TakenOnce ==
    \A i, h \in DOMAIN reqs : Takes(reqs[i].kind) /\ Takes(reqs[h].kind) /\ reqs[i].got = reqs[h].got /\ i # h =>
        reqs[i].got = NoMessage

\* No message is lost: one that took effect is still to be had or was taken.
NothingLost ==
    \A s \in Source : \A k \in 1 .. done[s] : k \in unexp[s] <=> ~ \E i \in DOMAIN reqs : Took(i, s, k)

\* Every message that took effect is still to be had or was taken by exactly one receive,
\* whatever the probes have seen of it.
TakenExactlyOnce == TakenOnce /\ NothingLost

\* Nobody waits for a message that is there.
NoMissedMatch == \A i \in posted, s \in Source : \A k \in unexp[s] : ~Accepts(reqs[i], s, k)
=============================================================================
