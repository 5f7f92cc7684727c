------------------------------- MODULE Ob1Match -------------------------------
(***************************************************************************)
(* The matching of messages with receives in pml/ob1, on one communicator   *)
(* of one process.  Messages travel over several networks and arrive in any *)
(* order, each in a callback of a progress thread; a sequence number per    *)
(* sender, of 16 bits, puts them back in order.  The matching lock is       *)
(* released and taken again between the steps of a callback.                *)
(*                                                                          *)
(* A message is named by its sender s and its number k, counted from 1.     *)
(* The transfer of data after the match is not modelled, nor are            *)
(* cancelled receives.                                                      *)
(***************************************************************************)
EXTENDS Matching, SequencesExt

CONSTANTS Thread,    \* the threads that run callbacks
          SeqWrap,   \* sequence numbers count modulo this (2^16)
          Workloads  \* per source, how many messages it sends, and the requests that are started

NumProcs == Cardinality(Source)

ASSUME Ob1MatchAssumption ==
    /\ NumProcs \in Nat \ {0} /\ Source = 0 .. NumProcs - 1
    /\ SeqWrap \in Nat \ {0, 1}
    /\ \A w \in Workloads : w.sends \in [Source -> 0 .. MaxSent] /\ w.requests \subseteq Requests

VARIABLES
    work,        \* the member of Workloads that is tried
    net,         \* per source, the messages under way
    comm,        \* the communicator: "none", "adding" (in mca_pml_ob1_add_comm) or "ready"
    pending,     \* non_existing_communicator_pending
    draining,    \* the source whose frags_cant_match add_comm looks through, -1 for none
    expected,    \* per source, expected_sequence
    cant,        \* per source, frags_cant_match
    unexpected,  \* per source, unexpected_frags
    specific,    \* per source, specific_receives
    wild,        \* wild_receives
    last_probed, \* the source that a wildcard request last found a message of
    pc,          \* per thread: "idle", "match" or "check" in mca_pml_ob1_recv_frag_match
    frag         \* per thread, the message it handles

\* tags and reqs, the requests numbered by recv_sequence, are those of Matching.
listVars == << expected, cant, unexpected, specific, wild, reqs >>
commVars == << comm, pending, draining >>
ob1Vars == << work, tags, net, commVars, listVars, last_probed, pc, frag >>

\* hdr_seq of message k: send_sequence is incremented first.
Seqn(k) == k % SeqWrap

\* Mutant: the number is kept in a wider integer.
NextSeqWide(e) == e + 1

NextSeq(e) == (e + 1) % SeqWrap
----------------------------------------------------------------------------
\* Mutant: specific receives are looked at first.
SoonerSpecific(s, i, j) == i \in Range(specific[s]) \/ (i <= j /\ j \notin Range(specific[s]))

\* match_incomming goes through both queues in the order of req_sequence.
Sooner(s, i, j) == i <= j

\* A queue without the requests that were served, in the same order.
Waiting(queue, served) ==
    LET kept[n \in 0 .. Len(queue)] ==
            IF n = 0 THEN << >>
            ELSE IF queue[n] \in served THEN kept[n - 1] ELSE Append(kept[n - 1], queue[n])
    IN  kept[Len(queue)]

\* match_one: probes are completed and the search goes on, until a receive takes the
\* message; without one it is unexpected.
MatchOne(s, k) ==
    LET accepting == {i \in Range(specific[s]) \cup Range(wild) : TagAccepts(reqs[i].tag, tags[s][k])}
        takers == {i \in accepting : Takes(reqs[i].kind)}
        served == {i \in accepting : \A j \in takers : Sooner(s, i, j)}
    IN  /\ reqs' = [i \in DOMAIN reqs |-> IF i \in served THEN [reqs[i] EXCEPT !.got = << s, k >>] ELSE reqs[i]]
        /\ specific' = [specific EXCEPT ![s] = Waiting(@, served)]
        /\ wild' = Waiting(wild, served)
        /\ unexpected' = IF takers = {} THEN [unexpected EXCEPT ![s] = Append(@, k)] ELSE unexpected
        /\ expected' = [expected EXCEPT ![s] = NextSeq(@)]

\* check_cantmatch_for_match: the position of the message that is expected now, 0 for none.
CantMatch(s) == SelectInSeq(cant[s], LAMBDA k : Seqn(k) = expected[s])

----------------------------------------------------------------------------
\* A source sends; fewer than SeqWrap of its messages are not matched or unexpected yet,
\* which nothing in the code makes sure of.
Unprocessed(s) == net[s] \cup Range(cant[s]) \cup {frag[t][2] : t \in {u \in Thread : pc[u] = "match" /\ frag[u][1] = s}}
                  \cup {m[2] : m \in {x \in Range(pending) : x[1] = s}}

Isend(s, t) ==
    /\ Len(tags[s]) < work.sends[s]
    /\ \A k \in Unprocessed(s) : Len(tags[s]) + 1 - k < SeqWrap
    /\ tags' = [tags EXCEPT ![s] = Append(@, t)]
    /\ net' = [net EXCEPT ![s] = @ \cup {Len(tags[s]) + 1}]
    /\ UNCHANGED << work, commVars, listVars, last_probed, pc, frag >>

\* A message for a communicator that does not exist yet.
ArriveEarly(s, k) ==
    /\ comm = "none" /\ k \in net[s]
    /\ net' = [net EXCEPT ![s] = @ \ {k}]
    /\ pending' = Append(pending, << s, k >>)
    /\ UNCHANGED << work, tags, comm, draining, listVars, last_probed, pc, frag >>

\* Mutant: messages kept back are forgotten when the next one arrives in order.
InOrderAlone(s, k) == Seqn(k) = expected[s]

\* The fast path needs the expected message and none kept back.
InOrder(s, k) == Seqn(k) = expected[s] /\ cant[s] = << >>

\* mca_pml_ob1_recv_frag_callback_match: the message is matched under one lock, or the
\* lock is released and mca_pml_ob1_recv_frag_match is called.
CallbackMatch(t, s, k) ==
    /\ comm = "ready" /\ pc[t] = "idle" /\ k \in net[s]
    /\ net' = [net EXCEPT ![s] = @ \ {k}]
    /\ IF InOrder(s, k)
       THEN MatchOne(s, k) /\ UNCHANGED << cant, pc, frag >>
       ELSE /\ pc' = [pc EXCEPT ![t] = "match"] /\ frag' = [frag EXCEPT ![t] = << s, k >>]
            /\ UNCHANGED listVars
    /\ UNCHANGED << work, tags, commVars, last_probed >>

\* mca_pml_ob1_recv_frag_callback_rndv and _rget: the first fragment of a long message.
CallbackRndv(t, s, k) ==
    /\ comm = "ready" /\ pc[t] = "idle" /\ k \in net[s]
    /\ net' = [net EXCEPT ![s] = @ \ {k}]
    /\ pc' = [pc EXCEPT ![t] = "match"] /\ frag' = [frag EXCEPT ![t] = << s, k >>]
    /\ UNCHANGED << work, tags, commVars, listVars, last_probed >>

\* mca_pml_ob1_recv_frag_match, up to the release of the lock.
FragMatch(t) ==
    LET s == frag[t][1]
        k == frag[t][2]
    IN  /\ pc[t] = "match"
        /\ IF Seqn(k) = expected[s]
           THEN MatchOne(s, k) /\ pc' = [pc EXCEPT ![t] = "check"] /\ UNCHANGED cant
           ELSE /\ cant' = [cant EXCEPT ![s] = Append(@, k)]
                /\ pc' = [pc EXCEPT ![t] = "idle"]
                /\ UNCHANGED << expected, unexpected, specific, wild, reqs >>
        /\ UNCHANGED << work, tags, net, commVars, last_probed, frag >>

\* With the lock taken again, the next message may be among those kept back.
CheckCantMatch(t) ==
    LET s == frag[t][1]
        p == CantMatch(s)
    IN  /\ pc[t] = "check"
        /\ IF p > 0
           THEN MatchOne(s, cant[s][p]) /\ cant' = [cant EXCEPT ![s] = RemoveAt(@, p)] /\ UNCHANGED pc
           ELSE pc' = [pc EXCEPT ![t] = "idle"] /\ UNCHANGED listVars
        /\ UNCHANGED << work, tags, net, commVars, last_probed, frag >>

----------------------------------------------------------------------------
\* mca_pml_ob1_add_comm looks through the messages that came too early, one by one.
AddComm ==
    /\ comm = "none" /\ comm' = "adding"
    /\ UNCHANGED << work, tags, net, pending, draining, listVars, last_probed, pc, frag >>

PutUnexpected(s, k) ==
    /\ expected' = [expected EXCEPT ![s] = NextSeq(@)]
    /\ unexpected' = [unexpected EXCEPT ![s] = Append(@, k)]
    /\ UNCHANGED << specific, wild, reqs >>

AddPending ==
    /\ comm = "adding" /\ draining = -1 /\ pending # << >>
    /\ pending' = Tail(pending)
    /\ LET s == Head(pending)[1]
           k == Head(pending)[2]
       IN  IF Seqn(k) = expected[s]
           THEN PutUnexpected(s, k) /\ draining' = s /\ UNCHANGED cant
           ELSE /\ cant' = [cant EXCEPT ![s] = Append(@, k)]
                /\ UNCHANGED << draining, expected, unexpected, specific, wild, reqs >>
    /\ UNCHANGED << work, tags, net, comm, last_probed, pc, frag >>

\* Every message that became unexpected may make another one so.
AddCantMatch ==
    /\ draining # -1
    /\ LET p == CantMatch(draining)
       IN  IF p > 0
           THEN /\ PutUnexpected(draining, cant[draining][p])
                /\ cant' = [cant EXCEPT ![draining] = RemoveAt(@, p)]
                /\ UNCHANGED draining
           ELSE draining' = -1 /\ UNCHANGED listVars
    /\ UNCHANGED << work, tags, net, comm, pending, last_probed, pc, frag >>

AddCommDone ==
    /\ comm = "adding" /\ draining = -1 /\ pending = << >>
    /\ comm' = "ready"
    /\ UNCHANGED << work, tags, net, pending, draining, listVars, last_probed, pc, frag >>

----------------------------------------------------------------------------
\* Mutant: the list is searched from its end.
MatchSpecificProcLast(tag, s) == SelectLastInSeq(unexpected[s], LAMBDA k : TagAccepts(tag, tags[s][k]))

\* recv_req_match_specific_proc: the position of the first unexpected message of s
\* that has the tag, 0 for none.
MatchSpecificProc(tag, s) == SelectInSeq(unexpected[s], LAMBDA k : TagAccepts(tag, tags[s][k]))

\* Mutant: only the source after last_probed is looked at.
MatchWildNext(tag) == {s \in {(last_probed + 1) % NumProcs} : MatchSpecificProc(tag, s) > 0}

\* recv_req_match_wild: the sources in turn, from the one after last_probed on.
MatchWild(tag) ==
    {s \in Source : /\ MatchSpecificProc(tag, s) > 0
                    /\ \A q \in Source : MatchSpecificProc(tag, q) > 0 =>
                          (s - last_probed - 1) % NumProcs <= (q - last_probed - 1) % NumProcs}

\* Mutant: the message that a receive took stays on the list.
RemoveFragProbes(kind) == kind = "improbe"

\* opal_list_remove_item of the message, for a request that takes it.
RemoveFrag(kind) == Takes(kind)

\* mca_pml_ob1_recv_req_start, under the matching lock.
RecvReqStart(src, tag, kind) ==
    LET q == [src |-> src, tag |-> tag, kind |-> kind, got |-> NoMessage]
        procs == IF src = MPI_ANY_SOURCE THEN MatchWild(tag) ELSE {s \in {src} : MatchSpecificProc(tag, s) > 0}
        i == Len(reqs) + 1
    IN  /\ comm = "ready" /\ i <= MaxReqs
        /\ \/ \E s \in procs :
                LET p == MatchSpecificProc(tag, s)
                IN  /\ reqs' = Append(reqs, [q EXCEPT !.got = << s, unexpected[s][p] >>])
                    /\ unexpected' = IF RemoveFrag(kind) THEN [unexpected EXCEPT ![s] = RemoveAt(@, p)] ELSE unexpected
                    /\ last_probed' = IF src = MPI_ANY_SOURCE THEN s ELSE last_probed
                    /\ UNCHANGED << specific, wild >>
           \/ /\ procs = {}
              /\ reqs' = Append(reqs, q)
              /\ specific' = IF Waits(kind) /\ src # MPI_ANY_SOURCE THEN [specific EXCEPT ![src] = Append(@, i)] ELSE specific
              /\ wild' = IF Waits(kind) /\ src = MPI_ANY_SOURCE THEN Append(wild, i) ELSE wild
              /\ UNCHANGED << unexpected, last_probed >>
        /\ UNCHANGED << work, tags, net, commVars, expected, cant, pc, frag >>

----------------------------------------------------------------------------
\* Message k of source s has been matched or put among the unexpected ones.
Processed(s, k) ==
    \/ k \in Range(unexpected[s])
    \/ \E i \in DOMAIN reqs : Takes(reqs[i].kind) /\ reqs[i].got = << s, k >>

\* What Matching sees: the messages that took effect, those no receive has taken, and
\* the requests that wait, in whichever queue.
Done   == [s \in Source |-> Cardinality({k \in DOMAIN tags[s] : Processed(s, k)})]
Unexp  == [s \in Source |-> Range(unexpected[s])]
Posted == Range(wild) \cup UNION {Range(specific[s]) : s \in Source}

Ob1Init ==
    /\ work \in Workloads
    /\ tags = [s \in Source |-> << >>] /\ net = [s \in Source |-> {}]
    /\ comm = "none" /\ pending = << >> /\ draining = -1
    /\ expected = [s \in Source |-> 1]
    /\ cant = [s \in Source |-> << >>] /\ unexpected = [s \in Source |-> << >>]
    /\ specific = [s \in Source |-> << >>] /\ wild = << >>
    /\ reqs = << >> /\ last_probed = 0
    /\ pc = [t \in Thread |-> "idle"] /\ frag = [t \in Thread |-> NoMessage]
    /\ done = Done /\ unexp = Unexp /\ posted = Posted

Arrive(s, k) == ArriveEarly(s, k) \/ \E t \in Thread : CallbackMatch(t, s, k) \/ CallbackRndv(t, s, k)

Add == AddComm \/ AddPending \/ AddCantMatch \/ AddCommDone

Step ==
    \/ \E s \in Source, t \in Tag : Isend(s, t)
    \/ \E s \in Source, k \in 1 .. MaxSent : Arrive(s, k)
    \/ \E t \in Thread : FragMatch(t) \/ CheckCantMatch(t)
    \/ Add
    \/ \E r \in work.requests : RecvReqStart(r[1], r[2], r[3])

Ob1Next == Step /\ done' = Done' /\ unexp' = Unexp' /\ posted' = Posted'

\* The network delivers every message, the threads run, and the communicator is created.
Ob1Spec ==
    /\ Ob1Init /\ [][Ob1Next]_<< ob1Vars, vars >>
    /\ \A s \in Source, k \in 1 .. MaxSent : WF_ob1Vars(Arrive(s, k))
    /\ \A t \in Thread : WF_ob1Vars(FragMatch(t) \/ CheckCantMatch(t))
    /\ WF_ob1Vars(Add)

----------------------------------------------------------------------------
\* The types of the variables; a thread that is idle keeps nothing to do.
Ob1TypeOK ==
    /\ work \in Workloads
    /\ expected \in [Source -> 0 .. SeqWrap - 1]
    /\ \A s \in Source : /\ net[s] \subseteq 1 .. Len(tags[s])
                         /\ Range(cant[s]) \cup Range(unexpected[s]) \subseteq 1 .. Len(tags[s])
                         /\ Range(specific[s]) \subseteq DOMAIN reqs
    /\ Range(wild) \subseteq DOMAIN reqs
    /\ comm \in {"none", "adding", "ready"} /\ draining \in Source \cup {-1}
    /\ last_probed \in Source
    /\ pc \in [Thread -> {"idle", "match", "check"}]

\* Whatever the order of arrival and the interleaving of the threads, messages take
\* effect in the order sent, each with the request that Matching says: every step of
\* ob1 is one of Matching or changes nothing that Matching sees.
ImplementsMatching == Spec

\* No message stays behind: in the end every one that was sent is matched or unexpected,
\* and none is kept back for good because the thread that could have matched it did not
\* look again.
MessagesProcessed == <>[](\A s \in Source : Done[s] = Len(tags[s]))
=============================================================================
