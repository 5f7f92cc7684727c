---------------------------- MODULE MatchingProofs ----------------------------
(***************************************************************************)
(* The guarantees of Matching, for any number of sources, tags, messages    *)
(* and requests.  None of them is inductive alone: that a receive overtakes *)
(* no message when it is served needs that nobody waits for a message that  *)
(* is there (NoMissedMatch) and that no message is lost (NothingLost).      *)
(*                                                                          *)
(* Then the refinement: ob1, with its queues, 16-bit numbers, messages kept *)
(* back and a lock that is released in the middle of a callback, implements *)
(* Matching, and has its guarantees.  The invariant (Ob1Inv) says what the  *)
(* lists hold (ListsInv), where the messages are that did not take effect   *)
(* yet (PlacesInv) and in which order the communicator is created (LifeInv).*)
(***************************************************************************)
EXTENDS Ob1Match, FiniteSetTheorems, WellFoundedInduction, TLAPS

\* A request has a message that took effect, or none.
GotOK ==
    \A i \in DOMAIN reqs : reqs[i].got # NoMessage =>
        /\ reqs[i].got[1] \in Source /\ reqs[i].got[2] \in Nat
        /\ 1 <= reqs[i].got[2] /\ reqs[i].got[2] <= done[reqs[i].got[1]]
        /\ reqs[i].got = << reqs[i].got[1], reqs[i].got[2] >>

\* A request that waits has none.
PostedOK == \A i \in posted : reqs[i].got = NoMessage

MatchInv ==
    /\ TypeOK /\ GotOK /\ PostedOK /\ NoMissedMatch /\ NothingLost
    /\ TakenOnce /\ NonOvertaking /\ ReceivesInOrder
----------------------------------------------------------------------------
NatLess == {p \in Nat \X Nat : p[1] < p[2]}

\* Of the receives that accept a message there is a first one.
LEMMA LeastExists ==
    ASSUME NEW T \in SUBSET Nat, T # {}
    PROVE  \E m \in T : \A n \in T : m <= n
<1>1. IsWellFoundedOn(NatLess, Nat)
    BY NatLessThanWellFounded DEF OpToRel, NatLess
<1>2. PICK m \in T : \A n \in T : ~(<< n, m >> \in NatLess)
    BY <1>1, WFMin
<1>3. ASSUME NEW n \in T PROVE m <= n
    <2>1. << n, m >> \notin NatLess
        BY <1>2
    <2>2. ~(n < m)
        BY <2>1, n \in Nat, m \in Nat DEF NatLess
    <2> QED BY <2>2, n \in Nat, m \in Nat
<1> QED BY <1>3

\* A message is never the same as none.
LEMMA MessageIsSome ==
    ASSUME NEW s \in Source, NEW k
    PROVE  << s, k >> # NoMessage
<1>1. s \in Nat
    BY MatchingAssumption
<1>2. s # -1
    BY <1>1
<1> QED BY <1>2 DEF NoMessage, MPI_ANY_SOURCE

LEMMA InitInv == Init => MatchInv
<1> SUFFICES ASSUME Init PROVE MatchInv
    OBVIOUS
<1>1. DOMAIN reqs = {}
    BY DEF Init
<1>2. TypeOK
    BY DEF Init, TypeOK
<1>3. GotOK /\ PostedOK /\ NoMissedMatch /\ TakenOnce /\ NonOvertaking /\ ReceivesInOrder
    BY <1>1 DEF Init, GotOK, PostedOK, NoMissedMatch, TakenOnce, NonOvertaking, ReceivesInOrder
<1>4. NothingLost
    BY DEF Init, NothingLost
<1> QED BY <1>2, <1>3, <1>4 DEF MatchInv

\* The tag of a message that was sent does not change, so that a request accepts the
\* same messages after a send.
LEMMA SendInv ==
    ASSUME MatchInv, NEW s \in Source, NEW t \in Tag, Send(s, t)
    PROVE  MatchInv'
<1> USE DEF MatchInv
<1>1. UNCHANGED << done, unexp, reqs, posted >>
    BY DEF Send
<1>2. /\ tags' \in [Source -> Seq(Tag)]
      /\ \A r \in Source : Len(tags[r]) <= Len(tags'[r])
      /\ \A r \in Source : \A k \in 1 .. Len(tags[r]) : tags'[r][k] = tags[r][k]
    <2>1. tags \in [Source -> Seq(Tag)]
        BY DEF TypeOK
    <2>2. tags' = [tags EXCEPT ![s] = Append(@, t)]
        BY DEF Send
    <2>3. \A r \in Source : tags[r] \in Seq(Tag)
        BY <2>1
    <2>4. /\ Append(tags[s], t) \in Seq(Tag) /\ Len(Append(tags[s], t)) = Len(tags[s]) + 1
          /\ \A k \in 1 .. Len(tags[s]) : Append(tags[s], t)[k] = tags[s][k]
        BY <2>3
    <2>5. \A r \in Source : tags'[r] = IF r = s THEN Append(tags[s], t) ELSE tags[r]
        BY <2>1, <2>2
    <2> QED BY <2>1, <2>2, <2>3, <2>4, <2>5
<1>3. TypeOK'
    <2>1. \A r \in Source : done[r] \in Nat /\ Len(tags[r]) \in Nat /\ Len(tags'[r]) \in Nat
        BY <1>2 DEF TypeOK
    <2> QED BY <1>1, <1>2, <2>1 DEF TypeOK
<1>4. \A r \in Source : \A k \in 1 .. done[r] : tags'[r][k] = tags[r][k]
    BY <1>2 DEF TypeOK
<1>5. GotOK' /\ PostedOK' /\ NothingLost' /\ TakenOnce'
    BY <1>1 DEF GotOK, PostedOK, NothingLost, TakenOnce, Took
<1>6. NoMissedMatch'
    BY <1>1, <1>4 DEF NoMissedMatch, TypeOK, Accepts
<1>7. NonOvertaking'
    <2> SUFFICES ASSUME NEW i \in DOMAIN reqs, Takes(reqs[i].kind), reqs[i].got # NoMessage,
                        NEW j \in 1 .. reqs[i].got[2] - 1, Accepts(reqs[i], reqs[i].got[1], j)'
                 PROVE  \E h \in DOMAIN reqs : Took(h, reqs[i].got[1], j)
        BY <1>1 DEF NonOvertaking, Took
    <2>1. reqs[i].got[1] \in Source /\ j \in 1 .. done[reqs[i].got[1]]
        BY DEF GotOK, TypeOK
    <2>2. Accepts(reqs[i], reqs[i].got[1], j)
        BY <1>1, <1>4, <2>1 DEF Accepts
    <2> QED BY <2>2 DEF NonOvertaking
<1>8. ReceivesInOrder'
    <2> SUFFICES ASSUME NEW i \in DOMAIN reqs, NEW h \in posted, Takes(reqs[i].kind),
                        reqs[i].got # NoMessage, h < i
                 PROVE  ~Accepts(reqs[h], reqs[i].got[1], reqs[i].got[2])'
        BY <1>1 DEF ReceivesInOrder
    <2>1. reqs[i].got[1] \in Source /\ reqs[i].got[2] \in 1 .. done[reqs[i].got[1]]
        BY DEF GotOK, TypeOK
    <2>2. ~Accepts(reqs[h], reqs[i].got[1], reqs[i].got[2])
        BY DEF ReceivesInOrder
    <2> QED BY <1>1, <1>4, <2>1, <2>2 DEF Accepts
<1> QED BY <1>3, <1>5, <1>6, <1>7, <1>8

\* What the message that takes effect does to the requests.
LEMMA DeliverStep ==
    ASSUME MatchInv, NEW s \in Source, Deliver(s),
           NEW served, served = {i \in posted : /\ Accepts(reqs[i], s, done[s] + 1)
                                                /\ \A j \in posted : Accepts(reqs[j], s, done[s] + 1) /\ Takes(reqs[j].kind) => i <= j}
    PROVE  /\ DOMAIN reqs' = DOMAIN reqs
           /\ reqs' \in Seq(Request)
           /\ \A i \in DOMAIN reqs :
                 /\ reqs'[i].src = reqs[i].src /\ reqs'[i].tag = reqs[i].tag /\ reqs'[i].kind = reqs[i].kind
                 /\ reqs'[i].got = IF i \in served THEN << s, done[s] + 1 >> ELSE reqs[i].got
           /\ posted' = posted \ served
           /\ tags' = tags
           /\ done' = [done EXCEPT ![s] = done[s] + 1]
           /\ done[s] + 1 <= Len(tags[s])
<1> DEFINE k == done[s] + 1
           accepting == {i \in posted : Accepts(reqs[i], s, k)}
           takers == {i \in accepting : Takes(reqs[i].kind)}
           ser == {i \in accepting : \A j \in takers : i <= j}
<1>1. ser = served
    OBVIOUS
<1>2. /\ reqs' = [i \in DOMAIN reqs |-> IF i \in ser THEN [reqs[i] EXCEPT !.got = << s, k >>] ELSE reqs[i]]
      /\ posted' = posted \ ser /\ tags' = tags /\ done' = [done EXCEPT ![s] = k] /\ k <= Len(tags[s])
    BY DEF Deliver
<1> HIDE DEF ser, k
<1>3. reqs \in Seq(Request) /\ k \in Nat /\ s \in Source
    BY DEF MatchInv, TypeOK, k
<1>4. \A i \in DOMAIN reqs : reqs[i] \in Request
    BY <1>3
<1>5. DOMAIN reqs' = DOMAIN reqs
    BY <1>2
<1>6. ASSUME NEW i \in DOMAIN reqs
      PROVE  /\ reqs'[i].src = reqs[i].src /\ reqs'[i].tag = reqs[i].tag /\ reqs'[i].kind = reqs[i].kind
             /\ reqs'[i].got = IF i \in served THEN << s, k >> ELSE reqs[i].got
             /\ reqs'[i] \in Request
    <2>1. reqs'[i] = IF i \in ser THEN [reqs[i] EXCEPT !.got = << s, k >>] ELSE reqs[i]
        BY <1>2
    <2>2. << s, k >> \in (Source \X Nat) \cup {NoMessage}
        BY <1>3
    <2> QED BY <1>1, <1>4, <2>1, <2>2 DEF Request
<1>7. reqs' \in Seq(Request)
    <2>1. DOMAIN reqs = 1 .. Len(reqs) /\ Len(reqs) \in Nat
        BY <1>3
    <2>2. reqs' \in [1 .. Len(reqs) -> Request]
        BY <1>2, <1>6, <2>1
    <2> QED BY <2>1, <2>2
<1> QED BY <1>1, <1>2, <1>5, <1>6, <1>7 DEF k

\* A message takes effect: the first receive that accepts it, m, is the only one to take
\* it, and every older message that m accepts was taken before.
LEMMA DeliverInv ==
    ASSUME MatchInv, NEW s \in Source, Deliver(s)
    PROVE  MatchInv'
<1> DEFINE k == done[s] + 1
           takers == {i \in posted : Accepts(reqs[i], s, k) /\ Takes(reqs[i].kind)}
           served == {i \in posted : /\ Accepts(reqs[i], s, done[s] + 1)
                                     /\ \A j \in posted : Accepts(reqs[j], s, done[s] + 1) /\ Takes(reqs[j].kind) => i <= j}
<1>1. /\ DOMAIN reqs' = DOMAIN reqs
      /\ reqs' \in Seq(Request)
      /\ \A i \in DOMAIN reqs :
            /\ reqs'[i].src = reqs[i].src /\ reqs'[i].tag = reqs[i].tag /\ reqs'[i].kind = reqs[i].kind
            /\ reqs'[i].got = IF i \in served THEN << s, k >> ELSE reqs[i].got
      /\ posted' = posted \ served
      /\ tags' = tags
      /\ done' = [done EXCEPT ![s] = k]
      /\ k <= Len(tags[s])
    BY DeliverStep
<1>2. unexp' = IF takers = {} THEN [unexp EXCEPT ![s] = @ \cup {k}] ELSE unexp
    <2>1. {i \in {j \in posted : Accepts(reqs[j], s, k)} : Takes(reqs[i].kind)} = takers
        OBVIOUS
    <2> QED BY <2>1 DEF Deliver
<1>3. /\ TypeOK /\ GotOK /\ PostedOK /\ NoMissedMatch /\ NothingLost
      /\ TakenOnce /\ NonOvertaking /\ ReceivesInOrder
    BY DEF MatchInv
<1>4. k \in Nat /\ k = done[s] + 1 /\ posted \subseteq DOMAIN reqs /\ DOMAIN reqs \subseteq Nat
    BY <1>3 DEF TypeOK
<1>5. served \subseteq posted /\ takers \subseteq posted
    OBVIOUS
<1>6. \A i \in posted : i \in served <=> Accepts(reqs[i], s, k) /\ \A j \in takers : i <= j
    OBVIOUS
<1>7. \A i \in posted : i \in takers <=> Accepts(reqs[i], s, k) /\ Takes(reqs[i].kind)
    OBVIOUS
<1> HIDE DEF k, takers, served
<1>8. << s, k >> # NoMessage
    BY MessageIsSome
\* A request that waits accepts the same messages as before.
<1>9. \A i \in DOMAIN reqs : \A r, j : Accepts(reqs[i], r, j)' <=> Accepts(reqs[i], r, j)
    BY <1>1 DEF Accepts
\* Who has taken what: nobody has taken message k, and one at most takes it now.
<1>10. \A i, h \in takers : i \in served /\ h \in served => i = h
    BY <1>4, <1>5, <1>6, <1>7
<1>11. takers # {} => \E m \in takers : m \in served
    <2> SUFFICES ASSUME takers # {} PROVE \E m \in takers : m \in served
        OBVIOUS
    <2>1. takers \in SUBSET Nat
        BY <1>4, <1>5
    <2>2. PICK m \in takers : \A n \in takers : m <= n
        BY <2>1, LeastExists
    <2> QED BY <2>2, <1>5, <1>6, <1>7
<1>12. \A i \in DOMAIN reqs : reqs[i].got # << s, k >>
    <2> SUFFICES ASSUME NEW i \in DOMAIN reqs, reqs[i].got = << s, k >> PROVE FALSE
        OBVIOUS
    <2>1. reqs[i].got[2] <= done[reqs[i].got[1]]
        BY <1>3, <1>8 DEF GotOK
    <2>2. k <= done[s] /\ done[s] \in Nat
        BY <1>3, <2>1 DEF TypeOK
    <2> QED BY <1>4, <2>2
<1>13. \A i, j : \A r \in Source :
            (Took(i, r, j))' <=> Took(i, r, j) \/ (i \in takers /\ i \in served /\ r = s /\ j = k)
    <2> SUFFICES ASSUME NEW i, NEW j, NEW r \in Source
                 PROVE  (Took(i, r, j))' <=> Took(i, r, j) \/ (i \in takers /\ i \in served /\ r = s /\ j = k)
        OBVIOUS
    <2>1. CASE i \in DOMAIN reqs /\ i \in served
        <3>1. reqs[i].got = NoMessage /\ (i \in takers <=> Takes(reqs[i].kind))
            BY <1>3, <1>5, <1>6, <1>7, <2>1 DEF PostedOK
        <3>2. reqs'[i].got = << s, k >> /\ reqs'[i].kind = reqs[i].kind
            BY <1>1, <2>1
        <3>3. ~Took(i, r, j)
            BY <3>1, MessageIsSome DEF Took
        <3> QED BY <1>1, <2>1, <3>1, <3>2, <3>3 DEF Took
    <2>2. CASE i \in DOMAIN reqs /\ i \notin served
        BY <1>1, <2>2 DEF Took
    <2>3. CASE i \notin DOMAIN reqs
        BY <1>1, <1>4, <1>5, <2>3 DEF Took
    <2> QED BY <2>1, <2>2, <2>3
<1>14. TypeOK'
    <2>1. /\ tags' \in [Source -> Seq(Tag)] /\ done' \in [Source -> Nat]
          /\ \A r \in Source : done'[r] <= Len(tags'[r])
        BY <1>1, <1>3, <1>4 DEF TypeOK
    <2>2. unexp' \in [Source -> SUBSET Nat] /\ \A r \in Source : unexp'[r] \subseteq 1 .. done'[r]
        <3>1. \A r \in Source : unexp[r] \subseteq 1 .. done[r] /\ done[r] \in Nat /\ done'[r] \in Nat /\ done[r] <= done'[r]
            BY <1>1, <1>3, <1>4 DEF TypeOK
        <3>2. done'[s] = k /\ unexp \in [Source -> SUBSET Nat] /\ 1 <= k
            BY <1>1, <1>3, <1>4 DEF TypeOK
        <3> QED BY <1>2, <1>4, <3>1, <3>2
    <2>3. posted' \subseteq DOMAIN reqs'
        BY <1>1, <1>4
    <2> QED BY <1>1, <2>1, <2>2, <2>3 DEF TypeOK
<1>15. GotOK'
    <2> SUFFICES ASSUME NEW i \in DOMAIN reqs, reqs'[i].got # NoMessage
                 PROVE  /\ reqs'[i].got[1] \in Source /\ reqs'[i].got[2] \in Nat
                        /\ 1 <= reqs'[i].got[2] /\ reqs'[i].got[2] <= done'[reqs'[i].got[1]]
                        /\ reqs'[i].got = << reqs'[i].got[1], reqs'[i].got[2] >>
        BY <1>1 DEF GotOK
    <2>1. \A r \in Source : done[r] \in Nat /\ done'[r] \in Nat /\ done[r] <= done'[r]
        BY <1>1, <1>3, <1>4 DEF TypeOK
    <2>2. CASE i \in served
        <3>1. done'[s] = k
            BY <1>1, <1>3 DEF TypeOK
        <3>2. reqs'[i].got = << s, k >>
            BY <1>1, <2>2
        <3>3. 1 <= k
            BY <1>4, <2>1
        <3> QED BY <1>4, <3>1, <3>2, <3>3
    <2>3. CASE i \notin served
        <3>1. reqs'[i].got = reqs[i].got
            BY <1>1, <2>3
        <3>2. /\ reqs[i].got[1] \in Source /\ reqs[i].got[2] \in Nat
              /\ 1 <= reqs[i].got[2] /\ reqs[i].got[2] <= done[reqs[i].got[1]]
              /\ reqs[i].got = << reqs[i].got[1], reqs[i].got[2] >>
            BY <1>3, <3>1 DEF GotOK
        <3> QED BY <2>1, <3>1, <3>2
    <2> QED BY <2>2, <2>3
<1>16. PostedOK'
    BY <1>1, <1>3, <1>4 DEF PostedOK
<1>17. NoMissedMatch'
    <2> SUFFICES ASSUME NEW i \in posted, i \notin served, NEW r \in Source, NEW j \in unexp'[r]
                 PROVE  ~Accepts(reqs[i], r, j)
        BY <1>1, <1>4, <1>9 DEF NoMissedMatch
    <2>1. CASE j \in unexp[r]
        BY <1>3, <2>1 DEF NoMissedMatch
    <2>2. CASE j \notin unexp[r]
        <3>1. takers = {} /\ r = s /\ j = k
            BY <1>2, <1>3, <2>2 DEF TypeOK
        <3> QED BY <1>6, <3>1
    <2> QED BY <2>1, <2>2
<1>18. NothingLost'
    <2> SUFFICES ASSUME NEW r \in Source, NEW j \in 1 .. done'[r]
                 PROVE  j \in unexp'[r] <=> ~ \E i \in DOMAIN reqs : (Took(i, r, j))'
        BY <1>1 DEF NothingLost
    <2>1. CASE r = s /\ j = k
        <3>1. \A i \in DOMAIN reqs : ~Took(i, r, j)
            BY <1>12, <2>1 DEF Took
        <3>2. k \notin unexp[s]
            BY <1>3, <1>4 DEF TypeOK
        <3>3. CASE takers = {}
            <4>1. j \in unexp'[r]
                BY <1>2, <1>3, <2>1, <3>3 DEF TypeOK
            <4> QED BY <1>13, <3>1, <3>3, <4>1
        <3>4. CASE takers # {}
            <4>1. PICK m \in takers : m \in served
                BY <1>11, <3>4
            <4>2. m \in DOMAIN reqs /\ (Took(m, r, j))'
                BY <1>4, <1>5, <1>13, <2>1, <4>1
            <4> QED BY <1>2, <2>1, <3>2, <3>4, <4>2
        <3> QED BY <3>3, <3>4
    <2>2. CASE ~(r = s /\ j = k)
        <3>1. j \in 1 .. done[r]
            BY <1>1, <1>3, <1>4, <2>2 DEF TypeOK
        <3>2. j \in unexp'[r] <=> j \in unexp[r]
            BY <1>2, <1>3, <2>2 DEF TypeOK
        <3>3. \A i : (Took(i, r, j))' <=> Took(i, r, j)
            BY <1>13, <2>2
        <3> QED BY <1>3, <3>1, <3>2, <3>3 DEF NothingLost
    <2> QED BY <2>1, <2>2
<1>19. TakenOnce'
    <2> SUFFICES ASSUME NEW i \in DOMAIN reqs, NEW h \in DOMAIN reqs, Takes(reqs[i].kind), Takes(reqs[h].kind),
                        reqs'[i].got = reqs'[h].got, i # h
                 PROVE  reqs'[i].got = NoMessage
        BY <1>1 DEF TakenOnce
    <2>1. CASE i \in served \/ h \in served
        <3>1. reqs'[i].got = << s, k >> /\ reqs'[h].got = << s, k >>
            BY <1>1, <2>1
        <3>2. i \in served /\ h \in served
            BY <1>1, <1>12, <3>1
        <3> QED BY <1>5, <1>6, <1>7, <1>10, <3>2
    <2>2. CASE ~(i \in served \/ h \in served)
        BY <1>1, <1>3, <2>2 DEF TakenOnce
    <2> QED BY <2>1, <2>2
<1>20. NonOvertaking'
    <2> SUFFICES ASSUME NEW i \in DOMAIN reqs, Takes(reqs[i].kind), reqs'[i].got # NoMessage,
                        NEW j \in 1 .. reqs'[i].got[2] - 1, Accepts(reqs[i], reqs'[i].got[1], j)
                 PROVE  \E h \in DOMAIN reqs : (Took(h, reqs[i].got[1], j))'
        BY <1>1, <1>9 DEF NonOvertaking
    <2>1. CASE i \in served
        <3>1. reqs'[i].got = << s, k >>
            BY <1>1, <2>1
        <3>2. j \in 1 .. done[s] /\ Accepts(reqs[i], s, j) /\ i \in posted
            BY <1>3, <1>4, <1>5, <2>1, <3>1 DEF TypeOK
        <3>3. j \notin unexp[s]
            BY <1>3, <3>2 DEF NoMissedMatch
        <3>4. PICK h \in DOMAIN reqs : Took(h, s, j)
            BY <1>3, <3>2, <3>3 DEF NothingLost
        <3>5. (Took(h, s, j))'
            BY <1>13, <3>4
        <3>6. reqs[i].got[1]' = s
            BY <3>1
        <3> QED BY <3>5, <3>6 DEF Took
    <2>2. CASE i \notin served
        <3>1. reqs'[i].got = reqs[i].got
            BY <1>1, <2>2
        <3>2. PICK h \in DOMAIN reqs : Took(h, reqs[i].got[1], j)
            BY <1>3, <3>1 DEF NonOvertaking
        <3>3. reqs[i].got[1] \in Source
            BY <1>3, <3>1 DEF GotOK
        <3>4. (Took(h, reqs[i].got[1], j))'
            BY <1>13, <3>1, <3>2, <3>3 DEF Took
        <3> QED BY <3>4
    <2> QED BY <2>1, <2>2
<1>21. ReceivesInOrder'
    <2> SUFFICES ASSUME NEW i \in DOMAIN reqs, NEW h \in posted, h \notin served, Takes(reqs[i].kind),
                        reqs'[i].got # NoMessage, h < i
                 PROVE  ~Accepts(reqs[h], reqs'[i].got[1], reqs'[i].got[2])
        BY <1>1, <1>4, <1>9 DEF ReceivesInOrder
    <2>1. CASE i \in served
        <3>1. reqs'[i].got = << s, k >>
            BY <1>1, <2>1
        <3>2. \A j \in takers : h <= j
            BY <1>4, <1>5, <1>6, <2>1
        <3> QED BY <1>6, <3>1, <3>2
    <2>2. CASE i \notin served
        <3>1. reqs'[i].got = reqs[i].got
            BY <1>1, <2>2
        <3> QED BY <1>3, <3>1 DEF ReceivesInOrder
    <2> QED BY <2>1, <2>2
<1> QED BY <1>14, <1>15, <1>16, <1>17, <1>18, <1>19, <1>20, <1>21 DEF MatchInv

\* A request is added: what the others have taken, and whom they accept, stays.
LEMMA AppendStep ==
    ASSUME MatchInv, NEW q \in Request, reqs' = Append(reqs, q), tags' = tags
    PROVE  /\ reqs' \in Seq(Request) /\ Len(reqs) \in Nat /\ DOMAIN reqs = 1 .. Len(reqs)
           /\ DOMAIN reqs' = 1 .. Len(reqs) + 1
           /\ \A i \in DOMAIN reqs : reqs'[i] = reqs[i]
           /\ reqs'[Len(reqs) + 1] = q
           /\ \A i \in DOMAIN reqs : \A r, j : Accepts(reqs[i], r, j)' <=> Accepts(reqs[i], r, j)
           /\ \A i \in DOMAIN reqs : \A r, j : (Took(i, r, j))' <=> Took(i, r, j)
<1>1. reqs \in Seq(Request)
    BY DEF MatchInv, TypeOK
<1>2. /\ reqs' \in Seq(Request) /\ Len(reqs) \in Nat /\ DOMAIN reqs = 1 .. Len(reqs)
      /\ DOMAIN reqs' = 1 .. Len(reqs) + 1
      /\ \A i \in DOMAIN reqs : reqs'[i] = reqs[i]
      /\ reqs'[Len(reqs) + 1] = q
    BY <1>1
<1>3. \A i \in DOMAIN reqs : \A r, j : Accepts(reqs[i], r, j)' <=> Accepts(reqs[i], r, j)
    BY <1>2 DEF Accepts
<1>4. \A i \in DOMAIN reqs : \A r, j : (Took(i, r, j))' <=> Took(i, r, j)
    BY <1>2 DEF Took
<1> QED BY <1>2, <1>3, <1>4

\* A new request takes the oldest message of a source that it accepts: the older ones
\* that it accepts were taken, because none of them is unexpected any more.
LEMMA FindInv ==
    ASSUME MatchInv, NEW q \in Request, q.got = NoMessage, NEW s, NEW k,
           Find(q, s, k), UNCHANGED << tags, done >>
    PROVE  MatchInv'
<1> DEFINE f == [q EXCEPT !.got = << s, k >>]
<1>1. /\ TypeOK /\ GotOK /\ PostedOK /\ NoMissedMatch /\ NothingLost
      /\ TakenOnce /\ NonOvertaking /\ ReceivesInOrder
    BY DEF MatchInv
<1>2. /\ s \in Source /\ k \in unexp[s] /\ Accepts(q, s, k) /\ posted' = posted
      /\ \A j \in unexp[s] : Accepts(q, s, j) => k <= j
      /\ reqs' = Append(reqs, f)
      /\ unexp' = IF Takes(q.kind) THEN [unexp EXCEPT ![s] = @ \ {k}] ELSE unexp
    BY DEF Find
<1>3. k \in 1 .. done[s] /\ done[s] \in Nat /\ k \in Nat
    BY <1>1, <1>2 DEF TypeOK
<1>4. f \in Request /\ f.src = q.src /\ f.tag = q.tag /\ f.kind = q.kind /\ f.got = << s, k >>
    BY <1>2, <1>3 DEF Request
<1> HIDE DEF f
<1>5. /\ reqs' \in Seq(Request) /\ Len(reqs) \in Nat /\ DOMAIN reqs = 1 .. Len(reqs)
      /\ DOMAIN reqs' = 1 .. Len(reqs) + 1
      /\ \A i \in DOMAIN reqs : reqs'[i] = reqs[i]
      /\ reqs'[Len(reqs) + 1] = f
      /\ \A i \in DOMAIN reqs : \A r, j : Accepts(reqs[i], r, j)' <=> Accepts(reqs[i], r, j)
      /\ \A i \in DOMAIN reqs : \A r, j : (Took(i, r, j))' <=> Took(i, r, j)
    BY <1>2, <1>4, AppendStep
<1>6. PICK n \in Nat :
         /\ n \in DOMAIN reqs' /\ n \notin DOMAIN reqs /\ reqs'[n] = f /\ DOMAIN reqs \subseteq DOMAIN reqs'
         /\ \A i \in DOMAIN reqs' : i \in DOMAIN reqs \/ i = n
    <2> WITNESS Len(reqs) + 1 \in Nat
    <2> QED BY <1>5
<1>7. << s, k >> # NoMessage
    BY <1>2, MessageIsSome
\* Nobody has taken it before.
<1>8. \A i \in DOMAIN reqs : ~Took(i, s, k)
    BY <1>1, <1>2, <1>3 DEF NothingLost
<1>9. \A r, j : (Took(n, r, j))' <=> Takes(q.kind) /\ r = s /\ j = k
    BY <1>4, <1>6 DEF Took
<1>11. TypeOK'
    <2>1. unexp' \in [Source -> SUBSET Nat] /\ \A r \in Source : unexp'[r] \subseteq unexp[r]
        BY <1>1, <1>2 DEF TypeOK
    <2> QED BY <1>1, <1>2, <1>5, <1>6, <2>1 DEF TypeOK
<1>12. GotOK'
    <2> SUFFICES ASSUME NEW i \in DOMAIN reqs', reqs'[i].got # NoMessage
                 PROVE  /\ reqs'[i].got[1] \in Source /\ reqs'[i].got[2] \in Nat
                        /\ 1 <= reqs'[i].got[2] /\ reqs'[i].got[2] <= done[reqs'[i].got[1]]
                        /\ reqs'[i].got = << reqs'[i].got[1], reqs'[i].got[2] >>
        BY DEF GotOK
    <2>1. CASE i \in DOMAIN reqs
        BY <1>1, <1>5, <2>1 DEF GotOK
    <2>2. CASE i = n
        BY <1>2, <1>3, <1>4, <1>6, <2>2
    <2> QED BY <1>6, <2>1, <2>2
<1>13. PostedOK'
    BY <1>1, <1>2, <1>5 DEF PostedOK, TypeOK
<1>14. NoMissedMatch'
    <2> SUFFICES ASSUME NEW i \in posted, NEW r \in Source, NEW j \in unexp'[r]
                 PROVE  ~Accepts(reqs[i], r, j)
        BY <1>1, <1>2, <1>5 DEF NoMissedMatch, TypeOK
    <2>1. j \in unexp[r]
        BY <1>1, <1>2 DEF TypeOK
    <2> QED BY <1>1, <2>1 DEF NoMissedMatch
<1>15. NothingLost'
    <2> SUFFICES ASSUME NEW r \in Source, NEW j \in 1 .. done[r]
                 PROVE  j \in unexp'[r] <=> ~ \E i \in DOMAIN reqs' : (Took(i, r, j))'
        BY DEF NothingLost
    <2>1. (\E i \in DOMAIN reqs' : (Took(i, r, j))') <=>
          (\E i \in DOMAIN reqs : Took(i, r, j)) \/ (Takes(q.kind) /\ r = s /\ j = k)
        BY <1>5, <1>6, <1>9
    <2>2. j \in unexp'[r] <=> j \in unexp[r] /\ ~(Takes(q.kind) /\ r = s /\ j = k)
        BY <1>1, <1>2 DEF TypeOK
    <2> QED BY <1>1, <2>1, <2>2 DEF NothingLost
<1>16. TakenOnce'
    <2> SUFFICES ASSUME NEW i \in DOMAIN reqs', NEW h \in DOMAIN reqs', Takes(reqs'[i].kind), Takes(reqs'[h].kind),
                        reqs'[i].got = reqs'[h].got, i # h
                 PROVE  reqs'[i].got = NoMessage
        BY DEF TakenOnce
    <2>1. CASE i \in DOMAIN reqs /\ h \in DOMAIN reqs
        BY <1>1, <1>5, <2>1 DEF TakenOnce
    <2>2. CASE i = n /\ h \in DOMAIN reqs
        BY <1>4, <1>5, <1>6, <1>8, <2>2 DEF Took
    <2>3. CASE i \in DOMAIN reqs /\ h = n
        BY <1>4, <1>5, <1>6, <1>8, <2>3 DEF Took
    <2> QED BY <1>6, <2>1, <2>2, <2>3
<1>17. NonOvertaking'
    <2> SUFFICES ASSUME NEW i \in DOMAIN reqs', Takes(reqs'[i].kind), reqs'[i].got # NoMessage,
                        NEW j \in 1 .. reqs'[i].got[2] - 1, Accepts(reqs[i], reqs[i].got[1], j)'
                 PROVE  \E h \in DOMAIN reqs' : (Took(h, reqs[i].got[1], j))'
        BY DEF NonOvertaking
    <2>1. CASE i \in DOMAIN reqs
        <3>1. reqs'[i] = reqs[i] /\ Accepts(reqs[i], reqs[i].got[1], j)
            BY <1>5, <2>1 DEF Accepts
        <3>2. PICK h \in DOMAIN reqs : Took(h, reqs[i].got[1], j)
            BY <1>1, <2>1, <3>1 DEF NonOvertaking
        <3>3. (Took(h, reqs[i].got[1], j))'
            BY <1>5, <3>1, <3>2 DEF Took
        <3> QED BY <1>6, <3>3
    <2>2. CASE i = n
        <3>1. reqs'[i].got = << s, k >>
            BY <1>4, <1>6, <2>2
        <3>2. Accepts(q, s, j)
            BY <1>4, <1>6, <2>2, <3>1 DEF Accepts
        <3>3. j \in 1 .. done[s] /\ j < k
            BY <1>3, <3>1
        <3>4. j \notin unexp[s]
            BY <1>2, <1>3, <3>2, <3>3
        <3>5. PICK h \in DOMAIN reqs : Took(h, s, j)
            BY <1>1, <1>2, <3>3, <3>4 DEF NothingLost
        <3>6. (Took(h, s, j))'
            BY <1>5, <3>5
        <3> QED BY <1>6, <3>1, <3>6 DEF Took
    <2> QED BY <1>6, <2>1, <2>2
<1>18. ReceivesInOrder'
    <2> SUFFICES ASSUME NEW i \in DOMAIN reqs', NEW h \in posted, Takes(reqs'[i].kind),
                        reqs'[i].got # NoMessage, h < i
                 PROVE  ~Accepts(reqs[h], reqs[i].got[1], reqs[i].got[2])'
        BY <1>2 DEF ReceivesInOrder
    <2>0. h \in DOMAIN reqs
        BY <1>1 DEF TypeOK
    <2>1. CASE i \in DOMAIN reqs
        <3>1. reqs'[i] = reqs[i] /\ reqs'[h] = reqs[h]
            BY <1>5, <2>0, <2>1
        <3>2. ~Accepts(reqs[h], reqs[i].got[1], reqs[i].got[2])
            BY <1>1, <2>1, <3>1 DEF ReceivesInOrder
        <3> QED BY <3>1, <3>2 DEF Accepts
    <2>2. CASE i = n
        <3>1. reqs'[i].got = << s, k >> /\ reqs'[h] = reqs[h]
            BY <1>4, <1>5, <1>6, <2>0, <2>2
        <3>2. ~Accepts(reqs[h], s, k)
            BY <1>1, <1>2 DEF NoMissedMatch
        <3> QED BY <3>1, <3>2 DEF Accepts
    <2> QED BY <1>6, <2>1, <2>2
<1> QED BY <1>11, <1>12, <1>13, <1>14, <1>15, <1>16, <1>17, <1>18 DEF MatchInv

\* A request that waits from now on accepts none of the messages that are there, and
\* none was taken after it.
LEMMA PostInv ==
    ASSUME MatchInv, NEW q \in Request, q.got = NoMessage, Post(q), UNCHANGED << tags, done >>
    PROVE  MatchInv'
<1>1. /\ TypeOK /\ GotOK /\ PostedOK /\ NoMissedMatch /\ NothingLost
      /\ TakenOnce /\ NonOvertaking /\ ReceivesInOrder
    BY DEF MatchInv
<1>2. /\ \A r \in Source : \A j \in unexp[r] : ~Accepts(q, r, j)
      /\ reqs' = Append(reqs, q) /\ unexp' = unexp
      /\ posted' \subseteq posted \cup {Len(reqs) + 1}
    BY DEF Post
<1>3. /\ reqs' \in Seq(Request) /\ Len(reqs) \in Nat /\ DOMAIN reqs = 1 .. Len(reqs)
      /\ DOMAIN reqs' = 1 .. Len(reqs) + 1
      /\ \A i \in DOMAIN reqs : reqs'[i] = reqs[i]
      /\ reqs'[Len(reqs) + 1] = q
      /\ \A i \in DOMAIN reqs : \A r, j : Accepts(reqs[i], r, j)' <=> Accepts(reqs[i], r, j)
      /\ \A i \in DOMAIN reqs : \A r, j : (Took(i, r, j))' <=> Took(i, r, j)
    BY <1>2, AppendStep
<1>4. PICK n \in Nat :
         /\ n \in DOMAIN reqs' /\ n \notin DOMAIN reqs /\ reqs'[n] = q /\ DOMAIN reqs \subseteq DOMAIN reqs'
         /\ \A i \in DOMAIN reqs' : i \in DOMAIN reqs \/ (i = n /\ \A h \in DOMAIN reqs : h < i)
         /\ posted' \subseteq posted \cup {n} /\ DOMAIN reqs \subseteq Nat
    <2> WITNESS Len(reqs) + 1 \in Nat
    <2> QED BY <1>2, <1>3
<1>5. \A r \in Source : \A j : ~(Took(n, r, j))'
    BY <1>4, MessageIsSome DEF Took
<1>6. TypeOK'
    BY <1>1, <1>2, <1>3, <1>4 DEF TypeOK
<1>7. GotOK'
    BY <1>1, <1>3, <1>4 DEF GotOK
<1>8. PostedOK'
    BY <1>1, <1>3, <1>4 DEF PostedOK, TypeOK
<1>9. NoMissedMatch'
    <2> SUFFICES ASSUME NEW i \in posted', NEW r \in Source, NEW j \in unexp[r]
                 PROVE  ~Accepts(reqs[i], r, j)'
        BY <1>2 DEF NoMissedMatch
    <2>1. CASE i \in posted
        BY <1>1, <1>3, <2>1 DEF NoMissedMatch, TypeOK
    <2>2. CASE i = n
        BY <1>2, <1>4, <2>2 DEF Accepts
    <2> QED BY <1>4, <2>1, <2>2
<1>10. NothingLost'
    <2> SUFFICES ASSUME NEW r \in Source, NEW j \in 1 .. done[r]
                 PROVE  j \in unexp[r] <=> ~ \E i \in DOMAIN reqs' : (Took(i, r, j))'
        BY <1>2 DEF NothingLost
    <2>1. (\E i \in DOMAIN reqs' : (Took(i, r, j))') <=> (\E i \in DOMAIN reqs : Took(i, r, j))
        BY <1>3, <1>4, <1>5
    <2> QED BY <1>1, <2>1 DEF NothingLost
<1>11. TakenOnce'
    BY <1>1, <1>3, <1>4 DEF TakenOnce
<1>12. NonOvertaking'
    <2> SUFFICES ASSUME NEW i \in DOMAIN reqs', Takes(reqs'[i].kind), reqs'[i].got # NoMessage,
                        NEW j \in 1 .. reqs'[i].got[2] - 1, Accepts(reqs[i], reqs[i].got[1], j)'
                 PROVE  \E h \in DOMAIN reqs' : (Took(h, reqs[i].got[1], j))'
        BY DEF NonOvertaking
    <2>1. i \in DOMAIN reqs
        BY <1>4
    <2>2. reqs'[i] = reqs[i] /\ Accepts(reqs[i], reqs[i].got[1], j)
        BY <1>3, <2>1 DEF Accepts
    <2>3. PICK h \in DOMAIN reqs : Took(h, reqs[i].got[1], j)
        BY <1>1, <2>1, <2>2 DEF NonOvertaking
    <2>4. (Took(h, reqs[i].got[1], j))'
        BY <1>3, <2>2, <2>3 DEF Took
    <2> QED BY <1>4, <2>4
<1>13. ReceivesInOrder'
    <2> SUFFICES ASSUME NEW i \in DOMAIN reqs', NEW h \in posted', Takes(reqs'[i].kind),
                        reqs'[i].got # NoMessage, h < i
                 PROVE  ~Accepts(reqs[h], reqs[i].got[1], reqs[i].got[2])'
        BY DEF ReceivesInOrder
    <2>1. i \in DOMAIN reqs
        BY <1>4
    <2>2. i < n
        BY <1>4, <2>1
    <2>3. h \in posted /\ h \in DOMAIN reqs
        BY <1>1, <1>4, <2>1, <2>2 DEF TypeOK
    <2>4. reqs'[i] = reqs[i] /\ reqs'[h] = reqs[h]
        BY <1>3, <2>1, <2>3
    <2>5. ~Accepts(reqs[h], reqs[i].got[1], reqs[i].got[2])
        BY <1>1, <2>1, <2>3, <2>4 DEF ReceivesInOrder
    <2> QED BY <2>4, <2>5 DEF Accepts
<1> QED BY <1>6, <1>7, <1>8, <1>9, <1>10, <1>11, <1>12, <1>13 DEF MatchInv

LEMMA StartInv ==
    ASSUME MatchInv, NEW r \in Requests, Start(r)
    PROVE  MatchInv'
<1> DEFINE q == [src |-> r[1], tag |-> r[2], kind |-> r[3], got |-> NoMessage]
<1>1. q \in Request /\ q.got = NoMessage
    BY MatchingAssumption DEF Request
<1>2. UNCHANGED << tags, done >> /\ ((\E s \in Source, k \in 1 .. MaxSent : Find(q, s, k)) \/ Post(q))
    BY DEF Start
<1> HIDE DEF q
<1>3. CASE Post(q)
    BY <1>1, <1>2, <1>3, PostInv
<1>4. ASSUME NEW s \in Source, NEW k \in 1 .. MaxSent, Find(q, s, k) PROVE MatchInv'
    BY <1>1, <1>2, <1>4, FindInv
<1> QED BY <1>2, <1>3, <1>4

LEMMA StutterInv == ASSUME MatchInv, UNCHANGED vars PROVE MatchInv'
<1>1. TypeOK' /\ GotOK' /\ PostedOK'
    BY DEF vars, MatchInv, TypeOK, GotOK, PostedOK
<1>2. NothingLost' /\ TakenOnce'
    BY DEF vars, MatchInv, NothingLost, TakenOnce, Took
<1>3. NoMissedMatch' /\ ReceivesInOrder'
    BY DEF vars, MatchInv, NoMissedMatch, ReceivesInOrder, Accepts
<1>4. NonOvertaking'
    BY DEF vars, MatchInv, NonOvertaking, Accepts, Took
<1> QED BY <1>1, <1>2, <1>3, <1>4 DEF MatchInv

LEMMA InvPreserved == MatchInv /\ [Next]_vars => MatchInv'
BY SendInv, DeliverInv, StartInv, StutterInv DEF Next

LEMMA InvAlways == Spec => []MatchInv
BY InitInv, InvPreserved, PTL DEF Spec

\* The variables keep their types, for any number of sources, messages and requests.
THEOREM MatchTypeCorrect == Spec => []TypeOK
BY InvAlways, PTL DEF MatchInv

\* The messages of a source are taken in the order in which they were sent, as far as a
\* receive accepts them (pml_ob1_recvfrag.c, pml_ob1_recvreq.c).
THEOREM MessagesDoNotOvertake == Spec => []NonOvertaking
BY InvAlways, PTL DEF MatchInv

\* Receives are served in the order in which they were posted, wildcards included.
THEOREM ReceivesDoNotOvertake == Spec => []ReceivesInOrder
BY InvAlways, PTL DEF MatchInv

\* Every message is taken by one receive at most, and kept until then.
THEOREM ExactlyOnce == Spec => []TakenExactlyOnce
BY InvAlways, PTL DEF MatchInv, TakenExactlyOnce

\* No receive waits for a message that is in the unexpected queue.
THEOREM NoReceiveMissesItsMessage == Spec => []NoMissedMatch
BY InvAlways, PTL DEF MatchInv
----------------------------------------------------------------------------
\* The 16-bit sequence numbers.

\* Fewer than n numbers in a row are told apart modulo n.
LEMMA ModDistinct ==
    ASSUME NEW n \in Nat \ {0}, NEW a \in Nat, NEW b \in Nat, a <= b, b < a + n, a % n = b % n
    PROVE  a = b
<1> DEFINE x == a \div n
           y == b \div n
           c == a % n
<1>1. x \in Int /\ y \in Int /\ a = n * x + c /\ b = n * y + c /\ c \in Nat
    <2>1. a = n * (a \div n) + (a % n)
        OBVIOUS
    <2>3. b = n * (b \div n) + (b % n)
        OBVIOUS
    <2>2. a \div n \in Int /\ b \div n \in Int /\ a % n \in Nat
        OBVIOUS
    <2> QED BY <2>1, <2>2, <2>3
<1> HIDE DEF x, y, c
<1>2. b - a = n * (y - x)
    BY <1>1
<1>3. n * (y - x) >= 0 /\ n * (y - x) < n
    BY <1>2
<1>4. CASE y - x >= 1
    <2>1. n * (y - x) >= n
        <3>1. \A d \in Nat : n * (d + 1) = n * d + n
            OBVIOUS
        <3>2. \A d \in Nat : n * d >= 0
            OBVIOUS
        <3>3. y - x - 1 \in Nat /\ y - x = (y - x - 1) + 1
            BY <1>1, <1>4
        <3> DEFINE e == y - x - 1
        <3>4. n * (e + 1) = n * e + n /\ n * e >= 0 /\ n * e \in Int
            BY <3>1, <3>2, <3>3
        <3>5. y - x = e + 1
            BY <3>3
        <3> HIDE DEF e
        <3> QED BY <3>4, <3>5
    <2> QED BY <1>1, <1>3, <2>1
<1>5. CASE y - x <= -1
    <2>1. n * (y - x) < 0
        <3> DEFINE e == x - y - 1
        <3>1. e \in Nat /\ y - x = -(e + 1)
            BY <1>1, <1>5
        <3> HIDE DEF e
        <3>2. n * (-(e + 1)) = -(n * e) - n /\ n * e >= 0 /\ n * e \in Int
            BY <3>1
        <3> QED BY <3>1, <3>2
    <2> QED BY <1>1, <1>3, <2>1
<1>6. CASE y - x = 0
    BY <1>1, <1>2, <1>6
<1> QED BY <1>1, <1>4, <1>5, <1>6

\* The number of the next message.
LEMMA ModNext ==
    ASSUME NEW n \in Nat \ {0, 1}, NEW a \in Nat
    PROVE  ((a % n) + 1) % n = (a + 1) % n
<1> DEFINE x == a \div n
           c == a % n
           y == (a + 1) \div n
           d == (a + 1) % n
<1>1. /\ a = n * (a \div n) + (a % n) /\ a % n \in 0 .. n - 1 /\ a \div n \in Int
      /\ a + 1 = n * ((a + 1) \div n) + ((a + 1) % n) /\ (a + 1) % n \in 0 .. n - 1 /\ (a + 1) \div n \in Int
    OBVIOUS
<1>2. a = n * x + c /\ a + 1 = n * y + d /\ c \in 0 .. n - 1 /\ d \in 0 .. n - 1 /\ x \in Int /\ y \in Int
    BY <1>1
<1>3. d = (a + 1) % n /\ c = a % n
    OBVIOUS
<1> HIDE DEF x, c, y, d
<1>4. n * y - n * x = c + 1 - d /\ n * (y - x) = n * y - n * x
    BY <1>2
<1>5. y - x \in {0, 1}
    <2>1. CASE y - x >= 2
        <3>1. n * (y - x) >= 2 * n
            <4> DEFINE e == y - x - 2
            <4>1. e \in Nat /\ y - x = e + 2
                BY <1>2, <2>1
            <4> HIDE DEF e
            <4>2. n * (e + 2) = n * e + 2 * n /\ n * e >= 0 /\ n * e \in Int
                BY <4>1
            <4> QED BY <4>1, <4>2
        <3> QED BY <1>2, <1>4, <3>1
    <2>2. CASE y - x <= -1
        <3>1. n * (y - x) <= -n
            <4> DEFINE e == x - y - 1
            <4>1. e \in Nat /\ y - x = -(e + 1)
                BY <1>2, <2>2
            <4> HIDE DEF e
            <4>2. n * (-(e + 1)) = -(n * e) - n /\ n * e >= 0 /\ n * e \in Int
                BY <4>1
            <4> QED BY <4>1, <4>2
        <3> QED BY <1>2, <1>4, <3>1
    <2> QED BY <1>2, <2>1, <2>2
<1>6. CASE y - x = 0
    <2>1. c + 1 = d
        BY <1>2, <1>4, <1>6
    <2>2. d % n = d
        BY <1>2
    <2> QED BY <1>3, <2>1, <2>2
<1>7. CASE y - x = 1
    <2>1. c + 1 = n + d
        BY <1>2, <1>4, <1>7
    <2>2. d = 0 /\ c + 1 = n
        BY <1>2, <2>1
    <2>3. n % n = 0
        OBVIOUS
    <2> QED BY <1>3, <2>2, <2>3
<1> QED BY <1>5, <1>6, <1>7
----------------------------------------------------------------------------
\* Queues and lists.

\* Elements of a queue, and their order.
Ascending(q) == \A i, j \in DOMAIN q : i < j => q[i] < q[j]

\* A queue with an element more at its end.
LEMMA AppendIs ==
    ASSUME NEW T, NEW q \in Seq(T), NEW e \in T
    PROVE  /\ Append(q, e) \in Seq(T) /\ Range(Append(q, e)) = Range(q) \cup {e}
           /\ IsInjective(q) /\ e \notin Range(q) => IsInjective(Append(q, e))
           /\ (Ascending(q) /\ \A x \in Range(q) : x < e) => Ascending(Append(q, e))
<1> DEFINE a == Append(q, e)
<1>1. /\ a \in Seq(T) /\ DOMAIN q = 1 .. Len(q) /\ DOMAIN a = 1 .. Len(q) + 1 /\ Len(q) \in Nat
      /\ \A i \in 1 .. Len(q) : a[i] = q[i]
      /\ a[Len(q) + 1] = e
    OBVIOUS
<1> HIDE DEF a
<1>2. Range(a) = Range(q) \cup {e}
    <2>1. \A i \in DOMAIN a : a[i] \in Range(q) \cup {e}
        BY <1>1 DEF Range
    <2>2. \A i \in DOMAIN q : i \in DOMAIN a /\ q[i] = a[i]
        BY <1>1
    <2>3. Len(q) + 1 \in DOMAIN a
        BY <1>1
    <2> QED BY <1>1, <2>1, <2>2, <2>3 DEF Range
<1>3. \A i \in DOMAIN q : q[i] \in Range(q)
    BY DEF Range
<1>4. IsInjective(q) /\ e \notin Range(q) => IsInjective(a)
    BY <1>1, <1>3 DEF IsInjective
<1>5. (Ascending(q) /\ \A x \in Range(q) : x < e) => Ascending(a)
    <2> SUFFICES ASSUME Ascending(q), \A x \in Range(q) : x < e, NEW i \in DOMAIN a, NEW j \in DOMAIN a, i < j
                 PROVE  a[i] < a[j]
        BY DEF Ascending
    <2>1. i \in DOMAIN q /\ a[i] = q[i] /\ (j \in DOMAIN q \/ j = Len(q) + 1)
        BY <1>1
    <2> QED BY <1>1, <1>3, <2>1 DEF Ascending
<1> QED BY <1>1, <1>2, <1>4, <1>5 DEF a

\* The same for the unexpected messages of every source, as the steps cite it.
LEMMA AppendUnexpected ==
    \A q \in Seq(Nat), e \in Nat :
        /\ Append(q, e) \in Seq(Nat) /\ Range(Append(q, e)) = Range(q) \cup {e}
        /\ Ascending(q) /\ (\A x \in Range(q) : x < e) => Ascending(Append(q, e))
BY AppendIs

\* Two queues one after the other hold what each of them holds.
LEMMA ConcatIs ==
    ASSUME NEW T, NEW b \in Seq(T), NEW c \in Seq(T)
    PROVE  /\ b \o c \in Seq(T) /\ Len(b \o c) = Len(b) + Len(c)
           /\ \A i \in 1 .. Len(b) + Len(c) : (b \o c)[i] = IF i <= Len(b) THEN b[i] ELSE c[i - Len(b)]
<1>1. b \o c \in Seq(T)
    OBVIOUS
<1>2. Len(b \o c) = Len(b) + Len(c)
    OBVIOUS
<1>3. \A i \in 1 .. Len(b) + Len(c) : (b \o c)[i] = IF i <= Len(b) THEN b[i] ELSE c[i - Len(b)]
    OBVIOUS
<1> QED BY <1>1, <1>2, <1>3

\* A queue without its element at position p.
LEMMA RemoveAtIs ==
    ASSUME NEW T, NEW q \in Seq(T), NEW p \in 1 .. Len(q)
    PROVE  /\ RemoveAt(q, p) \in Seq(T)
           /\ IsInjective(q) => /\ IsInjective(RemoveAt(q, p))
                                /\ Range(RemoveAt(q, p)) = Range(q) \ {q[p]}
           /\ Ascending(q) => Ascending(RemoveAt(q, p))
<1> DEFINE b == SubSeq(q, 1, p - 1)
           c == SubSeq(q, p + 1, Len(q))
           a == RemoveAt(q, p)
           n == Len(q)
<1>1. n \in Nat /\ p \in Nat /\ p <= n /\ 1 <= p /\ DOMAIN q = 1 .. n
    OBVIOUS
<1>2. b \in Seq(T) /\ Len(b) = p - 1 /\ \A i \in 1 .. p - 1 : b[i] = q[i]
    OBVIOUS
<1>3. c \in Seq(T) /\ Len(c) = n - p /\ \A i \in 1 .. n - p : c[i] = q[p + i]
    <2>1. c \in Seq(T) /\ Len(c) = n - p
        OBVIOUS
    <2>2. \A i \in 1 .. n - p : c[i] = q[p + i]
        OBVIOUS
    <2> QED BY <2>1, <2>2
<1>4. a = b \o c
    BY DEF RemoveAt
<1> HIDE DEF b, c
<1>5. /\ a \in Seq(T) /\ Len(a) = Len(b) + Len(c)
      /\ \A i \in 1 .. Len(b) + Len(c) : a[i] = IF i <= Len(b) THEN b[i] ELSE c[i - Len(b)]
    <2>1. b \in Seq(T) /\ c \in Seq(T)
        BY <1>2, <1>3
    <2> HIDE DEF a
    <2> QED BY <1>4, <2>1, ConcatIs
<1>6. Len(a) = n - 1 /\ \A i \in 1 .. n - 1 : a[i] = IF i < p THEN q[i] ELSE q[i + 1]
    <2>1. Len(b) + Len(c) = n - 1
        BY <1>1, <1>2, <1>3
    <2>2. ASSUME NEW i \in 1 .. n - 1 PROVE a[i] = IF i < p THEN q[i] ELSE q[i + 1]
        <3>1. CASE i < p
            <4>1. i <= Len(b) /\ i \in 1 .. p - 1
                BY <1>1, <1>2, <3>1
            <4> QED BY <1>2, <1>5, <2>1, <3>1, <4>1
        <3>2. CASE ~(i < p)
            <4>1. ~(i <= Len(b)) /\ i - Len(b) \in 1 .. n - p /\ p + (i - Len(b)) = i + 1
                BY <1>1, <1>2, <3>2
            <4> QED BY <1>3, <1>5, <2>1, <3>2, <4>1
        <3> QED BY <3>1, <3>2
    <2> QED BY <1>5, <2>1, <2>2
<1>7. DOMAIN a = 1 .. n - 1
    BY <1>5, <1>6
<1> HIDE DEF a, n
\* Where an element was before.
<1> DEFINE Was(i) == IF i < p THEN i ELSE i + 1
<1>11. \A i \in DOMAIN a : Was(i) \in DOMAIN q /\ Was(i) # p /\ a[i] = q[Was(i)] /\ i \in Nat
    BY <1>1, <1>6, <1>7
<1>12. \A i, j \in DOMAIN a : (Was(i) = Was(j) => i = j) /\ (i < j => Was(i) < Was(j))
    BY <1>1, <1>7
<1> HIDE DEF Was
<1>8. IsInjective(q) => IsInjective(a)
    BY <1>11, <1>12 DEF IsInjective
<1>9. IsInjective(q) => Range(a) = Range(q) \ {q[p]}
    <2> SUFFICES ASSUME IsInjective(q) PROVE Range(a) = Range(q) \ {q[p]}
        OBVIOUS
    <2>1. ASSUME NEW i \in DOMAIN a PROVE a[i] \in Range(q) \ {q[p]}
        BY <1>1, <1>11, <2>1 DEF IsInjective, Range
    <2>2. ASSUME NEW j \in DOMAIN q, q[j] # q[p] PROVE q[j] \in Range(a)
        <3>1. CASE j < p
            <4>1. j \in DOMAIN a /\ a[j] = q[j]
                BY <1>1, <1>6, <1>7, <3>1
            <4> QED BY <4>1 DEF Range
        <3>2. CASE j > p
            <4>1. j - 1 \in DOMAIN a /\ a[j - 1] = q[j]
                BY <1>1, <1>6, <1>7, <3>2
            <4> QED BY <4>1 DEF Range
        <3> QED BY <1>1, <2>2, <3>1, <3>2
    <2> QED BY <2>1, <2>2 DEF Range
<1>10. Ascending(q) => Ascending(a)
    BY <1>11, <1>12 DEF Ascending
<1> QED BY <1>5, <1>8, <1>9, <1>10 DEF a

\* A queue without its first element.
LEMMA TailIs ==
    ASSUME NEW T, NEW q \in Seq(T), q # << >>, IsInjective(q)
    PROVE  /\ Tail(q) \in Seq(T) /\ Head(q) \in T /\ Head(q) \in Range(q)
           /\ IsInjective(Tail(q)) /\ Range(Tail(q)) = Range(q) \ {Head(q)}
<1> DEFINE a == Tail(q)
<1>1. /\ Len(q) \in Nat /\ Len(q) >= 1 /\ DOMAIN q = 1 .. Len(q) /\ Head(q) = q[1]
      /\ a \in Seq(T) /\ DOMAIN a = 1 .. Len(q) - 1 /\ \A i \in 1 .. Len(q) - 1 : a[i] = q[i + 1]
    OBVIOUS
<1>2. Head(q) \in T
    OBVIOUS
<1> HIDE DEF a
<1>3. IsInjective(a)
    <2> SUFFICES ASSUME NEW i \in DOMAIN a, NEW j \in DOMAIN a, a[i] = a[j] PROVE i = j
        BY DEF IsInjective
    <2>1. i + 1 \in DOMAIN q /\ j + 1 \in DOMAIN q /\ q[i + 1] = q[j + 1]
        BY <1>1
    <2>2. i + 1 = j + 1
        BY <2>1 DEF IsInjective
    <2> QED BY <1>1, <2>2
<1>4. \A i \in DOMAIN a : i + 1 \in DOMAIN q /\ i + 1 # 1 /\ a[i] = q[i + 1]
    BY <1>1
<1>5. \A j \in DOMAIN q : j = 1 \/ (j - 1 \in DOMAIN a /\ a[j - 1] = q[j])
    BY <1>1
<1>6. 1 \in DOMAIN q
    BY <1>1
<1>7. Range(a) = Range(q) \ {q[1]}
    BY <1>4, <1>5, <1>6 DEF Range, IsInjective
<1> QED BY <1>1, <1>2, <1>3, <1>6, <1>7 DEF a, Range

\* The first position whose element passes a test, 0 for none.
FirstOf(I) == IF I # {} THEN Min(I) ELSE 0

\* It is in the set, and no other is before it.
LEMMA FirstIs ==
    ASSUME NEW I \in SUBSET Nat, 0 \notin I
    PROVE  /\ FirstOf(I) \in Nat
           /\ FirstOf(I) > 0 => FirstOf(I) \in I /\ \A i \in I : FirstOf(I) <= i
           /\ ~(FirstOf(I) > 0) => I = {}
<1>1. CASE I = {}
    BY <1>1 DEF FirstOf
<1>2. CASE I # {}
    <2>1. \E m \in I : \A i \in I : m <= i
        BY <1>2, LeastExists
    <2>2. Min(I) \in I /\ \A i \in I : Min(I) <= i
        BY <2>1 DEF Min
    <2>3. FirstOf(I) = Min(I)
        BY <1>2 DEF FirstOf
    <2> HIDE DEF FirstOf
    <2>4. Min(I) \in Nat /\ Min(I) # 0
        BY <2>2
    <2> QED BY <1>2, <2>2, <2>3, <2>4
<1> QED BY <1>1, <1>2

\* Induction up to k, for a set that holds the numbers it is about.
LEMMA Climb ==
    ASSUME NEW k \in Nat, NEW S, 0 \in S, \A n \in 0 .. k - 1 : n \in S => n + 1 \in S
    PROVE  k \in S
<1> DEFINE T == {n \in 0 .. k : n \notin S}
<1>1. SUFFICES ASSUME T # {} PROVE FALSE
    OBVIOUS
<1>2. T \in SUBSET Nat
    OBVIOUS
<1>3. PICK m \in T : \A n \in T : m <= n
    <2> HIDE DEF T
    <2> QED BY <1>1, <1>2, LeastExists
<1>4. m # 0 /\ m \in 0 .. k /\ m \notin S
    BY <1>3
<1>5. m - 1 \in 0 .. k - 1 /\ m - 1 + 1 = m
    BY <1>4
<1>6. m - 1 \notin S
    BY <1>4, <1>5
<1>7. m - 1 \in T /\ ~(m <= m - 1)
    BY <1>5, <1>6
<1> QED BY <1>3, <1>7

\* What is kept of the first elements of a queue.
KeptMore(q, S, n, before) == IF n = 0 THEN << >> ELSE IF q[n] \in S THEN before ELSE Append(before, q[n])
IsKept(q, S, k, f) ==
    f = [n \in 0 .. k |-> IF n = 0 THEN << >> ELSE IF q[n] \in S THEN f[n - 1] ELSE Append(f[n - 1], q[n])]

\* Such a function exists: a queue can be gone through from its first element on.
LEMMA KeptExists ==
    ASSUME NEW q, NEW S, NEW k \in Nat
    PROVE  \E f : IsKept(q, S, k, f)
<1> DEFINE C == {m \in Nat : \E f : IsKept(q, S, m, f)}
<1>1. 0 \in C
    <2>1. IsKept(q, S, 0, [m \in 0 .. 0 |-> << >>])
        BY DEF IsKept
    <2> QED BY <2>1
<1>2. ASSUME NEW m \in 0 .. k - 1, m \in C PROVE m + 1 \in C
    <2>1. PICK f : IsKept(q, S, m, f)
        BY <1>2
    <2>2. m \in Nat
        BY <1>2
    <2> DEFINE g == [i \in 0 .. m + 1 |-> IF i = m + 1 THEN KeptMore(q, S, i, f[m]) ELSE f[i]]
    <2>3. \A i \in 0 .. m : f[i] = KeptMore(q, S, i, f[i - 1])
        BY <2>1 DEF IsKept, KeptMore
    <2>4. \A i \in 0 .. m : g[i] = f[i]
        BY <2>2
    <2>5. g[m + 1] = KeptMore(q, S, m + 1, g[m])
        BY <2>2, <2>4
    <2>6. ASSUME NEW i \in 0 .. m + 1 PROVE g[i] = KeptMore(q, S, i, g[i - 1])
        <3>1. CASE i = m + 1
            <4>1. i - 1 = m
                BY <2>2, <3>1
            <4> HIDE DEF g
            <4> QED BY <4>1, <2>5, <3>1
        <3>2. CASE i # m + 1
            <4>1. i \in 0 .. m /\ (i # 0 => i - 1 \in 0 .. m)
                BY <2>2, <3>2
            <4>2. g[i] = KeptMore(q, S, i, f[i - 1])
                BY <4>1, <2>3, <2>4
            <4> HIDE DEF g
            <4>3. CASE i = 0
                BY <4>2, <4>3 DEF KeptMore
            <4>4. CASE i # 0
                <5>1. g[i - 1] = f[i - 1]
                    BY <4>1, <4>4, <2>4
                <5> QED BY <4>2, <5>1
            <4> QED BY <4>3, <4>4
        <3> QED BY <3>1, <3>2
    <2>7. IsKept(q, S, m + 1, g)
        <3>1. DOMAIN g = 0 .. m + 1 /\ g = [i \in 0 .. m + 1 |-> g[i]]
            OBVIOUS
        <3> HIDE DEF g
        <3> QED BY <3>1, <2>6 DEF IsKept, KeptMore
    <2> QED BY <2>2, <2>7
<1>3. k \in C
    <2> HIDE DEF C
    <2> QED BY <1>1, <1>2, Climb
<1> QED BY <1>3

\* What stays in a queue when some of its requests were served.
LEMMA WaitingIs ==
    ASSUME NEW q \in Seq(Nat), NEW S
    PROVE  Waiting(q, S) \in Seq(Nat) /\ Range(Waiting(q, S)) = Range(q) \ S
<1> DEFINE k == Len(q)
<1>1. k \in Nat /\ DOMAIN q = 1 .. k /\ \A n \in 1 .. k : q[n] \in Nat
    OBVIOUS
<1>2. PICK f : IsKept(q, S, k, f) /\ Waiting(q, S) = f[k]
    <2> DEFINE f == CHOOSE g : IsKept(q, S, k, g)
    <2>1. Waiting(q, S) = f[k]
        BY DEF Waiting, IsKept
    <2>2. IsKept(q, S, k, f)
        <3>1. \E g : IsKept(q, S, k, g)
            BY <1>1, KeptExists
        <3> QED BY <3>1
    <2> QED BY <2>1, <2>2
<1> HIDE DEF k
<1>3. \A n \in 0 .. k : f[n] = KeptMore(q, S, n, f[n - 1])
    BY <1>2 DEF IsKept, KeptMore
<1> DEFINE Kept(n) == {q[i] : i \in 1 .. n} \ S
           C == {n \in Nat : f[n] \in Seq(Nat) /\ Range(f[n]) = Kept(n)}
<1>4. 0 \in C
    <2>1. f[0] = << >>
        BY <1>1, <1>3 DEF KeptMore
    <2>2. Range(<< >>) = {} /\ Kept(0) = {} /\ << >> \in Seq(Nat)
        BY DEF Range
    <2> HIDE DEF Kept
    <2> QED BY <2>1, <2>2
<1>5. ASSUME NEW n \in 0 .. k - 1, n \in C PROVE n + 1 \in C
    <2>1. n + 1 \in 1 .. k /\ n + 1 \in 0 .. k /\ n + 1 # 0 /\ n + 1 - 1 = n /\ n \in Nat
        BY <1>1
    <2>2. f[n] \in Seq(Nat) /\ Range(f[n]) = Kept(n)
        BY <1>5
    <2>3. f[n + 1] = IF q[n + 1] \in S THEN f[n] ELSE Append(f[n], q[n + 1])
        BY <1>3, <2>1 DEF KeptMore
    <2>4. {q[i] : i \in 1 .. n + 1} = {q[i] : i \in 1 .. n} \cup {q[n + 1]}
        BY <2>1
    <2>5. q[n + 1] \in Nat
        BY <1>1, <2>1
    <2>6. CASE q[n + 1] \in S
        BY <2>1, <2>2, <2>3, <2>4, <2>6
    <2>7. CASE q[n + 1] \notin S
        <3>0. \A a \in Seq(Nat), e \in Nat : Append(a, e) \in Seq(Nat) /\ Range(Append(a, e)) = Range(a) \cup {e}
            BY AppendIs
        <3>1. f[n + 1] \in Seq(Nat) /\ Range(f[n + 1]) = Range(f[n]) \cup {q[n + 1]}
            BY <2>2, <2>3, <2>5, <2>7, <3>0
        <3> QED BY <2>1, <2>2, <2>4, <2>7, <3>1
    <2> QED BY <2>6, <2>7
<1>6. k \in C
    <2> HIDE DEF C
    <2> QED BY <1>1, <1>4, <1>5, Climb
<1> QED BY <1>1, <1>2, <1>6 DEF Range

\* The numbers up to n, among those up to m.
LEMMA CountIs ==
    ASSUME NEW m \in Nat, NEW n \in Nat, n <= m
    PROVE  Cardinality({k \in 1 .. m : k <= n}) = n
<1>1. {k \in 1 .. m : k <= n} = 1 .. n
    OBVIOUS
<1>2. Cardinality(1 .. n) = n
    <2>1. \A a, b \in Int : Cardinality(a .. b) = IF a > b THEN 0 ELSE b - a + 1
        BY FS_Interval
    <2> QED BY <2>1
<1> QED BY <1>1, <1>2
----------------------------------------------------------------------------
\* What the lists of the communicator hold.

ListTypes ==
    /\ expected \in [Source -> 0 .. SeqWrap - 1]
    /\ unexpected \in [Source -> Seq(Nat)] /\ specific \in [Source -> Seq(Nat)] /\ wild \in Seq(Nat)

\* The number that is expected is that of the next message to take effect, and tells it
\* from the others under way.
NumbersOK == \A s \in Source : expected[s] = Seqn(done[s] + 1) /\ Len(tags[s]) <= done[s] + SeqWrap

SortedOK == \A s \in Source : Ascending(unexpected[s])

\* A request waits in the queue of its source.
QueuesOK ==
    /\ \A s \in Source : \A i \in Range(specific[s]) : reqs[i].src = s
    /\ \A i \in Range(wild) : reqs[i].src = MPI_ANY_SOURCE

\* Matching sees what the lists hold.
MapOK == done = Done /\ unexp = Unexp /\ posted = Posted

ListsInv == ListTypes /\ NumbersOK /\ SortedOK /\ QueuesOK /\ MapOK

\* A message was processed when it took effect.
LEMMA ProcessedIs ==
    ASSUME MatchInv, unexp = Unexp, NEW s \in Source, NEW k \in Nat
    PROVE  Processed(s, k) <=> k \in 1 .. done[s]
<1>1. TypeOK /\ GotOK /\ NothingLost
    BY DEF MatchInv
<1>2. unexp[s] = Range(unexpected[s])
    BY DEF Unexp
<1>3. Processed(s, k) <=> k \in unexp[s] \/ \E i \in DOMAIN reqs : Took(i, s, k)
    BY <1>2 DEF Processed, Took
<1>4. k \in unexp[s] => k \in 1 .. done[s]
    BY <1>1 DEF TypeOK
<1>5. ASSUME NEW i \in DOMAIN reqs, Took(i, s, k) PROVE k \in 1 .. done[s]
    <2>1. reqs[i].got = << s, k >>
        BY <1>5 DEF Took
    <2>2. 1 <= reqs[i].got[2] /\ reqs[i].got[2] <= done[reqs[i].got[1]]
        BY <1>1, <2>1, MessageIsSome DEF GotOK
    <2>3. done[s] \in Nat
        BY <1>1 DEF TypeOK
    <2> QED BY <2>1, <2>2, <2>3
<1>6. k \in 1 .. done[s] => k \in unexp[s] \/ \E i \in DOMAIN reqs : Took(i, s, k)
    BY <1>1 DEF NothingLost
<1> QED BY <1>3, <1>4, <1>5, <1>6

\* How many messages took effect, when these are the processed ones.
LEMMA DoneIs ==
    ASSUME NEW n \in [Source -> Nat], tags' \in [Source -> Seq(Tag)],
           \A s \in Source : n[s] <= Len(tags'[s]),
           \A s \in Source, k \in Nat : Processed(s, k)' <=> k \in 1 .. n[s],
           done' = Done'
    PROVE  done' = n
<1>1. ASSUME NEW s \in Source PROVE Cardinality({k \in DOMAIN tags'[s] : Processed(s, k)'}) = n[s]
    <2>1. DOMAIN tags'[s] = 1 .. Len(tags'[s]) /\ Len(tags'[s]) \in Nat /\ n[s] \in Nat /\ n[s] <= Len(tags'[s])
        OBVIOUS
    <2>2. {k \in DOMAIN tags'[s] : Processed(s, k)'} = {k \in 1 .. Len(tags'[s]) : k <= n[s]}
        BY <2>1
    <2> QED BY <2>1, <2>2, CountIs
<1>2. done' = [s \in Source |-> n[s]]
    BY <1>1 DEF Done
<1> QED BY <1>2

\* Steps that leave the lists alone are not seen.
LEMMA ListsSame ==
    ASSUME ListsInv, UNCHANGED << tags, expected, unexpected, specific, wild, reqs >>,
           done' = Done' /\ unexp' = Unexp' /\ posted' = Posted'
    PROVE  UNCHANGED vars /\ ListsInv'
<1>1. UNCHANGED << tags, expected, unexpected, specific, wild, reqs >>
    OBVIOUS
<1>2. Done' = Done /\ Unexp' = Unexp /\ Posted' = Posted
    BY <1>1 DEF Done, Processed, Unexp, Posted
<1>3. UNCHANGED vars
    BY <1>1, <1>2 DEF ListsInv, MapOK, vars
<1>4. UNCHANGED done
    BY <1>3 DEF vars
<1>5. ListsInv'
    BY <1>1, <1>4 DEF ListsInv, ListTypes, NumbersOK, SortedOK, QueuesOK, MapOK
<1> QED BY <1>3, <1>5

\* What Matching sees, read off the lists: the queues hold requests that were started,
\* the unexpected messages are among those that took effect.
LEMMA MapIs ==
    ASSUME MatchInv, ListsInv
    PROVE  /\ \A s \in Source : unexp[s] = Range(unexpected[s]) /\ \A k \in Range(unexpected[s]) : k \in 1 .. done[s]
           /\ posted = Range(wild) \cup UNION {Range(specific[s]) : s \in Source}
           /\ \A s \in Source : Range(specific[s]) \subseteq posted
           /\ Range(wild) \subseteq posted /\ posted \subseteq DOMAIN reqs /\ DOMAIN reqs \subseteq Nat
<1>1. TypeOK /\ MapOK
    BY DEF MatchInv, ListsInv
<1>2. \A s \in Source : unexp[s] = Range(unexpected[s]) /\ \A k \in Range(unexpected[s]) : k \in 1 .. done[s]
    <2>1. \A s \in Source : unexp[s] = Range(unexpected[s])
        BY <1>1 DEF MapOK, Unexp
    <2> QED BY <1>1, <2>1 DEF TypeOK
<1>3. posted = Range(wild) \cup UNION {Range(specific[s]) : s \in Source}
    BY <1>1 DEF MapOK, Posted
<1>4. posted \subseteq DOMAIN reqs /\ DOMAIN reqs \subseteq Nat
    BY <1>1 DEF TypeOK
<1> QED BY <1>2, <1>3, <1>4

\* The number of a message that is not processed yet tells whether it is the next one.
LEMMA ExpectedIs ==
    ASSUME MatchInv, ListsInv, NEW s \in Source, NEW k \in done[s] + 1 .. Len(tags[s])
    PROVE  Seqn(k) = expected[s] <=> k = done[s] + 1
<1>1. done[s] \in Nat /\ Len(tags[s]) \in Nat
    BY DEF MatchInv, TypeOK
<1>2. Len(tags[s]) <= done[s] + SeqWrap /\ expected[s] = Seqn(done[s] + 1)
    BY DEF ListsInv, NumbersOK
<1>3. SeqWrap \in Nat \ {0} /\ k \in Nat /\ done[s] + 1 \in Nat /\ done[s] + 1 <= k /\ k < done[s] + 1 + SeqWrap
    BY <1>1, <1>2, Ob1MatchAssumption
<1>4. (done[s] + 1) % SeqWrap = k % SeqWrap => done[s] + 1 = k
    BY <1>3, ModDistinct
<1> QED BY <1>2, <1>4 DEF Seqn

\* When it took effect, the number that is expected is that of the message after it.
LEMMA ExpectedNext ==
    ASSUME NEW d \in Nat
    PROVE  NextSeq(Seqn(d + 1)) = Seqn(d + 1 + 1) /\ Seqn(d + 1 + 1) \in 0 .. SeqWrap - 1
<1>1. SeqWrap \in Nat \ {0, 1} /\ d + 1 \in Nat
    BY Ob1MatchAssumption
<1>2. (((d + 1) % SeqWrap) + 1) % SeqWrap = (d + 1 + 1) % SeqWrap
    BY <1>1, ModNext
<1>3. (d + 1 + 1) % SeqWrap \in 0 .. SeqWrap - 1
    BY <1>1
<1> QED BY <1>2, <1>3 DEF NextSeq, Seqn

\* The requests that accept the message, in whichever queue they wait.
LEMMA AcceptingAre ==
    ASSUME MatchInv, ListsInv, NEW s \in Source, NEW k
    PROVE  {i \in Range(specific[s]) \cup Range(wild) : TagAccepts(reqs[i].tag, tags[s][k])}
             = {i \in posted : Accepts(reqs[i], s, k)}
<1>1. /\ posted = Range(wild) \cup UNION {Range(specific[q]) : q \in Source}
      /\ Range(specific[s]) \subseteq posted
    BY MapIs
<1>2. QueuesOK
    BY DEF ListsInv
<1>3. s # MPI_ANY_SOURCE /\ \A q \in Source : q # MPI_ANY_SOURCE
    BY MatchingAssumption DEF MPI_ANY_SOURCE
<1>4. ASSUME NEW i \in Range(specific[s]) \cup Range(wild)
      PROVE  i \in posted /\ (TagAccepts(reqs[i].tag, tags[s][k]) <=> Accepts(reqs[i], s, k))
    BY <1>1, <1>2 DEF QueuesOK, Accepts
<1>5. ASSUME NEW i \in posted, Accepts(reqs[i], s, k) PROVE i \in Range(specific[s]) \cup Range(wild)
    <2>1. reqs[i].src \in {s, MPI_ANY_SOURCE}
        BY <1>5 DEF Accepts
    <2>2. CASE i \in Range(wild)
        BY <2>2
    <2>3. CASE i \notin Range(wild)
        <3>1. PICK q \in Source : i \in Range(specific[q])
            BY <1>1, <2>3
        <3>2. reqs[i].src = q
            BY <1>2, <3>1 DEF QueuesOK
        <3>3. q = s
            BY <1>3, <2>1, <3>2
        <3> QED BY <3>1, <3>3
    <2> QED BY <2>2, <2>3
<1> QED BY <1>4, <1>5

\* A request of another source accepts nothing of this one.
LEMMA OtherQueues ==
    ASSUME MatchInv, ListsInv, NEW s \in Source, NEW q \in Source, q # s, NEW k, NEW i \in Range(specific[q])
    PROVE  ~Accepts(reqs[i], s, k)
<1>1. reqs[i].src = q
    BY DEF ListsInv, QueuesOK
<1>2. q # MPI_ANY_SOURCE
    BY MatchingAssumption DEF MPI_ANY_SOURCE
<1> QED BY <1>1, <1>2 DEF Accepts
----------------------------------------------------------------------------
\* A message is matched or becomes unexpected; a message is sent.

\* match_one for the next message of a source is the step that Matching takes: the
\* requests that it serves are the same, and leave the queue they wait in.
LEMMA MatchOneStep ==
    ASSUME MatchInv, ListsInv, NEW s \in Source, NEW k, k = done[s] + 1, k <= Len(tags[s]),
           MatchOne(s, k), tags' = tags, done' = Done' /\ unexp' = Unexp' /\ posted' = Posted'
    PROVE  /\ Deliver(s) /\ done' = [done EXCEPT ![s] = k] /\ ListsInv'
           /\ reqs = << >> => reqs' = << >>
<1> DEFINE accepting == {i \in Range(specific[s]) \cup Range(wild) : TagAccepts(reqs[i].tag, tags[s][k])}
           takers == {i \in accepting : Takes(reqs[i].kind)}
           served == {i \in accepting : \A j \in takers : i <= j}
<1>1. /\ reqs' = [i \in DOMAIN reqs |-> IF i \in served THEN [reqs[i] EXCEPT !.got = << s, k >>] ELSE reqs[i]]
      /\ specific' = [specific EXCEPT ![s] = Waiting(@, served)]
      /\ wild' = Waiting(wild, served)
      /\ unexpected' = IF takers = {} THEN [unexpected EXCEPT ![s] = Append(@, k)] ELSE unexpected
      /\ expected' = [expected EXCEPT ![s] = NextSeq(@)]
    BY DEF MatchOne, Sooner
<1>2. accepting = {i \in posted : Accepts(reqs[i], s, k)}
    BY AcceptingAre
<1>3. \A i \in served : i \in accepting
    OBVIOUS
<1>4. takers # {} => \E m \in takers : m \in served
    <2> SUFFICES ASSUME takers # {} PROVE \E m \in takers : m \in served
        OBVIOUS
    <2>1. takers \in SUBSET Nat
        BY <1>2, MapIs
    <2>2. PICK m \in takers : \A n \in takers : m <= n
        <3> HIDE DEF takers
        <3> QED BY <2>1, LeastExists
    <2> QED BY <2>2
<1>5. \A i \in takers : i \in accepting /\ Takes(reqs[i].kind)
    OBVIOUS
<1>6. /\ takers = {i \in accepting : Takes(reqs[i].kind)}
      /\ served = {i \in accepting : \A j \in takers : i <= j}
    OBVIOUS
<1> HIDE DEF accepting, takers, served
<1>7. /\ done \in [Source -> Nat] /\ tags \in [Source -> Seq(Tag)] /\ reqs \in Seq(Request)
      /\ \A r \in Source : done[r] \in Nat /\ Len(tags[r]) \in Nat /\ done[r] <= Len(tags[r])
      /\ GotOK /\ PostedOK
      /\ ListTypes /\ NumbersOK /\ SortedOK /\ QueuesOK /\ MapOK
    BY DEF MatchInv, TypeOK, ListsInv
<1>8. k \in Nat /\ k >= 1
    BY <1>7
\* The queues.
<1>9. /\ wild' \in Seq(Nat) /\ Range(wild') = Range(wild) \ served
      /\ specific' \in [Source -> Seq(Nat)]
      /\ Range(specific'[s]) = Range(specific[s]) \ served
      /\ \A q \in Source : q # s => specific'[q] = specific[q]
    <2>1. wild \in Seq(Nat) /\ specific[s] \in Seq(Nat) /\ specific \in [Source -> Seq(Nat)]
        BY <1>7 DEF ListTypes
    <2>2. /\ Waiting(wild, served) \in Seq(Nat) /\ Range(Waiting(wild, served)) = Range(wild) \ served
          /\ Waiting(specific[s], served) \in Seq(Nat) /\ Range(Waiting(specific[s], served)) = Range(specific[s]) \ served
        BY <2>1, WaitingIs
    <2> QED BY <1>1, <2>1, <2>2
<1>10. \A q \in Source : Range(specific'[q]) = Range(specific[q]) \ served
    <2> SUFFICES ASSUME NEW q \in Source, q # s PROVE Range(specific[q]) \cap served = {}
        BY <1>9
    <2> SUFFICES ASSUME NEW i \in Range(specific[q]), i \in served PROVE FALSE
        OBVIOUS
    <2>1. Accepts(reqs[i], s, k)
        BY <1>2, <1>3
    <2> QED BY <2>1, OtherQueues
<1>11. posted' = posted \ served
    <2>1. posted' = Range(wild') \cup UNION {Range(specific'[q]) : q \in Source}
        BY DEF Posted
    <2>2. posted = Range(wild) \cup UNION {Range(specific[q]) : q \in Source}
        BY MapIs
    <2>3. UNION {Range(specific'[q]) : q \in Source} = (UNION {Range(specific[q]) : q \in Source}) \ served
        BY <1>10
    <2> QED BY <1>9, <2>1, <2>2, <2>3
\* The unexpected messages.
<1>12. /\ unexpected' \in [Source -> Seq(Nat)]
       /\ \A r \in Source : Ascending(unexpected'[r])
       /\ \A r \in Source : Range(unexpected'[r]) =
             IF r = s /\ takers = {} THEN Range(unexpected[s]) \cup {k} ELSE Range(unexpected[r])
    <2>1. unexpected \in [Source -> Seq(Nat)] /\ \A r \in Source : Ascending(unexpected[r])
        BY <1>7 DEF ListTypes, SortedOK
    <2>2. CASE takers = {}
        <3>1. unexpected' = [unexpected EXCEPT ![s] = Append(unexpected[s], k)]
            BY <1>1, <2>2
        <3>2. \A x \in Range(unexpected[s]) : x < k
            <4>1. \A x \in Range(unexpected[s]) : x \in 1 .. done[s]
                BY MapIs
            <4>2. done[s] \in Nat
                BY <1>7
            <4> QED BY <4>1, <4>2
        <3>3. /\ Append(unexpected[s], k) \in Seq(Nat)
              /\ Range(Append(unexpected[s], k)) = Range(unexpected[s]) \cup {k}
              /\ Ascending(Append(unexpected[s], k))
            <4>1. unexpected[s] \in Seq(Nat) /\ Ascending(unexpected[s])
                BY <2>1
            <4> QED BY <1>8, <3>2, <4>1, AppendUnexpected
        <3> QED BY <2>1, <2>2, <3>1, <3>3
    <2>3. CASE takers # {}
        BY <1>1, <2>1, <2>3
    <2> QED BY <2>2, <2>3
<1>13. unexp' = IF takers = {} THEN [unexp EXCEPT ![s] = @ \cup {k}] ELSE unexp
    <2>1. unexp' = [r \in Source |-> Range(unexpected'[r])] /\ unexp = [r \in Source |-> Range(unexpected[r])]
        BY <1>7 DEF Unexp, MapOK
    <2> HIDE DEF Unexp
    <2> QED BY <1>12, <2>1
\* The requests.
<1>14. /\ DOMAIN reqs' = DOMAIN reqs
       /\ \A i \in DOMAIN reqs : /\ reqs'[i].src = reqs[i].src /\ reqs'[i].kind = reqs[i].kind
                                 /\ reqs'[i].got = IF i \in served THEN << s, k >> ELSE reqs[i].got
    <2>1. \A i \in DOMAIN reqs : reqs[i] \in Request
        BY <1>7
    <2> QED BY <1>1, <2>1 DEF Request
<1>15. reqs = << >> => reqs' = << >>
    BY <1>1
\* What was processed.
<1>16. ASSUME NEW r \in Source, NEW j \in Nat
       PROVE  Processed(r, j)' <=> Processed(r, j) \/ (r = s /\ j = k)
    <2>1. \A i \in served : i \in posted /\ i \in DOMAIN reqs /\ reqs[i].got = NoMessage
        BY <1>2, <1>3, <1>7, MapIs DEF PostedOK
    <2>2. << r, j >> # NoMessage
        BY MessageIsSome
    <2>3. Processed(r, j)' <=> \/ j \in Range(unexpected'[r])
                               \/ \E i \in DOMAIN reqs : Takes(reqs[i].kind) /\ reqs'[i].got = << r, j >>
        BY <1>14 DEF Processed
    <2>4. CASE r = s /\ j = k
        <3>1. CASE takers = {}
            BY <1>12, <2>3, <2>4, <3>1
        <3>2. CASE takers # {}
            <4>1. PICK m \in takers : m \in served
                BY <1>4, <3>2
            <4>2. m \in DOMAIN reqs /\ Takes(reqs[m].kind) /\ reqs'[m].got = << s, k >>
                BY <1>5, <1>14, <2>1, <4>1
            <4> QED BY <2>3, <2>4, <4>2
        <3> QED BY <3>1, <3>2
    <2>5. CASE ~(r = s /\ j = k)
        <3>1. j \in Range(unexpected'[r]) <=> j \in Range(unexpected[r])
            BY <1>12, <2>5
        <3>2. \A i \in DOMAIN reqs : reqs'[i].got = << r, j >> <=> reqs[i].got = << r, j >>
            BY <1>14, <2>1, <2>2, <2>5
        <3> QED BY <2>3, <2>5, <3>1, <3>2 DEF Processed
    <2> QED BY <2>4, <2>5
<1>17. done' = [done EXCEPT ![s] = k]
    <2> DEFINE n == [done EXCEPT ![s] = k]
    <2>1. n \in [Source -> Nat] /\ \A r \in Source : n[r] = IF r = s THEN k ELSE done[r]
        BY <1>7, <1>8
    <2> HIDE DEF n
    <2>2. \A r \in Source : n[r] <= Len(tags'[r])
        BY <1>7, <2>1
    <2>3. ASSUME NEW r \in Source, NEW j \in Nat PROVE Processed(r, j)' <=> j \in 1 .. n[r]
        <3>1. Processed(r, j) <=> j \in 1 .. done[r]
            BY <1>7, ProcessedIs DEF MapOK
        <3>2. r = s => (j \in 1 .. n[r] <=> j \in 1 .. done[r] \/ j = k)
            BY <1>7, <2>1
        <3> QED BY <1>16, <2>1, <3>1, <3>2
    <2>4. tags' \in [Source -> Seq(Tag)]
        BY <1>7
    <2>5. done' = n
        BY <2>1, <2>2, <2>3, <2>4, DoneIs
    <2> QED BY <2>5 DEF n
<1>18. Deliver(s)
    <2> DEFINE acc == {i \in posted : Accepts(reqs[i], s, k)}
               tak == {i \in acc : Takes(reqs[i].kind)}
               ser == {i \in acc : \A j \in tak : i <= j}
    <2>1. acc = accepting
        BY <1>2
    <2>2. tak = takers /\ ser = served
        BY <1>6, <2>1
    <2>3. reqs' = [i \in DOMAIN reqs |-> IF i \in ser THEN [reqs[i] EXCEPT !.got = << s, k >>] ELSE reqs[i]]
        BY <1>1, <2>2
    <2>4. posted' = posted \ ser /\ unexp' = IF tak = {} THEN [unexp EXCEPT ![s] = @ \cup {k}] ELSE unexp
        BY <1>11, <1>13, <2>2
    <2> QED BY <1>17, <2>3, <2>4 DEF Deliver
<1>19. ListTypes' /\ NumbersOK'
    <2>1. NextSeq(expected[s]) = Seqn(k + 1) /\ Seqn(k + 1) \in 0 .. SeqWrap - 1
        BY <1>7, ExpectedNext DEF NumbersOK
    <2>2. expected \in [Source -> 0 .. SeqWrap - 1]
        BY <1>7 DEF ListTypes
    <2>3. expected' \in [Source -> 0 .. SeqWrap - 1] /\ \A r \in Source : expected'[r] = IF r = s THEN Seqn(k + 1) ELSE expected[r]
        BY <1>1, <2>1, <2>2
    <2>4. NumbersOK'
        <3> SUFFICES ASSUME NEW r \in Source
                     PROVE  expected'[r] = Seqn(done'[r] + 1) /\ Len(tags[r]) <= done'[r] + SeqWrap
            BY DEF NumbersOK
        <3>1. SeqWrap \in Nat
            BY Ob1MatchAssumption
        <3>2. done'[r] = IF r = s THEN k ELSE done[r]
            BY <1>7, <1>17
        <3>3. /\ expected[r] = Seqn(done[r] + 1) /\ Len(tags[r]) <= done[r] + SeqWrap
              /\ done[r] \in Nat /\ Len(tags[r]) \in Nat
            BY <1>7 DEF NumbersOK
        <3>4. CASE r = s
            <4>1. expected'[r] = Seqn(k + 1) /\ done'[r] = k
                BY <2>3, <3>2, <3>4
            <4>2. Len(tags[r]) <= k + SeqWrap
                BY <3>1, <3>3, <3>4
            <4> QED BY <4>1, <4>2
        <3>5. CASE r # s
            <4>1. expected'[r] = expected[r] /\ done'[r] = done[r]
                BY <2>3, <3>2, <3>5
            <4> QED BY <3>3, <4>1
        <3> QED BY <3>4, <3>5
    <2> QED BY <1>9, <1>12, <2>3, <2>4 DEF ListTypes
<1>20. QueuesOK'
    <2>1. \A i \in Range(wild) : i \in DOMAIN reqs /\ reqs[i].src = MPI_ANY_SOURCE
        BY <1>7, MapIs DEF QueuesOK
    <2>2. \A q \in Source : \A i \in Range(specific[q]) : i \in DOMAIN reqs /\ reqs[i].src = q
        BY <1>7, MapIs DEF QueuesOK
    <2> QED BY <1>9, <1>10, <1>14, <2>1, <2>2 DEF QueuesOK
<1>21. ListsInv'
    BY <1>12, <1>19, <1>20 DEF ListsInv, SortedOK, MapOK
<1> QED BY <1>15, <1>17, <1>18, <1>21

\* While the communicator is created there are no requests, and match_one would put every
\* message among the unexpected ones, as add_comm does.
LEMMA PutUnexpectedStep ==
    ASSUME MatchInv, ListsInv, NEW s \in Source, NEW k, k = done[s] + 1, k <= Len(tags[s]), reqs = << >>,
           PutUnexpected(s, k), tags' = tags, done' = Done' /\ unexp' = Unexp' /\ posted' = Posted'
    PROVE  Deliver(s) /\ done' = [done EXCEPT ![s] = k] /\ ListsInv' /\ reqs' = << >>
<1> DEFINE accepting == {i \in Range(specific[s]) \cup Range(wild) : TagAccepts(reqs[i].tag, tags[s][k])}
           takers == {i \in accepting : Takes(reqs[i].kind)}
           served == {i \in accepting : \A j \in takers : Sooner(s, i, j)}
<1>1. /\ expected' = [expected EXCEPT ![s] = NextSeq(@)]
      /\ unexpected' = [unexpected EXCEPT ![s] = Append(@, k)]
      /\ specific' = specific /\ wild' = wild /\ reqs' = reqs
    BY DEF PutUnexpected
<1>2. specific \in [Source -> Seq(Nat)] /\ wild \in Seq(Nat)
    BY DEF ListsInv, ListTypes
<1>3. Range(specific[s]) = {} /\ Range(wild) = {}
    <2>1. DOMAIN reqs = {}
        OBVIOUS
    <2> QED BY <2>1, MapIs
<1>4. accepting = {} /\ takers = {} /\ served = {}
    BY <1>3
<1>5. \A q \in Seq(Nat) : Range(q) = {} => q = << >>
    <2> SUFFICES ASSUME NEW q \in Seq(Nat), Range(q) = {} PROVE q = << >>
        OBVIOUS
    <2>1. DOMAIN q = {}
        BY DEF Range
    <2> QED BY <2>1
<1>6. Waiting(wild, {}) = wild /\ Waiting(specific[s], {}) = specific[s]
    <2>1. specific[s] \in Seq(Nat) /\ wild = << >> /\ specific[s] = << >>
        BY <1>2, <1>3, <1>5
    <2>2. \A q \in Seq(Nat) : Waiting(q, {}) \in Seq(Nat) /\ Range(Waiting(q, {})) = Range(q) \ {}
        BY WaitingIs
    <2>3. \A q \in Seq(Nat) : Range(q) = {} => Waiting(q, {}) = << >>
        BY <1>5, <2>2
    <2> QED BY <1>2, <1>3, <2>1, <2>3
<1>7. reqs' = [i \in DOMAIN reqs |-> IF i \in {} THEN [reqs[i] EXCEPT !.got = << s, k >>] ELSE reqs[i]]
    BY <1>1
<1>8. specific' = [specific EXCEPT ![s] = Waiting(@, {})]
    BY <1>1, <1>2, <1>6
<1>9. MatchOne(s, k)
    <2>1. /\ reqs' = [i \in DOMAIN reqs |-> IF i \in served THEN [reqs[i] EXCEPT !.got = << s, k >>] ELSE reqs[i]]
          /\ specific' = [specific EXCEPT ![s] = Waiting(@, served)]
          /\ wild' = Waiting(wild, served)
          /\ unexpected' = IF takers = {} THEN [unexpected EXCEPT ![s] = Append(@, k)] ELSE unexpected
          /\ expected' = [expected EXCEPT ![s] = NextSeq(@)]
        <3> HIDE DEF accepting, takers, served
        <3> QED BY <1>1, <1>4, <1>6, <1>7, <1>8
    <2> QED BY <2>1 DEF MatchOne
<1> QED BY <1>9, MatchOneStep

\* A message that is sent changes nothing else.
LEMMA SendStep ==
    ASSUME MatchInv, ListsInv, NEW s \in Source, NEW t \in Tag,
           tags' = [tags EXCEPT ![s] = Append(@, t)], UNCHANGED listVars,
           done' = Done' /\ unexp' = Unexp' /\ posted' = Posted',
           Len(tags[s]) < MaxSent, Len(tags[s]) + 1 <= done[s] + SeqWrap
    PROVE  /\ Send(s, t) /\ ListsInv' /\ done' = done
           /\ \A r \in Source : Len(tags'[r]) = IF r = s THEN Len(tags[s]) + 1 ELSE Len(tags[r])
<1>1. UNCHANGED << expected, unexpected, specific, wild, reqs >>
    BY DEF listVars
<1>2. /\ done \in [Source -> Nat] /\ tags \in [Source -> Seq(Tag)]
      /\ \A r \in Source : done[r] \in Nat /\ Len(tags[r]) \in Nat /\ done[r] <= Len(tags[r])
      /\ ListTypes /\ NumbersOK /\ SortedOK /\ QueuesOK /\ MapOK
    BY DEF MatchInv, TypeOK, ListsInv
<1>3. /\ tags' \in [Source -> Seq(Tag)]
      /\ \A r \in Source : Len(tags'[r]) = IF r = s THEN Len(tags[s]) + 1 ELSE Len(tags[r])
    <2>1. tags[s] \in Seq(Tag)
        BY <1>2
    <2>2. Append(tags[s], t) \in Seq(Tag) /\ Len(Append(tags[s], t)) = Len(tags[s]) + 1
        BY <2>1
    <2> QED BY <1>2, <2>2
<1>4. done' = done
    <2>1. \A r \in Source, k \in Nat : Processed(r, k)' <=> Processed(r, k)
        BY <1>1 DEF Processed
    <2>2. \A r \in Source, k \in Nat : Processed(r, k)' <=> k \in 1 .. done[r]
        BY <1>2, <2>1, ProcessedIs DEF MapOK
    <2>3. \A r \in Source : done[r] <= Len(tags'[r])
        BY <1>2, <1>3
    <2> QED BY <1>2, <1>3, <2>2, <2>3, DoneIs
<1>5. unexp' = unexp /\ posted' = posted
    BY <1>1, <1>2 DEF Unexp, Posted, MapOK
<1>6. Send(s, t)
    BY <1>1, <1>4, <1>5 DEF Send
<1>7. NumbersOK'
    BY <1>1, <1>2, <1>3, <1>4 DEF NumbersOK
<1>8. ListsInv'
    BY <1>1, <1>2, <1>7 DEF ListsInv, ListTypes, SortedOK, QueuesOK, MapOK
<1> QED BY <1>3, <1>4, <1>6, <1>8
----------------------------------------------------------------------------
\* A request is started.

\* The unexpected message that a request finds is the oldest one of its source.
LEMMA FoundIs ==
    ASSUME MatchInv, ListsInv, NEW s \in Source, NEW tag, NEW p, p = MatchSpecificProc(tag, s)
    PROVE  /\ p > 0 => /\ p \in 1 .. Len(unexpected[s]) /\ unexpected[s][p] \in unexp[s]
                       /\ TagAccepts(tag, tags[s][unexpected[s][p]])
                       /\ \A k \in unexp[s] : TagAccepts(tag, tags[s][k]) => unexpected[s][p] <= k
           /\ ~(p > 0) => \A k \in unexp[s] : ~TagAccepts(tag, tags[s][k])
<1> DEFINE u == unexpected[s]
           I == {i \in 1 .. Len(u) : TagAccepts(tag, tags[s][u[i]])}
<1>1. p = FirstOf(I)
    BY DEF MatchSpecificProc, SelectInSeq, FirstOf
<1>2. u \in Seq(Nat) /\ unexp[s] = Range(u) /\ Ascending(u) /\ DOMAIN u = 1 .. Len(u) /\ Len(u) \in Nat
    BY MapIs DEF ListsInv, ListTypes, SortedOK
<1>3. I \in SUBSET Nat /\ 0 \notin I /\ \A i \in 1 .. Len(u) : i \in I <=> TagAccepts(tag, tags[s][u[i]])
    OBVIOUS
<1>4. I \subseteq DOMAIN u
    BY <1>2
<1> HIDE DEF I, u
<1>5. /\ p > 0 => p \in I /\ \A i \in I : p <= i
      /\ ~(p > 0) => I = {}
    BY <1>1, <1>3, FirstIs
<1>6. ASSUME p > 0, NEW k \in unexp[s], TagAccepts(tag, tags[s][k]) PROVE u[p] <= k
    <2>1. PICK i \in DOMAIN u : k = u[i]
        BY <1>2 DEF Range
    <2>2. i \in I /\ p \in DOMAIN u /\ p <= i
        BY <1>2, <1>3, <1>4, <1>5, <1>6, <2>1
    <2>3. u[i] \in Nat /\ u[p] \in Nat /\ i \in Nat /\ p \in Nat
        BY <1>2, <2>2
    <2>4. CASE p = i
        BY <2>1, <2>3, <2>4
    <2>5. CASE p < i
        BY <1>2, <2>1, <2>2, <2>3, <2>5 DEF Ascending
    <2> QED BY <2>2, <2>3, <2>4, <2>5
<1>7. ASSUME ~(p > 0), NEW k \in unexp[s] PROVE ~TagAccepts(tag, tags[s][k])
    <2>1. PICK i \in DOMAIN u : k = u[i]
        BY <1>2 DEF Range
    <2> QED BY <1>2, <1>3, <1>5, <1>7, <2>1
<1>8. p > 0 => p \in 1 .. Len(u) /\ u[p] \in unexp[s] /\ TagAccepts(tag, tags[s][u[p]])
    <2> SUFFICES ASSUME p > 0 PROVE p \in 1 .. Len(u) /\ u[p] \in unexp[s] /\ TagAccepts(tag, tags[s][u[p]])
        OBVIOUS
    <2>1. p \in DOMAIN u /\ p \in I
        BY <1>4, <1>5
    <2> QED BY <1>2, <1>3, <2>1 DEF Range
<1> QED BY <1>6, <1>7, <1>8 DEF u

\* A wildcard request that finds nothing at the source it stops at finds nothing at all.
LEMMA WildIs ==
    ASSUME NEW tag, last_probed \in Source, MatchWild(tag) = {}
    PROVE  \A s \in Source : ~(MatchSpecificProc(tag, s) > 0)
<1> SUFFICES ASSUME NEW s \in Source, MatchSpecificProc(tag, s) > 0 PROVE FALSE
    OBVIOUS
<1> DEFINE Turn(q) == (q - last_probed - 1) % NumProcs
           T == {Turn(q) : q \in {r \in Source : MatchSpecificProc(tag, r) > 0}}
<1>1. \A q \in Source : Turn(q) \in Nat
    <2>1. NumProcs \in Nat \ {0} /\ Source \subseteq Nat
        BY MatchingAssumption, Ob1MatchAssumption
    <2>2. \A a \in Int : a % NumProcs \in Nat
        BY <2>1
    <2> QED BY <2>1, <2>2
<1>2. T \in SUBSET Nat /\ T # {}
    BY <1>1
<1>3. PICK m \in T : \A n \in T : m <= n
    <2> HIDE DEF T
    <2> QED BY <1>2, LeastExists
<1>4. PICK q \in Source : MatchSpecificProc(tag, q) > 0 /\ m = Turn(q)
    BY <1>3
<1>5. q \in MatchWild(tag)
    BY <1>3, <1>4 DEF MatchWild
<1> QED BY <1>5

\* An ordered queue holds each element once.
LEMMA SortedInjective ==
    ASSUME NEW q \in Seq(Nat), Ascending(q)
    PROVE  IsInjective(q)
<1> SUFFICES ASSUME NEW i \in DOMAIN q, NEW j \in DOMAIN q, q[i] = q[j], i < j PROVE FALSE
    <2>1. DOMAIN q \subseteq Nat
        OBVIOUS
    <2> QED BY <2>1 DEF IsInjective
<1>1. q[i] < q[j] /\ q[i] \in Nat
    BY DEF Ascending
<1> QED BY <1>1

\* What a request does to the lists, whether it finds message k of source s or waits.
LEMMA ListsStart ==
    ASSUME MatchInv, ListsInv, NEW q \in Request, reqs' = Append(reqs, q), UNCHANGED << tags, expected >>,
           NEW gone, gone \subseteq Source \X Nat,
           \A s \in Source, k \in Nat : << s, k >> \in gone <=> Takes(q.kind) /\ q.got = << s, k >>,
           \A s \in Source, k \in Nat : << s, k >> \in gone => k \in unexp[s],
           unexpected' \in [Source -> Seq(Nat)], \A s \in Source : Ascending(unexpected'[s]),
           \A s \in Source : Range(unexpected'[s]) = {k \in Range(unexpected[s]) : << s, k >> \notin gone},
           specific' \in [Source -> Seq(Nat)], wild' \in Seq(Nat),
           \A s \in Source : \A i \in Range(specific'[s]) : i \in Range(specific[s]) \/ (i = Len(reqs) + 1 /\ q.src = s),
           \A i \in Range(wild') : i \in Range(wild) \/ (i = Len(reqs) + 1 /\ q.src = MPI_ANY_SOURCE),
           done' = Done' /\ unexp' = Unexp' /\ posted' = Posted'
    PROVE  done' = done /\ ListsInv'
<1>1. /\ done \in [Source -> Nat] /\ tags \in [Source -> Seq(Tag)] /\ reqs \in Seq(Request)
      /\ \A r \in Source : done[r] \in Nat /\ Len(tags[r]) \in Nat /\ done[r] <= Len(tags[r])
      /\ ListTypes /\ NumbersOK /\ QueuesOK /\ MapOK
    BY DEF MatchInv, TypeOK, ListsInv
<1>2. /\ DOMAIN reqs' = 1 .. Len(reqs) + 1 /\ DOMAIN reqs = 1 .. Len(reqs) /\ Len(reqs) \in Nat
      /\ \A i \in DOMAIN reqs : reqs'[i] = reqs[i]
      /\ reqs'[Len(reqs) + 1] = q
    BY AppendStep
<1>3. \A r \in Source, k \in Nat : Processed(r, k)' <=> Processed(r, k)
    <2> SUFFICES ASSUME NEW r \in Source, NEW k \in Nat PROVE Processed(r, k)' <=> Processed(r, k)
        OBVIOUS
    <2>1. (\E i \in DOMAIN reqs' : Takes(reqs'[i].kind) /\ reqs'[i].got = << r, k >>) <=>
             \/ \E i \in DOMAIN reqs : Takes(reqs[i].kind) /\ reqs[i].got = << r, k >>
             \/ Takes(q.kind) /\ q.got = << r, k >>
        <3>1. \A i \in DOMAIN reqs' : i \in DOMAIN reqs \/ i = Len(reqs) + 1
            BY <1>2
        <3>2. Len(reqs) + 1 \in DOMAIN reqs' /\ \A i \in DOMAIN reqs : i \in DOMAIN reqs'
            BY <1>2
        <3> QED BY <1>2, <3>1, <3>2
    <2>2. << r, k >> \in gone => k \in Range(unexpected[r])
        <3>1. unexp[r] = Range(unexpected[r])
            BY MapIs
        <3>2. << r, k >> \in gone => k \in unexp[r]
            OBVIOUS
        <3> QED BY <3>1, <3>2
    <2>3. k \in Range(unexpected'[r]) <=> k \in Range(unexpected[r]) /\ << r, k >> \notin gone
        OBVIOUS
    <2>4. << r, k >> \in gone <=> Takes(q.kind) /\ q.got = << r, k >>
        OBVIOUS
    <2>5. Processed(r, k)' <=> \/ k \in Range(unexpected'[r])
                               \/ \E i \in DOMAIN reqs' : Takes(reqs'[i].kind) /\ reqs'[i].got = << r, k >>
        BY DEF Processed
    <2>6. Processed(r, k) <=> \/ k \in Range(unexpected[r])
                              \/ \E i \in DOMAIN reqs : Takes(reqs[i].kind) /\ reqs[i].got = << r, k >>
        BY DEF Processed
    <2> QED BY <2>1, <2>2, <2>3, <2>4, <2>5, <2>6
<1>4. done' = done
    <2>1. \A r \in Source, k \in Nat : Processed(r, k)' <=> k \in 1 .. done[r]
        BY <1>1, <1>3, ProcessedIs DEF MapOK
    <2>2. \A r \in Source : done[r] <= Len(tags'[r])
        BY <1>1
    <2> QED BY <1>1, <2>1, <2>2, DoneIs
<1>5. QueuesOK'
    <2>1. \A i \in Range(wild) : i \in DOMAIN reqs /\ reqs[i].src = MPI_ANY_SOURCE
        BY <1>1, MapIs DEF QueuesOK
    <2>2. \A s \in Source : \A i \in Range(specific[s]) : i \in DOMAIN reqs /\ reqs[i].src = s
        BY <1>1, MapIs DEF QueuesOK
    <2> QED BY <1>2, <2>1, <2>2 DEF QueuesOK
<1>6. ListTypes' /\ NumbersOK'
    BY <1>1, <1>4 DEF ListTypes, NumbersOK
<1> QED BY <1>4, <1>5, <1>6 DEF ListsInv, SortedOK, MapOK

\* A request that starts does what Matching says.
LEMMA RecvStep ==
    ASSUME MatchInv, ListsInv, last_probed \in Source, \A s \in Source : Len(tags[s]) <= MaxSent,
           NEW r \in Requests, RecvReqStart(r[1], r[2], r[3]),
           done' = Done' /\ unexp' = Unexp' /\ posted' = Posted'
    PROVE  Start(r) /\ done' = done /\ ListsInv' /\ last_probed' \in Source
<1> DEFINE src == r[1]
           tag == r[2]
           kind == r[3]
           q == [src |-> src, tag |-> tag, kind |-> kind, got |-> NoMessage]
           procs == IF src = MPI_ANY_SOURCE THEN MatchWild(tag) ELSE {s \in {src} : MatchSpecificProc(tag, s) > 0}
<1>1. /\ src \in Source \cup {MPI_ANY_SOURCE} /\ kind \in Kind /\ tag \in Tag \cup {OMPI_ANY_TAG}
      /\ q \in Request /\ q.got = NoMessage /\ q.src = src /\ q.tag = tag /\ q.kind = kind
    <2>1. src \in Source \cup {MPI_ANY_SOURCE} /\ kind \in Kind /\ tag \in Tag \cup {OMPI_ANY_TAG}
        BY MatchingAssumption
    <2> QED BY <2>1 DEF Request
<1>2. /\ Len(reqs) + 1 <= MaxReqs
      /\ \/ \E s \in procs :
              LET p == MatchSpecificProc(tag, s)
              IN  /\ reqs' = Append(reqs, [q EXCEPT !.got = << s, unexpected[s][p] >>])
                  /\ unexpected' = IF RemoveFrag(kind) THEN [unexpected EXCEPT ![s] = RemoveAt(@, p)] ELSE unexpected
                  /\ last_probed' = IF src = MPI_ANY_SOURCE THEN s ELSE last_probed
                  /\ UNCHANGED << specific, wild >>
         \/ /\ procs = {}
            /\ reqs' = Append(reqs, q)
            /\ specific' = IF Waits(kind) /\ src # MPI_ANY_SOURCE THEN [specific EXCEPT ![src] = Append(@, Len(reqs) + 1)] ELSE specific
            /\ wild' = IF Waits(kind) /\ src = MPI_ANY_SOURCE THEN Append(wild, Len(reqs) + 1) ELSE wild
            /\ UNCHANGED << unexpected, last_probed >>
      /\ UNCHANGED << tags, expected >>
    BY DEF RecvReqStart
<1>3. src # MPI_ANY_SOURCE => src \in Source
    BY <1>1
<1>4. \A s \in procs : s \in Source /\ q.src \in {s, MPI_ANY_SOURCE} /\ MatchSpecificProc(tag, s) > 0
    BY <1>1, <1>3 DEF MatchWild
<1>5. procs = {} => \A s \in Source : q.src \in {s, MPI_ANY_SOURCE} => ~(MatchSpecificProc(tag, s) > 0)
    BY <1>1, <1>3, WildIs
<1>6. /\ ListTypes /\ SortedOK /\ MapOK /\ TypeOK /\ PostedOK
      /\ unexp = [s \in Source |-> Range(unexpected[s])]
      /\ reqs \in Seq(Request) /\ Len(reqs) \in Nat
    BY DEF MatchInv, TypeOK, ListsInv, MapOK, Unexp
<1>7. unexp' = [s \in Source |-> Range(unexpected'[s])]
    BY DEF Unexp
<1>8. Start(r) <=> /\ Len(reqs) < MaxReqs
                   /\ (\E s \in Source, k \in 1 .. MaxSent : Find(q, s, k)) \/ Post(q)
                   /\ UNCHANGED << tags, done >>
    BY DEF Start
<1>9. MaxReqs \in Nat /\ MaxSent \in Nat
    BY MatchingAssumption
<1> HIDE DEF src, tag, kind, q, procs
\* It finds a message.
<1>10. ASSUME NEW s \in procs, NEW p, p = MatchSpecificProc(tag, s),
              reqs' = Append(reqs, [q EXCEPT !.got = << s, unexpected[s][p] >>]),
              unexpected' = IF RemoveFrag(kind) THEN [unexpected EXCEPT ![s] = RemoveAt(@, p)] ELSE unexpected,
              last_probed' = IF src = MPI_ANY_SOURCE THEN s ELSE last_probed,
              UNCHANGED << specific, wild >>
       PROVE  Start(r) /\ done' = done /\ ListsInv' /\ last_probed' \in Source
    <2> DEFINE k == unexpected[s][p]
               f == [q EXCEPT !.got = << s, k >>]
    <2>1. s \in Source /\ p > 0 /\ q.src \in {s, MPI_ANY_SOURCE}
        BY <1>4, <1>10
    <2>2. /\ p \in 1 .. Len(unexpected[s]) /\ k \in unexp[s] /\ TagAccepts(tag, tags[s][k])
          /\ \A j \in unexp[s] : TagAccepts(tag, tags[s][j]) => k <= j
        BY <1>10, <2>1, FoundIs
    <2> HIDE DEF k
    <2>3. k \in 1 .. done[s] /\ done[s] \in Nat /\ Len(tags[s]) \in Nat /\ done[s] <= Len(tags[s])
        BY <1>6, <2>1, <2>2 DEF TypeOK
    <2>4. k \in 1 .. MaxSent /\ k \in Nat
        BY <1>9, <2>1, <2>3
    <2>5. f \in Request /\ f.got = << s, k >> /\ f.kind = kind /\ f.src = src /\ f.tag = tag
        BY <1>1, <2>1, <2>4 DEF Request
    <2>6. /\ unexpected' \in [Source -> Seq(Nat)] /\ \A x \in Source : Ascending(unexpected'[x])
          /\ \A x \in Source : Range(unexpected'[x]) =
                IF x = s /\ Takes(kind) THEN Range(unexpected[s]) \ {k} ELSE Range(unexpected[x])
        <3>1. unexpected \in [Source -> Seq(Nat)] /\ \A x \in Source : Ascending(unexpected[x])
            BY <1>6 DEF ListTypes, SortedOK
        <3>2. CASE ~Takes(kind)
            BY <1>10, <3>1, <3>2 DEF RemoveFrag
        <3>3. CASE Takes(kind)
            <4>1. unexpected' = [unexpected EXCEPT ![s] = RemoveAt(unexpected[s], p)]
                BY <1>10, <3>3 DEF RemoveFrag
            <4>2. unexpected[s] \in Seq(Nat) /\ Ascending(unexpected[s]) /\ IsInjective(unexpected[s])
                BY <2>1, <3>1, SortedInjective
            <4>3. /\ RemoveAt(unexpected[s], p) \in Seq(Nat) /\ Ascending(RemoveAt(unexpected[s], p))
                  /\ Range(RemoveAt(unexpected[s], p)) = Range(unexpected[s]) \ {k}
                BY <2>2, <4>2, RemoveAtIs DEF k
            <4> QED BY <2>1, <3>1, <3>3, <4>1, <4>3
        <3> QED BY <3>2, <3>3
    <2>7. reqs' = Append(reqs, f)
        BY <1>10 DEF k
    <2> HIDE DEF f
    <2>8. done' = done /\ ListsInv'
        <3> DEFINE gone == IF Takes(kind) THEN {<< s, k >>} ELSE {}
        <3>1. gone \subseteq Source \X Nat
            BY <2>1, <2>4
        <3>2. \A x \in Source, j \in Nat : << x, j >> \in gone <=> Takes(f.kind) /\ f.got = << x, j >>
            BY <2>5
        <3>3. \A x \in Source, j \in Nat : << x, j >> \in gone => j \in unexp[x]
            BY <2>2
        <3>4. \A x \in Source : Range(unexpected'[x]) = {j \in Range(unexpected[x]) : << x, j >> \notin gone}
            BY <2>6
        <3>5. specific' \in [Source -> Seq(Nat)] /\ wild' \in Seq(Nat)
            BY <1>6, <1>10 DEF ListTypes
        <3>6. specific' = specific /\ wild' = wild /\ UNCHANGED << tags, expected >>
            BY <1>2, <1>10
        <3> HIDE DEF gone
        <3>7. /\ \A x \in Source : \A i \in Range(specific'[x]) : i \in Range(specific[x]) \/ (i = Len(reqs) + 1 /\ f.src = x)
              /\ \A i \in Range(wild') : i \in Range(wild) \/ (i = Len(reqs) + 1 /\ f.src = MPI_ANY_SOURCE)
            BY <3>6
        <3> QED BY <2>5, <2>6, <2>7, <3>1, <3>2, <3>3, <3>4, <3>5, <3>6, <3>7, ListsStart
    <2>9. unexp' = IF Takes(q.kind) THEN [unexp EXCEPT ![s] = @ \ {k}] ELSE unexp
        BY <1>1, <1>6, <1>7, <2>1, <2>6
    <2>10. posted' = posted
        BY <1>6, <1>10 DEF Posted, MapOK
    <2>11. Find(q, s, k)
        <3>1. \A j : Accepts(q, s, j) <=> TagAccepts(tag, tags[s][j])
            BY <1>1, <2>1 DEF Accepts
        <3> QED BY <2>1, <2>2, <2>7, <2>9, <2>10, <3>1 DEF Find, f
    <2>12. last_probed' \in Source
        BY <1>10, <2>1
    <2> QED BY <1>2, <1>6, <1>8, <1>9, <2>1, <2>4, <2>8, <2>11, <2>12
\* It waits.
<1>11. ASSUME procs = {}, reqs' = Append(reqs, q),
              specific' = IF Waits(kind) /\ src # MPI_ANY_SOURCE THEN [specific EXCEPT ![src] = Append(@, Len(reqs) + 1)] ELSE specific,
              wild' = IF Waits(kind) /\ src = MPI_ANY_SOURCE THEN Append(wild, Len(reqs) + 1) ELSE wild,
              UNCHANGED << unexpected, last_probed >>
       PROVE  Start(r) /\ done' = done /\ ListsInv' /\ last_probed' \in Source
    <2> DEFINE i == Len(reqs) + 1
    <2>1. i \in Nat
        BY <1>6
    <2>2. /\ specific' \in [Source -> Seq(Nat)] /\ wild' \in Seq(Nat)
          /\ \A s \in Source : Range(specific'[s]) = IF Waits(kind) /\ src = s THEN Range(specific[s]) \cup {i} ELSE Range(specific[s])
          /\ Range(wild') = IF Waits(kind) /\ src = MPI_ANY_SOURCE THEN Range(wild) \cup {i} ELSE Range(wild)
        <3>1. specific \in [Source -> Seq(Nat)] /\ wild \in Seq(Nat)
            BY <1>6 DEF ListTypes
        <3>2. \A a \in Seq(Nat) : Append(a, i) \in Seq(Nat) /\ Range(Append(a, i)) = Range(a) \cup {i}
            BY <2>1, AppendUnexpected
        <3>3. \A s \in Source : s # MPI_ANY_SOURCE /\ specific[s] \in Seq(Nat)
            BY <3>1, MatchingAssumption DEF MPI_ANY_SOURCE
        <3> HIDE DEF i
        <3>4. /\ specific' = IF Waits(kind) /\ src # MPI_ANY_SOURCE THEN [specific EXCEPT ![src] = Append(@, i)] ELSE specific
              /\ wild' = IF Waits(kind) /\ src = MPI_ANY_SOURCE THEN Append(wild, i) ELSE wild
            BY <1>11 DEF i
        <3>5. wild' \in Seq(Nat) /\ Range(wild') = IF Waits(kind) /\ src = MPI_ANY_SOURCE THEN Range(wild) \cup {i} ELSE Range(wild)
            BY <3>1, <3>2, <3>4
        <3>6. CASE Waits(kind) /\ src # MPI_ANY_SOURCE
            <4>1. src \in Source
                BY <1>3, <3>6
            <4>2. specific' \in [Source -> Seq(Nat)] /\ \A s \in Source : specific'[s] = IF s = src THEN Append(specific[s], i) ELSE specific[s]
                BY <3>1, <3>2, <3>4, <3>6, <4>1
            <4> QED BY <3>2, <3>3, <3>5, <3>6, <4>2
        <3>7. CASE ~(Waits(kind) /\ src # MPI_ANY_SOURCE)
            BY <3>1, <3>3, <3>4, <3>5, <3>7
        <3> QED BY <3>6, <3>7
    <2>3. done' = done /\ ListsInv'
        <3> DEFINE gone == {}
        <3>1. \A x \in Source, j \in Nat : << x, j >> \in gone <=> Takes(q.kind) /\ q.got = << x, j >>
            BY <1>1, MessageIsSome
        <3>2. UNCHANGED << tags, expected >> /\ gone \subseteq Source \X Nat
            BY <1>2
        <3>3. /\ unexpected' \in [Source -> Seq(Nat)] /\ \A s \in Source : Ascending(unexpected'[s])
              /\ \A s \in Source : Range(unexpected'[s]) = {k \in Range(unexpected[s]) : << s, k >> \notin gone}
            BY <1>6, <1>11 DEF ListTypes, SortedOK
        <3>4. /\ \A s \in Source : \A j \in Range(specific'[s]) : j \in Range(specific[s]) \/ (j = Len(reqs) + 1 /\ q.src = s)
              /\ \A j \in Range(wild') : j \in Range(wild) \/ (j = Len(reqs) + 1 /\ q.src = MPI_ANY_SOURCE)
            <4>1. q.src = src /\ i = Len(reqs) + 1
                BY <1>1
            <4> HIDE DEF i
            <4> QED BY <2>2, <4>1
        <3>5. \A x \in Source, j \in Nat : << x, j >> \in gone => j \in unexp[x]
            OBVIOUS
        <3> HIDE DEF gone, i
        <3> QED BY <1>1, <1>11, <2>2, <3>1, <3>2, <3>3, <3>4, <3>5, ListsStart
    <2>4. unexp' = unexp
        BY <1>6, <1>7, <1>11
    <2>5. posted' = IF Waits(q.kind) THEN posted \cup {Len(reqs) + 1} ELSE posted
        <3>1. posted' = Range(wild') \cup UNION {Range(specific'[s]) : s \in Source}
            BY DEF Posted
        <3>2. posted = Range(wild) \cup UNION {Range(specific[s]) : s \in Source}
            BY MapIs
        <3>3. ASSUME NEW j PROVE j \in posted' <=> j \in posted \/ (Waits(kind) /\ j = i)
            <4>1. j \in posted' <=> j \in Range(wild') \/ \E s \in Source : j \in Range(specific'[s])
                BY <3>1
            <4>2. j \in posted <=> j \in Range(wild) \/ \E s \in Source : j \in Range(specific[s])
                BY <3>2
            <4> QED BY <1>3, <2>2, <4>1, <4>2
        <3> QED BY <1>1, <3>3
    <2>6. \A s \in Source : \A k \in unexp[s] : ~Accepts(q, s, k)
        <3> SUFFICES ASSUME NEW s \in Source, NEW k \in unexp[s], Accepts(q, s, k) PROVE FALSE
            OBVIOUS
        <3>1. q.src \in {s, MPI_ANY_SOURCE} /\ TagAccepts(tag, tags[s][k])
            BY <1>1 DEF Accepts
        <3>2. ~(MatchSpecificProc(tag, s) > 0)
            BY <1>5, <1>11, <3>1
        <3> QED BY <3>1, <3>2, FoundIs
    <2>7. Post(q)
        BY <1>11, <2>4, <2>5, <2>6 DEF Post
    <2>8. last_probed' \in Source
        BY <1>11
    <2> QED BY <1>2, <1>6, <1>8, <1>9, <2>3, <2>7, <2>8
<1> QED BY <1>2, <1>10, <1>11
----------------------------------------------------------------------------
\* The places of a message before it takes effect.

\* Where message k of source s may be before it takes effect.
IsOnNet(s, k)   == k \in net[s]
IsCant(s, k)    == k \in Range(cant[s])
IsPending(s, k) == << s, k >> \in Range(pending)
IsHeld(s, k)    == \E t \in Thread : pc[t] = "match" /\ frag[t] = << s, k >>

Somewhere(s, k) == IsOnNet(s, k) \/ IsCant(s, k) \/ IsPending(s, k) \/ IsHeld(s, k)

Once(s, k) ==
    /\ IsOnNet(s, k) => ~IsCant(s, k) /\ ~IsPending(s, k) /\ ~IsHeld(s, k)
    /\ IsCant(s, k) => ~IsPending(s, k) /\ ~IsHeld(s, k)
    /\ IsPending(s, k) => ~IsHeld(s, k)

\* Each place keeps a message once.
NetOK     == net \in [Source -> SUBSET Nat]
CantOK    == cant \in [Source -> Seq(Nat)] /\ \A s \in Source : IsInjective(cant[s])
PendingOK == pending \in Seq(Source \X Nat) /\ IsInjective(pending)
HeldOK ==
    /\ pc \in [Thread -> {"idle", "match", "check"}]
    /\ frag \in [Thread -> (Source \X Nat) \cup {NoMessage}]
    /\ \A t \in Thread : pc[t] # "idle" => frag[t] \in Source \X Nat
    /\ \A t, u \in Thread : pc[t] = "match" /\ pc[u] = "match" /\ frag[t] = frag[u] => t = u

\* The messages that were sent and did not take effect yet are in one place each.
PlacesOK ==
    \A s \in Source, k \in Nat : (Somewhere(s, k) <=> k \in done[s] + 1 .. Len(tags[s])) /\ Once(s, k)

PlacesInv == NetOK /\ CantOK /\ PendingOK /\ HeldOK /\ PlacesOK

\* Only message k of source s changes its place.
OthersStay(s, k) ==
    \A r \in Source, j \in Nat : ~(r = s /\ j = k) =>
        /\ IsOnNet(r, j)' <=> IsOnNet(r, j)
        /\ IsCant(r, j)' <=> IsCant(r, j)
        /\ IsPending(r, j)' <=> IsPending(r, j)
        /\ IsHeld(r, j)' <=> IsHeld(r, j)

\* A message that moves is in one place again.
LEMMA MoveOK ==
    ASSUME PlacesOK, NEW s \in Source, NEW k \in Nat, OthersStay(s, k),
           Somewhere(s, k), Somewhere(s, k)', Once(s, k)', UNCHANGED << tags, done >>
    PROVE  PlacesOK'
<1> SUFFICES ASSUME NEW r \in Source, NEW j \in Nat
             PROVE  (Somewhere(r, j)' <=> j \in done[r] + 1 .. Len(tags[r])) /\ Once(r, j)'
    BY DEF PlacesOK
<1>1. CASE r = s /\ j = k
    BY <1>1 DEF PlacesOK
<1>2. CASE ~(r = s /\ j = k)
    BY <1>2 DEF PlacesOK, OthersStay, Somewhere, Once
<1> QED BY <1>1, <1>2

\* A message that takes effect is nowhere any more.
LEMMA ProcessOK ==
    ASSUME PlacesOK, MatchInv, NEW s \in Source, NEW k \in Nat, OthersStay(s, k), ~Somewhere(s, k)',
           k = done[s] + 1, done' = [done EXCEPT ![s] = k], tags' = tags
    PROVE  PlacesOK'
<1>1. done \in [Source -> Nat] /\ \A r \in Source : Len(tags[r]) \in Nat
    BY DEF MatchInv, TypeOK
<1> SUFFICES ASSUME NEW r \in Source, NEW j \in Nat
             PROVE  (Somewhere(r, j)' <=> j \in done'[r] + 1 .. Len(tags[r])) /\ Once(r, j)'
    BY DEF PlacesOK
<1>2. CASE r = s /\ j = k
    <2>1. j \notin done'[r] + 1 .. Len(tags[r])
        BY <1>1, <1>2
    <2> QED BY <1>2, <2>1 DEF Somewhere, Once
<1>3. CASE ~(r = s /\ j = k)
    <2>1. j \in done'[r] + 1 .. Len(tags[r]) <=> j \in done[r] + 1 .. Len(tags[r])
        BY <1>1, <1>3
    <2> QED BY <1>3, <2>1 DEF PlacesOK, OthersStay, Somewhere, Once
<1> QED BY <1>2, <1>3

\* A message more at the end of what is kept back, for every source.
LEMMA AppendPlace ==
    \A q \in Seq(Nat), e \in Nat :
        /\ Append(q, e) \in Seq(Nat) /\ Range(Append(q, e)) = Range(q) \cup {e}
        /\ IsInjective(q) /\ e \notin Range(q) => IsInjective(Append(q, e))
BY AppendIs

\* A message leaves the network.
LEMMA NetLess ==
    ASSUME NetOK, NEW s \in Source, NEW k, net' = [net EXCEPT ![s] = @ \ {k}]
    PROVE  NetOK' /\ \A r \in Source : \A j : IsOnNet(r, j)' <=> IsOnNet(r, j) /\ ~(r = s /\ j = k)
BY DEF NetOK, IsOnNet

\* A message is kept back (append_frag_to_list on frags_cant_match).
LEMMA CantMore ==
    ASSUME CantOK, NEW s \in Source, NEW k \in Nat, ~IsCant(s, k), cant' = [cant EXCEPT ![s] = Append(@, k)]
    PROVE  CantOK' /\ \A r \in Source : \A j : IsCant(r, j)' <=> IsCant(r, j) \/ (r = s /\ j = k)
<1>1. cant[s] \in Seq(Nat) /\ IsInjective(cant[s]) /\ k \notin Range(cant[s])
    BY DEF CantOK, IsCant
<1>2. /\ Append(cant[s], k) \in Seq(Nat) /\ IsInjective(Append(cant[s], k))
      /\ Range(Append(cant[s], k)) = Range(cant[s]) \cup {k}
    BY <1>1, AppendPlace
<1>3. /\ cant' \in [Source -> Seq(Nat)]
      /\ \A r \in Source : cant'[r] = IF r = s THEN Append(cant[s], k) ELSE cant[r]
    BY <1>2 DEF CantOK
<1> QED BY <1>2, <1>3 DEF CantOK, IsCant

\* A message is taken from those kept back, whichever position it has.
LEMMA CantLess ==
    ASSUME CantOK, NEW s \in Source, NEW p \in 1 .. Len(cant[s]), cant' = [cant EXCEPT ![s] = RemoveAt(@, p)]
    PROVE  /\ CantOK' /\ IsCant(s, cant[s][p])
           /\ \A r \in Source : \A j : IsCant(r, j)' <=> IsCant(r, j) /\ ~(r = s /\ j = cant[s][p])
<1>1. cant[s] \in Seq(Nat) /\ IsInjective(cant[s])
    BY DEF CantOK
<1>2. /\ RemoveAt(cant[s], p) \in Seq(Nat) /\ IsInjective(RemoveAt(cant[s], p))
      /\ Range(RemoveAt(cant[s], p)) = Range(cant[s]) \ {cant[s][p]}
    BY <1>1, RemoveAtIs
<1>3. p \in DOMAIN cant[s]
    BY <1>1
<1>4. /\ cant' \in [Source -> Seq(Nat)]
      /\ \A r \in Source : cant'[r] = IF r = s THEN RemoveAt(cant[s], p) ELSE cant[r]
    BY <1>2 DEF CantOK
<1>5. cant[s][p] \in Range(cant[s])
    BY <1>3 DEF Range
<1> QED BY <1>2, <1>4, <1>5 DEF CantOK, IsCant

\* A message is put at the end of non_existing_communicator_pending.
LEMMA PendingMore ==
    ASSUME PendingOK, NEW s \in Source, NEW k \in Nat, ~IsPending(s, k), pending' = Append(pending, << s, k >>)
    PROVE  PendingOK' /\ \A r, j : IsPending(r, j)' <=> IsPending(r, j) \/ (r = s /\ j = k)
<1>1. pending \in Seq(Source \X Nat) /\ IsInjective(pending) /\ << s, k >> \in Source \X Nat /\ << s, k >> \notin Range(pending)
    BY DEF PendingOK, IsPending
<1>2. /\ Append(pending, << s, k >>) \in Seq(Source \X Nat) /\ IsInjective(Append(pending, << s, k >>))
      /\ Range(Append(pending, << s, k >>)) = Range(pending) \cup {<< s, k >>}
    <2> DEFINE T == Source \X Nat
               e == << s, k >>
    <2>1. pending \in Seq(T) /\ e \in T /\ e \notin Range(pending)
        BY <1>1
    <2>2. Append(pending, e) \in Seq(T) /\ IsInjective(Append(pending, e)) /\ Range(Append(pending, e)) = Range(pending) \cup {e}
        <3> HIDE DEF T, e
        <3> QED BY <1>1, <2>1, AppendIs
    <2> QED BY <2>2
<1> QED BY <1>2 DEF PendingOK, IsPending

\* The first message is taken from there.
LEMMA PendingLess ==
    ASSUME PendingOK, pending # << >>, pending' = Tail(pending), NEW s, NEW k, s = Head(pending)[1], k = Head(pending)[2]
    PROVE  /\ PendingOK' /\ s \in Source /\ k \in Nat /\ IsPending(s, k)
           /\ \A r, j : IsPending(r, j)' <=> IsPending(r, j) /\ ~(r = s /\ j = k)
<1>1. pending \in Seq(Source \X Nat) /\ IsInjective(pending)
    BY DEF PendingOK
<1>2. /\ Tail(pending) \in Seq(Source \X Nat) /\ Head(pending) \in Source \X Nat /\ Head(pending) \in Range(pending)
      /\ IsInjective(Tail(pending)) /\ Range(Tail(pending)) = Range(pending) \ {Head(pending)}
    <2> DEFINE T == Source \X Nat
    <2>1. pending \in Seq(T)
        BY <1>1
    <2>2. Tail(pending) \in Seq(T) /\ Head(pending) \in T /\ Head(pending) \in Range(pending)
          /\ IsInjective(Tail(pending)) /\ Range(Tail(pending)) = Range(pending) \ {Head(pending)}
        <3> HIDE DEF T
        <3> QED BY <1>1, <2>1, TailIs
    <2> QED BY <2>2
<1>3. Head(pending) = << s, k >> /\ s \in Source /\ k \in Nat
    BY <1>2
<1>4. Range(pending') = Range(pending) \ {<< s, k >>} /\ << s, k >> \in Range(pending)
    BY <1>2, <1>3
<1>5. PendingOK'
    BY <1>2 DEF PendingOK
<1>6. \A r, j : << r, j >> = << s, k >> <=> r = s /\ j = k
    OBVIOUS
<1>7. \A r, j : << r, j >> \in Range(pending') <=> << r, j >> \in Range(pending) /\ ~(r = s /\ j = k)
    BY <1>4, <1>6
<1> QED BY <1>3, <1>4, <1>5, <1>7 DEF IsPending

\* A thread that had nothing to do gets a message.
LEMMA HeldMore ==
    ASSUME HeldOK, NEW t \in Thread, NEW s \in Source, NEW k \in Nat, pc[t] = "idle", ~IsHeld(s, k),
           pc' = [pc EXCEPT ![t] = "match"], frag' = [frag EXCEPT ![t] = << s, k >>]
    PROVE  HeldOK' /\ \A r, j : IsHeld(r, j)' <=> IsHeld(r, j) \/ (r = s /\ j = k)
<1>1. /\ \A u \in Thread : pc'[u] = IF u = t THEN "match" ELSE pc[u]
      /\ \A u \in Thread : frag'[u] = IF u = t THEN << s, k >> ELSE frag[u]
    BY DEF HeldOK
<1>2. HeldOK'
    <2>1. pc' \in [Thread -> {"idle", "match", "check"}] /\ frag' \in [Thread -> (Source \X Nat) \cup {NoMessage}]
        BY DEF HeldOK
    <2> QED BY <1>1, <2>1 DEF HeldOK, IsHeld
<1> QED BY <1>1, <1>2 DEF IsHeld

\* A thread has no message to match any more.
LEMMA HeldLess ==
    ASSUME HeldOK, NEW t \in Thread, NEW s \in Source, NEW k \in Nat, pc[t] = "match", frag[t] = << s, k >>,
           pc' = [pc EXCEPT ![t] = "idle"] \/ pc' = [pc EXCEPT ![t] = "check"], frag' = frag
    PROVE  /\ HeldOK' /\ IsHeld(s, k)
           /\ \A r, j : IsHeld(r, j)' <=> IsHeld(r, j) /\ ~(r = s /\ j = k)
<1>1. PICK x \in {"idle", "check"} : pc' = [pc EXCEPT ![t] = x]
    OBVIOUS
<1>3. \A u \in Thread : pc'[u] = IF u = t THEN x ELSE pc[u]
    BY <1>1 DEF HeldOK
<1>4. HeldOK'
    <2>1. pc' \in [Thread -> {"idle", "match", "check"}]
        BY <1>1 DEF HeldOK
    <2> QED BY <1>3, <2>1 DEF HeldOK
<1>5. \A u \in Thread : pc[u] = "match" /\ frag[u] = << s, k >> => u = t
    BY DEF HeldOK
<1>6. IsHeld(s, k)
    BY DEF IsHeld
<1>7. ASSUME NEW r, NEW j PROVE IsHeld(r, j)' <=> IsHeld(r, j) /\ ~(r = s /\ j = k)
    <2>1. IsHeld(r, j)' <=> \E u \in Thread : pc'[u] = "match" /\ frag[u] = << r, j >>
        BY DEF IsHeld
    <2>2. CASE r = s /\ j = k
        BY <1>3, <1>5, <2>1, <2>2
    <2>3. CASE ~(r = s /\ j = k)
        <3>1. frag[t] # << r, j >>
            BY <2>3
        <3> QED BY <1>3, <2>1, <2>3, <3>1 DEF IsHeld
    <2> QED BY <2>2, <2>3
<1> QED BY <1>4, <1>6, <1>7

\* A thread that looked through the messages kept back goes idle: it holds none.
LEMMA HeldSame ==
    ASSUME HeldOK, NEW t \in Thread, pc[t] = "check", pc' = [pc EXCEPT ![t] = "idle"], frag' = frag
    PROVE  HeldOK' /\ \A r, j : IsHeld(r, j)' <=> IsHeld(r, j)
<1>1. \A u \in Thread : pc'[u] = IF u = t THEN "idle" ELSE pc[u]
    BY DEF HeldOK
<1>2. pc' \in [Thread -> {"idle", "match", "check"}]
    BY DEF HeldOK
<1> QED BY <1>1, <1>2 DEF HeldOK, IsHeld

\* The message that check_cantmatch_for_match finds.
LEMMA CantMatchIs ==
    ASSUME NEW s, NEW p, p = CantMatch(s), p > 0
    PROVE  p \in 1 .. Len(cant[s]) /\ Seqn(cant[s][p]) = expected[s]
<1> DEFINE I == {i \in 1 .. Len(cant[s]) : Seqn(cant[s][i]) = expected[s]}
<1>1. p = FirstOf(I)
    BY DEF CantMatch, SelectInSeq, FirstOf
<1>2. I \in SUBSET Nat /\ 0 \notin I
    OBVIOUS
<1>3. p \in I
    <2> HIDE DEF I
    <2> QED BY <1>1, <1>2, FirstIs
<1> QED BY <1>3
----------------------------------------------------------------------------
\* The invariant, and what a step has to keep.

\* The life of the communicator, and the bounds.
LifeInv ==
    /\ work \in Workloads
    /\ comm \in {"none", "adding", "ready"} /\ draining \in Source \cup {-1} /\ last_probed \in Source
    /\ comm # "ready" => reqs = << >>
    /\ draining # -1 => comm = "adding"
    /\ \A s \in Source : Len(tags[s]) <= work.sends[s]

Ob1Inv == MatchInv /\ ListsInv /\ PlacesInv /\ LifeInv

\* What every step does to the variables of Matching.
Mapped == done' = Done' /\ unexp' = Unexp' /\ posted' = Posted'

RestKept == ListsInv' /\ PlacesInv' /\ LifeInv'

\* Steps that leave a place alone.
LEMMA NetSame == ASSUME NetOK, net' = net PROVE NetOK' /\ \A r, j : IsOnNet(r, j)' <=> IsOnNet(r, j)
BY DEF NetOK, IsOnNet

\* The messages kept back.
LEMMA CantSame == ASSUME CantOK, cant' = cant PROVE CantOK' /\ \A r, j : IsCant(r, j)' <=> IsCant(r, j)
BY DEF CantOK, IsCant

\* Those that came before the communicator.
LEMMA PendingSame == ASSUME PendingOK, pending' = pending PROVE PendingOK' /\ \A r, j : IsPending(r, j)' <=> IsPending(r, j)
BY DEF PendingOK, IsPending

\* Those that a thread holds.
LEMMA ThreadsSame == ASSUME HeldOK, pc' = pc, frag' = frag PROVE HeldOK' /\ \A r, j : IsHeld(r, j)' <=> IsHeld(r, j)
BY DEF HeldOK, IsHeld

\* Where a message is, it is not anywhere else, and it did not take effect.
LEMMA PlaceIs ==
    ASSUME PlacesOK, NEW s \in Source, NEW k \in Nat, Somewhere(s, k)
    PROVE  k \in done[s] + 1 .. Len(tags[s]) /\ Once(s, k)
BY DEF PlacesOK

\* Steps that leave the communicator, the requests and the senders alone.
LEMMA LifeSame ==
    ASSUME LifeInv, UNCHANGED << work, comm, draining, last_probed, reqs, tags >>
    PROVE  LifeInv'
BY DEF LifeInv

\* A match leaves the life of the communicator alone.
LEMMA LifeMatch ==
    ASSUME LifeInv, UNCHANGED << work, comm, draining, last_probed, tags >>, reqs = << >> => reqs' = << >>
    PROVE  LifeInv'
BY DEF LifeInv

\* A message that did not take effect yet counts for the bound on the senders.
LEMMA UnprocessedIs ==
    ASSUME NEW s \in Source, NEW k \in Nat, Somewhere(s, k)
    PROVE  k \in Unprocessed(s)
<1>1. CASE IsOnNet(s, k)
    BY <1>1 DEF IsOnNet, Unprocessed
<1>2. CASE IsCant(s, k)
    BY <1>2 DEF IsCant, Unprocessed
<1>3. CASE IsPending(s, k)
    <2>1. << s, k >> \in {x \in Range(pending) : x[1] = s} /\ << s, k >>[2] = k
        BY <1>3 DEF IsPending
    <2>2. k \in {m[2] : m \in {x \in Range(pending) : x[1] = s}}
        BY <2>1
    <2> QED BY <2>2 DEF Unprocessed
<1>4. CASE IsHeld(s, k)
    <2>1. PICK t \in Thread : pc[t] = "match" /\ frag[t] = << s, k >>
        BY <1>4 DEF IsHeld
    <2>2. k \in {frag[u][2] : u \in {u \in Thread : pc[u] = "match" /\ frag[u][1] = s}}
        BY <2>1
    <2> QED BY <2>2 DEF Unprocessed
<1> QED BY <1>1, <1>2, <1>3, <1>4 DEF Somewhere

\* A source sends: the message is on the network and nowhere else.
LEMMA IsendStep ==
    ASSUME Ob1Inv, NEW s \in Source, NEW t \in Tag, Isend(s, t), Mapped
    PROVE  Next /\ RestKept
<1> DEFINE k == Len(tags[s]) + 1
<1>1. MatchInv /\ ListsInv /\ NetOK /\ CantOK /\ PendingOK /\ HeldOK /\ PlacesOK /\ LifeInv
    BY DEF Ob1Inv, PlacesInv
<1>2. /\ tags' = [tags EXCEPT ![s] = Append(@, t)]
      /\ net' = [net EXCEPT ![s] = @ \cup {k}]
      /\ UNCHANGED listVars /\ cant' = cant /\ reqs' = reqs
      /\ UNCHANGED << work, comm, draining, last_probed, pending, pc, frag >>
      /\ Len(tags[s]) < work.sends[s]
      /\ \A j \in Unprocessed(s) : Len(tags[s]) + 1 - j < SeqWrap
    <2>1. /\ UNCHANGED << work, commVars, listVars, last_probed, pc, frag >>
          /\ tags' = [tags EXCEPT ![s] = Append(@, t)]
          /\ net' = [net EXCEPT ![s] = @ \cup {k}]
          /\ Len(tags[s]) < work.sends[s]
          /\ \A j \in Unprocessed(s) : Len(tags[s]) + 1 - j < SeqWrap
        BY DEF Isend
    <2> QED BY <2>1 DEF listVars, commVars
<1>3. /\ \A r \in Source : done[r] \in Nat /\ Len(tags[r]) \in Nat /\ done[r] <= Len(tags[r])
      /\ SeqWrap \in Nat \ {0, 1} /\ MaxSent \in Nat
      /\ \A r \in Source : work.sends[r] \in Nat /\ work.sends[r] <= MaxSent
    <2>1. \A r \in Source : done[r] \in Nat /\ Len(tags[r]) \in Nat /\ done[r] <= Len(tags[r])
        BY <1>1 DEF MatchInv, TypeOK
    <2>2. work \in Workloads
        BY <1>1 DEF LifeInv
    <2>3. SeqWrap \in Nat \ {0, 1} /\ MaxSent \in Nat /\ work.sends \in [Source -> 0 .. MaxSent]
        BY <2>2, Ob1MatchAssumption, MatchingAssumption
    <2>4. \A r \in Source : work.sends[r] \in 0 .. MaxSent
        BY <2>3
    <2> QED BY <2>1, <2>3, <2>4
<1>4. Len(tags[s]) < MaxSent
    BY <1>2, <1>3
<1>5. Len(tags[s]) + 1 <= done[s] + SeqWrap
    <2>1. CASE done[s] = Len(tags[s])
        BY <1>3, <2>1
    <2>2. CASE done[s] # Len(tags[s])
        <3>1. done[s] + 1 \in Nat /\ done[s] + 1 \in done[s] + 1 .. Len(tags[s])
            BY <1>3, <2>2
        <3>2. Somewhere(s, done[s] + 1)
            BY <1>1, <3>1 DEF PlacesOK
        <3>3. Len(tags[s]) + 1 - (done[s] + 1) < SeqWrap
            BY <1>2, <3>1, <3>2, UnprocessedIs
        <3> QED BY <1>3, <3>3
    <2> QED BY <2>1, <2>2
<1>6. /\ Send(s, t) /\ ListsInv' /\ done' = done
      /\ \A r \in Source : Len(tags'[r]) = IF r = s THEN Len(tags[s]) + 1 ELSE Len(tags[r])
    BY <1>1, <1>2, <1>4, <1>5, SendStep DEF Mapped
<1>7. /\ NetOK' /\ \A r \in Source : \A j : IsOnNet(r, j)' <=> IsOnNet(r, j) \/ (r = s /\ j = k)
      /\ CantOK' /\ \A r, j : IsCant(r, j)' <=> IsCant(r, j)
      /\ PendingOK' /\ \A r, j : IsPending(r, j)' <=> IsPending(r, j)
      /\ HeldOK' /\ \A r, j : IsHeld(r, j)' <=> IsHeld(r, j)
    <2>1. k \in Nat
        BY <1>3
    <2>2. NetOK' /\ \A r \in Source : \A j : IsOnNet(r, j)' <=> IsOnNet(r, j) \/ (r = s /\ j = k)
        <3> HIDE DEF k
        <3> QED BY <1>1, <1>2, <2>1 DEF NetOK, IsOnNet
    <2> QED BY <1>1, <1>2, <2>2, CantSame, PendingSame, ThreadsSame
<1>8. PlacesOK'
    <2> SUFFICES ASSUME NEW r \in Source, NEW j \in Nat
                 PROVE  (Somewhere(r, j)' <=> j \in done[r] + 1 .. Len(tags'[r])) /\ Once(r, j)'
        BY <1>6 DEF PlacesOK
    <2>1. CASE r = s /\ j = k
        <3>1. j \notin done[r] + 1 .. Len(tags[r]) /\ j \in done[r] + 1 .. Len(tags'[r])
            BY <1>3, <1>6, <2>1
        <3>2. ~Somewhere(r, j)
            BY <1>1, <3>1 DEF PlacesOK
        <3> HIDE DEF k
        <3> QED BY <1>7, <2>1, <3>1, <3>2 DEF Somewhere, Once
    <2>2. CASE ~(r = s /\ j = k)
        <3>1. j \in done[r] + 1 .. Len(tags'[r]) <=> j \in done[r] + 1 .. Len(tags[r])
            BY <1>3, <1>6, <2>2
        <3>2. (Somewhere(r, j) <=> j \in done[r] + 1 .. Len(tags[r])) /\ Once(r, j)
            BY <1>1 DEF PlacesOK
        <3> HIDE DEF k
        <3> QED BY <1>7, <2>2, <3>1, <3>2 DEF Somewhere, Once
    <2> QED BY <2>1, <2>2
<1>9. LifeInv'
    <2>1. \A r \in Source : Len(tags'[r]) <= work.sends[r]
        <3> SUFFICES ASSUME NEW r \in Source PROVE Len(tags'[r]) <= work.sends[r]
            OBVIOUS
        <3>1. Len(tags[r]) <= work.sends[r]
            BY <1>1 DEF LifeInv
        <3> HIDE DEF k
        <3> QED BY <1>2, <1>3, <1>6, <3>1
    <2> QED BY <1>1, <1>2, <2>1 DEF LifeInv
<1> QED BY <1>6, <1>7, <1>8, <1>9 DEF Next, RestKept, PlacesInv

StepOK == [Next]_vars /\ RestKept

\* A message moves: Matching sees nothing of it.
LEMMA MovedStep ==
    ASSUME Ob1Inv, Mapped, NEW s \in Source, NEW k \in Nat,
           OthersStay(s, k), Somewhere(s, k), Somewhere(s, k)', Once(s, k)',
           NetOK', CantOK', PendingOK', HeldOK',
           UNCHANGED << tags, expected, unexpected, specific, wild, reqs >>,
           UNCHANGED << work, comm, draining, last_probed >>
    PROVE  StepOK
<1>1. MatchInv /\ ListsInv /\ PlacesOK /\ LifeInv
    BY DEF Ob1Inv, PlacesInv
<1>2. UNCHANGED vars /\ ListsInv'
    BY <1>1, ListsSame DEF Mapped
<1>3. UNCHANGED << tags, done >>
    BY <1>2 DEF vars
<1>4. PlacesOK'
    BY <1>1, <1>3, MoveOK
<1>5. LifeInv'
    BY <1>1, LifeSame
<1> QED BY <1>2, <1>4, <1>5 DEF StepOK, RestKept, PlacesInv

\* The next message of a source leaves the place it is in and is matched.
LEMMA MatchedStep ==
    ASSUME Ob1Inv, Mapped, NEW s \in Source, NEW k \in Nat, Somewhere(s, k), Seqn(k) = expected[s],
           OthersStay(s, k), ~Somewhere(s, k)', NetOK', CantOK', PendingOK', HeldOK',
           MatchOne(s, k), UNCHANGED << tags, work, comm, draining, last_probed >>
    PROVE  StepOK
<1>1. MatchInv /\ ListsInv /\ PlacesOK /\ LifeInv
    BY DEF Ob1Inv, PlacesInv
<1>2. k = done[s] + 1 /\ k <= Len(tags[s])
    <2>1. k \in done[s] + 1 .. Len(tags[s])
        BY <1>1, PlaceIs
    <2>2. done[s] \in Nat /\ Len(tags[s]) \in Nat
        BY <1>1 DEF MatchInv, TypeOK
    <2> QED BY <1>1, <2>1, <2>2, ExpectedIs
<1>3. Deliver(s) /\ done' = [done EXCEPT ![s] = k] /\ ListsInv' /\ (reqs = << >> => reqs' = << >>)
    BY <1>1, <1>2, MatchOneStep DEF Mapped
<1>4. PlacesOK'
    BY <1>1, <1>2, <1>3, ProcessOK
<1>5. LifeInv'
    BY <1>1, <1>3, LifeMatch
<1> QED BY <1>3, <1>4, <1>5 DEF StepOK, RestKept, PlacesInv, Next

\* The same while the communicator is created.
LEMMA UnexpectedStep ==
    ASSUME Ob1Inv, Mapped, NEW s \in Source, NEW k \in Nat, Somewhere(s, k), Seqn(k) = expected[s],
           OthersStay(s, k), ~Somewhere(s, k)', NetOK', CantOK', PendingOK', HeldOK',
           comm = "adding", PutUnexpected(s, k), UNCHANGED << tags, work, comm, last_probed >>, draining' = s
    PROVE  StepOK
<1>1. MatchInv /\ ListsInv /\ PlacesOK /\ LifeInv
    BY DEF Ob1Inv, PlacesInv
<1>2. k = done[s] + 1 /\ k <= Len(tags[s])
    <2>1. k \in done[s] + 1 .. Len(tags[s])
        BY <1>1, PlaceIs
    <2>2. done[s] \in Nat /\ Len(tags[s]) \in Nat
        BY <1>1 DEF MatchInv, TypeOK
    <2> QED BY <1>1, <2>1, <2>2, ExpectedIs
<1>3. reqs = << >>
    BY <1>1 DEF LifeInv
<1>4. Deliver(s) /\ done' = [done EXCEPT ![s] = k] /\ ListsInv' /\ reqs' = << >>
    BY <1>1, <1>2, <1>3, PutUnexpectedStep DEF Mapped
<1>5. PlacesOK'
    BY <1>1, <1>2, <1>4, ProcessOK
<1>6. LifeInv'
    BY <1>1, <1>4 DEF LifeInv
<1> QED BY <1>4, <1>5, <1>6 DEF StepOK, RestKept, PlacesInv, Next

\* Nothing that the lists or the places hold changes.
LEMMA IdleStep ==
    ASSUME Ob1Inv, Mapped, UNCHANGED << tags, net, pending, listVars >>, HeldOK',
           \A r, j : IsHeld(r, j)' <=> IsHeld(r, j), LifeInv'
    PROVE  StepOK
<1>1. ListsInv /\ NetOK /\ CantOK /\ PendingOK /\ PlacesOK
    BY DEF Ob1Inv, PlacesInv
<1>2. UNCHANGED << tags, net, pending, expected, cant, unexpected, specific, wild, reqs >>
    BY DEF listVars
<1>3. UNCHANGED vars /\ ListsInv'
    BY <1>1, <1>2, ListsSame DEF Mapped
<1>4. NetOK' /\ CantOK' /\ PendingOK' /\ UNCHANGED << tags, done >>
      /\ \A r, j : (IsOnNet(r, j)' <=> IsOnNet(r, j)) /\ (IsCant(r, j)' <=> IsCant(r, j)) /\ (IsPending(r, j)' <=> IsPending(r, j))
    BY <1>1, <1>2, <1>3, NetSame, CantSame, PendingSame DEF vars
<1>5. PlacesOK'
    BY <1>1, <1>4 DEF PlacesOK, Somewhere, Once
<1> QED BY <1>3, <1>4, <1>5 DEF StepOK, RestKept, PlacesInv

\* A message comes before the communicator.
LEMMA ArriveEarlyStep ==
    ASSUME Ob1Inv, Mapped, NEW s \in Source, NEW k \in Nat, ArriveEarly(s, k)
    PROVE  StepOK
<1>1. NetOK /\ CantOK /\ PendingOK /\ HeldOK /\ PlacesOK
    BY DEF Ob1Inv, PlacesInv
<1>2. /\ k \in net[s] /\ net' = [net EXCEPT ![s] = @ \ {k}] /\ pending' = Append(pending, << s, k >>)
      /\ UNCHANGED << work, tags, comm, draining, listVars, last_probed, pc, frag >>
    BY DEF ArriveEarly
<1>3. UNCHANGED << expected, cant, unexpected, specific, wild, reqs >>
    BY <1>2 DEF listVars
<1>4. IsOnNet(s, k) /\ Somewhere(s, k)
    BY <1>2 DEF IsOnNet, Somewhere
<1>5. ~IsPending(s, k) /\ ~IsCant(s, k) /\ ~IsHeld(s, k)
    BY <1>1, <1>4, PlaceIs DEF Once
<1>6. NetOK' /\ \A r \in Source : \A j : IsOnNet(r, j)' <=> IsOnNet(r, j) /\ ~(r = s /\ j = k)
    BY <1>1, <1>2, NetLess
<1>7. PendingOK' /\ \A r, j : IsPending(r, j)' <=> IsPending(r, j) \/ (r = s /\ j = k)
    BY <1>1, <1>2, <1>5, PendingMore
<1>8. CantOK' /\ HeldOK' /\ \A r, j : (IsCant(r, j)' <=> IsCant(r, j)) /\ (IsHeld(r, j)' <=> IsHeld(r, j))
    BY <1>1, <1>2, <1>3, CantSame, ThreadsSame
<1>9. OthersStay(s, k) /\ Somewhere(s, k)' /\ Once(s, k)'
    BY <1>5, <1>6, <1>7, <1>8 DEF OthersStay, Somewhere, Once
<1> QED BY <1>2, <1>3, <1>4, <1>6, <1>7, <1>8, <1>9, MovedStep

\* A callback keeps the message until it has the lock.
LEMMA CallbackHolds ==
    ASSUME Ob1Inv, Mapped, NEW t \in Thread, NEW s \in Source, NEW k \in Nat, pc[t] = "idle", k \in net[s],
           net' = [net EXCEPT ![s] = @ \ {k}], pc' = [pc EXCEPT ![t] = "match"], frag' = [frag EXCEPT ![t] = << s, k >>],
           UNCHANGED << work, tags, commVars, listVars, last_probed >>
    PROVE  StepOK
<1>1. NetOK /\ CantOK /\ PendingOK /\ HeldOK /\ PlacesOK
    BY DEF Ob1Inv, PlacesInv
<1>3. UNCHANGED << expected, cant, unexpected, specific, wild, reqs, work, comm, pending, draining, last_probed >>
    BY DEF listVars, commVars
<1>4. IsOnNet(s, k) /\ Somewhere(s, k)
    BY DEF IsOnNet, Somewhere
<1>5. ~IsPending(s, k) /\ ~IsCant(s, k) /\ ~IsHeld(s, k)
    BY <1>1, <1>4, PlaceIs DEF Once
<1>6. NetOK' /\ \A r \in Source : \A j : IsOnNet(r, j)' <=> IsOnNet(r, j) /\ ~(r = s /\ j = k)
    BY <1>1, NetLess
<1>7. HeldOK' /\ \A r, j : IsHeld(r, j)' <=> IsHeld(r, j) \/ (r = s /\ j = k)
    BY <1>1, <1>5, HeldMore
<1>8. CantOK' /\ PendingOK' /\ \A r, j : (IsCant(r, j)' <=> IsCant(r, j)) /\ (IsPending(r, j)' <=> IsPending(r, j))
    BY <1>1, <1>3, CantSame, PendingSame
<1>9. OthersStay(s, k) /\ Somewhere(s, k)' /\ Once(s, k)'
    BY <1>5, <1>6, <1>7, <1>8 DEF OthersStay, Somewhere, Once
<1> QED BY <1>3, <1>4, <1>6, <1>7, <1>8, <1>9, MovedStep

\* mca_pml_ob1_recv_frag_callback_rndv and _rget hand every message to
\* mca_pml_ob1_recv_frag_match.
LEMMA CallbackRndvStep ==
    ASSUME Ob1Inv, Mapped, NEW t \in Thread, NEW s \in Source, NEW k \in Nat, CallbackRndv(t, s, k)
    PROVE  StepOK
BY CallbackHolds DEF CallbackRndv

\* mca_pml_ob1_recv_frag_callback_match: the fast path is only taken for the expected
\* message with none kept back, so it overtakes nobody.
LEMMA CallbackMatchStep ==
    ASSUME Ob1Inv, Mapped, NEW t \in Thread, NEW s \in Source, NEW k \in Nat, CallbackMatch(t, s, k)
    PROVE  StepOK
<1>1. /\ pc[t] = "idle" /\ k \in net[s] /\ net' = [net EXCEPT ![s] = @ \ {k}]
      /\ UNCHANGED << work, tags, commVars, last_probed >>
    BY DEF CallbackMatch
<1>2. CASE InOrder(s, k)
    <2>1. NetOK /\ CantOK /\ PendingOK /\ HeldOK /\ PlacesOK
        BY DEF Ob1Inv, PlacesInv
    <2>2. MatchOne(s, k) /\ UNCHANGED << cant, pc, frag >> /\ Seqn(k) = expected[s]
        BY <1>2 DEF CallbackMatch, InOrder
    <2>3. UNCHANGED << comm, pending, draining >>
        BY <1>1 DEF commVars
    <2>4. IsOnNet(s, k) /\ Somewhere(s, k)
        BY <1>1 DEF IsOnNet, Somewhere
    <2>5. ~IsPending(s, k) /\ ~IsCant(s, k) /\ ~IsHeld(s, k)
        BY <2>1, <2>4, PlaceIs DEF Once
    <2>6. NetOK' /\ \A r \in Source : \A j : IsOnNet(r, j)' <=> IsOnNet(r, j) /\ ~(r = s /\ j = k)
        BY <1>1, <2>1, NetLess
    <2>7. CantOK' /\ PendingOK' /\ HeldOK'
          /\ \A r, j : (IsCant(r, j)' <=> IsCant(r, j)) /\ (IsPending(r, j)' <=> IsPending(r, j)) /\ (IsHeld(r, j)' <=> IsHeld(r, j))
        BY <2>1, <2>2, <2>3, CantSame, PendingSame, ThreadsSame
    <2>8. OthersStay(s, k) /\ ~Somewhere(s, k)'
        BY <2>5, <2>6, <2>7 DEF OthersStay, Somewhere
    <2> QED BY <1>1, <2>2, <2>3, <2>4, <2>6, <2>7, <2>8, MatchedStep
<1>3. CASE ~InOrder(s, k)
    <2>1. pc' = [pc EXCEPT ![t] = "match"] /\ frag' = [frag EXCEPT ![t] = << s, k >>] /\ UNCHANGED listVars
        BY <1>3 DEF CallbackMatch
    <2> QED BY <1>1, <2>1, CallbackHolds
<1> QED BY <1>2, <1>3
----------------------------------------------------------------------------
\* The steps of the threads, of add_comm and of the requests.

\* A thread that has the lock matches the message it holds, or keeps it back.
LEMMA FragMatchStep ==
    ASSUME Ob1Inv, Mapped, NEW t \in Thread, FragMatch(t)
    PROVE  StepOK
<1>1. NetOK /\ CantOK /\ PendingOK /\ HeldOK /\ PlacesOK
    BY DEF Ob1Inv, PlacesInv
<1>2. PICK s \in Source, k \in Nat : frag[t] = << s, k >> /\ s = frag[t][1] /\ k = frag[t][2]
    <2>1. frag[t] \in Source \X Nat
        BY <1>1 DEF FragMatch, HeldOK
    <2> QED BY <2>1
<1>3. /\ pc[t] = "match" /\ UNCHANGED << work, tags, net, comm, pending, draining, last_probed, frag >>
      /\ \/ Seqn(k) = expected[s] /\ MatchOne(s, k) /\ pc' = [pc EXCEPT ![t] = "check"] /\ UNCHANGED cant
         \/ /\ cant' = [cant EXCEPT ![s] = Append(@, k)]
            /\ pc' = [pc EXCEPT ![t] = "idle"]
            /\ UNCHANGED << expected, unexpected, specific, wild, reqs >>
    BY <1>2 DEF FragMatch, commVars
<1>4. HeldOK' /\ IsHeld(s, k) /\ \A r, j : IsHeld(r, j)' <=> IsHeld(r, j) /\ ~(r = s /\ j = k)
    <2>1. frag[t] = << s, k >> /\ frag' = frag /\ pc[t] = "match"
        BY <1>2, <1>3
    <2>2. pc' = [pc EXCEPT ![t] = "idle"] \/ pc' = [pc EXCEPT ![t] = "check"]
        BY <1>3
    <2> QED BY <1>1, <2>1, <2>2, HeldLess
<1>5. Somewhere(s, k)
    BY <1>4 DEF Somewhere
<1>6. ~IsOnNet(s, k) /\ ~IsPending(s, k) /\ ~IsCant(s, k)
    BY <1>1, <1>4, <1>5, PlaceIs DEF Once
<1>7. NetOK' /\ PendingOK' /\ \A r, j : (IsOnNet(r, j)' <=> IsOnNet(r, j)) /\ (IsPending(r, j)' <=> IsPending(r, j))
    BY <1>1, <1>3, NetSame, PendingSame
<1>8. CASE Seqn(k) = expected[s] /\ MatchOne(s, k) /\ UNCHANGED cant
    <2>1. CantOK' /\ \A r, j : IsCant(r, j)' <=> IsCant(r, j)
        BY <1>1, <1>8, CantSame
    <2>2. OthersStay(s, k) /\ ~Somewhere(s, k)'
        BY <1>4, <1>6, <1>7, <2>1 DEF OthersStay, Somewhere
    <2> QED BY <1>3, <1>4, <1>5, <1>7, <1>8, <2>1, <2>2, MatchedStep
<1>9. CASE cant' = [cant EXCEPT ![s] = Append(@, k)] /\ UNCHANGED << expected, unexpected, specific, wild, reqs >>
    <2>1. CantOK' /\ \A r \in Source : \A j : IsCant(r, j)' <=> IsCant(r, j) \/ (r = s /\ j = k)
        BY <1>1, <1>4, <1>6, <1>9, CantMore
    <2>2. OthersStay(s, k) /\ Somewhere(s, k)' /\ Once(s, k)'
        BY <1>4, <1>6, <1>7, <2>1 DEF OthersStay, Somewhere, Once
    <2> QED BY <1>3, <1>4, <1>5, <1>7, <1>9, <2>1, <2>2, MovedStep
<1> QED BY <1>3, <1>8, <1>9

\* The message that is expected now is taken from those kept back.
LEMMA CantTaken ==
    ASSUME Ob1Inv, NEW s \in Source, NEW p, p = CantMatch(s), p > 0,
           cant' = [cant EXCEPT ![s] = RemoveAt(@, p)], UNCHANGED << net, pending, pc, frag >>,
           NEW k, k = cant[s][p]
    PROVE  /\ k \in Nat /\ Somewhere(s, k) /\ Seqn(k) = expected[s] /\ OthersStay(s, k) /\ ~Somewhere(s, k)'
           /\ NetOK' /\ CantOK' /\ PendingOK' /\ HeldOK'
<1>1. NetOK /\ CantOK /\ PendingOK /\ HeldOK /\ PlacesOK
    BY DEF Ob1Inv, PlacesInv
<1>2. p \in 1 .. Len(cant[s]) /\ Seqn(k) = expected[s]
    BY CantMatchIs
<1>3. k \in Nat
    <2>1. cant[s] \in Seq(Nat)
        BY <1>1 DEF CantOK
    <2> QED BY <1>2, <2>1
<1>4. CantOK' /\ IsCant(s, k) /\ \A r \in Source : \A j : IsCant(r, j)' <=> IsCant(r, j) /\ ~(r = s /\ j = k)
    BY <1>1, <1>2, CantLess
<1>5. Somewhere(s, k)
    BY <1>4 DEF Somewhere
<1>6. ~IsOnNet(s, k) /\ ~IsPending(s, k) /\ ~IsHeld(s, k)
    BY <1>1, <1>3, <1>4, <1>5, PlaceIs DEF Once
<1>7. /\ NetOK' /\ PendingOK' /\ HeldOK'
      /\ \A r, j : (IsOnNet(r, j)' <=> IsOnNet(r, j)) /\ (IsPending(r, j)' <=> IsPending(r, j)) /\ (IsHeld(r, j)' <=> IsHeld(r, j))
    BY <1>1, NetSame, PendingSame, ThreadsSame
<1>8. OthersStay(s, k) /\ ~Somewhere(s, k)'
    BY <1>4, <1>6, <1>7 DEF OthersStay, Somewhere
<1> QED BY <1>2, <1>3, <1>4, <1>5, <1>7, <1>8

\* A thread that has the lock again takes the next message from those kept back, or is done.
LEMMA CheckStep ==
    ASSUME Ob1Inv, Mapped, NEW t \in Thread, CheckCantMatch(t)
    PROVE  StepOK
<1>1. HeldOK /\ LifeInv
    BY DEF Ob1Inv, PlacesInv
<1>3. PICK s \in Source : s = frag[t][1]
    <2>1. frag[t] \in Source \X Nat
        BY <1>1 DEF CheckCantMatch, HeldOK
    <2> QED BY <2>1
<1>6. PICK p : p = CantMatch(s)
    OBVIOUS
<1>2. /\ pc[t] = "check" /\ UNCHANGED << work, tags, net, comm, pending, draining, last_probed, frag >>
      /\ \/ p > 0 /\ MatchOne(s, cant[s][p]) /\ cant' = [cant EXCEPT ![s] = RemoveAt(@, p)] /\ UNCHANGED pc
         \/ pc' = [pc EXCEPT ![t] = "idle"] /\ UNCHANGED listVars
    BY <1>3, <1>6 DEF CheckCantMatch, commVars
<1>4. CASE p > 0 /\ MatchOne(s, cant[s][p]) /\ cant' = [cant EXCEPT ![s] = RemoveAt(@, p)] /\ UNCHANGED pc
    <2>1. PICK k : k = cant[s][p]
        OBVIOUS
    <2>2. /\ k \in Nat /\ Somewhere(s, k) /\ Seqn(k) = expected[s] /\ OthersStay(s, k) /\ ~Somewhere(s, k)'
          /\ NetOK' /\ CantOK' /\ PendingOK' /\ HeldOK'
        BY <1>2, <1>4, <1>6, <2>1, CantTaken
    <2>3. MatchOne(s, k)
        BY <1>4, <2>1
    <2> QED BY <1>2, <2>2, <2>3, MatchedStep
<1>5. CASE pc' = [pc EXCEPT ![t] = "idle"] /\ UNCHANGED listVars
    <2>1. HeldOK' /\ \A r, j : IsHeld(r, j)' <=> IsHeld(r, j)
        BY <1>1, <1>2, <1>5, HeldSame
    <2>2. LifeInv'
        BY <1>1, <1>2, <1>5, LifeSame DEF listVars
    <2> QED BY <1>2, <1>5, <2>1, <2>2, IdleStep
<1> QED BY <1>2, <1>4, <1>5

\* mca_pml_ob1_add_comm.
LEMMA AddCommStep ==
    ASSUME Ob1Inv, Mapped, AddComm \/ AddCommDone
    PROVE  StepOK
<1>1. HeldOK /\ LifeInv /\ UNCHANGED << work, tags, net, pending, draining, listVars, last_probed, pc, frag >>
    BY DEF Ob1Inv, PlacesInv, AddComm, AddCommDone
<1>2. HeldOK' /\ \A r, j : IsHeld(r, j)' <=> IsHeld(r, j)
    BY <1>1, ThreadsSame
<1>3. /\ comm' \in {"adding", "ready"} /\ (comm' # "ready" => comm # "ready") /\ (draining # -1 => comm' = "adding")
    BY <1>1 DEF AddComm, AddCommDone, LifeInv
<1>4. LifeInv'
    BY <1>1, <1>3 DEF LifeInv, listVars
<1> QED BY <1>1, <1>2, <1>4, IdleStep

\* A message that came too early becomes unexpected or is kept back.
LEMMA AddPendingStep ==
    ASSUME Ob1Inv, Mapped, AddPending
    PROVE  StepOK
<1>1. NetOK /\ CantOK /\ PendingOK /\ HeldOK /\ PlacesOK
    BY DEF Ob1Inv, PlacesInv
<1>3. PICK s, k : s = Head(pending)[1] /\ k = Head(pending)[2]
    OBVIOUS
<1>2. /\ comm = "adding" /\ pending # << >> /\ pending' = Tail(pending)
      /\ UNCHANGED << work, tags, net, comm, last_probed, pc, frag >>
      /\ \/ Seqn(k) = expected[s] /\ PutUnexpected(s, k) /\ draining' = s /\ UNCHANGED cant
         \/ /\ cant' = [cant EXCEPT ![s] = Append(@, k)]
            /\ UNCHANGED << draining, expected, unexpected, specific, wild, reqs >>
    BY <1>3 DEF AddPending
<1>4. /\ PendingOK' /\ s \in Source /\ k \in Nat /\ IsPending(s, k)
      /\ \A r, j : IsPending(r, j)' <=> IsPending(r, j) /\ ~(r = s /\ j = k)
    BY <1>1, <1>2, <1>3, PendingLess
<1>5. Somewhere(s, k)
    BY <1>4 DEF Somewhere
<1>6. ~IsOnNet(s, k) /\ ~IsHeld(s, k) /\ ~IsCant(s, k)
    BY <1>1, <1>4, <1>5, PlaceIs DEF Once
<1>7. NetOK' /\ HeldOK' /\ \A r, j : (IsOnNet(r, j)' <=> IsOnNet(r, j)) /\ (IsHeld(r, j)' <=> IsHeld(r, j))
    BY <1>1, <1>2, NetSame, ThreadsSame
<1>8. CASE Seqn(k) = expected[s] /\ PutUnexpected(s, k) /\ draining' = s /\ UNCHANGED cant
    <2>1. CantOK' /\ \A r, j : IsCant(r, j)' <=> IsCant(r, j)
        BY <1>1, <1>8, CantSame
    <2>2. OthersStay(s, k) /\ ~Somewhere(s, k)'
        BY <1>4, <1>6, <1>7, <2>1 DEF OthersStay, Somewhere
    <2> QED BY <1>2, <1>4, <1>5, <1>7, <1>8, <2>1, <2>2, UnexpectedStep
<1>9. CASE cant' = [cant EXCEPT ![s] = Append(@, k)] /\ UNCHANGED << draining, expected, unexpected, specific, wild, reqs >>
    <2>1. CantOK' /\ \A r \in Source : \A j : IsCant(r, j)' <=> IsCant(r, j) \/ (r = s /\ j = k)
        BY <1>1, <1>4, <1>6, <1>9, CantMore
    <2>2. OthersStay(s, k) /\ Somewhere(s, k)' /\ Once(s, k)'
        BY <1>4, <1>6, <1>7, <2>1 DEF OthersStay, Somewhere, Once
    <2> QED BY <1>2, <1>4, <1>5, <1>7, <1>9, <2>1, <2>2, MovedStep
<1> QED BY <1>2, <1>8, <1>9

\* Those kept back become unexpected while the next one is among them.
LEMMA AddCantMatchStep ==
    ASSUME Ob1Inv, Mapped, AddCantMatch
    PROVE  StepOK
<1>1. HeldOK /\ LifeInv
    BY DEF Ob1Inv, PlacesInv
<1>3. PICK s \in Source : s = draining
    BY <1>1 DEF LifeInv, AddCantMatch
<1>6. PICK p : p = CantMatch(s)
    OBVIOUS
<1>2. /\ draining # -1 /\ comm = "adding" /\ UNCHANGED << work, tags, net, comm, pending, last_probed, pc, frag >>
      /\ \/ p > 0 /\ PutUnexpected(s, cant[s][p]) /\ cant' = [cant EXCEPT ![s] = RemoveAt(@, p)] /\ UNCHANGED draining
         \/ draining' = -1 /\ UNCHANGED listVars
    BY <1>1, <1>3, <1>6 DEF AddCantMatch, LifeInv
<1>4. CASE p > 0 /\ PutUnexpected(s, cant[s][p]) /\ cant' = [cant EXCEPT ![s] = RemoveAt(@, p)] /\ UNCHANGED draining
    <2>1. PICK k : k = cant[s][p]
        OBVIOUS
    <2>2. /\ k \in Nat /\ Somewhere(s, k) /\ Seqn(k) = expected[s] /\ OthersStay(s, k) /\ ~Somewhere(s, k)'
          /\ NetOK' /\ CantOK' /\ PendingOK' /\ HeldOK'
        BY <1>2, <1>4, <1>6, <2>1, CantTaken
    <2>3. PutUnexpected(s, k) /\ draining' = s
        BY <1>3, <1>4, <2>1
    <2> QED BY <1>2, <1>3, <2>2, <2>3, UnexpectedStep
<1>5. CASE draining' = -1 /\ UNCHANGED listVars
    <2>1. HeldOK' /\ \A r, j : IsHeld(r, j)' <=> IsHeld(r, j)
        BY <1>1, <1>2, ThreadsSame
    <2>2. LifeInv'
        BY <1>1, <1>2, <1>5 DEF LifeInv, listVars
    <2> QED BY <1>2, <1>5, <2>1, <2>2, IdleStep
<1> QED BY <1>2, <1>4, <1>5

\* The types of what the sources sent and of what took effect.
LEMMA SentIs ==
    ASSUME MatchInv
    PROVE  /\ tags \in [Source -> Seq(Tag)] /\ done \in [Source -> Nat]
           /\ \A s \in Source : done[s] \in Nat /\ Len(tags[s]) \in Nat /\ done[s] <= Len(tags[s])
<1>1. tags \in [Source -> Seq(Tag)] /\ done \in [Source -> Nat] /\ \A s \in Source : done[s] <= Len(tags[s])
    BY DEF MatchInv, TypeOK
<1>2. ASSUME NEW s \in Source PROVE done[s] \in Nat /\ Len(tags[s]) \in Nat
    <2>1. tags[s] \in Seq(Tag)
        BY <1>1
    <2> QED BY <1>1, <2>1
<1> QED BY <1>1, <1>2

\* mca_pml_ob1_recv_req_start.
LEMMA RecvReqStartStep ==
    ASSUME Ob1Inv, Mapped, NEW r \in work.requests, RecvReqStart(r[1], r[2], r[3])
    PROVE  StepOK
<1>1. /\ MatchInv /\ ListsInv /\ LifeInv
      /\ NetOK /\ CantOK /\ PendingOK /\ HeldOK /\ PlacesOK
    BY DEF Ob1Inv, PlacesInv
<1>2. comm = "ready" /\ UNCHANGED << work, tags, net, commVars, expected, cant, pc, frag >>
    BY DEF RecvReqStart
<1>3. UNCHANGED << work, tags, net, comm, pending, draining, cant, pc, frag >>
    BY <1>2 DEF commVars
<1>4. r \in Requests /\ \A s \in Source : Len(tags[s]) <= MaxSent
    <2>1. work.sends \in [Source -> 0 .. MaxSent] /\ work.requests \subseteq Requests
        BY <1>1, Ob1MatchAssumption DEF LifeInv
    <2>2. \A s \in Source : /\ work.sends[s] \in Nat /\ work.sends[s] <= MaxSent
                            /\ Len(tags[s]) \in Nat /\ Len(tags[s]) <= work.sends[s]
        <3>1. \A s \in Source : work.sends[s] \in 0 .. MaxSent
            BY <2>1
        <3>2. \A s \in Source : Len(tags[s]) <= work.sends[s]
            BY <1>1 DEF LifeInv
        <3>3. \A s \in Source : Len(tags[s]) \in Nat
            BY <1>1, SentIs
        <3>4. MaxSent \in Nat
            BY MatchingAssumption
        <3>5. ASSUME NEW s \in Source PROVE work.sends[s] \in Nat /\ work.sends[s] <= MaxSent
            <4>1. work.sends[s] \in 0 .. MaxSent
                BY <3>1
            <4> QED BY <3>4, <4>1
        <3> QED BY <3>2, <3>3, <3>5
    <2>3. MaxSent \in Nat
        BY MatchingAssumption
    <2> QED BY <2>1, <2>2, <2>3
<1>5. Start(r) /\ done' = done /\ ListsInv' /\ last_probed' \in Source
    BY <1>1, <1>4, RecvStep DEF LifeInv, Mapped
<1>6. NetOK' /\ CantOK' /\ PendingOK' /\ HeldOK'
      /\ \A s, k : /\ IsOnNet(s, k)' <=> IsOnNet(s, k)
                   /\ IsCant(s, k)' <=> IsCant(s, k)
                   /\ IsPending(s, k)' <=> IsPending(s, k)
                   /\ IsHeld(s, k)' <=> IsHeld(s, k)
    BY <1>1, <1>3, NetSame, CantSame, PendingSame, ThreadsSame
<1>7. PlacesOK'
    BY <1>1, <1>3, <1>5, <1>6 DEF PlacesOK, Somewhere, Once
<1>8. LifeInv'
    BY <1>1, <1>2, <1>3, <1>5 DEF LifeInv
<1> QED BY <1>4, <1>5, <1>6, <1>7, <1>8 DEF StepOK, RestKept, PlacesInv, Next
----------------------------------------------------------------------------
\* The refinement.

\* Nothing was sent, received or started.
LEMMA Ob1InitInv == Ob1Init => Init /\ Ob1Inv
<1> SUFFICES ASSUME Ob1Init PROVE Init /\ Ob1Inv
    OBVIOUS
<1>1. Range(<< >>) = {} /\ << >> \in Seq(Nat) /\ << >> \in Seq(Source \X Nat) /\ << >> \in Seq(Tag) /\ Len(<< >>) = 0 /\ DOMAIN << >> = {}
    BY DEF Range
<1>2. Init
    <2>1. done = [s \in Source |-> 0]
        <3>1. \A s \in Source : {k \in DOMAIN tags[s] : Processed(s, k)} = {}
            BY <1>1 DEF Ob1Init
        <3>2. Cardinality({}) = 0
            BY FS_EmptySet
        <3> QED BY <3>1, <3>2 DEF Ob1Init, Done
    <2>2. unexp = [s \in Source |-> {}]
        BY <1>1 DEF Ob1Init, Unexp
    <2>3. posted = {}
        BY <1>1 DEF Ob1Init, Posted
    <2> QED BY <2>1, <2>2, <2>3 DEF Ob1Init, Init
<1>3. MatchInv
    BY <1>2, InitInv
<1>4. SeqWrap \in Nat \ {0, 1} /\ 1 % SeqWrap = 1
    <2>1. SeqWrap \in Nat \ {0, 1}
        BY Ob1MatchAssumption
    <2> QED BY <2>1
<1>5. ListsInv
    <2>1. ListTypes
        BY <1>1, <1>4 DEF Ob1Init, ListTypes
    <2>2. NumbersOK
        <3>1. \A s \in Source : expected[s] = 1 /\ done[s] = 0 /\ Len(tags[s]) = 0
            <4>1. done = [s \in Source |-> 0] /\ tags = [s \in Source |-> << >>]
                BY <1>2 DEF Init
            <4>2. expected = [s \in Source |-> 1]
                BY DEF Ob1Init
            <4> QED BY <1>1, <4>1, <4>2
        <3>2. Seqn(0 + 1) = 1 /\ 0 <= 0 + SeqWrap
            BY <1>4 DEF Seqn
        <3> QED BY <3>1, <3>2 DEF NumbersOK
    <2>3. SortedOK /\ QueuesOK
        BY <1>1 DEF Ob1Init, SortedOK, Ascending, QueuesOK
    <2> QED BY <2>1, <2>2, <2>3 DEF Ob1Init, ListsInv, MapOK
<1>6. PlacesInv
    <2>1. NetOK /\ CantOK /\ PendingOK /\ HeldOK
        <3>1. IsInjective(<< >>)
            BY <1>1 DEF IsInjective
        <3>2. NetOK /\ CantOK /\ PendingOK
            BY <1>1, <3>1 DEF Ob1Init, NetOK, CantOK, PendingOK
        <3>3. HeldOK
            BY DEF Ob1Init, HeldOK
        <3> QED BY <3>2, <3>3
    <2>2. \A s \in Source, k \in Nat : ~IsOnNet(s, k) /\ ~IsCant(s, k) /\ ~IsPending(s, k) /\ ~IsHeld(s, k)
        BY <1>1 DEF Ob1Init, IsOnNet, IsCant, IsPending, IsHeld
    <2>3. \A s \in Source, k \in Nat : k \notin done[s] + 1 .. Len(tags[s])
        BY <1>1, <1>2 DEF Init
    <2> QED BY <2>1, <2>2, <2>3 DEF PlacesInv, PlacesOK, Somewhere, Once
<1>7. LifeInv
    <2>1. work \in Workloads /\ \A s \in Source : work.sends[s] \in Nat
        <3>1. work \in Workloads
            BY DEF Ob1Init
        <3>2. work.sends \in [Source -> 0 .. MaxSent]
            BY <3>1, Ob1MatchAssumption
        <3> QED BY <3>1, <3>2
    <2>2. 0 \in Source
        BY Ob1MatchAssumption
    <2> QED BY <1>1, <2>1, <2>2 DEF Ob1Init, LifeInv
<1> QED BY <1>2, <1>3, <1>5, <1>6, <1>7 DEF Ob1Inv

\* Every step of ob1 is a step of Matching or changes nothing that Matching sees.
LEMMA Ob1Step == Ob1Inv /\ [Ob1Next]_<< ob1Vars, vars >> => [Next]_vars /\ Ob1Inv'
<1> SUFFICES ASSUME Ob1Inv, [Ob1Next]_<< ob1Vars, vars >> PROVE [Next]_vars /\ Ob1Inv'
    OBVIOUS
<1>1. ASSUME StepOK PROVE [Next]_vars /\ Ob1Inv'
    BY <1>1, InvPreserved DEF StepOK, RestKept, Ob1Inv
<1>2. CASE UNCHANGED << ob1Vars, vars >>
    <2>1. UNCHANGED << work, tags, net, comm, pending, draining, listVars, last_probed, pc, frag, done, unexp, posted, reqs >>
        BY <1>2 DEF ob1Vars, commVars, vars
    <2>2. MapOK' <=> MapOK
        BY <2>1 DEF MapOK, Done, Unexp, Posted, Processed, listVars
    <2>3. Mapped /\ HeldOK /\ LifeInv
        BY <2>2 DEF Mapped, MapOK, Ob1Inv, ListsInv, PlacesInv
    <2>4. LifeInv' /\ HeldOK' /\ \A r, j : IsHeld(r, j)' <=> IsHeld(r, j)
        BY <2>1, <2>3, LifeSame, ThreadsSame
    <2> QED BY <1>1, <2>1, <2>3, <2>4, IdleStep
<1>3. CASE Ob1Next
    <2>1. Step /\ Mapped
        BY <1>3 DEF Ob1Next, Mapped
    <2>2. ASSUME NEW s \in Source, NEW t \in Tag, Isend(s, t) PROVE StepOK
        BY <2>1, <2>2, IsendStep DEF StepOK
    <2>3. ASSUME NEW s \in Source, NEW k \in 1 .. MaxSent, Arrive(s, k) PROVE StepOK
        <3>1. k \in Nat
            OBVIOUS
        <3> QED BY <2>1, <2>3, <3>1, ArriveEarlyStep, CallbackMatchStep, CallbackRndvStep DEF Arrive
    <2>4. ASSUME NEW t \in Thread, FragMatch(t) \/ CheckCantMatch(t) PROVE StepOK
        BY <2>1, <2>4, FragMatchStep, CheckStep
    <2>5. ASSUME Add PROVE StepOK
        BY <2>1, <2>5, AddCommStep, AddPendingStep, AddCantMatchStep DEF Add
    <2>6. ASSUME NEW r \in work.requests, RecvReqStart(r[1], r[2], r[3]) PROVE StepOK
        BY <2>1, <2>6, RecvReqStartStep
    <2>7. StepOK
        BY <2>1, <2>2, <2>3, <2>4, <2>5, <2>6 DEF Step
    <2> QED BY <1>1, <2>7
<1> QED BY <1>2, <1>3

\* The invariant holds in every state of ob1.
LEMMA Ob1Always == Ob1Spec => []Ob1Inv
<1>1. Ob1Init => Ob1Inv
    BY Ob1InitInv
<1>2. Ob1Inv /\ [Ob1Next]_<< ob1Vars, vars >> => Ob1Inv'
    BY Ob1Step
<1> QED BY <1>1, <1>2, PTL DEF Ob1Spec

\* Whatever the order of arrival, the interleaving of the threads between two holds of the
\* matching lock and the moment the communicator is created, every step of ob1 is a step of
\* Matching or changes nothing it sees (pml_ob1_recvfrag.c, pml_ob1_recvreq.c, pml_ob1.c).
THEOREM Ob1Implements == Ob1Spec => ImplementsMatching
<1>1. Ob1Init => Init
    BY Ob1InitInv
<1>2. Ob1Inv /\ [Ob1Next]_<< ob1Vars, vars >> => [Next]_vars
    BY Ob1Step
<1> QED BY <1>1, <1>2, Ob1Always, PTL DEF Ob1Spec, ImplementsMatching, Spec

\* The network and the lists hold messages that were sent and requests that were started,
\* for any number of threads and networks and any width of the sequence number.
THEOREM Ob1TypeCorrect == Ob1Spec => []Ob1TypeOK
<1>1. Ob1Inv => Ob1TypeOK
    <2> SUFFICES ASSUME Ob1Inv PROVE Ob1TypeOK
        OBVIOUS
    <2>1. MatchInv /\ ListsInv /\ PlacesOK /\ LifeInv /\ NetOK /\ CantOK /\ HeldOK /\ ListTypes
        BY DEF Ob1Inv, PlacesInv, ListsInv
    <2>2. \A s \in Source : done[s] \in Nat /\ Len(tags[s]) \in Nat /\ done[s] <= Len(tags[s])
        BY <2>1, SentIs
    <2>3. ASSUME NEW s \in Source
          PROVE  /\ net[s] \subseteq 1 .. Len(tags[s])
                 /\ Range(cant[s]) \subseteq 1 .. Len(tags[s])
                 /\ Range(unexpected[s]) \subseteq 1 .. Len(tags[s])
                 /\ Range(specific[s]) \subseteq DOMAIN reqs
        <3>1. ASSUME NEW k \in Nat, Somewhere(s, k) PROVE k \in 1 .. Len(tags[s])
            <4>1. k \in done[s] + 1 .. Len(tags[s])
                BY <2>1, <3>1, PlaceIs
            <4> QED BY <2>2, <4>1
        <3>2. net[s] \subseteq Nat /\ cant[s] \in Seq(Nat)
            BY <2>1 DEF NetOK, CantOK
        <3>3. Range(cant[s]) \subseteq Nat
            BY <3>2 DEF Range
        <3>4. net[s] \subseteq 1 .. Len(tags[s]) /\ Range(cant[s]) \subseteq 1 .. Len(tags[s])
            BY <3>1, <3>2, <3>3 DEF Somewhere, IsOnNet, IsCant
        <3>5. Range(unexpected[s]) \subseteq 1 .. Len(tags[s])
            <4>1. \A k \in Range(unexpected[s]) : k \in 1 .. done[s]
                BY <2>1, MapIs
            <4> QED BY <2>2, <4>1
        <3>6. Range(specific[s]) \subseteq DOMAIN reqs
            BY <2>1, MapIs
        <3> QED BY <3>4, <3>5, <3>6
    <2>4. Range(wild) \subseteq DOMAIN reqs
        BY <2>1, MapIs
    <2> QED BY <2>1, <2>3, <2>4 DEF Ob1TypeOK, LifeInv, HeldOK, ListTypes
<1> QED BY <1>1, Ob1Always, PTL

\* The messages of a source are received in the order in which they were sent, and the
\* receives are served in the order in which they were posted.
THEOREM Ob1DoesNotOvertake == Ob1Spec => [](NonOvertaking /\ ReceivesInOrder)
<1>1. Ob1Inv => NonOvertaking /\ ReceivesInOrder
    BY DEF Ob1Inv, MatchInv
<1> QED BY <1>1, Ob1Always, PTL

\* A message is taken by one receive at most and is not lost, and no receive waits for a
\* message that is among the unexpected ones.
THEOREM Ob1ExactlyOnce == Ob1Spec => [](TakenExactlyOnce /\ NoMissedMatch)
<1>1. Ob1Inv => TakenExactlyOnce /\ NoMissedMatch
    BY DEF Ob1Inv, MatchInv, TakenExactlyOnce
<1> QED BY <1>1, Ob1Always, PTL
=============================================================================
