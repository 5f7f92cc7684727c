----------------------- MODULE DeviceExplorationProofs -----------------------
(***************************************************************************)
(* What the three passes of XCLFrame_init leave in the arrays of devices,   *)
(* for every number of platforms and devices and every value of the         *)
(* uninitialised counts.                                                    *)
(***************************************************************************)
EXTENDS DeviceExploration, FiniteSetTheorems, TLAPS

\* The devices of type t of the platforms P that a pass at device q of platform
\* p has left behind, and all of them.
Places(P) == UNION {{p} \X DOMAIN P[p] : p \in DOMAIN P}
Vis(P, p, q, t) ==
    {d \in Places(P) : (d[1] < p \/ (d[1] = p /\ d[2] < q)) /\ P[d[1]][d[2]] = t}
Full(P, t) == Vis(P, Len(P) + 1, 0, t)

\* The sequence a lists the set S of devices in the order of the platforms.
Lists(a, S) ==
    /\ a \in Seq(S)
    /\ \A k, m \in 1 .. Len(a) : k < m => Before(a[k], a[m])
    /\ \A d \in S : \E k \in 1 .. Len(a) : a[k] = d
    /\ IsFiniteSet(S) /\ Len(a) = Cardinality(S)

\* What deviceExploration has put in cx.devices.
Seen == IF pass = "count" THEN (IF j > 0 THEN i ELSE i - 1) ELSE Len(plats)
Stored(P, p, D) ==
    IF P[p] # << >> THEN D = [k \in 1 .. Len(P[p]) |-> << p, k >>]
    ELSE \A k \in 1 .. Len(D) : D[k] = Junk
StoreOK ==
    /\ devices \in Seq(Seq(Nat \X Nat)) /\ Len(devices) = Seen
    /\ \A p \in 1 .. Len(devices) : Stored(plats, p, devices[p])

\* A pass is inside a platform only with the count of that platform, if it has any.
LoopOK ==
    j > 0 => /\ i <= Len(plats) /\ pass # "done"
             /\ (plats[i] # << >> => deviceCount = Len(plats[i]))

\* What each pass has done so far.
CountOK ==
    \A t \in Counted :
        /\ IsFiniteSet(Vis(plats, i, j, t)) /\ num[t] = Cardinality(Vis(plats, i, j, t))
        /\ array[t] = << >>
InitOK ==
    \A t \in Counted :
        /\ IsFiniteSet(Full(plats, t)) /\ num[t] = Cardinality(Full(plats, t))
        /\ Lists(array[t], Vis(plats, i, j, t))
FilledOK ==
    \A t \in Counted :
        num[t] = Cardinality(Full(plats, t)) /\ Lists(array[t], Full(plats, t))

RunOK ==
    /\ StoreOK /\ LoopOK
    /\ pass = "count" => CountOK
    /\ pass = "init" => InitOK
    /\ pass \in {"print", "done"} => FilledOK

DevInv ==
    /\ TypeOK
    /\ status = "ok" => RunOK
    /\ status = "wild" => \E p \in DOMAIN plats : plats[p] = << >>
----------------------------------------------------------------------------
\* Membership in Vis, without the union that defines it.
LEMMA VisMember ==
    ASSUME NEW P \in Seq(Seq(Type)), NEW p \in Int, NEW q \in Int, NEW t, NEW d
    PROVE  d \in Vis(P, p, q, t) <=>
               \E m \in 1 .. Len(P) : \E n \in 1 .. Len(P[m]) :
                   d = << m, n >> /\ (m < p \/ (m = p /\ n < q)) /\ P[m][n] = t
<1>1. \A m \in 1 .. Len(P) : DOMAIN P[m] = 1 .. Len(P[m])
  OBVIOUS
<1>2. d \in Places(P) <=> \E m \in 1 .. Len(P) : \E n \in 1 .. Len(P[m]) : d = << m, n >>
  <2>1. DOMAIN P = 1 .. Len(P)
    OBVIOUS
  <2>2. d \in Places(P) <=> \E m \in DOMAIN P : d \in {m} \X DOMAIN P[m]
    BY DEF Places
  <2>3. \A m : d \in {m} \X DOMAIN P[m] <=> \E n \in DOMAIN P[m] : d = << m, n >>
    OBVIOUS
  <2> QED
    BY <1>1, <2>1, <2>2, <2>3
<1>3. \A m, n : d = << m, n >> => d[1] = m /\ d[2] = n
  OBVIOUS
<1> QED
  BY <1>2, <1>3, Zenon DEF Vis

\* Nothing has been visited before the first platform.
LEMMA VisStart ==
    ASSUME NEW P \in Seq(Seq(Type)), NEW t
    PROVE  Vis(P, 1, 0, t) = {}
<1>1. \A d : d \notin Vis(P, 1, 0, t)
  BY VisMember
<1> QED
  BY <1>1

\* Visiting a device adds it to the devices of its type and to no others.
LEMMA VisMore ==
    ASSUME NEW P \in Seq(Seq(Type)), NEW t, NEW p \in 1 .. Len(P), NEW q \in 1 .. Len(P[p])
    PROVE  /\ << p, q >> \notin Vis(P, p, q, t)
           /\ Vis(P, p, q + 1, t) =
                 IF P[p][q] = t THEN Vis(P, p, q, t) \cup {<< p, q >>} ELSE Vis(P, p, q, t)
<1> p \in Int /\ q \in Int /\ q + 1 \in Int
  OBVIOUS
<1>1. << p, q >> \notin Vis(P, p, q, t)
  BY VisMember
<1>2. ASSUME NEW m \in 1 .. Len(P), NEW n \in 1 .. Len(P[m])
      PROVE  (m < p \/ (m = p /\ n < q + 1)) <=> ((m < p \/ (m = p /\ n < q)) \/ << m, n >> = << p, q >>)
  <2>1. << m, n >> = << p, q >> <=> m = p /\ n = q
    OBVIOUS
  <2>2. m \in Int /\ n \in Int
    OBVIOUS
  <2> QED
    BY <2>1, <2>2
<1>3. ASSUME NEW d
      PROVE  d \in Vis(P, p, q + 1, t) <=>
                 d \in Vis(P, p, q, t) \/ (d = << p, q >> /\ P[p][q] = t)
  <2>1. d \in Vis(P, p, q + 1, t) <=>
               \E m \in 1 .. Len(P) : \E n \in 1 .. Len(P[m]) :
                   d = << m, n >> /\ (m < p \/ (m = p /\ n < q + 1)) /\ P[m][n] = t
    BY VisMember, SMTT(30)
  <2>2. d \in Vis(P, p, q, t) <=>
               \E m \in 1 .. Len(P) : \E n \in 1 .. Len(P[m]) :
                   d = << m, n >> /\ (m < p \/ (m = p /\ n < q)) /\ P[m][n] = t
    BY VisMember
  <2>3. \A m, n : << m, n >> = << p, q >> => m = p /\ n = q
    OBVIOUS
  <2> QED
    BY <1>2, <2>1, <2>2, <2>3, Zenon
<1> QED
  BY <1>1, <1>3

\* Two places in a pass with the same devices behind them.
LEMMA VisSame ==
    ASSUME NEW P \in Seq(Seq(Type)), NEW t,
           NEW p \in Int, NEW q \in Int, NEW r \in Int, NEW s \in Int,
           \A m \in 1 .. Len(P) : \A n \in 1 .. Len(P[m]) :
               (m < r \/ (m = r /\ n < s)) <=> (m < p \/ (m = p /\ n < q))
    PROVE  Vis(P, r, s, t) = Vis(P, p, q, t)
<1>1. ASSUME NEW d
      PROVE  d \in Vis(P, r, s, t) <=> d \in Vis(P, p, q, t)
  <2>1. d \in Vis(P, r, s, t) <=>
               \E m \in 1 .. Len(P) : \E n \in 1 .. Len(P[m]) :
                   d = << m, n >> /\ (m < r \/ (m = r /\ n < s)) /\ P[m][n] = t
    BY VisMember
  <2>2. d \in Vis(P, p, q, t) <=>
               \E m \in 1 .. Len(P) : \E n \in 1 .. Len(P[m]) :
                   d = << m, n >> /\ (m < p \/ (m = p /\ n < q)) /\ P[m][n] = t
    BY VisMember
  <2> QED
    BY <2>1, <2>2, Zenon
<1> QED
  BY <1>1

\* Behind the last device of a platform lies the next platform.
LEMMA VisPlatform ==
    ASSUME NEW P \in Seq(Seq(Type)), NEW t, NEW p \in 1 .. Len(P)
    PROVE  Vis(P, p + 1, 0, t) = Vis(P, p, Len(P[p]) + 1, t)
<1>1. ASSUME NEW m \in 1 .. Len(P), NEW n \in 1 .. Len(P[m])
      PROVE  (m < p + 1 \/ (m = p + 1 /\ n < 0)) <=> (m < p \/ (m = p /\ n < Len(P[p]) + 1))
  <2>1. Len(P[m]) \in Nat /\ Len(P[p]) \in Nat
    OBVIOUS
  <2>2. CASE m = p
    BY <2>1, <2>2
  <2>3. CASE m # p
    BY <2>1, <2>3
  <2> QED
    BY <2>2, <2>3
<1>2. p \in Int /\ p + 1 \in Int /\ 0 \in Int /\ Len(P[p]) + 1 \in Int
  OBVIOUS
<1> QED
  BY <1>1, <1>2, VisSame, SMTT(30)

\* A platform without devices adds nothing, however long the pass stays there.
LEMMA VisSkip ==
    ASSUME NEW P \in Seq(Seq(Type)), NEW t,
           NEW p \in 1 .. Len(P), P[p] = << >>, NEW q \in Int, NEW r \in Int, NEW s \in Int,
           r = p \/ (r = p + 1 /\ s = 0)
    PROVE  Vis(P, r, s, t) = Vis(P, p, q, t)
<1>1. ASSUME NEW m \in 1 .. Len(P), NEW n \in 1 .. Len(P[m])
      PROVE  (m < r \/ (m = r /\ n < s)) <=> (m < p \/ (m = p /\ n < q))
  <2>1. m # p
    OBVIOUS
  <2>2. n \in Nat /\ n > 0
    OBVIOUS
  <2> QED
    BY <2>1, <2>2
<1>2. p \in Int
  OBVIOUS
<1>3. \A u, v \in Int :
          (\A m \in 1 .. Len(P) : \A n \in 1 .. Len(P[m]) :
               (m < u \/ (m = u /\ n < v)) <=> (m < p \/ (m = p /\ n < q)))
          => Vis(P, u, v, t) = Vis(P, p, q, t)
  BY <1>2, VisSame
<1> QED
  BY <1>1, <1>3, Zenon

\* The first device of a platform is reached without visiting any.
LEMMA VisEnter ==
    ASSUME NEW P \in Seq(Seq(Type)), NEW t, NEW p \in 1 .. Len(P)
    PROVE  Vis(P, p, 1, t) = Vis(P, p, 0, t)
<1>1. ASSUME NEW m \in 1 .. Len(P), NEW n \in 1 .. Len(P[m])
      PROVE  (m < p \/ (m = p /\ n < 1)) <=> (m < p \/ (m = p /\ n < 0))
  OBVIOUS
<1>2. p \in Int /\ 0 \in Int /\ 1 \in Int
  OBVIOUS
<1> QED
  BY <1>1, <1>2, VisSame

\* What has been visited is part of the whole.
LEMMA VisFull ==
    ASSUME NEW P \in Seq(Seq(Type)), NEW t, NEW p \in 1 .. Len(P) + 1, NEW q \in Int
    PROVE  Vis(P, p, q, t) \subseteq Full(P, t)
<1> p \in Int /\ Len(P) + 1 \in Int
  OBVIOUS
<1>1. ASSUME NEW d \in Vis(P, p, q, t)
      PROVE  d \in Vis(P, Len(P) + 1, 0, t)
  BY <1>1, VisMember
<1> QED
  BY <1>1 DEF Full

\* The whole is what DevicesFound calls the devices of type t.
LEMMA FullIs ==
    ASSUME NEW t, plats \in Seq(Seq(Type))
    PROVE  OfType(t) = Full(plats, t)
<1>1. ASSUME NEW d \in Places(plats)
      PROVE  d[1] < Len(plats) + 1
  BY DOMAIN plats = 1 .. Len(plats) DEF Places
<1> QED
  BY <1>1 DEF OfType, Full, Vis, TypeOf, Places

\* A device that comes after all the listed ones may be appended to the list.
LEMMA ListMore ==
    ASSUME NEW a, NEW S, NEW d, Lists(a, S), d \notin S, \A c \in S : Before(c, d)
    PROVE  Lists(Append(a, d), S \cup {d})
<1> DEFINE b == Append(a, d)
<1>1. Len(a) \in Nat /\ Len(b) = Len(a) + 1 /\ b \in Seq(S \cup {d})
      /\ b[Len(a) + 1] = d /\ \A k \in 1 .. Len(a) : b[k] = a[k] /\ a[k] \in S
  BY DEF Lists
<1> HIDE DEF b
<1>2. ASSUME NEW k \in 1 .. Len(b), NEW m \in 1 .. Len(b), k < m
      PROVE  Before(b[k], b[m])
  <2>1. k \in 1 .. Len(a)
    BY <1>1, <1>2
  <2>2. CASE m = Len(a) + 1
    BY <1>1, <2>1, <2>2
  <2>3. CASE m # Len(a) + 1
    <3>1. m \in 1 .. Len(a)
      BY <1>1, <2>3
    <3> QED
      BY <1>1, <1>2, <2>1, <3>1 DEF Lists
  <2> QED
    BY <2>2, <2>3
<1>3. ASSUME NEW c \in S \cup {d}
      PROVE  \E k \in 1 .. Len(b) : b[k] = c
  <2>1. CASE c = d
    BY <1>1, <2>1
  <2>2. CASE c \in S
    <3>1. PICK k \in 1 .. Len(a) : a[k] = c
      BY <2>2 DEF Lists
    <3>2. k \in 1 .. Len(b)
      BY <1>1
    <3> QED
      BY <1>1, <3>1, <3>2
  <2> QED
    BY <2>1, <2>2
<1>4. IsFiniteSet(S \cup {d}) /\ Cardinality(S \cup {d}) = Cardinality(S) + 1
  BY FS_AddElement DEF Lists
<1>5. Len(b) = Cardinality(S \cup {d})
  BY <1>1, <1>4 DEF Lists
<1> QED
  BY <1>1, <1>2, <1>3, <1>4, <1>5 DEF Lists, b
----------------------------------------------------------------------------
\* What a pass that is at a device knows: on a platform that answers, it is at one
\* of its devices; on one that does not, whatever it finds is not a device.
LEMMA AtADevice ==
    ASSUME DevInv, AtDevice
    PROVE  /\ plats \in Seq(Seq(Type)) /\ status = "ok" /\ RunOK /\ pass # "done"
           /\ i \in 1 .. Len(plats) /\ j \in 1 .. deviceCount /\ deviceCount \in Nat
           /\ plats[i] # << >> => /\ IsDevice /\ devices[i][j] = << i, j >>
                                  /\ j \in 1 .. Len(plats[i]) /\ deviceCount = Len(plats[i])
           /\ plats[i] = << >> => ~IsDevice
<1>1. plats \in Seq(Seq(Type)) /\ status = "ok" /\ RunOK /\ pass # "done"
  BY DeviceExplorationAssumption DEF DevInv, AtDevice, Running, TypeOK
<1>2. i \in 1 .. Len(plats) /\ j \in 1 .. deviceCount /\ deviceCount \in Nat
  BY <1>1 DEF DevInv, TypeOK, AtDevice, RunOK, LoopOK
<1>3. i \in 1 .. Len(devices) /\ Stored(plats, i, devices[i])
  BY <1>1, <1>2 DEF RunOK, StoreOK, Seen, AtDevice
<1>4. ASSUME plats[i] # << >>
      PROVE  /\ IsDevice /\ devices[i][j] = << i, j >>
             /\ j \in 1 .. Len(plats[i]) /\ deviceCount = Len(plats[i])
  <2>1. deviceCount = Len(plats[i])
    BY <1>1, <1>2, <1>4 DEF RunOK, LoopOK
  <2>2. devices[i] = [k \in 1 .. Len(plats[i]) |-> << i, k >>]
    BY <1>3, <1>4 DEF Stored
  <2>3. devices[i][j] = << i, j >> /\ Len(devices[i]) = deviceCount
    BY <1>1, <1>2, <2>1, <2>2
  <2>4. << i, j >> # Junk
    BY <1>2 DEF Junk
  <2> QED
    BY <1>2, <2>1, <2>3, <2>4 DEF IsDevice
<1>5. ASSUME plats[i] = << >>, IsDevice
      PROVE  FALSE
  <2>1. devices[i] \in Seq(Nat \X Nat)
    BY <1>1, <1>3 DEF RunOK, StoreOK
  <2>2. j \in 1 .. Len(devices[i])
    BY <1>2, <1>5, <2>1 DEF IsDevice
  <2> QED
    BY <1>3, <1>5, <2>2 DEF Stored, IsDevice
<1> QED
  BY <1>1, <1>2, <1>4, <1>5

\* Going on to the next device or platform keeps what is known of cx.devices and of the loop.
LEMMA AdvanceOK ==
    ASSUME DevInv, AtDevice, Advance,
           pass' = pass, plats' = plats, devices' = devices, deviceCount' = deviceCount
    PROVE  /\ i' \in 1 .. Len(plats) + 1 /\ j' \in 0 .. deviceCount
           /\ StoreOK' /\ LoopOK'
<1>1. /\ i \in 1 .. Len(plats) /\ j \in 1 .. deviceCount /\ deviceCount \in Nat
      /\ RunOK /\ pass # "done" /\ Len(plats) \in Nat
  BY AtADevice
<1>2. i' \in 1 .. Len(plats) + 1 /\ j' \in 0 .. deviceCount
  BY <1>1 DEF Advance
<1>3. Seen' = Seen
  BY <1>1 DEF Seen, Advance
<1>4. StoreOK'
  BY <1>1, <1>3 DEF RunOK, StoreOK
<1>5. LoopOK'
  BY <1>1 DEF RunOK, LoopOK, Advance
<1> QED
  BY <1>2, <1>4, <1>5

\* Going on from a device adds it to what has been visited.
LEMMA VisAdvance ==
    ASSUME DevInv, AtDevice, Advance, plats[i] # << >>, NEW t
    PROVE  /\ << i, j >> \notin Vis(plats, i, j, t)
           /\ plats[i][j] = t => Vis(plats, i', j', t) = Vis(plats, i, j, t) \cup {<< i, j >>}
           /\ plats[i][j] # t => Vis(plats, i', j', t) = Vis(plats, i, j, t)
<1>1. /\ plats \in Seq(Seq(Type)) /\ i \in 1 .. Len(plats)
      /\ j \in 1 .. Len(plats[i]) /\ deviceCount = Len(plats[i])
  BY AtADevice
<1>2. /\ << i, j >> \notin Vis(plats, i, j, t)
      /\ Vis(plats, i, j + 1, t) =
            IF plats[i][j] = t THEN Vis(plats, i, j, t) \cup {<< i, j >>} ELSE Vis(plats, i, j, t)
  BY <1>1, VisMore
<1>3. Vis(plats, i', j', t) = Vis(plats, i, j + 1, t)
  <2>1. Vis(plats, i + 1, 0, t) = Vis(plats, i, Len(plats[i]) + 1, t)
    BY <1>1, VisPlatform
  <2>2. CASE j < deviceCount
    BY <2>2 DEF Advance
  <2>3. CASE ~(j < deviceCount)
    <3>1. j = Len(plats[i]) /\ j' = 0 /\ i' = i + 1
      BY <1>1, <2>3 DEF Advance
    <3> QED
      BY <2>1, <3>1
  <2> QED
    BY <2>2, <2>3
<1> QED
  BY <1>2, <1>3

\* Going on within, or from, a platform without devices adds nothing.
LEMMA VisIdle ==
    ASSUME DevInv, AtDevice, Advance, plats[i] = << >>, NEW t
    PROVE  Vis(plats, i', j', t) = Vis(plats, i, j, t)
<1>1. plats \in Seq(Seq(Type)) /\ i \in 1 .. Len(plats) /\ j \in Int
  BY AtADevice
<1>2. CASE j < deviceCount
  <2>1. Vis(plats, i, j + 1, t) = Vis(plats, i, j, t)
    <3>1. j + 1 \in Int /\ i \in Int
      BY <1>1
    <3> QED
      BY <1>1, <3>1, VisSkip
  <2> QED
    BY <1>2, <2>1 DEF Advance
<1>3. CASE ~(j < deviceCount)
  <2>1. Vis(plats, i + 1, 0, t) = Vis(plats, i, j, t)
    <3>1. i + 1 \in Int /\ 0 \in Int
      BY <1>1
    <3> QED
      BY <1>1, <3>1, VisSkip
  <2> QED
    BY <1>3, <2>1 DEF Advance
<1> QED
  BY <1>2, <1>3

\* Stopping the process leaves every variable but the status.
LEMMA StepStop ==
    ASSUME DevInv, NEW st \in {"died", "wild"}, Stop(st),
           UNCHANGED << plats, pass, deviceCount, devices, num, array >>,
           st = "wild" => \E p \in DOMAIN plats : plats[p] = << >>
    PROVE  DevInv'
BY DEF DevInv, TypeOK, Stop

\* A device that the count pass is at is counted in the count of its type.
LEMMA StepCountDevice ==
    ASSUME DevInv, CountDevice
    PROVE  DevInv'
<1> DEFINE u == TypeOf(devices[i][j])
<1>1. /\ AtDevice /\ IsDevice /\ pass = "count" /\ Advance
      /\ num' = IF u \in Counted THEN [num EXCEPT ![u] = @ + 1] ELSE num
      /\ UNCHANGED << plats, pass, deviceCount, devices, array, status >>
  BY DEF CountDevice
<1>2. /\ plats \in Seq(Seq(Type)) /\ status = "ok" /\ RunOK
      /\ i \in 1 .. Len(plats) /\ j \in 1 .. Len(plats[i]) /\ deviceCount = Len(plats[i])
      /\ plats[i] # << >> /\ devices[i][j] = << i, j >>
  BY <1>1, AtADevice
<1>3. u = plats[i][j]
  BY <1>2 DEF TypeOf
<1>4. i' \in 1 .. Len(plats) + 1 /\ j' \in 0 .. deviceCount /\ StoreOK' /\ LoopOK'
  BY <1>1, AdvanceOK
<1> HIDE DEF u
<1>5. num' \in [Counted -> Nat]
  BY <1>1 DEF DevInv, TypeOK
<1>6. TypeOK'
  BY <1>1, <1>4, <1>5 DEF DevInv, TypeOK
<1>7. ASSUME NEW t \in Counted
      PROVE  /\ IsFiniteSet(Vis(plats, i', j', t)) /\ num'[t] = Cardinality(Vis(plats, i', j', t))
             /\ array'[t] = << >>
  <2>1. IsFiniteSet(Vis(plats, i, j, t)) /\ num[t] = Cardinality(Vis(plats, i, j, t)) /\ array[t] = << >>
    BY <1>1, <1>2 DEF RunOK, CountOK
  <2>4. /\ << i, j >> \notin Vis(plats, i, j, t)
        /\ plats[i][j] = t => Vis(plats, i', j', t) = Vis(plats, i, j, t) \cup {<< i, j >>}
        /\ plats[i][j] # t => Vis(plats, i', j', t) = Vis(plats, i, j, t)
    BY <1>1, <1>2, VisAdvance
  <2>5. CASE u = t
    <3>1. num'[t] = num[t] + 1
      BY <1>1, <2>5 DEF DevInv, TypeOK
    <3>2. Vis(plats, i', j', t) = Vis(plats, i, j, t) \cup {<< i, j >>}
      BY <1>3, <2>4, <2>5
    <3>3. /\ IsFiniteSet(Vis(plats, i, j, t) \cup {<< i, j >>})
          /\ Cardinality(Vis(plats, i, j, t) \cup {<< i, j >>}) = Cardinality(Vis(plats, i, j, t)) + 1
      BY <2>1, <2>4, FS_AddElement
    <3> QED
      BY <1>1, <2>1, <3>1, <3>2, <3>3
  <2>6. CASE u # t
    <3>1. num'[t] = num[t]
      BY <1>1, <2>6 DEF DevInv, TypeOK
    <3> QED
      BY <1>1, <1>3, <2>1, <2>4, <2>6, <3>1
  <2> QED
    BY <2>5, <2>6
<1>8. CountOK'
  BY <1>1, <1>7 DEF CountOK
<1>9. RunOK'
  BY <1>1, <1>4, <1>8 DEF RunOK
<1> QED
  BY <1>1, <1>2, <1>6, <1>9 DEF DevInv

\* A device that the second pass is at finds room in the array of its type, and
\* is appended to it.
LEMMA StepInitDevice ==
    ASSUME DevInv, InitDevice
    PROVE  DevInv'
<1> DEFINE d == devices[i][j]
           u == TypeOf(d)
<1>1. /\ AtDevice /\ IsDevice /\ pass = "init"
      /\ IF u \notin Counted THEN Advance /\ UNCHANGED << array, status >>
         ELSE IF Len(array[u]) = num[u] THEN Stop("wild") /\ array' = array
         ELSE /\ array' = [array EXCEPT ![u] = Append(@, d)]
              /\ Advance /\ status' = status
      /\ UNCHANGED << plats, pass, deviceCount, devices, num >>
  BY DEF InitDevice
<1>2. /\ plats \in Seq(Seq(Type)) /\ status = "ok" /\ RunOK
      /\ i \in 1 .. Len(plats) /\ j \in 1 .. Len(plats[i]) /\ deviceCount = Len(plats[i])
      /\ plats[i] # << >> /\ d = << i, j >>
  BY <1>1, AtADevice
<1>3. u = plats[i][j]
  BY <1>2 DEF TypeOf
<1> HIDE DEF d, u
<1>4. ASSUME u \in Counted
      PROVE  Len(array[u]) # num[u]
  <2> DEFINE V == Vis(plats, i, j, u)
             F == Full(plats, u)
  <2>1. IsFiniteSet(F) /\ num[u] = Cardinality(F) /\ Lists(array[u], V)
    BY <1>1, <1>2, <1>4 DEF RunOK, InitOK
  <2>2. V \subseteq F
    <3>1. i \in 1 .. Len(plats) + 1 /\ j \in Int
      BY <1>2
    <3> QED
      BY <1>2, <3>1, VisFull
  <2>3. << i, j >> \notin V
    <3>1. i \in Int /\ j \in Int
      BY <1>2
    <3> QED
      BY <1>2, <3>1, VisMember
  <2>4. << i, j >> \in F
    <3>1. Len(plats) + 1 \in Int /\ i < Len(plats) + 1 /\ 0 \in Int
      BY <1>2
    <3> QED
      BY <1>2, <1>3, <3>1, VisMember DEF Full
  <2> HIDE DEF V, F
  <2>5. Cardinality(V) # Cardinality(F)
    BY <2>1, <2>2, <2>3, <2>4, FS_Subset
  <2> QED
    BY <2>1, <2>5 DEF Lists
<1>5. Advance /\ status' = status
  BY <1>1, <1>4
<1>6. i' \in 1 .. Len(plats) + 1 /\ j' \in 0 .. deviceCount /\ StoreOK' /\ LoopOK'
  BY <1>1, <1>5, AdvanceOK
<1>7. array' = IF u \in Counted THEN [array EXCEPT ![u] = Append(@, d)] ELSE array
  BY <1>1, <1>4
<1>8. TypeOK'
  BY <1>1, <1>5, <1>6, <1>7 DEF DevInv, TypeOK
<1>9. ASSUME NEW t \in Counted
      PROVE  Lists(array'[t], Vis(plats, i', j', t))
  <2> DEFINE V == Vis(plats, i, j, t)
             W == Vis(plats, i', j', t)
  <2>1. Lists(array[t], V)
    BY <1>1, <1>2 DEF RunOK, InitOK
  <2>4. /\ d \notin V
        /\ u = t => W = V \cup {d}
        /\ u # t => W = V
    BY <1>1, <1>2, <1>3, <1>5, VisAdvance
  <2>5. ASSUME NEW c \in V
        PROVE  Before(c, d)
    <3>0. i \in Int /\ j \in Int /\ plats \in Seq(Seq(Type))
      BY <1>2
    <3>a. c \in Vis(plats, i, j, t) <=>
              \E m \in 1 .. Len(plats) : \E n \in 1 .. Len(plats[m]) :
                  c = << m, n >> /\ (m < i \/ (m = i /\ n < j)) /\ plats[m][n] = t
      BY <3>0, VisMember
    <3>b. c \in Vis(plats, i, j, t)
      BY <2>5
    <3>1. PICK m \in 1 .. Len(plats) : \E n \in 1 .. Len(plats[m]) :
              c = << m, n >> /\ (m < i \/ (m = i /\ n < j)) /\ plats[m][n] = t
      BY <3>a, <3>b, Zenon
    <3> QED
      BY <1>2, <3>1 DEF Before
  <2> HIDE DEF V, W
  <2>6. CASE u = t
    <3>1. array'[t] = Append(array[t], d)
      BY <1>7, <2>6 DEF DevInv, TypeOK
    <3>2. Lists(Append(array[t], d), V \cup {d})
      BY <2>1, <2>4, <2>5, ListMore
    <3> QED
      BY <2>4, <2>6, <3>1, <3>2 DEF W
  <2>7. CASE u # t
    <3>1. array'[t] = array[t]
      BY <1>7, <2>7 DEF DevInv, TypeOK
    <3> QED
      BY <2>1, <2>4, <2>7, <3>1 DEF W
  <2> QED
    BY <2>6, <2>7
<1>10. InitOK'
  BY <1>1, <1>2, <1>9 DEF RunOK, InitOK
<1>11. RunOK'
  BY <1>1, <1>6, <1>10 DEF RunOK
<1> QED
  BY <1>1, <1>2, <1>5, <1>8, <1>11 DEF DevInv
\* A step that visits no device and changes nothing but the place in the pass
\* keeps what the pass has done, if that is still what lies behind it.
LEMMA SamePass ==
    ASSUME RunOK, UNCHANGED << plats, pass, num, array >>, StoreOK', LoopOK',
           \A t \in Counted : Vis(plats, i', j', t) = Vis(plats, i, j, t)
    PROVE  RunOK'
<1>1. pass = "count" => CountOK'
  BY DEF RunOK, CountOK
<1>2. pass = "init" => InitOK'
  BY DEF RunOK, InitOK
<1>3. pass \in {"print", "done"} => FilledOK'
  BY DEF RunOK, FilledOK
<1> QED
  BY <1>1, <1>2, <1>3 DEF RunOK

\* Printing the name of a device.
LEMMA StepPrintDevice ==
    ASSUME DevInv, PrintDevice
    PROVE  DevInv'
<1>1. /\ AtDevice /\ pass = "print" /\ Advance
      /\ UNCHANGED << plats, pass, deviceCount, devices, num, array, status >>
  BY DEF PrintDevice
<1>2. status = "ok" /\ RunOK
  BY <1>1, AtADevice
<1>3. i' \in 1 .. Len(plats) + 1 /\ j' \in 0 .. deviceCount /\ StoreOK' /\ LoopOK'
  BY <1>1, AdvanceOK
<1>4. TypeOK'
  BY <1>1, <1>3 DEF DevInv, TypeOK
<1>5. FilledOK'
  BY <1>1, <1>2 DEF RunOK, FilledOK
<1>6. RunOK'
  BY <1>1, <1>3, <1>5 DEF RunOK
<1> QED
  BY <1>1, <1>2, <1>4, <1>6 DEF DevInv

\* What is passed to clGetDeviceInfo is not a device only on a platform without devices.
LEMMA StepNotADevice ==
    ASSUME DevInv, NotADevice
    PROVE  DevInv'
<1>1. /\ AtDevice /\ ~IsDevice
      /\ UNCHANGED << plats, pass, deviceCount, devices, num, array >>
  BY DEF NotADevice
<1>2. /\ plats \in Seq(Seq(Type)) /\ status = "ok" /\ RunOK
      /\ i \in 1 .. Len(plats) /\ plats[i] = << >>
  BY <1>1, AtADevice
<1>3. CASE Advance /\ status' = status
  <2>1. i' \in 1 .. Len(plats) + 1 /\ j' \in 0 .. deviceCount /\ StoreOK' /\ LoopOK'
    BY <1>1, <1>3, AdvanceOK
  <2>2. \A t \in Counted : Vis(plats, i', j', t) = Vis(plats, i, j, t)
    BY <1>1, <1>2, <1>3, VisIdle
  <2>3. TypeOK'
    BY <1>1, <1>3, <2>1 DEF DevInv, TypeOK
  <2>4. RunOK'
    BY <1>1, <1>2, <2>1, <2>2, SamePass
  <2> QED
    BY <1>2, <1>3, <2>3, <2>4 DEF DevInv
<1>4. CASE Stop("wild")
  <2>1. \E p \in DOMAIN plats : plats[p] = << >>
    BY <1>2
  <2> QED
    BY <1>1, <1>4, <2>1, StepStop
<1> QED
  BY <1>3, <1>4 DEF NotADevice

\* A context or a queue that cannot be created ends the process.
LEMMA StepInitDeviceError ==
    ASSUME DevInv, InitDeviceError
    PROVE  DevInv'
<1>1. Stop("died") /\ UNCHANGED << plats, pass, deviceCount, devices, num, array >>
  BY DEF InitDeviceError
<1> QED
  BY <1>1, StepStop

\* A platform is entered with its count and, in the first pass, its devices; one
\* that does not answer, with a count left from before and memory nobody has written.
LEMMA StepEnterPlatform ==
    ASSUME DevInv, EnterPlatform
    PROVE  DevInv'
<1>1. /\ AtPlatform /\ UNCHANGED << plats, pass, num, array, status >>
  BY DEF EnterPlatform
<1>2. PICK n \in Counts :
          /\ deviceCount' = n
          /\ IF n = 0 THEN j' = 0 /\ i' = i + 1 ELSE j' = 1 /\ i' = i
          /\ devices' = IF pass # "count" THEN devices
                        ELSE Append(devices, [k \in 1 .. n |-> IF Answers(i) THEN Ids(i)[k] ELSE Junk])
  BY DEF EnterPlatform
<1>3. /\ plats \in Seq(Seq(Type)) /\ status = "ok" /\ RunOK /\ pass # "done"
      /\ i \in 1 .. Len(plats) /\ j = 0 /\ deviceCount \in Nat /\ Len(plats) \in Nat
  BY <1>1, DeviceExplorationAssumption DEF DevInv, TypeOK, AtPlatform, Running
<1>4. n \in Nat /\ (plats[i] # << >> => n = Len(plats[i]) /\ n > 0)
  <2>1. CASE Answers(i)
    <3>1. n = Len(plats[i]) /\ plats[i] \in Seq(Type) /\ plats[i] # << >>
      BY <1>2, <1>3, <2>1 DEF Counts, Answers
    <3> QED
      BY <3>1
  <2>2. CASE ~Answers(i)
    BY <1>2, <1>3, <2>2, SMTT(30) DEF Counts, Answers
  <2> QED
    BY <2>1, <2>2
<1> DEFINE D == [k \in 1 .. n |-> IF Answers(i) THEN Ids(i)[k] ELSE Junk]
<1>5. D \in Seq(Nat \X Nat) /\ Len(D) = n /\ Stored(plats, i, D)
      /\ \A k \in DOMAIN D : D[k] \in {<< i, k >>, Junk}
  <2>1. CASE plats[i] # << >>
    <3>1. D = [k \in 1 .. Len(plats[i]) |-> << i, k >>]
      BY <1>4, <2>1 DEF Ids, Answers
    <3>2. Stored(plats, i, D)
      BY <2>1, <3>1 DEF Stored
    <3> HIDE DEF D
    <3>3. DOMAIN D = 1 .. n /\ \A k \in 1 .. n : D[k] = << i, k >> /\ D[k] \in Nat \X Nat
      BY <1>3, <1>4, <2>1, <3>1
    <3>4. D \in [1 .. n -> Nat \X Nat]
      BY <1>4, <2>1, <3>1, <3>3, Zenon
    <3>5. D \in Seq(Nat \X Nat) /\ Len(D) = n
      BY <1>4, <3>3, <3>4
    <3> QED
      BY <3>2, <3>3, <3>5
  <2>2. CASE plats[i] = << >>
    <3>1. D = [k \in 1 .. n |-> Junk] /\ Junk \in Nat \X Nat
      BY <2>2 DEF Answers, Junk
    <3> QED
      BY <1>4, <2>2, <3>1 DEF Stored
  <2> QED
    BY <2>1, <2>2
<1> HIDE DEF D
<1>6. StoreOK /\ LoopOK
  BY <1>3 DEF RunOK
<1>7. StoreOK' /\ \A p \in DOMAIN devices' : \A k \in DOMAIN devices'[p] : devices'[p][k] \in {<< p, k >>, Junk}
  <2>1. CASE pass = "count"
    <3>1. devices' = Append(devices, D)
      BY <1>2, <2>1 DEF D
    <3>2. Len(devices) = i - 1 /\ devices \in Seq(Seq(Nat \X Nat))
      BY <1>3, <1>6, <2>1 DEF StoreOK, Seen
    <3>3. /\ devices' \in Seq(Seq(Nat \X Nat)) /\ Len(devices') = i /\ devices'[i] = D
          /\ \A p \in 1 .. i - 1 : devices'[p] = devices[p]
      BY <1>3, <1>5, <3>1, <3>2
    <3>4. Seen' = i
      BY <1>1, <1>2, <1>3, <2>1 DEF Seen
    <3>5. ASSUME NEW p \in 1 .. i
          PROVE  /\ Stored(plats, p, devices'[p])
                 /\ \A k \in DOMAIN devices'[p] : devices'[p][k] \in {<< p, k >>, Junk}
      <4>1. CASE p = i
        BY <1>5, <3>3, <4>1
      <4>2. CASE p # i
        <5>1. p \in 1 .. i - 1 /\ p \in DOMAIN devices
          BY <1>3, <3>2, <4>2
        <5> QED
          BY <1>6, <3>2, <3>3, <5>1 DEF StoreOK, DevInv, TypeOK
      <4> QED
        BY <4>1, <4>2
    <3>6. DOMAIN devices' = 1 .. i
      BY <1>3, <3>3
    <3> QED
      BY <1>1, <3>3, <3>4, <3>5, <3>6 DEF StoreOK
  <2>2. CASE pass # "count"
    <3>1. devices' = devices /\ Seen' = Seen
      BY <1>1, <1>2, <2>2 DEF Seen
    <3> QED
      BY <1>1, <1>6, <3>1 DEF StoreOK, DevInv, TypeOK
  <2> QED
    BY <2>1, <2>2
<1>8. LoopOK'
  BY <1>1, <1>2, <1>3, <1>4 DEF LoopOK
<1>9. TypeOK'
  <2>1. i' \in 1 .. Len(plats) + 1 /\ deviceCount' \in Nat /\ j' \in 0 .. deviceCount'
    <3>1. CASE n = 0
      BY <1>2, <1>3, <3>1
    <3>2. CASE n # 0
      BY <1>2, <1>3, <1>4, <3>2
    <3> QED
      BY <3>1, <3>2
  <2> QED
    BY <1>1, <1>7, <2>1 DEF DevInv, TypeOK
<1>10. ASSUME NEW t \in Counted
       PROVE  Vis(plats, i', j', t) = Vis(plats, i, j, t)
  <2>1. CASE n = 0
    <3>1. plats[i] = << >> /\ i' = i + 1 /\ j' = 0
      BY <1>2, <1>4, <2>1
    <3>2. i + 1 \in Int /\ 0 \in Int
      BY <1>3
    <3>3. Vis(plats, i + 1, 0, t) = Vis(plats, i, 0, t)
      BY <1>3, <3>1, <3>2, VisSkip
    <3> QED
      BY <1>3, <3>1, <3>3
  <2>2. CASE n # 0
    <3>1. Vis(plats, i, 1, t) = Vis(plats, i, 0, t)
      BY <1>3, VisEnter
    <3> QED
      BY <1>2, <1>3, <2>2, <3>1
  <2> QED
    BY <2>1, <2>2
<1>11. RunOK'
  BY <1>1, <1>3, <1>7, <1>8, <1>10, SamePass
<1> QED
  BY <1>1, <1>3, <1>9, <1>11 DEF DevInv

\* At the end of a pass every device has been visited, and the next one starts
\* from none; the counts and the arrays stay.
LEMMA StepNextPass ==
    ASSUME DevInv, NextPass
    PROVE  DevInv'
<1>1. /\ status = "ok" /\ pass # "done" /\ i > Len(plats) /\ j = 0 /\ i' = 1 /\ j' = 0
      /\ UNCHANGED << plats, devices, num, array, status >>
  BY DEF NextPass, Running
<1>2. /\ plats \in Seq(Seq(Type)) /\ Len(plats) \in Nat /\ RunOK
      /\ i = Len(plats) + 1 /\ deviceCount \in Nat
  BY <1>1, DeviceExplorationAssumption DEF DevInv, TypeOK
<1>3. /\ pass \in {"count", "init", "print"}
      /\ pass = "count" => pass' = "init"
      /\ pass = "init" => pass' = "print"
      /\ pass = "print" => pass' = "done"
  BY <1>1 DEF NextPass, DevInv, TypeOK
<1>4. deviceCount' \in Nat
  <2>1. 0 .. MaxGarbage \subseteq Nat
    BY DeviceExplorationAssumption
  <2> QED
    BY <1>2, <2>1 DEF NextPass
<1>5. TypeOK'
  BY <1>1, <1>2, <1>3, <1>4 DEF DevInv, TypeOK
<1>6. StoreOK' /\ LoopOK'
  <2>1. Seen' = Seen
    BY <1>1, <1>2, <1>3 DEF Seen
  <2> QED
    BY <1>1, <1>2, <2>1 DEF RunOK, StoreOK, LoopOK
<1>7. CASE pass = "count"
  <2>1. ASSUME NEW t \in Counted
        PROVE  /\ IsFiniteSet(Full(plats, t)) /\ num[t] = Cardinality(Full(plats, t))
               /\ Lists(array[t], Vis(plats, 1, 0, t))
    <3>1. /\ IsFiniteSet(Full(plats, t)) /\ num[t] = Cardinality(Full(plats, t))
          /\ array[t] = << >>
      BY <1>1, <1>2, <1>7 DEF RunOK, CountOK, Full
    <3>2. Vis(plats, 1, 0, t) = {}
      BY <1>2, VisStart
    <3>3. Lists(<< >>, {})
      BY FS_EmptySet DEF Lists
    <3> QED
      BY <3>1, <3>2, <3>3
  <2>2. InitOK'
    BY <1>1, <2>1 DEF InitOK
  <2> QED
    BY <1>1, <1>3, <1>5, <1>6, <1>7, <2>2 DEF DevInv, RunOK
<1>8. CASE pass = "init"
  <2>1. FilledOK'
    BY <1>1, <1>2, <1>8 DEF RunOK, InitOK, FilledOK, Full
  <2> QED
    BY <1>1, <1>3, <1>5, <1>6, <1>8, <2>1 DEF DevInv, RunOK
<1>9. CASE pass = "print"
  <2>1. FilledOK'
    BY <1>1, <1>2, <1>9 DEF RunOK, FilledOK
  <2> QED
    BY <1>1, <1>3, <1>5, <1>6, <1>9, <2>1 DEF DevInv, RunOK
<1> QED
  BY <1>3, <1>7, <1>8, <1>9

----------------------------------------------------------------------------
\* The inductive invariant of XCLFrame_init holds in every reachable state.
THEOREM DevicesInvariant == Spec => []DevInv
<1>1. Init => DevInv
  <2> SUFFICES ASSUME Init PROVE DevInv
    OBVIOUS
  <2>1. /\ plats \in Seq(Seq(Type)) /\ Len(plats) \in Nat
        /\ 0 .. MaxGarbage \subseteq Nat
    BY DeviceExplorationAssumption DEF Init
  <2>2. TypeOK
    BY <2>1 DEF Init, TypeOK
  <2>3. StoreOK /\ LoopOK
    BY DEF Init, StoreOK, LoopOK, Seen
  <2>4. ASSUME NEW t \in Counted
        PROVE  /\ IsFiniteSet(Vis(plats, i, j, t)) /\ num[t] = Cardinality(Vis(plats, i, j, t))
               /\ array[t] = << >>
    <3>1. Vis(plats, 1, 0, t) = {}
      BY <2>1, VisStart
    <3> QED
      BY <3>1, FS_EmptySet DEF Init
  <2> QED
    BY <2>2, <2>3, <2>4 DEF Init, DevInv, RunOK, CountOK
<1>2. DevInv /\ [Next]_vars => DevInv'
  <2> SUFFICES ASSUME DevInv, [Next]_vars PROVE DevInv'
    OBVIOUS
  <2>1. CASE EnterPlatform
    BY <2>1, StepEnterPlatform
  <2>2. CASE CountDevice
    BY <2>2, StepCountDevice
  <2>3. CASE InitDevice
    BY <2>3, StepInitDevice
  <2>4. CASE InitDeviceError
    BY <2>4, StepInitDeviceError
  <2>5. CASE PrintDevice
    BY <2>5, StepPrintDevice
  <2>6. CASE NotADevice
    BY <2>6, StepNotADevice
  <2>7. CASE NextPass
    BY <2>7, StepNextPass
  <2>8. CASE UNCHANGED vars
    <3>1. TypeOK'
      BY <2>8 DEF vars, DevInv, TypeOK
    <3>2. RunOK => RunOK'
      BY <2>8 DEF vars, RunOK, StoreOK, Seen, LoopOK, CountOK, InitOK, FilledOK
    <3> QED
      BY <2>8, <3>1, <3>2 DEF vars, DevInv
  <2> QED
    BY <2>1, <2>2, <2>3, <2>4, <2>5, <2>6, <2>7, <2>8 DEF Next
<1> QED
  BY <1>1, <1>2, PTL DEF Spec

\* Whatever the platforms are, and whatever the uninitialised counts hold, a
\* process that gets through devicesInitialization has each device of a counted
\* type once in the array of its type, in the order of the platforms, and the
\* counts of deviceExploration are the lengths of the arrays.
THEOREM DevicesAreFound == Spec => []DevicesFound
<1>1. DevInv => DevicesFound
  <2> SUFFICES ASSUME DevInv, pass \in {"print", "done"}, status = "ok", NEW t \in Counted
               PROVE  /\ {array[t][k] : k \in DOMAIN array[t]} = OfType(t)
                      /\ \A k, m \in DOMAIN array[t] : k < m => Before(array[t][k], array[t][m])
                      /\ num[t] = Len(array[t])
    BY DEF DevicesFound
  <2>1. plats \in Seq(Seq(Type))
    BY DeviceExplorationAssumption DEF DevInv, TypeOK
  <2>2. num[t] = Cardinality(Full(plats, t)) /\ Lists(array[t], Full(plats, t))
    BY DEF DevInv, RunOK, FilledOK
  <2>3. OfType(t) = Full(plats, t)
    BY <2>1, FullIs
  <2>4. DOMAIN array[t] = 1 .. Len(array[t])
    BY <2>2 DEF Lists
  <2> QED
    BY <2>2, <2>3, <2>4 DEF Lists
<1> QED
  BY <1>1, DevicesInvariant, PTL

\* If every platform has a device, the three passes never read outside an array
\* or memory that has not been written, and the second pass never writes past
\* the arrays allocated with the counts of the first.
THEOREM DevicesNoWildAccess == Spec => []NoWildAccess
<1>1. DevInv => NoWildAccess
  BY DEF DevInv, NoWildAccess, Answers
<1> QED
  BY <1>1, DevicesInvariant, PTL
=============================================================================
