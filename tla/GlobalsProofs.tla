---------------------------- MODULE GlobalsProofs ----------------------------
(***************************************************************************)
(* Proofs about the globals that the calls of a process share.              *)
(*                                                                          *)
(* ScatterGather, for any number of ranks, files, calls and bytes and any   *)
(* programs: what ranks that run apart do to trays and files is what the    *)
(* program run call by call does.  The induction has three layers: the      *)
(* types, with where a rank is inside its call; the opens, which keep any   *)
(* rank from passing a call that another has not entered; and, for a        *)
(* program whose gathers match its scatters, the globals, the trays and the *)
(* files, compared with the run call by call at the slowest rank.           *)
(*                                                                          *)
(* LibHandles, for any number of calls and of threads: its invariants speak *)
(* of reference counts that a call in progress may have raised and will     *)
(* lower again.  The induction follows the count that is left when the call *)
(* ends: once a launch or a scatter has happened it never drops to 0,       *)
(* because neither closes the handle of libmultiDeviceMgmt that it opened.  *)
(***************************************************************************)
EXTENDS ScatterGather, LibHandles, FiniteSetTheorems, SequenceTheorems, WellFoundedInduction, TLAPS

(* Arithmetic                                                              *)

\* The remainder of a number that is small already.
LEMMA ModSmall ==
    ASSUME NEW n \in Nat \ {0}, NEW x \in Nat, x < n
    PROVE  x % n = x
OBVIOUS

\* A conversion to int gives an int, at most what it was if that was not negative, and
\* the same if it fits.
LEMMA IntIs ==
    ASSUME NEW x \in Int
    PROVE  /\ Int32(x) \in -IntLimit .. IntLimit - 1
           /\ x \in Nat => Int32(x) <= x
           /\ x \in Nat /\ x < IntLimit => Int32(x) = x
<1>1. IntLimit \in Nat \ {0}
    BY ScatterGatherAssumption
<1> DEFINE n == 2 * IntLimit
           y == x + IntLimit
           m == y % n
<1>2. n \in Nat \ {0} /\ y \in Int
    BY <1>1
<1>3. m \in 0 .. n - 1
    <2> HIDE DEF n, y
    <2> QED BY <1>2
<1>4. Int32(x) = m - IntLimit
    BY DEF Int32
<1>5. y \in Nat => m <= y
    <2> HIDE DEF n, y
    <2> QED BY <1>2
<1>6. y \in Nat /\ y < n => m = y
    <2> HIDE DEF n, y
    <2> QED BY <1>2, ModSmall
<1>7. /\ x \in Nat => y \in Nat
      /\ x \in Nat /\ x < IntLimit => y < n
    BY <1>1
<1> HIDE DEF m
<1> QED BY <1>1, <1>3, <1>4, <1>5, <1>6, <1>7

\* Products of naturals.
LEMMA MulNat == ASSUME NEW a \in Nat, NEW b \in Nat PROVE a * b \in Nat
OBVIOUS

\* A product grows with its first factor.
LEMMA MulLess ==
    ASSUME NEW a \in Nat, NEW b \in Nat, NEW c \in Nat, a <= b
    PROVE  a * c <= b * c
OBVIOUS

\* A product with the next number.
LEMMA MulNext ==
    ASSUME NEW a \in Nat, NEW c \in Nat
    PROVE  (a + 1) * c = a * c + c
OBVIOUS

\* Where the parentheses of a product are does not matter.
LEMMA MulThree ==
    ASSUME NEW a \in Nat, NEW b \in Nat, NEW c \in Nat
    PROVE  a * b * c = a * (b * c)
OBVIOUS

\* A quotient times the divisor.
LEMMA DivMul ==
    ASSUME NEW a \in Nat, NEW b \in Nat \ {0}
    PROVE  a \div b \in Nat /\ (a \div b) * b <= a
OBVIOUS

\* C's quotient of a number that is not negative.
LEMMA QuotIs ==
    ASSUME NEW a \in Int, NEW b \in Nat \ {0}
    PROVE  /\ a \in Nat => Quot(a, b) = a \div b /\ Quot(a, b) \in 0 .. a
           /\ a \notin Nat => Quot(a, b) \in a .. 0
<1>1. ASSUME NEW c \in Nat PROVE c \div b \in 0 .. c
    OBVIOUS
<1>2. CASE a \in Nat
    BY <1>1, <1>2 DEF Quot
<1>3. CASE a \notin Nat
    <2>1. -a \in Nat /\ ~(a >= 0)
        BY <1>3
    <2>2. (-a) \div b \in 0 .. -a
        BY <1>1, <2>1
    <2>3. Quot(a, b) = -((-a) \div b)
        BY <2>1 DEF Quot
    <2> QED BY <1>3, <2>2, <2>3
<1> QED BY <1>2, <1>3

\* The parts of the ranks, one after the other, fit in what was divided.
LEMMA PartsFit ==
    ASSUME NEW z \in Nat, NEW e \in Nat \ {0}, NEW n \in Nat \ {0}, NEW q, q = (z \div e) \div n
    PROVE  q \in Nat /\ q * e \in Nat /\ n * (q * e) <= z
<1> DEFINE d == z \div e
<1>1. d \in Nat /\ d * e <= z
    BY DivMul
<1>2. q \in Nat /\ q * n <= d
    <2> HIDE DEF d
    <2>1. q = d \div n
        BY DEF d
    <2> QED BY <1>1, <2>1, DivMul
<1> HIDE DEF d
<1>3. (q * n) * e <= d * e
    <2>1. q * n \in Nat
        BY <1>2, MulNat
    <2> QED BY <1>1, <1>2, <2>1, MulLess
<1>4. n * (q * e) = (q * n) * e
    BY <1>2
<1>5. (q * n) * e \in Nat /\ d * e \in Nat
    <2>1. q * n \in Nat
        BY <1>2, MulNat
    <2> QED BY <1>1, <2>1, MulNat
<1> QED BY <1>1, <1>2, <1>3, <1>4, <1>5, MulNat

\* Where the part of a rank begins and ends.
LEMMA PartIs ==
    ASSUME NEW r \in Rank, NEW b \in Nat
    PROVE  /\ r \in Nat /\ r * b \in Nat /\ NumRanks * b \in Nat
           /\ (r + 1) * b = r * b + b /\ r * b + b <= NumRanks * b
           /\ \A q \in Rank : r < q => r * b + b <= q * b
<1>1. NumRanks \in Nat \ {0} /\ r \in Nat /\ r + 1 \in Nat /\ r + 1 <= NumRanks
    BY ScatterGatherAssumption DEF Rank
<1>2. (r + 1) * b = r * b + b
    BY <1>1, MulNext
<1>3. (r + 1) * b <= NumRanks * b
    BY <1>1, MulLess
<1>4. ASSUME NEW q \in Rank, r < q PROVE r * b + b <= q * b
    <2>1. q \in Nat /\ r + 1 <= q
        BY <1>1, <1>4 DEF Rank
    <2>2. (r + 1) * b <= q * b
        BY <1>1, <2>1, MulLess
    <2> QED BY <1>2, <2>2
<1> QED BY <1>1, <1>2, <1>3, <1>4, MulNat

\* A position k in the part of rank r: the quotient tells the rank.
LEMMA PartOf ==
    ASSUME NEW b \in Nat \ {0}, NEW r \in Nat, NEW k \in r * b + 1 .. r * b + b
    PROVE  (k - 1) \div b = r /\ ((k - 1) % b) + 1 = k - r * b
<1> DEFINE d == (k - 1) \div b
           m == (k - 1) % b
           x == r * b
           y == d * b
<1>1. x \in Nat /\ k \in Nat /\ k - 1 \in Nat /\ x <= k - 1 /\ k - 1 < x + b
    BY MulNat
<1>2. d \in Nat /\ m \in 0 .. b - 1 /\ k - 1 = y + m
    BY <1>1
<1>3. y \in Nat
    <2> HIDE DEF d
    <2> QED BY <1>2, MulNat
<1>4. ~(d < r)
    <2> SUFFICES ASSUME d < r PROVE FALSE
        OBVIOUS
    <2> HIDE DEF d
    <2>1. d + 1 \in Nat /\ d + 1 <= r /\ r \in Nat
        BY <1>2
    <2>2. (d + 1) * b <= r * b
        BY <2>1, MulLess
    <2>3. (d + 1) * b = d * b + b
        BY <1>2, MulNext
    <2>4. y + b <= x
        BY <2>2, <2>3
    <2> HIDE DEF m, y, x
    <2> QED BY <1>1, <1>2, <1>3, <2>4
<1>5. ~(r < d)
    <2> SUFFICES ASSUME r < d PROVE FALSE
        OBVIOUS
    <2> HIDE DEF d
    <2>1. r + 1 \in Nat /\ r + 1 <= d
        BY <1>2
    <2>2. (r + 1) * b <= d * b
        BY <1>2, <2>1, MulLess
    <2>3. (r + 1) * b = r * b + b
        BY MulNext
    <2>4. x + b <= y
        BY <2>2, <2>3
    <2> HIDE DEF m, y, x
    <2> QED BY <1>1, <1>2, <1>3, <2>4
<1>6. d = r
    <2> HIDE DEF d
    <2> QED BY <1>2, <1>4, <1>5
<1>7. y = x
    <2> HIDE DEF d
    <2> QED BY <1>6
<1>8. m + 1 = k - x
    <2> HIDE DEF d, m, y, x
    <2> QED BY <1>1, <1>2, <1>3, <1>7
<1> QED BY <1>6, <1>8

\* Every position is in the part of some rank.
LEMMA PartExists ==
    ASSUME NEW b \in Nat, NEW k \in 1 .. NumRanks * b
    PROVE  b # 0 /\ (k - 1) \div b \in Rank /\ k \in ((k - 1) \div b) * b + 1 .. ((k - 1) \div b) * b + b
<1>1. NumRanks \in Nat \ {0}
    BY ScatterGatherAssumption
<1>2. NumRanks * b \in Nat
    BY <1>1, MulNat
<1>3. b # 0
    <2> SUFFICES ASSUME b = 0 PROVE FALSE
        OBVIOUS
    <2>1. NumRanks * 0 = 0
        BY <1>1
    <2>2. NumRanks * b = 0
        BY <2>1
    <2> QED BY <2>2
<1> DEFINE d == (k - 1) \div b
           m == (k - 1) % b
           x == NumRanks * b
           y == d * b
<1>4. k \in Nat /\ k - 1 \in Nat /\ k <= x /\ 1 <= k /\ x \in Nat
    BY <1>2
<1>5. d \in Nat /\ m \in 0 .. b - 1 /\ k - 1 = y + m
    BY <1>3, <1>4
<1>6. y \in Nat
    <2> HIDE DEF d
    <2> QED BY <1>5, MulNat
<1>7. ~(NumRanks <= d)
    <2> SUFFICES ASSUME NumRanks <= d PROVE FALSE
        OBVIOUS
    <2>1. x <= y
        <3> HIDE DEF d
        <3> QED BY <1>1, <1>5, MulLess
    <2> HIDE DEF d, m, x, y
    <2> QED BY <1>2, <1>4, <1>5, <1>6, <2>1
<1>8. d \in Rank
    <2> HIDE DEF d
    <2> QED BY <1>1, <1>5, <1>7 DEF Rank
<1>9. k \in y + 1 .. y + b
    <2> HIDE DEF d, m, x, y
    <2> QED BY <1>4, <1>5, <1>6
<1> QED BY <1>3, <1>8, <1>9

\* The fields of a call.
LEMMA CallIs ==
    ASSUME NEW p \in Programs
    PROVE  /\ Len(p) \in Nat /\ Len(p) <= MaxCalls /\ MaxCalls \in Nat /\ Len(p) >= 1
           /\ \A n \in 1 .. Len(p) :
                 /\ p[n] \in Call /\ p[n].op \in {"query", "scatter", "gather", "transfer", "kernel"}
                 /\ p[n].e \in Nat \ {0} /\ p[n].file \in File /\ p[n].count \in Nat
<1>1. p \in Seq(Call) /\ Len(p) \in 1 .. MaxCalls /\ MaxCalls \in Nat
    BY ScatterGatherAssumption
<1>2. ASSUME NEW n \in 1 .. Len(p)
      PROVE  /\ p[n] \in Call /\ p[n].op \in {"query", "scatter", "gather", "transfer", "kernel"}
             /\ p[n].e \in Nat \ {0} /\ p[n].file \in File /\ p[n].count \in Nat
    <2>1. p[n] \in Call
        BY <1>1
    <2> QED BY <2>1 DEF Call
<1> QED BY <1>1, <1>2

\* The constants, as the proofs use them.
LEMMA ConstantsAre ==
    /\ NumRanks \in Nat \ {0} /\ 0 \in Rank /\ Rank \subseteq Nat /\ IntLimit \in Nat \ {0}
    /\ NumTasks \in Nat \ {0} /\ FileSize \in [File -> Nat] /\ Junk \in Byte
<1>1. NumRanks \in Nat \ {0} /\ IntLimit \in Nat \ {0} /\ NumTasks \in Nat \ {0} /\ FileSize \in [File -> Nat] /\ MaxCalls \in Nat
    BY ScatterGatherAssumption
<1>2. 0 \in Rank /\ Rank \subseteq Nat
    BY <1>1 DEF Rank
<1> QED BY <1>1, <1>2 DEF Junk, Byte

\* A sequence with some bytes written over or after its own.
LEMMA WriteAtIs ==
    ASSUME NEW s \in Seq(Byte), NEW n \in Nat, NEW b \in Seq(Byte)
    PROVE  /\ WriteAt(s, n, b) \in Seq(Byte)
           /\ Len(WriteAt(s, n, b)) = IF n + Len(b) > Len(s) THEN n + Len(b) ELSE Len(s)
           /\ \A k \in 1 .. Len(WriteAt(s, n, b)) :
                 WriteAt(s, n, b)[k] = IF k \in n + 1 .. n + Len(b) THEN b[k - n] ELSE IF k <= Len(s) THEN s[k] ELSE Junk
<1> DEFINE m == IF n + Len(b) > Len(s) THEN n + Len(b) ELSE Len(s)
           F(k) == IF k \in n + 1 .. n + Len(b) THEN b[k - n] ELSE IF k <= Len(s) THEN s[k] ELSE Junk
<1>1. m \in Nat
    OBVIOUS
<1>2. ASSUME NEW k \in 1 .. m PROVE F(k) \in Byte
    <2>1. CASE k \in n + 1 .. n + Len(b)
        <3>1. k - n \in 1 .. Len(b)
            BY <2>1
        <3> QED BY <2>1, <3>1
    <2>2. CASE k \notin n + 1 .. n + Len(b) /\ k <= Len(s)
        <3>1. k \in 1 .. Len(s)
            BY <2>2
        <3> QED BY <2>2, <3>1
    <2>3. CASE k \notin n + 1 .. n + Len(b) /\ ~(k <= Len(s))
        BY <2>3, ConstantsAre
    <2> QED BY <2>1, <2>2, <2>3
<1>3. WriteAt(s, n, b) = [k \in 1 .. m |-> F(k)]
    BY DEF WriteAt
<1> HIDE DEF m, F
<1>4. WriteAt(s, n, b) \in Seq(Byte) /\ Len(WriteAt(s, n, b)) = m /\ \A k \in 1 .. m : WriteAt(s, n, b)[k] = F(k)
    BY <1>1, <1>2, <1>3
<1> QED BY <1>4 DEF m, F

\* A part of a sequence.
LEMMA SubSeqIs ==
    ASSUME NEW T, NEW s \in Seq(T), NEW i \in Nat, NEW b \in Nat, i + b <= Len(s)
    PROVE  /\ SubSeq(s, i + 1, i + b) \in Seq(T) /\ Len(SubSeq(s, i + 1, i + b)) = b
           /\ \A k \in 1 .. b : SubSeq(s, i + 1, i + b)[k] = s[i + k]
<1>1. SubSeq(s, i + 1, i + b) \in Seq(T) /\ Len(SubSeq(s, i + 1, i + b)) = b
    OBVIOUS
<1>2. \A k \in 1 .. b : SubSeq(s, i + 1, i + b)[k] = s[i + k]
    OBVIOUS
<1> QED BY <1>1, <1>2
----------------------------------------------------------------------------
\* Trays and files; all trays have the same length.
Memory == [tray : [Rank -> Seq(Byte)], file : [File -> Seq(Byte)]]
Even(S) == \A r \in Rank : Len(S.tray[r]) = Len(S.tray[0])

\* The blocks of all ranks, one after the other: where the block of a rank is.
LEMMA GatheredIs ==
    ASSUME NEW S \in Memory, Even(S)
    PROVE  /\ Len(S.tray[0]) \in Nat
           /\ GatheredBlocks(S) \in Seq(Byte) /\ Len(GatheredBlocks(S)) = NumRanks * Len(S.tray[0])
           /\ \A r \in Rank : \A k \in r * Len(S.tray[0]) + 1 .. r * Len(S.tray[0]) + Len(S.tray[0]) :
                 GatheredBlocks(S)[k] = S.tray[r][k - r * Len(S.tray[0])]
<1> DEFINE b == Len(S.tray[0])
           n == NumRanks * b
           F(k) == S.tray[(k - 1) \div b][((k - 1) % b) + 1]
<1>1. \A r \in Rank : S.tray[r] \in Seq(Byte) /\ Len(S.tray[r]) = b
    BY DEF Memory, Even
<1>2. b \in Nat
    BY <1>1, ConstantsAre
<1>3. n \in Nat
    <2> HIDE DEF b
    <2> QED BY <1>2, ConstantsAre, MulNat
<1>4. GatheredBlocks(S) = [k \in 1 .. n |-> F(k)]
    BY DEF GatheredBlocks
<1> HIDE DEF b
<1>5. ASSUME NEW r \in Rank, NEW k \in r * b + 1 .. r * b + b
      PROVE  k \in 1 .. n /\ F(k) = S.tray[r][k - r * b] /\ F(k) \in Byte
    <2>1. r \in Nat /\ r * b \in Nat /\ r * b + b <= n /\ n \in Nat
        BY <1>2, PartIs
    <2>2. k \in 1 .. n /\ b # 0 /\ k - r * b \in 1 .. b
        <3> HIDE DEF n
        <3> QED BY <1>2, <2>1
    <2>3. (k - 1) \div b = r /\ ((k - 1) % b) + 1 = k - r * b
        BY <1>2, <2>1, <2>2, PartOf
    <2>4. F(k) = S.tray[r][k - r * b]
        BY <2>3
    <2>5. S.tray[r][k - r * b] \in Byte
        <3> DEFINE j == k - r * b
        <3>1. j \in 1 .. b
            BY <2>2
        <3> HIDE DEF j
        <3>2. S.tray[r][j] \in Byte
            BY <1>1, <3>1
        <3> QED BY <3>2 DEF j
    <2> HIDE DEF n, F
    <2> QED BY <2>2, <2>4, <2>5
<1>6. ASSUME NEW k \in 1 .. n PROVE F(k) \in Byte
    <2>1. (k - 1) \div b \in Rank /\ k \in ((k - 1) \div b) * b + 1 .. ((k - 1) \div b) * b + b
        BY <1>2, PartExists
    <2> HIDE DEF F
    <2> QED BY <1>5, <2>1
<1> HIDE DEF F, n
<1>7. GatheredBlocks(S) \in Seq(Byte) /\ Len(GatheredBlocks(S)) = n /\ \A k \in 1 .. n : GatheredBlocks(S)[k] = F(k)
    BY <1>3, <1>4, <1>6
<1>8. ASSUME NEW r \in Rank, NEW k \in r * b + 1 .. r * b + b PROVE GatheredBlocks(S)[k] = S.tray[r][k - r * b]
    BY <1>5, <1>7
<1> QED BY <1>2, <1>7, <1>8 DEF b, n

\* What a call does to the trays and to the files, each by itself.
LEMMA EffectIs ==
    ASSUME NEW p \in Programs, NEW n \in 1 .. Len(p), NEW S \in Memory, Even(S)
    PROVE  /\ Effect(n, p[n], S) \in Memory /\ Even(Effect(n, p[n], S))
           /\ p[n].op = "scatter" => \A r \in Rank : Effect(n, p[n], S).tray[r] =
                 SubSeq(S.file[p[n].file], r * ScatterBlock(p[n], S) + 1, r * ScatterBlock(p[n], S) + ScatterBlock(p[n], S))
           /\ p[n].op = "scatter" => \A r \in Rank : Len(Effect(n, p[n], S).tray[r]) = ScatterBlock(p[n], S)
           /\ p[n].op = "kernel" => \A r \in Rank : Effect(n, p[n], S).tray[r] = [k \in DOMAIN S.tray[r] |-> << n, r, k >>]
           /\ p[n].op \notin {"scatter", "kernel"} => Effect(n, p[n], S).tray = S.tray
           /\ p[n].op # "scatter" => \A r \in Rank : Len(Effect(n, p[n], S).tray[r]) = Len(S.tray[r])
           /\ p[n].op = "gather" => Effect(n, p[n], S).file = [S.file EXCEPT ![p[n].file] = WriteAt(S.file[p[n].file], 0, GatheredBlocks(S))]
           /\ p[n].op # "gather" => Effect(n, p[n], S).file = S.file
<1> DEFINE c == p[n]
           E == Effect(n, c, S)
           b == ScatterBlock(c, S)
<1>1. c.op \in {"query", "scatter", "gather", "transfer", "kernel"} /\ c.e \in Nat \ {0} /\ c.file \in File /\ n \in 0 .. MaxCalls
    BY CallIs
<1>2. S.tray \in [Rank -> Seq(Byte)] /\ S.file \in [File -> Seq(Byte)] /\ S = [tray |-> S.tray, file |-> S.file]
    BY DEF Memory
<1>3. CASE c.op = "scatter"
    <2>1. E = [S EXCEPT !.tray = [r \in Rank |-> SubSeq(S.file[c.file], r * b + 1, (r + 1) * b)]]
        BY <1>3 DEF Effect
    <2>2. S.file[c.file] \in Seq(Byte) /\ Len(S.file[c.file]) \in Nat
        BY <1>1, <1>2
    <2>3. b \in Nat /\ NumRanks * b <= Len(S.file[c.file])
        <3>1. b = ((Len(S.file[c.file]) \div c.e) \div NumRanks) * c.e
            BY DEF ScatterBlock
        <3> HIDE DEF c, b
        <3> QED BY <1>1, <2>2, <3>1, ConstantsAre, PartsFit
    <2> HIDE DEF b, E
    <2>4. E.file = S.file /\ E.tray = [r \in Rank |-> SubSeq(S.file[c.file], r * b + 1, (r + 1) * b)] /\ E = [tray |-> E.tray, file |-> E.file]
        BY <1>2, <2>1
    <2>5. ASSUME NEW r \in Rank
          PROVE  /\ E.tray[r] = SubSeq(S.file[c.file], r * b + 1, r * b + b)
                 /\ E.tray[r] \in Seq(Byte) /\ Len(E.tray[r]) = b
        <3>1. r \in Nat /\ r * b \in Nat /\ (r + 1) * b = r * b + b /\ r * b + b <= NumRanks * b /\ NumRanks * b \in Nat
            BY <2>3, PartIs
        <3>2. r * b + b <= Len(S.file[c.file])
            BY <2>2, <2>3, <3>1
        <3>3. E.tray[r] = SubSeq(S.file[c.file], r * b + 1, r * b + b)
            BY <2>4, <3>1
        <3> DEFINE s == S.file[c.file]
                   i == r * b
        <3>4. s \in Seq(Byte) /\ i \in Nat /\ i + b <= Len(s)
            BY <2>2, <3>1, <3>2
        <3>5. E.tray[r] = SubSeq(s, i + 1, i + b)
            BY <3>3
        <3> HIDE DEF s, i
        <3>6. SubSeq(s, i + 1, i + b) \in Seq(Byte) /\ Len(SubSeq(s, i + 1, i + b)) = b
            BY <2>3, <3>4, SubSeqIs
        <3> QED BY <3>3, <3>5, <3>6
    <2>6. E \in Memory
        <3>1. E.tray \in [Rank -> Seq(Byte)]
            BY <2>4, <2>5
        <3> QED BY <1>2, <2>4, <3>1 DEF Memory
    <2>7. Even(E)
        BY <2>5, ConstantsAre DEF Even
    <2> QED BY <1>3, <2>4, <2>5, <2>6, <2>7 DEF b, E
<1>4. CASE c.op = "gather"
    <2> DEFINE w == WriteAt(S.file[c.file], 0, GatheredBlocks(S))
    <2>1. E = [S EXCEPT !.file[c.file] = w]
        BY <1>4 DEF Effect
    <2>2. w \in Seq(Byte)
        BY <1>1, <1>2, GatheredIs, WriteAtIs
    <2> HIDE DEF w, E
    <2>3. E.tray = S.tray /\ E.file = [S.file EXCEPT ![c.file] = w] /\ E = [tray |-> E.tray, file |-> E.file]
        BY <1>2, <2>1
    <2>4. E \in Memory
        <3>1. E.tray \in [Rank -> Seq(Byte)]
            BY <1>2, <2>3
        <3>2. E.file \in [File -> Seq(Byte)]
            BY <1>1, <1>2, <2>2, <2>3
        <3> QED BY <2>3, <3>1, <3>2 DEF Memory
    <2>5. Even(E)
        BY <2>3 DEF Even
    <2> QED BY <1>4, <2>3, <2>4, <2>5 DEF E, w
<1>5. CASE c.op = "kernel"
    <2>1. E = [S EXCEPT !.tray = [r \in Rank |-> [k \in DOMAIN S.tray[r] |-> << n, r, k >>]]]
        BY <1>5 DEF Effect
    <2> HIDE DEF E
    <2>2. E.file = S.file /\ E.tray = [r \in Rank |-> [k \in DOMAIN S.tray[r] |-> << n, r, k >>]] /\ E = [tray |-> E.tray, file |-> E.file]
        BY <1>2, <2>1
    <2>3. ASSUME NEW r \in Rank
          PROVE  /\ E.tray[r] = [k \in DOMAIN S.tray[r] |-> << n, r, k >>]
                 /\ E.tray[r] \in Seq(Byte) /\ Len(E.tray[r]) = Len(S.tray[r])
        <3>1. E.tray[r] = [k \in DOMAIN S.tray[r] |-> << n, r, k >>]
            BY <2>2
        <3>2. S.tray[r] \in Seq(Byte)
            BY <1>2
        <3>3. DOMAIN S.tray[r] = 1 .. Len(S.tray[r]) /\ Len(S.tray[r]) \in Nat
            BY <3>2
        <3>4. \A k \in 1 .. Len(S.tray[r]) : << n, r, k >> \in Byte
            BY <1>1, <3>3 DEF Byte
        <3> QED BY <3>1, <3>3, <3>4
    <2>4. E \in Memory
        <3>1. E.tray \in [Rank -> Seq(Byte)]
            BY <2>2, <2>3
        <3> QED BY <1>2, <2>2, <3>1 DEF Memory
    <2>5. Even(E)
        BY <2>3, ConstantsAre DEF Even
    <2> QED BY <1>5, <2>2, <2>3, <2>4, <2>5 DEF E
<1>6. CASE c.op \in {"query", "transfer"}
    <2>1. E = S
        BY <1>6 DEF Effect
    <2> QED BY <1>6, <2>1
<1> QED BY <1>1, <1>3, <1>4, <1>5, <1>6
----------------------------------------------------------------------------
\* The program run call by call, as a function of the program.
IsRef(p, k, f) == f = [n \in 0 .. k |-> IF n = 0 THEN AtStart ELSE Effect(n, p[n], f[n - 1])]
Ref(p) == LET a[n \in 0 .. Len(p)] == IF n = 0 THEN AtStart ELSE Effect(n, p[n], a[n - 1]) IN a

\* The definition in ScatterGather is that function, for the program that runs.
LEMMA AfterIsRef == After = Ref(prog)
BY DEF After, Ref

NatLess == {x \in Nat \X Nat : x[1] < x[2]}

\* Induction from a to k, for a set that holds the numbers it is about.
LEMMA Climb ==
    ASSUME NEW a \in Nat, NEW k \in Nat, NEW C, a \in C, \A n \in a .. k - 1 : n \in C => n + 1 \in C
    PROVE  \A n \in a .. k : n \in C
<1> DEFINE T == {n \in a .. k : n \notin C}
<1>1. SUFFICES ASSUME T # {} PROVE FALSE
    OBVIOUS
<1>2. IsWellFoundedOn(NatLess, Nat)
    BY NatLessThanWellFounded DEF OpToRel, NatLess
<1>3. T \subseteq Nat
    OBVIOUS
<1>4. PICK m \in T : \A n \in T : << n, m >> \notin NatLess
    <2> HIDE DEF T
    <2> QED BY <1>1, <1>2, <1>3, WFMin
<1>5. m # a /\ m \in a .. k /\ m \notin C
    BY <1>4
<1>6. m - 1 \in a .. k - 1 /\ m - 1 + 1 = m /\ m - 1 \in a .. k
    BY <1>5
<1>7. m - 1 \notin C
    BY <1>5, <1>6
<1>8. m - 1 \in T /\ << m - 1, m >> \in NatLess
    BY <1>5, <1>6, <1>7 DEF NatLess
<1> QED BY <1>4, <1>8

\* A function that the recursion describes, by induction on the number of calls.
LEMMA RefExists ==
    ASSUME NEW p, NEW k \in Nat
    PROVE  \E f : IsRef(p, k, f)
<1> DEFINE C == {m \in Nat : \E f : IsRef(p, m, f)}
<1>1. 0 \in C
    <2>1. IsRef(p, 0, [n \in 0 .. 0 |-> AtStart])
        BY DEF IsRef
    <2> QED BY <2>1
<1>2. ASSUME NEW m \in 0 .. k - 1, m \in C PROVE m + 1 \in C
    <2>1. PICK f : IsRef(p, m, f)
        BY <1>2
    <2> DEFINE g == [n \in 0 .. m + 1 |-> IF n = m + 1 THEN Effect(n, p[n], f[m]) ELSE f[n]]
    <2>2. m \in Nat
        BY <1>2
    <2>3. \A n \in 0 .. m : f[n] = IF n = 0 THEN AtStart ELSE Effect(n, p[n], f[n - 1])
        BY <2>1 DEF IsRef
    <2>4. \A n \in 0 .. m : g[n] = f[n]
        BY <2>2
    <2>5. g[m + 1] = Effect(m + 1, p[m + 1], g[m])
        BY <2>2, <2>4
    <2>6. ASSUME NEW n \in 0 .. m + 1 PROVE g[n] = IF n = 0 THEN AtStart ELSE Effect(n, p[n], g[n - 1])
        <3>1. CASE n = m + 1
            <4>1. n # 0 /\ n - 1 = m
                BY <2>2, <3>1
            <4> HIDE DEF g
            <4> QED BY <2>5, <3>1, <4>1
        <3>2. CASE n # m + 1
            <4>1. n \in 0 .. m /\ (n # 0 => n - 1 \in 0 .. m)
                BY <2>2, <3>2
            <4> HIDE DEF g
            <4> QED BY <2>3, <2>4, <4>1
        <3> QED BY <3>1, <3>2
    <2>7. IsRef(p, m + 1, g)
        <3>1. g = [n \in 0 .. m + 1 |-> g[n]]
            OBVIOUS
        <3> HIDE DEF g
        <3> QED BY <2>6, <3>1 DEF IsRef
    <2> QED BY <2>2, <2>7
<1>3. k \in C
    <2> HIDE DEF C
    <2> QED BY <1>1, <1>2, Climb
<1> QED BY <1>3

\* The recursion that defines the run holds of it.
LEMMA RefStep ==
    ASSUME NEW p \in Programs
    PROVE  /\ Ref(p)[0] = AtStart
           /\ \A n \in 1 .. Len(p) : Ref(p)[n] = Effect(n, p[n], Ref(p)[n - 1])
<1>1. Len(p) \in Nat
    BY CallIs
<1>2. \E f : IsRef(p, Len(p), f)
    BY <1>1, RefExists
<1>3. IsRef(p, Len(p), Ref(p))
    BY <1>2 DEF IsRef, Ref
<1> QED BY <1>1, <1>3 DEF IsRef

\* Trays and files when the program starts.
LEMMA StartIs == AtStart \in Memory /\ Even(AtStart)
<1>1. ASSUME NEW f \in File PROVE AtStart.file[f] \in Seq(Byte)
    <2>1. FileSize[f] \in Nat /\ AtStart.file[f] = [k \in 1 .. FileSize[f] |-> << 0, 0, k >>]
        BY ConstantsAre DEF AtStart
    <2>2. \A k \in 1 .. FileSize[f] : << 0, 0, k >> \in Byte
        <3>1. 0 \in 0 .. MaxCalls /\ 0 \in Rank
            BY ConstantsAre, ScatterGatherAssumption
        <3> QED BY <2>1, <3>1 DEF Byte
    <2> QED BY <2>1, <2>2
<1>2. AtStart.tray = [r \in Rank |-> << >>] /\ AtStart.file = [f \in File |-> AtStart.file[f]] /\ AtStart = [tray |-> AtStart.tray, file |-> AtStart.file]
    BY DEF AtStart
<1>3. AtStart.tray \in [Rank -> Seq(Byte)] /\ AtStart.file \in [File -> Seq(Byte)]
    BY <1>1, <1>2
<1>4. AtStart \in Memory
    BY <1>2, <1>3 DEF Memory
<1> QED BY <1>2, <1>4, ConstantsAre DEF Even

\* Trays and files stay sequences of bytes, and the trays equally long, after every call.
LEMMA RefIs ==
    ASSUME NEW p \in Programs
    PROVE  \A n \in 0 .. Len(p) : Ref(p)[n] \in Memory /\ Even(Ref(p)[n])
<1> DEFINE C == {n \in Nat : Ref(p)[n] \in Memory /\ Even(Ref(p)[n])}
<1>1. Len(p) \in Nat
    BY CallIs
<1>2. 0 \in C
    BY RefStep, StartIs
<1>3. ASSUME NEW n \in 0 .. Len(p) - 1, n \in C PROVE n + 1 \in C
    <2>1. n + 1 \in 1 .. Len(p) /\ n + 1 - 1 = n /\ n + 1 \in Nat
        BY <1>1
    <2>2. Ref(p)[n + 1] = Effect(n + 1, p[n + 1], Ref(p)[n])
        BY <2>1, RefStep
    <2>3. Ref(p)[n] \in Memory /\ Even(Ref(p)[n])
        BY <1>3
    <2>4. Ref(p)[n + 1] \in Memory /\ Even(Ref(p)[n + 1])
        <3> DEFINE m == n + 1
                   S == Ref(p)[n]
        <3>1. m \in 1 .. Len(p) /\ S \in Memory /\ Even(S)
            BY <2>1, <2>3
        <3>2. Effect(m, p[m], S) \in Memory /\ Even(Effect(m, p[m], S))
            <4> HIDE DEF m, S
            <4> QED BY <3>1, EffectIs
        <3> QED BY <2>2, <3>2
    <2> QED BY <2>1, <2>4
<1>4. \A n \in 0 .. Len(p) : n \in C
    <2> HIDE DEF C
    <2> QED BY <1>1, <1>2, <1>3, Climb
<1> QED BY <1>4

\* The entities of a rank: an int, and the exact quotient when the size of the file is one.
LEMMA SizesIs ==
    ASSUME NEW z \in Nat, NEW e \in Nat \ {0}
    PROVE  /\ Sizes(z, e) \in -IntLimit .. IntLimit - 1
           /\ z < IntLimit => Sizes(z, e) = (z \div e) \div NumRanks
           /\ Sizes(z, e) >= 1 => /\ Int32(z) \in Nat /\ Int32(z) <= z /\ Int32(z) < IntLimit
                                  /\ Sizes(z, e) = (Int32(z) \div e) \div NumRanks
<1> DEFINE x == Int32(z)
           y == Quot(x, e)
           q == Quot(y, NumRanks)
<1>1. x \in -IntLimit .. IntLimit - 1 /\ x <= z /\ (z < IntLimit => x = z) /\ IntLimit \in Nat \ {0} /\ NumRanks \in Nat \ {0}
    BY IntIs, ConstantsAre
<1>2. x \in Int
    BY <1>1
<1>3. Sizes(z, e) = q
    BY DEF Sizes
<1> HIDE DEF x
<1>4. CASE x \in Nat
    <2>1. y = x \div e /\ y \in 0 .. x
        BY <1>2, <1>4, QuotIs
    <2>2. y \in Nat
        BY <1>4, <2>1
    <2>3. q = y \div NumRanks /\ q \in 0 .. y
        <3> HIDE DEF y
        <3>1. y \in Int /\ NumRanks \in Nat \ {0}
            BY <1>1, <2>2
        <3> QED BY <2>2, <3>1, QuotIs
    <2>4. q = (x \div e) \div NumRanks
        BY <2>1, <2>3
    <2>5. q \in -IntLimit .. IntLimit - 1
        <3> HIDE DEF y, q
        <3> QED BY <1>1, <1>4, <2>1, <2>3
    <2>6. x \in Nat /\ x <= z /\ x < IntLimit
        BY <1>1, <1>4
    <2> HIDE DEF y, q
    <2> QED BY <1>1, <1>3, <2>4, <2>5, <2>6 DEF x
<1>5. CASE x \notin Nat
    <2>1. y \in x .. 0
        BY <1>2, <1>5, QuotIs
    <2>2. y \in Int /\ (y \in Nat => y = 0)
        BY <1>2, <2>1
    <2>3. q \in y .. 0
        <3> HIDE DEF y
        <3>1. CASE y \in Nat
            <4>1. y = 0 /\ q \in 0 .. y
                BY <1>1, <2>2, <3>1, QuotIs
            <4> QED BY <4>1
        <3>2. CASE y \notin Nat
            BY <1>1, <2>2, <3>2, QuotIs
        <3> QED BY <3>1, <3>2
    <2>4. q \in -IntLimit .. IntLimit - 1 /\ ~(q >= 1)
        <3> HIDE DEF y, q
        <3> QED BY <1>1, <1>2, <2>1, <2>2, <2>3
    <2>5. ~(z < IntLimit)
        BY <1>1, <1>5
    <2> HIDE DEF y, q
    <2> QED BY <1>3, <2>4, <2>5
<1> QED BY <1>4, <1>5

\* Where rank r reads, when each rank gets q entities of e bytes: nothing wraps around.
LEMMA ViewIs ==
    ASSUME NEW z \in Nat, z < IntLimit, NEW e \in Nat \ {0}, NEW q \in Nat, NumRanks * (q * e) <= z, NEW r \in Rank
    PROVE  /\ q * e \in Nat /\ Int32(q * e) = q * e
           /\ r * q * e = r * (q * e) /\ r * (q * e) \in Nat /\ Int32(r * q * e) = r * (q * e)
           /\ r * (q * e) + q * e <= z
<1> DEFINE b == q * e
           i == r * b
<1>1. b \in Nat
    BY MulNat
<1>2. r \in Nat /\ i \in Nat /\ i + b <= NumRanks * b /\ NumRanks * b \in Nat
    <2> HIDE DEF b
    <2> QED BY <1>1, PartIs
<1>3. r * q * e = i
    BY <1>2, MulThree
<1>4. i + b <= z /\ b < IntLimit /\ i < IntLimit
    <2>1. NumRanks * b <= z /\ IntLimit \in Nat
        BY ConstantsAre
    <2> HIDE DEF b, i
    <2> QED BY <1>1, <1>2, <2>1
<1>5. Int32(b) = b /\ Int32(i) = i
    <2> HIDE DEF b, i
    <2> QED BY <1>1, <1>2, <1>4, IntIs
<1> HIDE DEF i
<1>6. Int32(r * q * e) = i
    BY <1>3, <1>5
<1> QED BY <1>1, <1>2, <1>3, <1>4, <1>5, <1>6 DEF i
----------------------------------------------------------------------------
\* Where a rank is inside a call.
PhaseAt(r) ==
    /\ phase[r] # "call" => pc[r] <= Len(prog)
    /\ phase[r] = "size" => Cur(r).op \in {"query", "scatter"}
    /\ phase[r] = "read" => Cur(r).op = "scatter"
    /\ phase[r] = "write" => Cur(r).op = "gather"

\* A rank about to read has the sizes of the file, which may have grown since.
ReadAt(r) ==
    phase[r] = "read" =>
        /\ MPIentityTypeSize[r] = Cur(r).e
        /\ \E z \in Nat : z <= Len(file[Cur(r).file]) /\ ePerRank[r] = Sizes(z, Cur(r).e)

PhaseOK == \A r \in Rank : PhaseAt(r)
ReadOK  == \A r \in Rank : ReadAt(r)

TypeInv == TypeOK /\ PhaseOK /\ ReadOK

\* The call a rank is in.
LEMMA CurIs ==
    ASSUME TypeOK, NEW r \in Rank, pc[r] <= Len(prog)
    PROVE  /\ prog \in Programs /\ Len(prog) \in Nat /\ pc[r] \in 1 .. Len(prog) /\ pc[r] \in 0 .. MaxCalls
           /\ Cur(r) = prog[pc[r]] /\ Cur(r).op \in {"query", "scatter", "gather", "transfer", "kernel"}
           /\ Cur(r).e \in Nat \ {0} /\ Cur(r).file \in File /\ Cur(r).count \in Nat
<1>1. prog \in Programs /\ pc[r] \in 1 .. Len(prog) + 1
    BY DEF TypeOK
<1>2. Len(prog) \in Nat /\ Len(prog) <= MaxCalls /\ MaxCalls \in Nat
    BY <1>1, CallIs
<1>3. pc[r] \in 1 .. Len(prog) /\ pc[r] \in 0 .. MaxCalls
    BY <1>1, <1>2
<1>4. /\ prog[pc[r]].op \in {"query", "scatter", "gather", "transfer", "kernel"}
      /\ prog[pc[r]].e \in Nat \ {0} /\ prog[pc[r]].file \in File /\ prog[pc[r]].count \in Nat
    BY <1>1, <1>3, CallIs
<1> QED BY <1>1, <1>2, <1>3, <1>4 DEF Cur

\* A part of the file that rank r reads is in the file.
LEMMA ReadIs ==
    ASSUME TypeInv, NEW r \in Rank, phase[r] = "read", ~(ePerRank[r] < NumTasks)
    PROVE  /\ ePerRank[r] * MPIentityTypeSize[r] \in Nat
           /\ Int32(ePerRank[r] * MPIentityTypeSize[r]) = ePerRank[r] * MPIentityTypeSize[r]
           /\ Cur(r).e % FloatSize = 0 => Displacement(r) = r * (ePerRank[r] * MPIentityTypeSize[r])
           /\ Displacement(r) \in Nat
           /\ Displacement(r) + ePerRank[r] * MPIentityTypeSize[r] <= Len(file[Cur(r).file])
<1> DEFINE q == ePerRank[r]
           e == MPIentityTypeSize[r]
           s == Len(file[Cur(r).file])
<1>1. TypeOK /\ pc[r] <= Len(prog) /\ e = Cur(r).e
    BY DEF TypeInv, PhaseOK, PhaseAt, ReadOK, ReadAt
<1>2. Cur(r).file \in File /\ e \in Nat \ {0}
    BY <1>1, CurIs
<1>3. s \in Nat /\ q \in Int
    <2>1. file[Cur(r).file] \in Seq(Byte) /\ ePerRank[r] \in -IntLimit .. IntLimit - 1
        BY <1>1, <1>2 DEF TypeOK
    <2> QED BY <2>1
<1>4. PICK z \in Nat : z <= s /\ q = Sizes(z, Cur(r).e)
    BY DEF TypeInv, ReadOK, ReadAt
<1>5. q = Sizes(z, e)
    BY <1>1, <1>4
<1>6. q >= 1
    <2>1. ~(q < NumTasks) /\ NumTasks \in Nat \ {0}
        BY ConstantsAre
    <2> HIDE DEF q
    <2> QED BY <1>3, <2>1
<1>7. /\ Displacement(r) = IF ViewAccepted(r) THEN Int32(r * q * e) ELSE 0
      /\ ViewAccepted(r) <=> Int32(r * q * e) >= 0 /\ Cur(r).e % FloatSize = 0
    BY DEF Displacement, ViewAccepted, Offset
<1> HIDE DEF q, e, s
<1> DEFINE x == Int32(z)
<1>8. x \in Nat /\ x <= z /\ x < IntLimit /\ q = (x \div e) \div NumRanks
    BY <1>2, <1>5, <1>6, SizesIs
<1> HIDE DEF x
<1>9. q \in Nat /\ q * e \in Nat /\ NumRanks * (q * e) <= x
    BY <1>2, <1>8, ConstantsAre, PartsFit
<1>10. /\ Int32(q * e) = q * e /\ r * (q * e) \in Nat /\ Int32(r * q * e) = r * (q * e)
       /\ r * (q * e) + q * e <= x
    BY <1>2, <1>8, <1>9, ViewIs
<1>11. /\ Displacement(r) \in {0, r * (q * e)}
       /\ Cur(r).e % FloatSize = 0 => Displacement(r) = r * (q * e)
    <2> DEFINE i == r * (q * e)
    <2>1. i \in Nat /\ Int32(r * q * e) = i
        BY <1>10
    <2> HIDE DEF i
    <2>2. Displacement(r) \in {0, i} /\ (Cur(r).e % FloatSize = 0 => Displacement(r) = i)
        BY <1>7, <2>1
    <2> QED BY <2>2 DEF i
<1>12. Displacement(r) \in Nat /\ Displacement(r) + q * e <= s
    <2> DEFINE i == r * (q * e)
               b == q * e
    <2>1. i \in Nat /\ b \in Nat /\ i + b <= x /\ Displacement(r) \in {0, i}
        BY <1>9, <1>10, <1>11
    <2> HIDE DEF i, b
    <2>2. Displacement(r) \in Nat /\ Displacement(r) + b <= s
        BY <1>3, <1>4, <1>8, <2>1
    <2> QED BY <2>2 DEF b
<1> QED BY <1>9, <1>10, <1>11, <1>12 DEF q, e, s

\* A step of rank r leaves what the other ranks have alone, and no file gets shorter.
Others(r) ==
    \A q \in Rank : q # r =>
        /\ pc'[q] = pc[q] /\ phase'[q] = phase[q] /\ opened'[q] = opened[q]
        /\ MPIentityTypeSize'[q] = MPIentityTypeSize[q] /\ ePerRank'[q] = ePerRank[q]
        /\ tray'[q] = tray[q] /\ tmphostbuffer'[q] = tmphostbuffer[q]
Grown == \A f \in File : Len(file'[f]) \in Nat /\ Len(file[f]) \in Nat /\ Len(file[f]) <= Len(file'[f])

\* The types and phases of all ranks after a step of rank r, from those of r.
LEMMA TypeKept ==
    ASSUME TypeInv, TypeOK', prog' = prog, NEW r \in Rank, Others(r), Grown, PhaseAt(r)', ReadAt(r)'
    PROVE  TypeInv'
<1>1. TypeOK /\ PhaseOK /\ ReadOK
    BY DEF TypeInv
<1>2. ASSUME NEW q \in Rank, q # r PROVE PhaseAt(q)' /\ ReadAt(q)'
    <2>1. pc'[q] = pc[q] /\ phase'[q] = phase[q] /\ MPIentityTypeSize'[q] = MPIentityTypeSize[q] /\ ePerRank'[q] = ePerRank[q]
        BY <1>2 DEF Others
    <2>2. Cur(q)' = Cur(q)
        BY <2>1 DEF Cur
    <2>3. PhaseAt(q) /\ ReadAt(q)
        BY <1>1 DEF PhaseOK, ReadOK
    <2>4. PhaseAt(q)'
        BY <2>1, <2>2, <2>3 DEF PhaseAt
    <2>5. ReadAt(q)'
        <3> SUFFICES ASSUME phase'[q] = "read"
                     PROVE  /\ MPIentityTypeSize'[q] = Cur(q)'.e
                            /\ \E z \in Nat : z <= Len(file'[Cur(q)'.file]) /\ ePerRank'[q] = Sizes(z, Cur(q)'.e)
            BY DEF ReadAt
        <3>1. phase[q] = "read" /\ pc[q] <= Len(prog)
            BY <2>1, <2>3 DEF PhaseAt
        <3>2. Cur(q).file \in File
            BY <1>1, <3>1, CurIs
        <3>3. PICK z \in Nat : z <= Len(file[Cur(q).file]) /\ ePerRank[q] = Sizes(z, Cur(q).e)
            BY <2>3, <3>1 DEF ReadAt
        <3>4. z <= Len(file'[Cur(q).file])
            BY <3>2, <3>3 DEF Grown
        <3>5. MPIentityTypeSize[q] = Cur(q).e
            BY <2>3, <3>1 DEF ReadAt
        <3> QED BY <2>1, <2>2, <3>3, <3>4, <3>5
    <2> QED BY <2>4, <2>5
<1>3. PhaseOK' /\ ReadOK'
    BY <1>2 DEF PhaseOK, ReadOK
<1> QED BY <1>3 DEF TypeInv

\* Files that are left alone, and ranks that go on.
LEMMA FileKept == ASSUME TypeOK, file' = file PROVE Grown
<1>1. \A f \in File : file[f] \in Seq(Byte)
    BY DEF TypeOK
<1>2. \A f \in File : Len(file[f]) \in Nat
    BY <1>1
<1> QED BY <1>2 DEF Grown

\* A rank goes to another place in its call.
LEMMA GotoIs ==
    ASSUME TypeOK, NEW r \in Rank, NEW x \in {"call", "size", "read", "write"}, Goto(r, x)
    PROVE  /\ pc' = pc /\ phase' \in [Rank -> {"call", "size", "read", "write"}] /\ phase'[r] = x
           /\ \A q \in Rank : q # r => phase'[q] = phase[q]
BY DEF TypeOK, Goto

\* A rank returns from its call.
LEMMA ReturnIs ==
    ASSUME TypeOK, NEW r \in Rank, pc[r] <= Len(prog), Return(r)
    PROVE  /\ phase' \in [Rank -> {"call", "size", "read", "write"}] /\ phase'[r] = "call"
           /\ pc' \in [Rank -> 1 .. Len(prog) + 1] /\ pc'[r] = pc[r] + 1
           /\ \A q \in Rank : q # r => phase'[q] = phase[q] /\ pc'[q] = pc[q]
<1>1. pc \in [Rank -> 1 .. Len(prog) + 1] /\ phase \in [Rank -> {"call", "size", "read", "write"}]
    BY DEF TypeOK
<1>2. pc[r] + 1 \in 1 .. Len(prog) + 1
    BY <1>1, CurIs
<1>3. pc' = [pc EXCEPT ![r] = pc[r] + 1] /\ phase' = [phase EXCEPT ![r] = "call"]
    BY DEF Return
<1>4. pc' \in [Rank -> 1 .. Len(prog) + 1] /\ pc'[r] = pc[r] + 1 /\ \A q \in Rank : q # r => pc'[q] = pc[q]
    BY <1>1, <1>2, <1>3
<1>5. phase' \in [Rank -> {"call", "size", "read", "write"}] /\ phase'[r] = "call" /\ \A q \in Rank : q # r => phase'[q] = phase[q]
    BY <1>1, <1>3
<1> QED BY <1>4, <1>5

\* A rank in the application or at the open of a call.
LEMMA PlainPhase ==
    ASSUME NEW r \in Rank, phase'[r] = "call"
    PROVE  PhaseAt(r)' /\ ReadAt(r)'
BY DEF PhaseAt, ReadAt
----------------------------------------------------------------------------
\* OMPI_XclScatter.
LEMMA OpenToReadTypes ==
    ASSUME TypeInv, NEW r \in Rank, OpenToRead(r)
    PROVE  TypeInv' /\ prog' = prog /\ Others(r)
<1>1. TypeOK
    BY DEF TypeInv
<1>2. /\ pc[r] <= Len(prog) /\ Cur(r).op \in {"query", "scatter"} /\ Goto(r, "size")
      /\ opened' = [opened EXCEPT ![r] = opened[r] + 1]
      /\ UNCHANGED << prog, MPIentityTypeSize, ePerRank, tray, tmphostbuffer, file, viewed, status >>
    BY DEF OpenToRead, AtCall, globalVars
<1>3. /\ pc' = pc /\ phase' \in [Rank -> {"call", "size", "read", "write"}] /\ phase'[r] = "size"
      /\ \A q \in Rank : q # r => phase'[q] = phase[q]
    BY <1>1, <1>2, GotoIs
<1>4. opened' \in [Rank -> Nat] /\ \A q \in Rank : q # r => opened'[q] = opened[q]
    BY <1>1, <1>2 DEF TypeOK
<1>5. TypeOK'
    BY <1>1, <1>2, <1>3, <1>4 DEF TypeOK
<1>6. Others(r)
    BY <1>2, <1>3, <1>4 DEF Others
<1>7. PhaseAt(r)' /\ ReadAt(r)'
    BY <1>2, <1>3 DEF PhaseAt, ReadAt, Cur
<1> QED BY <1>1, <1>2, <1>5, <1>6, <1>7, FileKept, TypeKept

\* The sizes are ints, and fit the file when the rank goes on to read.
LEMMA GetSizeTypes ==
    ASSUME TypeInv, NEW r \in Rank, GetSize(r)
    PROVE  TypeInv' /\ prog' = prog /\ Others(r)
<1> DEFINE z == Len(file[Cur(r).file])
<1>1. TypeOK /\ phase[r] = "size" /\ PhaseAt(r)
    BY DEF TypeInv, PhaseOK, GetSize, At
<1>2. pc[r] <= Len(prog) /\ Cur(r).op \in {"query", "scatter"}
    BY <1>1 DEF PhaseAt
<1>3. /\ MPIentityTypeSize' = [MPIentityTypeSize EXCEPT ![r] = Cur(r).e]
      /\ ePerRank' = [ePerRank EXCEPT ![r] = Sizes(z, Cur(r).e)]
      /\ \/ Cur(r).op = "query" /\ Return(r)
         \/ Cur(r).op = "scatter" /\ Goto(r, "read")
      /\ UNCHANGED << prog, tray, tmphostbuffer, file, opened, viewed, status >>
    BY <1>2 DEF GetSize
<1>4. Cur(r).e \in Nat \ {0} /\ Cur(r).file \in File
    BY <1>1, <1>2, CurIs
<1>5. z \in Nat
    <2>1. file[Cur(r).file] \in Seq(Byte)
        BY <1>1, <1>4 DEF TypeOK
    <2> QED BY <2>1
<1> HIDE DEF z
<1>6. Sizes(z, Cur(r).e) \in -IntLimit .. IntLimit - 1
    BY <1>4, <1>5, SizesIs
<1>7. /\ MPIentityTypeSize' \in [Rank -> Nat] /\ MPIentityTypeSize'[r] = Cur(r).e
      /\ \A q \in Rank : q # r => MPIentityTypeSize'[q] = MPIentityTypeSize[q]
    BY <1>1, <1>3, <1>4 DEF TypeOK
<1>8. /\ ePerRank' \in [Rank -> -IntLimit .. IntLimit - 1] /\ ePerRank'[r] = Sizes(z, Cur(r).e)
      /\ \A q \in Rank : q # r => ePerRank'[q] = ePerRank[q]
    BY <1>1, <1>3, <1>6 DEF TypeOK
<1>9. CASE Cur(r).op = "query" /\ Return(r)
    <2>1. /\ phase' \in [Rank -> {"call", "size", "read", "write"}] /\ phase'[r] = "call"
          /\ pc' \in [Rank -> 1 .. Len(prog) + 1]
          /\ \A q \in Rank : q # r => phase'[q] = phase[q] /\ pc'[q] = pc[q]
        BY <1>1, <1>2, <1>9, ReturnIs
    <2>2. TypeOK'
        BY <1>1, <1>3, <1>7, <1>8, <2>1 DEF TypeOK
    <2>3. Others(r)
        BY <1>3, <1>7, <1>8, <2>1 DEF Others
    <2> QED BY <1>1, <1>3, <2>1, <2>2, <2>3, PlainPhase, FileKept, TypeKept
<1>10. CASE Cur(r).op = "scatter" /\ Goto(r, "read")
    <2>1. /\ pc' = pc /\ phase' \in [Rank -> {"call", "size", "read", "write"}] /\ phase'[r] = "read"
          /\ \A q \in Rank : q # r => phase'[q] = phase[q]
        BY <1>1, <1>10, GotoIs
    <2>2. TypeOK'
        BY <1>1, <1>3, <1>7, <1>8, <2>1 DEF TypeOK
    <2>3. Others(r)
        BY <1>3, <1>7, <1>8, <2>1 DEF Others
    <2>4. Cur(r)' = Cur(r)
        BY <1>3, <2>1 DEF Cur
    <2>5. PhaseAt(r)'
        BY <1>2, <1>3, <1>10, <2>1, <2>4 DEF PhaseAt
    <2>6. ReadAt(r)'
        <3>1. z <= Len(file'[Cur(r).file])
            BY <1>3, <1>5 DEF z
        <3> QED BY <1>5, <1>7, <1>8, <2>4, <3>1 DEF ReadAt
    <2> QED BY <1>1, <1>3, <2>2, <2>3, <2>5, <2>6, FileKept, TypeKept
<1> QED BY <1>3, <1>9, <1>10

\* A process that exits or goes wild changes nothing else.
LEMMA StopTypes ==
    ASSUME TypeInv, NEW r \in Rank, NEW st \in {"died", "wild"}, Stop(st),
           UNCHANGED << prog, MPIentityTypeSize, ePerRank, tray, tmphostbuffer, file, opened >>,
           viewed' \in [Rank -> SUBSET Nat]
    PROVE  TypeInv' /\ Others(r)
<1>1. TypeOK /\ PhaseAt(r) /\ ReadAt(r)
    BY DEF TypeInv, PhaseOK, ReadOK
<1>2. status' = st /\ pc' = pc /\ phase' = phase
    BY DEF Stop
<1>3. TypeOK'
    BY <1>1, <1>2 DEF TypeOK
<1>4. Others(r)
    BY <1>2 DEF Others
<1>5. Cur(r)' = Cur(r)
    BY <1>2 DEF Cur
<1>6. PhaseAt(r)' /\ ReadAt(r)'
    BY <1>1, <1>2, <1>5 DEF PhaseAt, ReadAt
<1> QED BY <1>1, <1>3, <1>4, <1>6, FileKept, TypeKept

\* The opens after which a rank has set its view.
LEMMA LeaveViewTypes ==
    ASSUME TypeOK, NEW r \in Rank, LeaveView(r)
    PROVE  viewed' \in [Rank -> SUBSET Nat]
<1>1. opened[r] \in Nat /\ viewed \in [Rank -> SUBSET Nat]
    BY DEF TypeOK
<1>2. viewed' \in {viewed, [viewed EXCEPT ![r] = viewed[r] \cup {opened[r]}]}
    BY <1>1 DEF LeaveView
<1> QED BY <1>1, <1>2

\* What a rank reads are bytes of the file.
LEMMA ReadPartTypes ==
    ASSUME TypeInv, NEW r \in Rank, ReadPart(r)
    PROVE  TypeInv' /\ prog' = prog /\ Others(r)
<1> DEFINE s == file[Cur(r).file]
           i == Displacement(r)
           b == ePerRank[r] * MPIentityTypeSize[r]
<1>1. TypeOK /\ phase[r] = "read" /\ PhaseAt(r)
    BY DEF TypeInv, PhaseOK, ReadPart, At
<1>2. pc[r] <= Len(prog)
    BY <1>1 DEF PhaseAt
<1>3. /\ \/ ePerRank[r] < NumTasks /\ Stop("died") /\ UNCHANGED tray
         \/ /\ ~(ePerRank[r] < NumTasks) /\ Return(r) /\ status' = status
            /\ tray' = [tray EXCEPT ![r] = SubSeq(s, i + 1, i + Int32(b))]
      /\ UNCHANGED << prog, MPIentityTypeSize, ePerRank, tmphostbuffer, file, opened >>
      /\ viewed' \in [Rank -> SUBSET Nat]
    BY <1>1, LeaveViewTypes DEF ReadPart, globalVars
<1>4. CASE Stop("died") /\ UNCHANGED tray
    BY <1>3, <1>4, StopTypes
<1>5. CASE ~(ePerRank[r] < NumTasks) /\ Return(r) /\ status' = status
           /\ tray' = [tray EXCEPT ![r] = SubSeq(s, i + 1, i + Int32(b))]
    <2>1. Int32(b) = b /\ b \in Nat /\ i \in Nat /\ i + b <= Len(s)
        BY <1>1, <1>5, ReadIs
    <2>2. s \in Seq(Byte)
        BY <1>1, <1>2, CurIs DEF TypeOK
    <2>3. tray' = [tray EXCEPT ![r] = SubSeq(s, i + 1, i + b)]
        BY <1>5, <2>1
    <2> HIDE DEF s, i, b
    <2>4. SubSeq(s, i + 1, i + b) \in Seq(Byte)
        BY <2>1, <2>2, SubSeqIs
    <2>5. tray' \in [Rank -> Seq(Byte)] /\ \A q \in Rank : q # r => tray'[q] = tray[q]
        BY <1>1, <2>3, <2>4 DEF TypeOK
    <2>6. /\ phase' \in [Rank -> {"call", "size", "read", "write"}] /\ phase'[r] = "call"
          /\ pc' \in [Rank -> 1 .. Len(prog) + 1]
          /\ \A q \in Rank : q # r => phase'[q] = phase[q] /\ pc'[q] = pc[q]
        BY <1>1, <1>2, <1>5, ReturnIs
    <2>7. TypeOK'
        BY <1>1, <1>3, <1>5, <2>5, <2>6 DEF TypeOK
    <2>8. Others(r)
        BY <1>3, <2>5, <2>6 DEF Others
    <2> QED BY <1>1, <1>3, <2>6, <2>7, <2>8, PlainPhase, FileKept, TypeKept
<1> QED BY <1>3, <1>4, <1>5

\* The room that the gather of rank r allocates.
LEMMA SpaceIs ==
    ASSUME TypeOK, NEW r \in Rank, pc[r] <= Len(prog)
    PROVE  Space(r) \in Int
<1> DEFINE x == Cur(r).count * MPIentityTypeSize[r] * NumTasks
<1>1. Cur(r).count \in Nat /\ MPIentityTypeSize[r] \in Nat /\ NumTasks \in Nat /\ IntLimit \in Nat
    BY CurIs, ConstantsAre DEF TypeOK
<1>2. Cur(r).count * MPIentityTypeSize[r] \in Nat
    BY <1>1, MulNat
<1>3. x \in Int
    BY <1>1, <1>2, MulNat
<1> HIDE DEF x
<1>4. Int32(x) \in -IntLimit .. IntLimit - 1
    BY <1>3, IntIs
<1> QED BY <1>1, <1>4 DEF Space, x

\* OMPI_XclGather.
LEMMA ReadTraysTypes ==
    ASSUME TypeInv, NEW r \in Rank, ReadTrays(r)
    PROVE  TypeInv' /\ prog' = prog /\ Others(r)
<1> DEFINE t == [k \in 1 .. Space(r) |-> IF k <= Len(tray[r]) THEN tray[r][k] ELSE Junk]
<1>1. TypeOK /\ pc[r] <= Len(prog) /\ Cur(r).op = "gather"
    BY DEF TypeInv, ReadTrays, AtCall
<1>2. /\ \/ \E st \in {"died", "wild"} : Stop(st) /\ UNCHANGED << tmphostbuffer, opened >>
         \/ /\ tmphostbuffer' = [tmphostbuffer EXCEPT ![r] = t]
            /\ opened' = [opened EXCEPT ![r] = opened[r] + 1]
            /\ Goto(r, "write") /\ status' = status /\ ~(Len(tray[r]) > Space(r))
      /\ UNCHANGED << prog, MPIentityTypeSize, ePerRank, tray, file, viewed >>
    BY DEF ReadTrays, globalVars
<1>3. CASE \E st \in {"died", "wild"} : Stop(st) /\ UNCHANGED << tmphostbuffer, opened >>
    BY <1>1, <1>2, <1>3, StopTypes DEF TypeOK
<1>4. CASE /\ tmphostbuffer' = [tmphostbuffer EXCEPT ![r] = t]
           /\ opened' = [opened EXCEPT ![r] = opened[r] + 1]
           /\ Goto(r, "write") /\ status' = status /\ ~(Len(tray[r]) > Space(r))
    <2>1. t \in Seq(Byte)
        <3>2. tray[r] \in Seq(Byte) /\ Junk \in Byte /\ Len(tray[r]) \in Nat
            BY <1>1, ConstantsAre DEF TypeOK
        <3>1. Space(r) \in Nat
            <4>1. Space(r) \in Int
                BY <1>1, SpaceIs
            <4> QED BY <1>4, <3>2, <4>1
        <3>3. \A k \in 1 .. Space(r) : (IF k <= Len(tray[r]) THEN tray[r][k] ELSE Junk) \in Byte
            BY <3>1, <3>2
        <3> QED BY <3>1, <3>3
    <2> HIDE DEF t
    <2>2. tmphostbuffer' \in [Rank -> Seq(Byte)] /\ \A q \in Rank : q # r => tmphostbuffer'[q] = tmphostbuffer[q]
        BY <1>1, <1>4, <2>1 DEF TypeOK
    <2>3. opened' \in [Rank -> Nat] /\ \A q \in Rank : q # r => opened'[q] = opened[q]
        BY <1>1, <1>4 DEF TypeOK
    <2>4. /\ pc' = pc /\ phase' \in [Rank -> {"call", "size", "read", "write"}] /\ phase'[r] = "write"
          /\ \A q \in Rank : q # r => phase'[q] = phase[q]
        BY <1>1, <1>4, GotoIs
    <2>5. TypeOK'
        BY <1>1, <1>2, <1>4, <2>2, <2>3, <2>4 DEF TypeOK
    <2>6. Others(r)
        BY <1>2, <2>2, <2>3, <2>4 DEF Others
    <2>7. PhaseAt(r)' /\ ReadAt(r)'
        BY <1>1, <1>2, <2>4 DEF PhaseAt, ReadAt, Cur
    <2> QED BY <1>1, <1>2, <2>5, <2>6, <2>7, FileKept, TypeKept
<1> QED BY <1>2, <1>3, <1>4

\* A file that a rank has written to is a sequence of bytes, and not shorter.
LEMMA WritePartTypes ==
    ASSUME TypeInv, NEW r \in Rank, WritePart(r)
    PROVE  TypeInv' /\ prog' = prog /\ Others(r)
<1> DEFINE n == ToWrite(r)
           f == Cur(r).file
           t == SubSeq(tmphostbuffer[r], 1, n)
           w == WriteAt(file[f], Displacement(r), t)
<1>1. TypeOK /\ phase[r] = "write" /\ PhaseAt(r)
    BY DEF TypeInv, PhaseOK, WritePart, At
<1>2. pc[r] <= Len(prog)
    BY <1>1 DEF PhaseAt
<1>3. /\ \/ Stop("wild") /\ file' = file
         \/ /\ ~(n > Len(tmphostbuffer[r])) /\ file' \in {file, [file EXCEPT ![f] = w]}
            /\ Return(r) /\ status' = status
      /\ UNCHANGED << prog, MPIentityTypeSize, ePerRank, tray, tmphostbuffer, opened >>
      /\ viewed' \in [Rank -> SUBSET Nat]
    <2>1. LeaveView(r)
        BY DEF WritePart
    <2> QED BY <1>1, <2>1, LeaveViewTypes DEF WritePart, globalVars
<1>4. CASE Stop("wild") /\ file' = file
    BY <1>3, <1>4, StopTypes
<1>5. CASE ~(n > Len(tmphostbuffer[r])) /\ file' \in {file, [file EXCEPT ![f] = w]} /\ Return(r) /\ status' = status
    <2>1. f \in File /\ Cur(r).e \in Nat \ {0}
        BY <1>1, <1>2, CurIs
    <2>2. file[f] \in Seq(Byte) /\ tmphostbuffer[r] \in Seq(Byte) /\ ePerRank[r] \in -IntLimit .. IntLimit - 1 /\ MPIentityTypeSize[r] \in Nat
        BY <1>1, <2>1 DEF TypeOK
    <2>3. n \in Int /\ n <= Len(tmphostbuffer[r]) /\ Len(tmphostbuffer[r]) \in Nat
        <3>1. Len(tmphostbuffer[r]) \in Nat
            BY <2>2
        <3>2. n \in Int
            BY ConstantsAre DEF ToWrite
        <3> HIDE DEF n
        <3> QED BY <1>5, <3>1, <3>2
    <2>4. t \in Seq(Byte)
        <3>1. \A k \in 1 .. n : tmphostbuffer[r][k] \in Byte
            <4> HIDE DEF n
            <4> QED BY <2>2, <2>3
        <3> HIDE DEF n
        <3> QED BY <2>3, <3>1, SubSeqProperties
    <2>5. Displacement(r) \in Nat
        <3> DEFINE x == r * ePerRank[r] * MPIentityTypeSize[r]
                   d == Int32(x)
        <3>1. r \in Int /\ ePerRank[r] \in Int /\ MPIentityTypeSize[r] \in Int
            BY <2>2, ConstantsAre
        <3>2. x \in Int
            BY <3>1
        <3>3. d \in Int
            <4> HIDE DEF x
            <4>1. d \in -IntLimit .. IntLimit - 1
                BY <3>2, IntIs
            <4> QED BY <4>1, ConstantsAre
        <3>4. Displacement(r) \in {0, d} /\ (Displacement(r) = d => d >= 0 \/ d = 0)
            BY DEF Displacement, ViewAccepted, Offset
        <3> HIDE DEF d
        <3> QED BY <3>3, <3>4
    <2> HIDE DEF t, f, n
    <2>6. w \in Seq(Byte) /\ Len(w) = IF Displacement(r) + Len(t) > Len(file[f]) THEN Displacement(r) + Len(t) ELSE Len(file[f])
        BY <2>2, <2>4, <2>5, WriteAtIs
    <2>7. Len(w) \in Nat /\ Len(file[f]) \in Nat /\ Len(file[f]) <= Len(w)
        <3>1. Len(t) \in Nat /\ Len(file[f]) \in Nat
            BY <2>2, <2>4
        <3> HIDE DEF w
        <3> QED BY <2>5, <2>6, <3>1
    <2> HIDE DEF w
    <2>8. file' \in [File -> Seq(Byte)]
        BY <1>1, <1>5, <2>1, <2>6 DEF TypeOK
    <2>9. Grown
        <3>1. \A g \in File : file[g] \in Seq(Byte) /\ Len(file[g]) \in Nat /\ file'[g] \in {file[g], IF g = f THEN w ELSE file[g]}
            BY <1>1, <1>5, <2>1 DEF TypeOK
        <3> QED BY <2>7, <3>1 DEF Grown
    <2>10. /\ phase' \in [Rank -> {"call", "size", "read", "write"}] /\ phase'[r] = "call"
           /\ pc' \in [Rank -> 1 .. Len(prog) + 1]
           /\ \A q \in Rank : q # r => phase'[q] = phase[q] /\ pc'[q] = pc[q]
        BY <1>1, <1>2, <1>5, ReturnIs
    <2>11. TypeOK'
        BY <1>1, <1>3, <1>5, <2>8, <2>10 DEF TypeOK
    <2>12. Others(r)
        BY <1>3, <2>10 DEF Others
    <2> QED BY <1>1, <1>3, <2>9, <2>10, <2>11, <2>12, PlainPhase, TypeKept
<1> QED BY <1>3, <1>4, <1>5

\* The other calls.
LEMMA TransferTypes ==
    ASSUME TypeInv, NEW r \in Rank, Transfer(r)
    PROVE  TypeInv' /\ prog' = prog /\ Others(r)
<1>1. TypeOK /\ pc[r] <= Len(prog)
    BY DEF TypeInv, Transfer, AtCall
<1>2. /\ MPIentityTypeSize' = MPIentityTypeSize \/ MPIentityTypeSize' = [MPIentityTypeSize EXCEPT ![r] = Cur(r).e]
      /\ Return(r) /\ UNCHANGED << prog, ePerRank, tray, tmphostbuffer, file, opened, viewed, status >>
    BY DEF Transfer
<1>3. Cur(r).e \in Nat
    BY <1>1, CurIs
<1>4. MPIentityTypeSize' \in [Rank -> Nat] /\ \A q \in Rank : q # r => MPIentityTypeSize'[q] = MPIentityTypeSize[q]
    BY <1>1, <1>2, <1>3 DEF TypeOK
<1>5. /\ phase' \in [Rank -> {"call", "size", "read", "write"}] /\ phase'[r] = "call"
      /\ pc' \in [Rank -> 1 .. Len(prog) + 1]
      /\ \A q \in Rank : q # r => phase'[q] = phase[q] /\ pc'[q] = pc[q]
    BY <1>1, <1>2, ReturnIs
<1>6. TypeOK'
    BY <1>1, <1>2, <1>4, <1>5 DEF TypeOK
<1>7. Others(r)
    BY <1>2, <1>4, <1>5 DEF Others
<1> QED BY <1>1, <1>2, <1>5, <1>6, <1>7, PlainPhase, FileKept, TypeKept

\* A kernel gives the trays new bytes.
LEMMA KernelTypes ==
    ASSUME TypeInv, NEW r \in Rank, Kernel(r)
    PROVE  TypeInv' /\ prog' = prog /\ Others(r)
<1> DEFINE t == [k \in DOMAIN tray[r] |-> << pc[r], r, k >>]
<1>1. TypeOK /\ pc[r] <= Len(prog)
    BY DEF TypeInv, Kernel, AtCall
<1>2. /\ tray' = [tray EXCEPT ![r] = t]
      /\ Return(r) /\ UNCHANGED << prog, MPIentityTypeSize, ePerRank, tmphostbuffer, file, opened, viewed, status >>
    BY DEF Kernel, globalVars
<1>3. t \in Seq(Byte)
    <2>1. tray[r] \in Seq(Byte) /\ pc[r] \in 0 .. MaxCalls
        BY <1>1, CurIs DEF TypeOK
    <2>2. DOMAIN tray[r] = 1 .. Len(tray[r]) /\ Len(tray[r]) \in Nat
        BY <2>1
    <2>3. \A k \in 1 .. Len(tray[r]) : << pc[r], r, k >> \in Byte
        BY <2>1, <2>2 DEF Byte
    <2> QED BY <2>2, <2>3
<1> HIDE DEF t
<1>4. tray' \in [Rank -> Seq(Byte)] /\ \A q \in Rank : q # r => tray'[q] = tray[q]
    BY <1>1, <1>2, <1>3 DEF TypeOK
<1>5. /\ phase' \in [Rank -> {"call", "size", "read", "write"}] /\ phase'[r] = "call"
      /\ pc' \in [Rank -> 1 .. Len(prog) + 1]
      /\ \A q \in Rank : q # r => phase'[q] = phase[q] /\ pc'[q] = pc[q]
    BY <1>1, <1>2, ReturnIs
<1>6. TypeOK'
    BY <1>1, <1>2, <1>4, <1>5 DEF TypeOK
<1>7. Others(r)
    BY <1>2, <1>4, <1>5 DEF Others
<1> QED BY <1>1, <1>2, <1>5, <1>6, <1>7, PlainPhase, FileKept, TypeKept

\* The types hold initially.
LEMMA StartTypes == Init => TypeInv
<1> SUFFICES ASSUME Init PROVE TypeInv
    OBVIOUS
<1>1. prog \in Programs /\ Len(prog) \in Nat /\ 1 \in 1 .. Len(prog) + 1
    <2>1. prog \in Programs
        BY DEF Init
    <2>2. Len(prog) \in Nat
        BY <2>1, CallIs
    <2> QED BY <2>1, <2>2
<1>2. file = AtStart.file
    BY DEF Init, AtStart
<1>3. file \in [File -> Seq(Byte)]
    BY <1>2, StartIs DEF Memory
<1>4. IntLimit \in Nat \ {0}
    BY ConstantsAre
<1>5. 0 \in -IntLimit .. IntLimit - 1
    BY <1>4
<1>6. << >> \in Seq(Byte)
    OBVIOUS
<1>7. TypeOK
    BY <1>1, <1>3, <1>5, <1>6 DEF Init, TypeOK
<1>8. \A r \in Rank : phase[r] = "call"
    BY DEF Init
<1>9. PhaseOK /\ ReadOK
    BY <1>8 DEF PhaseOK, PhaseAt, ReadOK, ReadAt
<1> QED BY <1>7, <1>9 DEF TypeInv

\* Every step keeps the types, the program and what the other ranks have.
LEMMA StepTypes ==
    ASSUME TypeInv, NEW r \in Rank, Step(r)
    PROVE  TypeInv' /\ prog' = prog /\ Others(r)
BY OpenToReadTypes, GetSizeTypes, ReadPartTypes, ReadTraysTypes, WritePartTypes, TransferTypes, KernelTypes DEF Step

\* So does a step of something else.
LEMMA StutterTypes == ASSUME TypeInv, UNCHANGED vars PROVE TypeInv'
<1>1. UNCHANGED << prog, pc, phase, MPIentityTypeSize, ePerRank, tray, tmphostbuffer, file, opened, viewed, status >>
    BY DEF vars, globalVars
<1>2. TypeOK'
    BY <1>1 DEF TypeInv, TypeOK
<1>3. \A r \in Rank : PhaseAt(r) /\ ReadAt(r)
    BY DEF TypeInv, PhaseOK, ReadOK
<1>4. \A r \in Rank : Cur(r)' = Cur(r)
    BY <1>1 DEF Cur
<1>5. \A r \in Rank : PhaseAt(r)' /\ ReadAt(r)'
    BY <1>1, <1>3, <1>4 DEF PhaseAt, ReadAt
<1> QED BY <1>2, <1>5 DEF TypeInv, PhaseOK, ReadOK
----------------------------------------------------------------------------
\* The calls that open a file; those that rank q has entered; those whose open has returned.
Collective(c) == c.op \in {"query", "scatter", "gather"}
Entered(q, n) == pc[q] > n \/ (pc[q] = n /\ phase[q] # "call")
Through(r, n) == pc[r] > n \/ (pc[r] = n /\ phase[r] = "read")

EnteredCalls(r) == {n \in 1 .. Len(prog) : Collective(prog[n]) /\ Entered(r, n)}

\* A rank has opened a file as often as it has entered a call that does.
OpenedOK == \A r \in Rank : opened[r] = Cardinality(EnteredCalls(r))

\* No rank is past the open of a call that another rank has not entered.
SyncOK == \A r, q \in Rank : \A n \in 1 .. Len(prog) : Collective(prog[n]) /\ Through(r, n) => Entered(q, n)

SyncInv == OpenedOK /\ SyncOK

\* How a step moves a rank: it enters a call that opens a file, it gets past the open,
\* it leaves a call, or it stays.
Enters(r) ==
    /\ phase[r] = "call" /\ pc[r] <= Len(prog) /\ Collective(Cur(r))
    /\ pc'[r] = pc[r] /\ phase'[r] \in {"size", "write"} /\ opened'[r] = opened[r] + 1
Passes(r) ==
    /\ phase[r] \in {"size", "write"} /\ OpenReturns(r) /\ opened'[r] = opened[r]
    /\ \/ pc'[r] = pc[r] + 1 /\ phase'[r] = "call"
       \/ pc'[r] = pc[r] /\ phase'[r] = "read"
Leaves(r) ==
    /\ phase[r] = "read" \/ (phase[r] = "call" /\ pc[r] <= Len(prog) /\ ~Collective(Cur(r)))
    /\ pc'[r] = pc[r] + 1 /\ phase'[r] = "call" /\ opened'[r] = opened[r]
Stays(r) == pc'[r] = pc[r] /\ phase'[r] = phase[r] /\ opened'[r] = opened[r]

\* Every step moves the rank in one of these ways.
LEMMA StepMoves ==
    ASSUME TypeInv, NEW r \in Rank, Step(r)
    PROVE  Enters(r) \/ Passes(r) \/ Leaves(r) \/ Stays(r)
<1>1. TypeOK /\ PhaseAt(r)
    BY DEF TypeInv, PhaseOK
<1>2. /\ pc \in [Rank -> 1 .. Len(prog) + 1] /\ phase \in [Rank -> {"call", "size", "read", "write"}]
      /\ opened \in [Rank -> Nat]
    BY <1>1 DEF TypeOK
<1>3. ASSUME Return(r) PROVE pc'[r] = pc[r] + 1 /\ phase'[r] = "call"
    BY <1>2, <1>3 DEF Return
<1>4. ASSUME NEW x, Goto(r, x) PROVE pc'[r] = pc[r] /\ phase'[r] = x
    BY <1>2, <1>4 DEF Goto
<1>5. CASE OpenToRead(r)
    <2>1. Goto(r, "size") /\ opened'[r] = opened[r] + 1
        BY <1>2, <1>5 DEF OpenToRead
    <2>2. phase[r] = "call" /\ pc[r] <= Len(prog) /\ Collective(Cur(r))
        BY <1>5 DEF OpenToRead, AtCall, Collective
    <2> QED BY <1>4, <2>1, <2>2 DEF Enters
<1>6. CASE GetSize(r)
    <2>1. phase[r] = "size" /\ OpenReturns(r) /\ opened' = opened /\ (Return(r) \/ Goto(r, "read"))
        BY <1>6 DEF GetSize, At
    <2> QED BY <1>3, <1>4, <2>1 DEF Passes
<1>7. CASE ReadPart(r)
    <2>1. phase[r] = "read" /\ opened' = opened /\ (Return(r) \/ UNCHANGED << pc, phase >>)
        BY <1>7 DEF ReadPart, At, Stop
    <2> QED BY <1>3, <2>1 DEF Leaves, Stays
<1>8. CASE ReadTrays(r)
    <2>1. phase[r] = "call" /\ pc[r] <= Len(prog) /\ Collective(Cur(r))
        BY <1>8 DEF ReadTrays, AtCall, Collective
    <2>2. \/ UNCHANGED << pc, phase, opened >>
          \/ Goto(r, "write") /\ opened'[r] = opened[r] + 1
        BY <1>2, <1>8 DEF ReadTrays, Stop
    <2> QED BY <1>4, <2>1, <2>2 DEF Enters, Stays
<1>9. CASE WritePart(r)
    <2>1. phase[r] = "write" /\ OpenReturns(r) /\ opened' = opened /\ (Return(r) \/ UNCHANGED << pc, phase >>)
        BY <1>9 DEF WritePart, At, Stop
    <2> QED BY <1>3, <2>1 DEF Passes, Stays
<1>10. CASE Transfer(r)
    <2>1. phase[r] = "call" /\ pc[r] <= Len(prog) /\ ~Collective(Cur(r)) /\ opened' = opened /\ Return(r)
        BY <1>10 DEF Transfer, AtCall, Collective
    <2> QED BY <1>3, <2>1 DEF Leaves
<1>11. CASE Kernel(r)
    <2>1. phase[r] = "call" /\ pc[r] <= Len(prog) /\ ~Collective(Cur(r)) /\ opened' = opened /\ Return(r)
        BY <1>11 DEF Kernel, AtCall, Collective
    <2> QED BY <1>3, <2>1 DEF Leaves
<1> QED BY <1>5, <1>6, <1>7, <1>8, <1>9, <1>10, <1>11 DEF Step

\* The calls a rank has entered.
LEMMA EnteredIs ==
    ASSUME TypeOK, NEW r \in Rank
    PROVE  IsFiniteSet(EnteredCalls(r)) /\ Cardinality(EnteredCalls(r)) \in Nat
<1>1. Len(prog) \in Nat
    BY CallIs DEF TypeOK
<1>2. IsFiniteSet(1 .. Len(prog))
    BY <1>1, FS_Interval
<1>3. EnteredCalls(r) \subseteq 1 .. Len(prog)
    BY DEF EnteredCalls
<1> QED BY <1>2, <1>3, FS_Subset, FS_CardinalityType

\* The calls that ranks have entered, after a step of rank r.
LEMMA EnteredKept ==
    ASSUME TypeInv, prog' = prog, NEW r \in Rank, Others(r), Enters(r) \/ Passes(r) \/ Leaves(r) \/ Stays(r)
    PROVE  /\ \A q \in Rank : q # r \/ ~Enters(r) => EnteredCalls(q)' = EnteredCalls(q)
           /\ Enters(r) => /\ EnteredCalls(r)' = EnteredCalls(r) \cup {pc[r]}
                           /\ pc[r] \notin EnteredCalls(r)
<1>1. TypeOK /\ \A q \in Rank : PhaseAt(q)
    BY DEF TypeInv, PhaseOK
<1>2. Len(prog) \in Nat /\ \A q \in Rank : pc[q] \in 1 .. Len(prog) + 1 /\ phase[q] \in {"call", "size", "read", "write"}
    BY <1>1, CallIs DEF TypeOK
<1>3. ASSUME NEW q \in Rank, q # r PROVE EnteredCalls(q)' = EnteredCalls(q)
    BY <1>3 DEF Others, EnteredCalls, Entered
<1>4. CASE Enters(r)
    <2>1. pc'[r] = pc[r] /\ phase'[r] # "call" /\ phase[r] = "call" /\ pc[r] \in 1 .. Len(prog) /\ Collective(prog[pc[r]])
        BY <1>2, <1>4 DEF Enters, Cur
    <2>2. \A n \in 1 .. Len(prog) : Entered(r, n)' <=> Entered(r, n) \/ n = pc[r]
        BY <1>2, <2>1 DEF Entered
    <2>3. EnteredCalls(r)' = EnteredCalls(r) \cup {pc[r]}
        BY <2>1, <2>2 DEF EnteredCalls
    <2>4. pc[r] \notin EnteredCalls(r)
        BY <1>2, <2>1 DEF EnteredCalls, Entered
    <2> QED BY <1>3, <1>4, <2>3, <2>4
<1>5. CASE ~Enters(r)
    <2>1. \A n \in 1 .. Len(prog) : Collective(prog[n]) => (Entered(r, n)' <=> Entered(r, n))
        <3>1. CASE Passes(r)
            BY <1>2, <3>1 DEF Passes, Entered
        <3>2. CASE Leaves(r)
            BY <1>2, <3>2 DEF Leaves, Entered, Cur
        <3>3. CASE Stays(r)
            BY <3>3 DEF Stays, Entered
        <3> QED BY <1>5, <3>1, <3>2, <3>3
    <2>2. EnteredCalls(r)' = EnteredCalls(r)
        BY <2>1 DEF EnteredCalls
    <2> QED BY <1>3, <1>5, <2>2
<1> QED BY <1>4, <1>5

\* MPI_File_open returns to rank r: every rank has entered the call r is in.
LEMMA OpenSyncs ==
    ASSUME TypeInv, SyncInv, NEW r \in Rank, phase[r] \in {"size", "write"}, OpenReturns(r), NEW q \in Rank
    PROVE  Entered(q, pc[r])
<1>1. TypeOK /\ PhaseAt(r)
    BY DEF TypeInv, PhaseOK
<1>2. Len(prog) \in Nat /\ \A a \in Rank : pc[a] \in 1 .. Len(prog) + 1
    BY <1>1, CallIs DEF TypeOK
<1>3. pc[r] \in 1 .. Len(prog) /\ Collective(prog[pc[r]]) /\ Entered(r, pc[r])
    BY <1>1, <1>2 DEF PhaseAt, Collective, Cur, Entered
<1>4. pc[r] \in EnteredCalls(r)
    BY <1>3 DEF EnteredCalls
<1>5. opened[q] = Cardinality(EnteredCalls(q)) /\ opened[r] = Cardinality(EnteredCalls(r)) /\ opened[q] >= opened[r]
    BY DEF SyncInv, OpenedOK, OpenReturns
<1>6. SUFFICES ASSUME ~Entered(q, pc[r]) PROVE FALSE
    OBVIOUS
<1>7. EnteredCalls(q) \subseteq EnteredCalls(r) /\ pc[r] \notin EnteredCalls(q)
    <2>1. \A n \in 1 .. Len(prog) : Entered(q, n) => Entered(r, n)
        BY <1>2, <1>6 DEF Entered
    <2> QED BY <1>6, <2>1 DEF EnteredCalls
<1>8. Cardinality(EnteredCalls(q)) < Cardinality(EnteredCalls(r))
    BY <1>1, <1>4, <1>7, EnteredIs, FS_Subset
<1>9. Cardinality(EnteredCalls(q)) \in Nat /\ Cardinality(EnteredCalls(r)) \in Nat
    BY <1>1, EnteredIs
<1> QED BY <1>5, <1>8, <1>9

\* Every step keeps the ranks together: MPI_File_open returns to none before all have called it.
LEMMA SyncKept ==
    ASSUME TypeInv, SyncInv, prog' = prog, NEW r \in Rank, Others(r), Enters(r) \/ Passes(r) \/ Leaves(r) \/ Stays(r)
    PROVE  SyncInv'
<1>1. TypeOK /\ \A q \in Rank : PhaseAt(q)
    BY DEF TypeInv, PhaseOK
<1>2. Len(prog) \in Nat /\ \A q \in Rank : pc[q] \in 1 .. Len(prog) + 1 /\ phase[q] \in {"call", "size", "read", "write"}
    BY <1>1, CallIs DEF TypeOK
<1>3. OpenedOK'
    <2> SUFFICES ASSUME NEW q \in Rank PROVE opened'[q] = Cardinality(EnteredCalls(q)')
        BY DEF OpenedOK
    <2>1. opened[q] = Cardinality(EnteredCalls(q))
        BY DEF SyncInv, OpenedOK
    <2>2. CASE q = r /\ Enters(r)
        <3>1. IsFiniteSet(EnteredCalls(r)) /\ EnteredCalls(r)' = EnteredCalls(r) \cup {pc[r]} /\ pc[r] \notin EnteredCalls(r)
            BY <1>1, <2>2, EnteredIs, EnteredKept
        <3>2. Cardinality(EnteredCalls(r)') = Cardinality(EnteredCalls(r)) + 1
            BY <3>1, FS_AddElement
        <3> QED BY <2>1, <2>2, <3>2 DEF Enters
    <2>3. CASE ~(q = r /\ Enters(r))
        <3>1. EnteredCalls(q)' = EnteredCalls(q)
            BY <2>3, EnteredKept
        <3>2. opened'[q] = opened[q]
            BY <2>3 DEF Others, Passes, Leaves, Stays
        <3> QED BY <2>1, <3>1, <3>2
    <2> QED BY <2>2, <2>3
<1>4. SyncOK'
    <2> SUFFICES ASSUME NEW a \in Rank, NEW q \in Rank, NEW n \in 1 .. Len(prog), Collective(prog[n]), Through(a, n)'
                 PROVE  Entered(q, n)'
        BY DEF SyncOK
    <2>1. SUFFICES Entered(q, n)
        <3>1. ASSUME n \in EnteredCalls(q) PROVE n \in EnteredCalls(q)'
            BY <3>1, EnteredKept
        <3> QED BY <3>1 DEF EnteredCalls
    <2>2. CASE Through(a, n)
        BY <2>2 DEF SyncInv, SyncOK
    <2>3. CASE ~Through(a, n)
        <3>1. a = r
            BY <2>3 DEF Others, Through
        <3>2. ~Enters(r)
            BY <2>3, <3>1 DEF Enters, Through
        <3>3. ~Stays(r)
            BY <2>3, <3>1 DEF Stays, Through
        <3>4. ~Leaves(r)
            BY <1>2, <2>3, <3>1 DEF Leaves, Through, Cur
        <3>5. Passes(r) /\ n = pc[r]
            BY <1>2, <2>3, <3>1, <3>2, <3>3, <3>4 DEF Passes, Through
        <3> QED BY <3>5, OpenSyncs DEF Passes
    <2> QED BY <2>2, <2>3
<1> QED BY <1>3, <1>4 DEF SyncInv

\* Initially nobody has entered a call.
LEMMA StartSyncs == Init => SyncInv
<1> SUFFICES ASSUME Init PROVE SyncInv
    OBVIOUS
<1>1. \A r \in Rank : pc[r] = 1 /\ phase[r] = "call" /\ opened[r] = 0
    BY DEF Init
<1>2. Len(prog) \in Nat
    BY CallIs DEF Init
<1>3. \A r \in Rank : \A n \in 1 .. Len(prog) : ~Entered(r, n) /\ ~Through(r, n)
    BY <1>1, <1>2 DEF Entered, Through
<1>4. \A r \in Rank : EnteredCalls(r) = {}
    BY <1>3 DEF EnteredCalls
<1>5. Cardinality({}) = 0
    BY FS_EmptySet
<1> QED BY <1>1, <1>3, <1>4, <1>5 DEF SyncInv, OpenedOK, SyncOK

\* The program run call by call: what each call does.
LEMMA AfterIs ==
    ASSUME prog \in Programs
    PROVE  /\ After[0] = AtStart
           /\ \A n \in 1 .. Len(prog) : After[n] = Effect(n, prog[n], After[n - 1])
           /\ \A n \in 0 .. Len(prog) :
                 /\ After[n] \in Memory /\ Even(After[n])
                 /\ \A f \in File : After[n].file[f] \in Seq(Byte) /\ Len(After[n].file[f]) \in Nat
                 /\ \A r \in Rank : After[n].tray[r] \in Seq(Byte) /\ Len(After[n].tray[r]) \in Nat
                                    /\ Len(After[n].tray[r]) = Len(After[n].tray[0])
<1>1. After = Ref(prog)
    BY AfterIsRef
<1>2. After[0] = AtStart /\ \A n \in 1 .. Len(prog) : After[n] = Effect(n, prog[n], After[n - 1])
    BY <1>1, RefStep
<1>3. \A n \in 0 .. Len(prog) : After[n] \in Memory /\ Even(After[n])
    BY <1>1, RefIs
<1>4. ASSUME NEW n \in 0 .. Len(prog)
      PROVE  /\ \A f \in File : After[n].file[f] \in Seq(Byte) /\ Len(After[n].file[f]) \in Nat
             /\ \A r \in Rank : After[n].tray[r] \in Seq(Byte) /\ Len(After[n].tray[r]) \in Nat
                                    /\ Len(After[n].tray[r]) = Len(After[n].tray[0])
    <2> DEFINE S == After[n]
    <2>1. S \in Memory /\ Even(S)
        BY <1>3
    <2> HIDE DEF S
    <2>2. S.tray \in [Rank -> Seq(Byte)] /\ S.file \in [File -> Seq(Byte)]
        BY <2>1 DEF Memory
    <2>3. \A f \in File : S.file[f] \in Seq(Byte) /\ Len(S.file[f]) \in Nat
        BY <2>2
    <2>4. \A r \in Rank : S.tray[r] \in Seq(Byte) /\ Len(S.tray[r]) \in Nat
        BY <2>2
    <2> QED BY <2>1, <2>3, <2>4 DEF Even, S
<1> QED BY <1>2, <1>3, <1>4

\* The entities of a rank in call n.
Per(n) == (Len(After[n - 1].file[prog[n].file]) \div prog[n].e) \div NumRanks

\* The parts of all ranks fit in the file.
LEMMA PerIs ==
    ASSUME prog \in Programs, NEW n \in 1 .. Len(prog)
    PROVE  /\ Per(n) \in Nat /\ Per(n) * prog[n].e \in Nat
           /\ ScatterBlock(prog[n], After[n - 1]) = Per(n) * prog[n].e
           /\ NumRanks * (Per(n) * prog[n].e) <= Len(After[n - 1].file[prog[n].file])
<1> DEFINE z == Len(After[n - 1].file[prog[n].file])
           e == prog[n].e
           q == Per(n)
<1>1. Len(prog) \in Nat /\ prog[n].e \in Nat \ {0} /\ prog[n].file \in File
    BY CallIs
<1>2. n - 1 \in 0 .. Len(prog)
    BY <1>1
<1>3. z \in Nat
    BY <1>1, <1>2, AfterIs
<1>4. q = (z \div e) \div NumRanks /\ e \in Nat \ {0} /\ NumRanks \in Nat \ {0}
    BY <1>1, ConstantsAre DEF Per
<1>5. ScatterBlock(prog[n], After[n - 1]) = q * e
    BY DEF Per, ScatterBlock
<1> HIDE DEF z, e, q
<1>6. q \in Nat /\ q * e \in Nat /\ NumRanks * (q * e) <= z
    BY <1>3, <1>4, PartsFit
<1> QED BY <1>5, <1>6 DEF z, e, q

\* What each call does to trays and files.
LEMMA CallEffect ==
    ASSUME prog \in Programs, NEW n \in 1 .. Len(prog)
    PROVE  /\ prog[n].op = "scatter" => \A r \in Rank :
                 /\ Len(After[n].tray[r]) = Per(n) * prog[n].e
                 /\ After[n].tray[r] = SubSeq(After[n - 1].file[prog[n].file],
                       r * (Per(n) * prog[n].e) + 1, r * (Per(n) * prog[n].e) + Per(n) * prog[n].e)
           /\ prog[n].op = "kernel" => \A r \in Rank :
                 After[n].tray[r] = [k \in DOMAIN After[n - 1].tray[r] |-> << n, r, k >>]
           /\ prog[n].op \notin {"scatter", "kernel"} => After[n].tray = After[n - 1].tray
           /\ prog[n].op # "scatter" => \A r \in Rank : Len(After[n].tray[r]) = Len(After[n - 1].tray[r])
           /\ prog[n].op = "gather" => After[n].file = [After[n - 1].file EXCEPT ![prog[n].file] =
                 WriteAt(After[n - 1].file[prog[n].file], 0, GatheredBlocks(After[n - 1]))]
           /\ prog[n].op # "gather" => After[n].file = After[n - 1].file
<1> DEFINE S == After[n - 1]
<1>1. n - 1 \in 0 .. Len(prog)
    BY CallIs
<1>2. S \in Memory /\ Even(S) /\ After[n] = Effect(n, prog[n], S)
    BY <1>1, AfterIs
<1>3. ScatterBlock(prog[n], S) = Per(n) * prog[n].e
    BY PerIs
<1> HIDE DEF S
<1>4. /\ prog[n].op = "scatter" => \A r \in Rank : After[n].tray[r] =
            SubSeq(S.file[prog[n].file], r * ScatterBlock(prog[n], S) + 1, r * ScatterBlock(prog[n], S) + ScatterBlock(prog[n], S))
      /\ prog[n].op = "scatter" => \A r \in Rank : Len(After[n].tray[r]) = ScatterBlock(prog[n], S)
      /\ prog[n].op = "kernel" => \A r \in Rank : After[n].tray[r] = [k \in DOMAIN S.tray[r] |-> << n, r, k >>]
      /\ prog[n].op \notin {"scatter", "kernel"} => After[n].tray = S.tray
      /\ prog[n].op # "scatter" => \A r \in Rank : Len(After[n].tray[r]) = Len(S.tray[r])
      /\ prog[n].op = "gather" => After[n].file = [S.file EXCEPT ![prog[n].file] = WriteAt(S.file[prog[n].file], 0, GatheredBlocks(S))]
      /\ prog[n].op # "gather" => After[n].file = S.file
    BY <1>2, EffectIs
<1>5. prog[n].op = "scatter" => \A r \in Rank :
                 /\ Len(After[n].tray[r]) = Per(n) * prog[n].e
                 /\ After[n].tray[r] = SubSeq(S.file[prog[n].file],
                       r * (Per(n) * prog[n].e) + 1, r * (Per(n) * prog[n].e) + Per(n) * prog[n].e)
    BY <1>3, <1>4
<1> QED BY <1>4, <1>5 DEF S

\* A file that a call uses fits an int before the call too.
LEMMA FitsBefore ==
    ASSUME prog \in Programs, Fits, NEW n \in 1 .. Len(prog), Collective(prog[n])
    PROVE  Len(After[n - 1].file[prog[n].file]) < IntLimit
<1> DEFINE f == prog[n].file
           S == After[n - 1]
<1>1. n \in DOMAIN prog /\ n - 1 \in 0 .. Len(prog) /\ n \in 0 .. Len(prog) /\ f \in File
    BY CallIs, ScatterGatherAssumption
<1>2. Len(After[n].file[f]) < IntLimit
    BY <1>1 DEF Fits, Collective
<1>3. CASE prog[n].op # "gather"
    BY <1>2, <1>3, CallEffect
<1>4. CASE prog[n].op = "gather"
    <2>1. S \in Memory /\ Even(S) /\ S.file[f] \in Seq(Byte) /\ Len(S.file[f]) \in Nat
        BY <1>1, AfterIs
    <2>2. After[n].file = [S.file EXCEPT ![f] = WriteAt(S.file[f], 0, GatheredBlocks(S))]
        BY <1>4, CallEffect
    <2> HIDE DEF S, f
    <2>3. S.file \in [File -> Seq(Byte)]
        BY <2>1 DEF Memory
    <2>4. After[n].file[f] = WriteAt(S.file[f], 0, GatheredBlocks(S))
        BY <1>1, <2>2, <2>3
    <2> DEFINE G == GatheredBlocks(S)
               old == S.file[f]
    <2>5. G \in Seq(Byte) /\ old \in Seq(Byte)
        BY <2>1, GatheredIs
    <2> HIDE DEF G, old
    <2>6. Len(G) \in Nat /\ Len(old) \in Nat
        BY <2>5
    <2>7. Len(WriteAt(old, 0, G)) = IF 0 + Len(G) > Len(old) THEN 0 + Len(G) ELSE Len(old)
        BY <2>5, WriteAtIs
    <2>8. Len(WriteAt(old, 0, G)) < IntLimit
        BY <1>2, <2>4 DEF G, old
    <2>9. Len(old) < IntLimit
        BY <2>6, <2>7, <2>8, ConstantsAre
    <2> QED BY <2>9 DEF S, f, old
<1> QED BY <1>3, <1>4

\* A gather and the scatter before it.
LEMMA LastIs ==
    ASSUME prog \in Programs, NEW g \in 1 .. Len(prog), NEW s \in LastScatter(g)
    PROVE  /\ s \in 1 .. Len(prog) /\ s < g /\ g \in Nat /\ s \in Nat /\ prog[s].op = "scatter"
           /\ \A m \in s + 1 .. g - 1 : prog[m].op # "scatter"
           /\ \A t \in LastScatter(g) : t = s
<1>1. Len(prog) \in Nat
    BY CallIs
<1>2. /\ s \in 1 .. g - 1 /\ prog[s].op = "scatter"
      /\ \A m \in s + 1 .. g - 1 : prog[m].op # "scatter"
    BY DEF LastScatter
<1>3. \A t \in LastScatter(g) : t = s
    BY <1>1, <1>2 DEF LastScatter
<1> QED BY <1>1, <1>2, <1>3

\* What Clean says of the scatter before a gather.
LEMMA CleanIs ==
    ASSUME prog \in Programs, Clean, NEW g \in 1 .. Len(prog), prog[g].op = "gather"
    PROVE  /\ LastScatter(g) # {}
           /\ \A s \in LastScatter(g) :
                /\ prog[g].e = prog[s].e
                /\ prog[g].count * prog[g].e * NumTasks \in Len(After[s].tray[0]) .. IntLimit - 1
                /\ \A m \in s + 1 .. g - 1 : SetsGlobals(prog[m]) =>
                      /\ prog[m].e = prog[s].e
                      /\ prog[m].op = "query" =>
                            Len(After[m - 1].file[prog[m].file]) = Len(After[s - 1].file[prog[s].file])
<1>1. g \in DOMAIN prog
    BY ScatterGatherAssumption
<1>2. PICK s \in LastScatter(g) :
                /\ prog[g].e = prog[s].e
                /\ prog[g].count * prog[g].e * NumTasks \in Len(After[s].tray[0]) .. IntLimit - 1
                /\ \A m \in s + 1 .. g - 1 : SetsGlobals(prog[m]) =>
                      /\ prog[m].e = prog[s].e
                      /\ prog[m].op = "query" =>
                            Len(After[m - 1].file[prog[m].file]) = Len(After[s - 1].file[prog[s].file])
    BY <1>1 DEF Clean
<1>3. \A t \in LastScatter(g) : t = s
    BY LastIs
<1> QED BY <1>2, <1>3

\* The trays keep the length that the scatter gave them.
LEMMA TrayLength ==
    ASSUME prog \in Programs, NEW g \in 1 .. Len(prog), NEW s \in LastScatter(g)
    PROVE  \A n \in s .. g - 1 : \A r \in Rank : Len(After[n].tray[r]) = Per(s) * prog[s].e
<1> DEFINE b == Per(s) * prog[s].e
           C == {n \in Nat : \A r \in Rank : Len(After[n].tray[r]) = b}
<1>1. /\ Len(prog) \in Nat /\ s \in 1 .. Len(prog) /\ s < g /\ g \in Nat /\ s \in Nat /\ prog[s].op = "scatter"
      /\ \A m \in s + 1 .. g - 1 : prog[m].op # "scatter"
    BY LastIs, CallIs
<1>2. s \in C
    BY <1>1, CallEffect
<1>3. ASSUME NEW n \in s .. (g - 1) - 1, n \in C PROVE n + 1 \in C
    <2>1. n + 1 \in s + 1 .. g - 1 /\ n + 1 \in 1 .. Len(prog) /\ (n + 1) - 1 = n /\ n + 1 \in Nat
        BY <1>1
    <2> DEFINE m == n + 1
    <2>2. m \in 1 .. Len(prog) /\ prog[m].op # "scatter" /\ m - 1 = n /\ m \in Nat
        BY <1>1, <2>1
    <2> HIDE DEF b, m
    <2>3. \A r \in Rank : Len(After[m].tray[r]) = Len(After[m - 1].tray[r])
        BY <2>2, CallEffect
    <2>4. m \in C
        BY <1>3, <2>2, <2>3
    <2> QED BY <2>4 DEF m
<1>4. g - 1 \in Nat
    BY <1>1
<1> HIDE DEF C
<1>5. \A n \in s .. g - 1 : n \in C
    BY <1>1, <1>2, <1>3, <1>4, Climb
<1> QED BY <1>5 DEF C
----------------------------------------------------------------------------
\* Clean, Fits and the calls run one by one are about the program alone.
LEMMA ProgramKept ==
    ASSUME prog' = prog
    PROVE  /\ After' = After /\ (Clean' <=> Clean) /\ (Fits' <=> Fits) /\ (WholeFloats' <=> WholeFloats)
           /\ \A n : Per(n)' = Per(n) /\ LastScatter(n)' = LastScatter(n)
<1>1. After' = After
    BY DEF After
<1>2. \A n : Per(n)' = Per(n) /\ LastScatter(n)' = LastScatter(n)
    BY <1>1 DEF Per, LastScatter
<1>3. (Clean' <=> Clean) /\ (Fits' <=> Fits) /\ (WholeFloats' <=> WholeFloats)
    BY <1>1, <1>2 DEF Clean, Fits, WholeFloats
<1> QED BY <1>1, <1>2, <1>3

\* x is the file old into which the ranks in S have written their trays T.
Partly(x, old, T, S) ==
    LET b == Len(T[0])
    IN  /\ Len(old) <= Len(x) /\ \A r \in S : r * b + b <= Len(x)
        /\ Len(x) = Len(old) \/ \E r \in S : Len(x) = r * b + b
        /\ \A k \in 1 .. Len(x) :
              /\ \A r \in S : k \in r * b + 1 .. r * b + b => x[k] = T[r][k - r * b]
              /\ (\A r \in S : k \notin r * b + 1 .. r * b + b) => x[k] = IF k <= Len(old) THEN old[k] ELSE Junk

\* Nobody has written.
LEMMA PartlyNone ==
    ASSUME NEW x \in Seq(Byte), NEW old \in Seq(Byte), NEW T
    PROVE  Partly(x, old, T, {}) <=> x = old
<1>1. Len(x) \in Nat /\ Len(old) \in Nat
    OBVIOUS
<1>2. ASSUME Partly(x, old, T, {}) PROVE x = old
    <2>1. Len(x) = Len(old)
        BY <1>2 DEF Partly
    <2>2. \A k \in 1 .. Len(x) : x[k] = IF k <= Len(old) THEN old[k] ELSE Junk
        BY <1>2 DEF Partly
    <2>3. \A k \in 1 .. Len(x) : x[k] = old[k]
        BY <1>1, <2>1, <2>2
    <2> QED BY <2>1, <2>3, SeqEqual
<1>3. Partly(old, old, T, {})
    BY <1>1 DEF Partly
<1> QED BY <1>2, <1>3

\* One more rank writes.
LEMMA PartlyMore ==
    ASSUME NEW x \in Seq(Byte), NEW old \in Seq(Byte), NEW T, Len(T[0]) \in Nat,
           NEW S \in SUBSET Rank, NEW r \in Rank, r \notin S, NEW t \in Seq(Byte), Len(t) = Len(T[0]),
           \A k \in 1 .. Len(t) : t[k] = T[r][k], Partly(x, old, T, S)
    PROVE  Partly(WriteAt(x, r * Len(T[0]), t), old, T, S \cup {r})
<1> DEFINE b == Len(T[0])
           i == r * b
           w == WriteAt(x, i, t)
<1>1. Len(x) \in Nat /\ Len(old) \in Nat /\ Len(t) = b /\ b \in Nat
    OBVIOUS
<1>2. /\ Len(old) <= Len(x) /\ \A q \in S : q * b + b <= Len(x)
      /\ Len(x) = Len(old) \/ \E q \in S : Len(x) = q * b + b
      /\ \A k \in 1 .. Len(x) :
              /\ \A q \in S : k \in q * b + 1 .. q * b + b => x[k] = T[q][k - q * b]
              /\ (\A q \in S : k \notin q * b + 1 .. q * b + b) => x[k] = IF k <= Len(old) THEN old[k] ELSE Junk
    BY DEF Partly
<1>3. SUFFICES /\ Len(old) <= Len(w) /\ \A q \in S \cup {r} : q * b + b <= Len(w)
               /\ Len(w) = Len(old) \/ \E q \in S \cup {r} : Len(w) = q * b + b
               /\ \A k \in 1 .. Len(w) :
                     /\ \A q \in S \cup {r} : k \in q * b + 1 .. q * b + b => w[k] = T[q][k - q * b]
                     /\ (\A q \in S \cup {r} : k \notin q * b + 1 .. q * b + b) => w[k] = IF k <= Len(old) THEN old[k] ELSE Junk
    BY DEF Partly
<1>4. \A k \in 1 .. b : t[k] = T[r][k]
    OBVIOUS
<1> HIDE DEF b
<1>5. \A q \in Rank : q \in Nat /\ q * b \in Nat
    BY <1>1, PartIs
<1>6. i \in Nat
    BY <1>5
<1>7. ASSUME NEW q \in S PROVE q \in Rank /\ q # r /\ (q * b + b <= i \/ i + b <= q * b)
    <2>1. q \in Rank /\ q # r /\ q \in Nat /\ r \in Nat
        BY <1>5
    <2>2. CASE q < r
        BY <1>1, <2>1, <2>2, PartIs
    <2>3. CASE r < q
        BY <1>1, <2>1, <2>3, PartIs
    <2> QED BY <2>1, <2>2, <2>3
<1>8. /\ Len(w) = IF i + b > Len(x) THEN i + b ELSE Len(x)
      /\ \A k \in 1 .. Len(w) : w[k] = IF k \in i + 1 .. i + b THEN t[k - i] ELSE IF k <= Len(x) THEN x[k] ELSE Junk
    <2> HIDE DEF i
    <2> QED BY <1>1, <1>6, WriteAtIs
<1>9. Len(w) \in Nat /\ Len(x) <= Len(w) /\ i + b <= Len(w) /\ (Len(w) = Len(x) \/ Len(w) = i + b)
    <2> HIDE DEF i, w
    <2> QED BY <1>1, <1>6, <1>8
<1>10. Len(old) <= Len(w) /\ \A q \in S \cup {r} : q * b + b <= Len(w)
    <2>1. ASSUME NEW q \in S PROVE q * b + b <= Len(w)
        <3>1. q * b \in Nat /\ q * b + b <= Len(x)
            BY <1>2, <1>5, <1>7
        <3> HIDE DEF w
        <3> QED BY <1>1, <1>9, <3>1
    <2>2. Len(old) <= Len(w)
        <3> HIDE DEF w
        <3> QED BY <1>1, <1>2, <1>9
    <2> QED BY <1>9, <2>1, <2>2
<1>11. Len(w) = Len(old) \/ \E q \in S \cup {r} : Len(w) = q * b + b
    <2>1. CASE Len(w) = Len(x)
        BY <1>2, <2>1
    <2>2. CASE Len(w) = i + b
        BY <2>2
    <2> QED BY <1>9, <2>1, <2>2
<1>12. ASSUME NEW k \in 1 .. Len(w), NEW q \in S \cup {r}, k \in q * b + 1 .. q * b + b PROVE w[k] = T[q][k - q * b]
    <2>1. CASE q = r
        <3>1. k \in i + 1 .. i + b
            BY <1>12, <2>1
        <3>2. w[k] = t[k - i] /\ k - i \in 1 .. b
            <4> HIDE DEF w, i
            <4> QED BY <1>1, <1>6, <1>8, <3>1
        <3> QED BY <1>4, <2>1, <3>2
    <2>2. CASE q \in S
        <3> DEFINE j == q * b
        <3>1. j \in Nat /\ j + b <= Len(x) /\ k \in j + 1 .. j + b /\ (j + b <= i \/ i + b <= j)
            BY <1>2, <1>5, <1>7, <1>12, <2>2
        <3>2. k \in 1 .. Len(x) /\ k \notin i + 1 .. i + b
            <4> HIDE DEF j, i
            <4> QED BY <1>1, <1>6, <3>1
        <3>3. w[k] = x[k]
            <4> HIDE DEF w, i
            <4>1. w[k] = IF k \in i + 1 .. i + b THEN t[k - i] ELSE IF k <= Len(x) THEN x[k] ELSE Junk
                BY <1>8
            <4>2. k <= Len(x)
                BY <1>1, <3>2
            <4> QED BY <3>2, <4>1, <4>2
        <3>4. x[k] = T[q][k - q * b]
            BY <1>2, <1>12, <2>2, <3>2
        <3> QED BY <3>3, <3>4
    <2> QED BY <2>1, <2>2
<1>13. ASSUME NEW k \in 1 .. Len(w), \A q \in S \cup {r} : k \notin q * b + 1 .. q * b + b
       PROVE  w[k] = IF k <= Len(old) THEN old[k] ELSE Junk
    <2>1. k \notin i + 1 .. i + b
        BY <1>13
    <2>2. w[k] = IF k <= Len(x) THEN x[k] ELSE Junk
        <3> HIDE DEF w, i
        <3> QED BY <1>8, <2>1
    <2>3. CASE k <= Len(x)
        <3>1. k \in 1 .. Len(x)
            <4> HIDE DEF w
            <4> QED BY <1>1, <1>9, <2>3
        <3>2. \A q \in S : k \notin q * b + 1 .. q * b + b
            BY <1>13
        <3> QED BY <1>2, <2>2, <2>3, <3>1, <3>2
    <2>4. CASE ~(k <= Len(x))
        <3>1. ~(k <= Len(old)) 
            <4> HIDE DEF w
            <4> QED BY <1>1, <1>2, <1>9, <2>4
        <3> QED BY <2>2, <2>4, <3>1
    <2> QED BY <2>3, <2>4
<1> HIDE DEF w
<1> QED BY <1>10, <1>11, <1>12, <1>13

\* All ranks have written: the blocks are one after the other.
LEMMA PartlyAll ==
    ASSUME NEW x \in Seq(Byte), NEW M \in Memory, Even(M), NEW f \in File, Partly(x, M.file[f], M.tray, Rank)
    PROVE  x = WriteAt(M.file[f], 0, GatheredBlocks(M))
<1> DEFINE old == M.file[f]
           b == Len(M.tray[0])
           G == GatheredBlocks(M)
           N == NumRanks * b
           w == WriteAt(old, 0, G)
<1>1. /\ b \in Nat /\ G \in Seq(Byte) /\ Len(G) = N
      /\ \A r \in Rank : \A k \in r * b + 1 .. r * b + b : G[k] = M.tray[r][k - r * b]
    BY GatheredIs
<1>2. old \in Seq(Byte) /\ Len(old) \in Nat /\ Len(x) \in Nat
    BY DEF Memory
<1>3. /\ Len(old) <= Len(x) /\ \A r \in Rank : r * b + b <= Len(x)
      /\ Len(x) = Len(old) \/ \E r \in Rank : Len(x) = r * b + b
      /\ \A k \in 1 .. Len(x) :
            /\ \A r \in Rank : k \in r * b + 1 .. r * b + b => x[k] = M.tray[r][k - r * b]
            /\ (\A r \in Rank : k \notin r * b + 1 .. r * b + b) => x[k] = IF k <= Len(old) THEN old[k] ELSE Junk
    BY DEF Partly
<1> HIDE DEF old, G, b
<1>4. N \in Nat /\ \A r \in Rank : r * b \in Nat /\ r * b + b <= N
    BY <1>1, ConstantsAre, PartIs
<1>5. N <= Len(x)
    <2> DEFINE r == NumRanks - 1
    <2>1. r \in Rank /\ r + 1 = NumRanks
        BY ConstantsAre DEF Rank
    <2> HIDE DEF r
    <2>2. (r + 1) * b = r * b + b
        BY <1>1, <2>1, PartIs
    <2>3. N = r * b + b
        BY <2>1, <2>2
    <2> QED BY <1>3, <2>1, <2>3
<1>6. Len(x) = Len(old) \/ Len(x) = N
    <2>1. ASSUME NEW r \in Rank, Len(x) = r * b + b PROVE Len(x) = N
        <3>1. Len(x) <= N
            BY <1>4, <2>1
        <3> HIDE DEF N
        <3> QED BY <1>2, <1>4, <1>5, <3>1
    <2> QED BY <1>3, <2>1
<1>7. /\ w \in Seq(Byte) /\ Len(w) = IF 0 + Len(G) > Len(old) THEN 0 + Len(G) ELSE Len(old)
      /\ \A k \in 1 .. Len(w) : w[k] = IF k \in 0 + 1 .. 0 + Len(G) THEN G[k - 0] ELSE IF k <= Len(old) THEN old[k] ELSE Junk
    BY <1>1, <1>2, WriteAtIs
<1>8. Len(w) = Len(x)
    <2> HIDE DEF N, w
    <2> QED BY <1>1, <1>2, <1>3, <1>4, <1>5, <1>6, <1>7
<1>9. ASSUME NEW k \in 1 .. Len(x) PROVE x[k] = w[k]
    <2>1. CASE k <= N
        <3>1. k \in 1 .. N
            <4> HIDE DEF N
            <4> QED BY <1>2, <1>4, <2>1
        <3>2. PICK r \in Rank : k \in r * b + 1 .. r * b + b
            BY <1>1, <3>1, PartExists
        <3>3. x[k] = M.tray[r][k - r * b] /\ G[k] = M.tray[r][k - r * b]
            BY <1>1, <1>3, <3>2
        <3>4. w[k] = G[k]
            <4> HIDE DEF N, w
            <4> QED BY <1>1, <1>2, <1>4, <1>7, <1>8, <3>1
        <3> QED BY <3>3, <3>4
    <2>2. CASE ~(k <= N)
        <3>1. \A r \in Rank : k \notin r * b + 1 .. r * b + b
            <4>1. ASSUME NEW r \in Rank PROVE k \notin r * b + 1 .. r * b + b
                <5> DEFINE j == r * b
                <5>1. j \in Nat /\ j + b <= N
                    BY <1>4
                <5> HIDE DEF j, N
                <5>2. k \notin j + 1 .. j + b
                    BY <1>1, <1>2, <1>4, <2>2, <5>1
                <5> QED BY <5>2 DEF j
            <4> QED BY <4>1
        <3>2. x[k] = IF k <= Len(old) THEN old[k] ELSE Junk
            BY <1>3, <3>1
        <3>3. w[k] = IF k <= Len(old) THEN old[k] ELSE Junk
            <4> HIDE DEF N, w
            <4> QED BY <1>1, <1>2, <1>4, <1>7, <1>8, <2>2
        <3> QED BY <3>2, <3>3
    <2> QED BY <2>1, <2>2
<1>10. x = w
    <2> HIDE DEF w
    <2> QED BY <1>7, <1>8, <1>9, SeqEqual
<1> QED BY <1>10 DEF w, old, G

\* The globals of rank r are those of the scatter s.
Ready(r, s) == MPIentityTypeSize[r] = prog[s].e /\ ePerRank[r] = Per(s)

\* They are when r reads its part, and as long as a gather of what s gave is to come.
GlobalsAt(r) ==
    /\ phase[r] = "read" => Ready(r, pc[r])
    /\ \A g \in 1 .. Len(prog) : pc[r] <= g /\ prog[g].op = "gather" =>
          \A s \in LastScatter(g) : s < pc[r] => Ready(r, s)

TrayAt(r) == tray[r] = After[pc[r] - 1].tray[r]

\* The buffer of a gather begins with the trays.
TmpAt(r) ==
    phase[r] = "write" =>
        Len(tray[r]) <= Len(tmphostbuffer[r]) /\ \A k \in 1 .. Len(tray[r]) : tmphostbuffer[r][k] = tray[r][k]

RankAt(r) == GlobalsAt(r) /\ TrayAt(r) /\ TmpAt(r)

\* The call of the slowest rank, and the files then: a file is as before that call, but
\* for the parts that faster ranks have written if it is a gather.
Slowest(n) == (\A q \in Rank : n <= pc[q]) /\ \E r \in Rank : pc[r] = n
FileAt(n) ==
    \A f \in File :
        IF n <= Len(prog) /\ prog[n].op = "gather" /\ prog[n].file = f
        THEN Partly(file[f], After[n - 1].file[f], After[n - 1].tray, {q \in Rank : pc[q] > n})
        ELSE file[f] = After[n - 1].file[f]
FileOK == \A n \in 1 .. Len(prog) + 1 : Slowest(n) => FileAt(n)

SeqInv == FileOK /\ \A r \in Rank : RankAt(r)

\* Where rank r is, as numbers.
LEMMA PlaceIs ==
    ASSUME TypeOK, NEW r \in Rank
    PROVE  /\ prog \in Programs /\ Len(prog) \in Nat /\ pc[r] \in 1 .. Len(prog) + 1
           /\ pc[r] \in Nat /\ pc[r] - 1 \in 0 .. Len(prog) /\ tray[r] \in Seq(Byte) /\ Len(tray[r]) \in Nat
<1>1. prog \in Programs /\ Len(prog) \in Nat /\ pc[r] \in 1 .. Len(prog) + 1 /\ tray[r] \in Seq(Byte)
    BY CallIs DEF TypeOK
<1> QED BY <1>1

\* The ranks and files after a step of rank r, from those of r and the files.
LEMMA SeqKept ==
    ASSUME TypeInv, SeqInv, prog' = prog, NEW r \in Rank, Others(r), FileOK', RankAt(r)'
    PROVE  SeqInv'
<1>1. After' = After /\ \A n : Per(n)' = Per(n) /\ LastScatter(n)' = LastScatter(n)
    BY ProgramKept
<1>2. ASSUME NEW q \in Rank, q # r PROVE RankAt(q)'
    <2>1. /\ pc'[q] = pc[q] /\ phase'[q] = phase[q]
          /\ MPIentityTypeSize'[q] = MPIentityTypeSize[q] /\ ePerRank'[q] = ePerRank[q]
          /\ tray'[q] = tray[q] /\ tmphostbuffer'[q] = tmphostbuffer[q]
        BY <1>2 DEF Others
    <2>2. GlobalsAt(q) /\ TrayAt(q) /\ TmpAt(q)
        BY DEF SeqInv, RankAt
    <2>3. ASSUME NEW s, Ready(q, s) PROVE Ready(q, s)'
        BY <1>1, <2>1, <2>3 DEF Ready
    <2>4. GlobalsAt(q)'
        BY <1>1, <2>1, <2>2, <2>3 DEF GlobalsAt
    <2>5. TrayAt(q)'
        BY <1>1, <2>1, <2>2 DEF TrayAt
    <2>6. TmpAt(q)'
        BY <2>1, <2>2 DEF TmpAt
    <2> QED BY <2>4, <2>5, <2>6 DEF RankAt
<1> QED BY <1>2 DEF SeqInv

\* A call that leaves the globals alone and is no scatter.
LEMMA SameGlobals ==
    ASSUME TypeInv, prog' = prog, NEW r \in Rank, GlobalsAt(r),
           MPIentityTypeSize'[r] = MPIentityTypeSize[r], ePerRank'[r] = ePerRank[r], phase'[r] # "read",
           \/ pc'[r] = pc[r]
           \/ pc'[r] = pc[r] + 1 /\ pc[r] <= Len(prog) /\ prog[pc[r]].op # "scatter"
    PROVE  GlobalsAt(r)'
<1>1. After' = After /\ \A n : Per(n)' = Per(n) /\ LastScatter(n)' = LastScatter(n)
    BY ProgramKept
<1>2. TypeOK
    BY DEF TypeInv
<1>3. prog \in Programs /\ Len(prog) \in Nat /\ pc[r] \in 1 .. Len(prog) + 1
    BY <1>2, PlaceIs
<1> SUFFICES ASSUME NEW g \in 1 .. Len(prog), pc'[r] <= g, prog[g].op = "gather", NEW s \in LastScatter(g), s < pc'[r]
             PROVE  Ready(r, s)'
    BY <1>1 DEF GlobalsAt
<1>4. s \in Nat /\ prog[s].op = "scatter"
    BY <1>3, LastIs
<1>5. pc[r] <= g /\ s < pc[r]
    BY <1>3, <1>4
<1>6. Ready(r, s)
    BY <1>5 DEF GlobalsAt
<1> QED BY <1>1, <1>6 DEF Ready

\* A call that leaves the trays alone.
LEMMA TrayKept ==
    ASSUME TypeInv, prog' = prog, NEW r \in Rank, TrayAt(r), tray'[r] = tray[r],
           \/ pc'[r] = pc[r]
           \/ pc'[r] = pc[r] + 1 /\ pc[r] <= Len(prog) /\ prog[pc[r]].op \notin {"scatter", "kernel"}
    PROVE  TrayAt(r)'
<1>1. After' = After
    BY ProgramKept
<1>2. TypeOK
    BY DEF TypeInv
<1>3. prog \in Programs /\ Len(prog) \in Nat /\ pc[r] \in 1 .. Len(prog) + 1
    BY <1>2, PlaceIs
<1>4. CASE pc'[r] = pc[r]
    BY <1>1, <1>4 DEF TrayAt
<1>5. CASE pc'[r] = pc[r] + 1 /\ pc[r] <= Len(prog) /\ prog[pc[r]].op \notin {"scatter", "kernel"}
    <2>1. pc[r] \in 1 .. Len(prog) /\ pc'[r] - 1 = pc[r]
        BY <1>3, <1>5
    <2>2. After[pc[r]].tray = After[pc[r] - 1].tray
        BY <1>3, <1>5, <2>1, CallEffect
    <2> QED BY <1>1, <2>1, <2>2 DEF TrayAt
<1> QED BY <1>4, <1>5
----------------------------------------------------------------------------
\* The ranks that are past call n when a rank has just arrived there.
LEMMA NobodyPast ==
    ASSUME SyncInv', prog' = prog, NEW n \in 1 .. Len(prog), Collective(prog[n]), NEW r \in Rank, pc'[r] = n, phase'[r] = "call"
    PROVE  {q \in Rank : pc'[q] > n} = {}
<1>1. n \in 1 .. Len(prog') /\ Collective(prog'[n])
    OBVIOUS
<1>2. ~Entered(r, n)'
    <2>1. ~(n > n)
        <3>1. n \in Int
            OBVIOUS
        <3> QED BY <3>1
    <2> QED BY <2>1 DEF Entered
<1>3. ASSUME NEW q \in Rank, pc'[q] > n PROVE FALSE
    <2>1. Through(q, n)'
        BY <1>3 DEF Through
    <2> QED BY <1>1, <1>2, <2>1 DEF SyncInv, SyncOK
<1> QED BY <1>3

\* The files when the slowest rank arrives at call n.
LEMMA FileArrives ==
    ASSUME TypeOK', SyncInv', prog' = prog, NEW n \in 1 .. Len(prog) + 1, NEW r \in Rank, pc'[r] = n, phase'[r] = "call",
           \A f \in File : file'[f] = After[n - 1].file[f]
    PROVE  FileAt(n)'
<1>1. After' = After
    BY ProgramKept
<1> SUFFICES ASSUME NEW f \in File, n <= Len(prog), prog[n].op = "gather", prog[n].file = f
             PROVE  Partly(file'[f], After[n - 1].file[f], After[n - 1].tray, {q \in Rank : pc'[q] > n})
    BY <1>1 DEF FileAt
<1>2. prog \in Programs /\ Len(prog) \in Nat
    <2>1. prog' \in Programs
        BY DEF TypeOK
    <2>2. prog \in Programs
        BY <2>1
    <2> QED BY <2>2, CallIs
<1>3. n \in 1 .. Len(prog) /\ n - 1 \in 0 .. Len(prog)
    BY <1>2
<1>4. {q \in Rank : pc'[q] > n} = {}
    <2>1. Collective(prog[n])
        BY DEF Collective
    <2> QED BY <1>3, <2>1, NobodyPast
<1>5. After[n - 1].file[f] \in Seq(Byte)
    BY <1>2, <1>3, AfterIs
<1>6. file'[f] = After[n - 1].file[f]
    OBVIOUS
<1> DEFINE x == After[n - 1].file[f]
           T == After[n - 1].tray
           D == {q \in Rank : pc'[q] > n}
<1>7. x \in Seq(Byte) /\ D = {} /\ file'[f] = x
    BY <1>4, <1>5, <1>6
<1> SUFFICES Partly(file'[f], x, T, D)
    OBVIOUS
<1> HIDE DEF x, T, D
<1>8. Partly(x, x, T, {})
    BY <1>7, PartlyNone
<1> QED BY <1>7, <1>8

\* A step that leaves the files alone and ends no gather.
LEMMA FilesKept ==
    ASSUME TypeInv, TypeOK', SyncInv', FileOK, prog' = prog, file' = file, NEW r \in Rank, Others(r),
           \/ pc'[r] = pc[r]
           \/ pc'[r] = pc[r] + 1 /\ phase'[r] = "call" /\ pc[r] <= Len(prog) /\ prog[pc[r]].op # "gather"
    PROVE  FileOK'
<1>1. After' = After
    BY ProgramKept
<1>2. TypeOK
    BY DEF TypeInv
<1>3. prog \in Programs /\ Len(prog) \in Nat /\ \A q \in Rank : pc[q] \in 1 .. Len(prog) + 1
    BY <1>2, PlaceIs
<1>4. \A q \in Rank : q # r => pc'[q] = pc[q]
    BY DEF Others
<1> SUFFICES ASSUME NEW n \in 1 .. Len(prog) + 1, Slowest(n)'
             PROVE  FileAt(n)'
    BY DEF FileOK
<1>5. CASE Slowest(n)
    <2>1. FileAt(n)
        BY <1>5 DEF FileOK
    <2>2. (n <= Len(prog) /\ prog[n].op = "gather") => {q \in Rank : pc'[q] > n} = {q \in Rank : pc[q] > n}
        <3>1. CASE pc'[r] = pc[r]
            BY <1>4, <3>1
        <3>2. CASE pc'[r] = pc[r] + 1 /\ prog[pc[r]].op # "gather"
            <4> HAVE n <= Len(prog) /\ prog[n].op = "gather"
            <4>1. n <= pc[r] /\ n # pc[r]
                BY <1>5, <3>2 DEF Slowest
            <4>2. pc[r] > n /\ pc'[r] > n
                BY <1>3, <3>2, <4>1
            <4> QED BY <1>4, <4>2
        <3> QED BY <3>1, <3>2
    <2> QED BY <1>1, <2>1, <2>2 DEF FileAt
<1>6. CASE ~Slowest(n)
    <2>1. pc'[r] = pc[r] + 1 /\ phase'[r] = "call" /\ pc[r] <= Len(prog) /\ prog[pc[r]].op # "gather"
        BY <1>4, <1>6 DEF Slowest
    <2>2. pc[r] = n - 1 /\ pc'[r] = n /\ \A q \in Rank : n - 1 <= pc[q]
        <3>1. \A q \in Rank : n <= pc'[q]
            BY DEF Slowest
        <3>2. \A q \in Rank : pc[q] \in Nat /\ (q # r => n <= pc[q])
            BY <1>3, <1>4, <3>1
        <3>3. ~(n <= pc[r])
            <4>1. SUFFICES ASSUME n <= pc[r] PROVE FALSE
                OBVIOUS
            <4>2. \A q \in Rank : n <= pc[q]
                BY <3>2, <4>1
            <4>3. PICK q \in Rank : pc'[q] = n
                BY DEF Slowest
            <4>4. pc[q] = n
                <5>1. CASE q = r
                    BY <1>3, <2>1, <4>1, <4>3, <5>1
                <5>2. CASE q # r
                    BY <1>4, <4>3, <5>2
                <5> QED BY <5>1, <5>2
            <4> QED BY <1>6, <4>2, <4>4 DEF Slowest
        <3>4. n <= pc[r] + 1
            BY <2>1, <3>1
        <3>5. pc[r] = n - 1 /\ pc'[r] = n
            BY <1>3, <2>1, <3>2, <3>3, <3>4
        <3>6. \A q \in Rank : n - 1 <= pc[q]
            BY <1>3, <3>2, <3>5
        <3> QED BY <3>5, <3>6
    <2> DEFINE m == n - 1
    <2>3. m \in 1 .. Len(prog) /\ m \in 1 .. Len(prog) + 1 /\ Slowest(m) /\ prog[m].op # "gather" /\ m \in Int
        BY <1>3, <2>1, <2>2 DEF Slowest
    <2>4. FileAt(m)
        BY <2>3 DEF FileOK
    <2>5. \A f \in File : file[f] = After[m - 1].file[f]
        BY <2>3, <2>4 DEF FileAt
    <2>6. After[m].file = After[m - 1].file
        <3> HIDE DEF m
        <3> QED BY <1>3, <2>3, CallEffect
    <2>7. \A f \in File : file'[f] = After[n - 1].file[f]
        BY <2>5, <2>6
    <2> QED BY <2>1, <2>2, <2>7, FileArrives
<1> QED BY <1>5, <1>6

\* The files as a rank finds them in a call, but a gather, that all ranks have entered.
LEMMA FileNow ==
    ASSUME TypeInv, FileOK, NEW r \in Rank, pc[r] <= Len(prog), Cur(r).op # "gather", \A q \in Rank : Entered(q, pc[r])
    PROVE  \A f \in File : file[f] = After[pc[r] - 1].file[f]
<1>1. TypeOK
    BY DEF TypeInv
<1>2. prog \in Programs /\ Len(prog) \in Nat /\ \A q \in Rank : pc[q] \in 1 .. Len(prog) + 1
    BY <1>1, PlaceIs
<1>3. Slowest(pc[r])
    BY <1>2 DEF Slowest, Entered
<1>4. FileAt(pc[r])
    BY <1>2, <1>3 DEF FileOK
<1> QED BY <1>4 DEF FileAt, Cur

\* What every step of rank r starts from.
Going(r) ==
    /\ TypeInv /\ SyncInv /\ SeqInv /\ Clean /\ WholeFloats /\ Fits
    /\ TypeInv' /\ SyncInv' /\ prog' = prog /\ Others(r)

\* What the proofs of the steps use of it.
LEMMA GoingIs ==
    ASSUME NEW r \in Rank, Going(r)
    PROVE  /\ TypeInv /\ TypeOK /\ TypeInv' /\ TypeOK' /\ SyncInv /\ SyncInv' /\ prog' = prog /\ Others(r) /\ Clean /\ WholeFloats /\ Fits
           /\ SeqInv /\ FileOK /\ GlobalsAt(r) /\ TrayAt(r) /\ TmpAt(r) /\ PhaseAt(r)
           /\ prog \in Programs /\ Len(prog) \in Nat /\ pc[r] \in 1 .. Len(prog) + 1
<1>1. TypeInv /\ SyncInv /\ SeqInv /\ Clean /\ WholeFloats /\ Fits /\ TypeInv' /\ SyncInv' /\ prog' = prog /\ Others(r)
    BY DEF Going
<1>2. TypeOK /\ TypeOK' /\ PhaseAt(r)
    BY <1>1 DEF TypeInv, PhaseOK
<1>3. FileOK /\ GlobalsAt(r) /\ TrayAt(r) /\ TmpAt(r)
    BY <1>1 DEF SeqInv, RankAt
<1>4. prog \in Programs /\ Len(prog) \in Nat /\ pc[r] \in 1 .. Len(prog) + 1
    BY <1>2, PlaceIs
<1> QED BY <1>1, <1>2, <1>3, <1>4

\* A rank enters OMPI_XclScatter: only its phase changes.
LEMMA OpenToReadSeq ==
    ASSUME NEW r \in Rank, Going(r), OpenToRead(r)
    PROVE  SeqInv'
<1>1. /\ TypeInv /\ TypeOK /\ TypeOK' /\ SyncInv' /\ prog' = prog /\ Others(r)
      /\ SeqInv /\ FileOK /\ GlobalsAt(r) /\ TrayAt(r)
    BY GoingIs
<1>2. Goto(r, "size") /\ UNCHANGED << MPIentityTypeSize, ePerRank, tray, file >>
    BY DEF OpenToRead, globalVars
<1>3. pc' = pc /\ phase'[r] = "size"
    BY <1>1, <1>2, GotoIs
<1>4. FileOK'
    BY <1>1, <1>2, <1>3, FilesKept
<1>5. GlobalsAt(r)'
    BY <1>1, <1>2, <1>3, SameGlobals
<1>6. TrayAt(r)'
    BY <1>1, <1>2, <1>3, TrayKept
<1>7. TmpAt(r)'
    BY <1>3 DEF TmpAt
<1> QED BY <1>1, <1>4, <1>5, <1>6, <1>7, SeqKept DEF RankAt

\* Globals that a call between scatter and gather sets again.
LEMMA GlobalsAgain ==
    ASSUME NEW r \in Rank, Going(r), pc[r] <= Len(prog), SetsGlobals(Cur(r)), Cur(r).op # "scatter",
           phase'[r] = "call", pc'[r] = pc[r] + 1,
           MPIentityTypeSize'[r] \in {MPIentityTypeSize[r], Cur(r).e},
           \/ ePerRank'[r] = ePerRank[r]
           \/ Cur(r).op = "query" /\ ePerRank'[r] = Per(pc[r]) /\ MPIentityTypeSize'[r] = Cur(r).e
    PROVE  GlobalsAt(r)'
<1> DEFINE m == pc[r]
<1>1. /\ prog' = prog /\ Clean /\ GlobalsAt(r)
      /\ prog \in Programs /\ Len(prog) \in Nat /\ m \in 1 .. Len(prog) + 1
    BY GoingIs
<1>2. After' = After /\ \A n : Per(n)' = Per(n) /\ LastScatter(n)' = LastScatter(n)
    BY <1>1, ProgramKept
<1>3. Cur(r) = prog[m]
    BY DEF Cur
<1> SUFFICES ASSUME NEW g \in 1 .. Len(prog), pc'[r] <= g, prog[g].op = "gather", NEW s \in LastScatter(g), s < pc'[r]
             PROVE  Ready(r, s)'
    BY <1>1, <1>2 DEF GlobalsAt
<1>4. s \in Nat /\ prog[s].op = "scatter" /\ s \in 1 .. Len(prog)
    BY <1>1, LastIs
<1>5. s < m /\ m <= g /\ m \in s + 1 .. g - 1
    BY <1>1, <1>3, <1>4
<1>6. Ready(r, s)
    BY <1>1, <1>5 DEF GlobalsAt
<1>7. /\ prog[m].e = prog[s].e
      /\ prog[m].op = "query" => Len(After[m - 1].file[prog[m].file]) = Len(After[s - 1].file[prog[s].file])
    BY <1>1, <1>3, <1>5, CleanIs
<1>8. prog[m].op = "query" => Per(m) = Per(s)
    BY <1>7 DEF Per
<1>9. MPIentityTypeSize'[r] = prog[s].e
    BY <1>3, <1>6, <1>7 DEF Ready
<1>10. ePerRank'[r] = Per(s)
    BY <1>3, <1>6, <1>8 DEF Ready
<1> QED BY <1>1, <1>2, <1>9, <1>10 DEF Ready

\* OMPI_XclSend and OMPI_XclRecv overwrite MPIentityTypeSize with the same size.
LEMMA TransferSeq ==
    ASSUME NEW r \in Rank, Going(r), Transfer(r)
    PROVE  SeqInv'
<1>1. /\ TypeInv /\ TypeOK /\ TypeOK' /\ SyncInv' /\ prog' = prog /\ Others(r)
      /\ SeqInv /\ FileOK /\ TrayAt(r)
    BY GoingIs
<1>2. /\ Return(r) /\ UNCHANGED << ePerRank, tray, file >> /\ pc[r] <= Len(prog) /\ Cur(r).op = "transfer"
      /\ MPIentityTypeSize' = MPIentityTypeSize \/ MPIentityTypeSize' = [MPIentityTypeSize EXCEPT ![r] = Cur(r).e]
    BY DEF Transfer, AtCall
<1>3. pc'[r] = pc[r] + 1 /\ phase'[r] = "call" /\ prog[pc[r]].op = "transfer"
    BY <1>1, <1>2, ReturnIs DEF Cur
<1>4. FileOK'
    BY <1>1, <1>2, <1>3, FilesKept
<1>5. GlobalsAt(r)'
    <2>1. MPIentityTypeSize'[r] \in {MPIentityTypeSize[r], Cur(r).e}
        BY <1>1, <1>2 DEF TypeOK
    <2>2. SetsGlobals(Cur(r))
        BY <1>2 DEF SetsGlobals
    <2> QED BY <1>2, <1>3, <2>1, <2>2, GlobalsAgain
<1>6. TrayAt(r)'
    BY <1>1, <1>2, <1>3, TrayKept
<1>7. TmpAt(r)'
    BY <1>3 DEF TmpAt
<1> QED BY <1>1, <1>4, <1>5, <1>6, <1>7, SeqKept DEF RankAt

\* A kernel gives the trays of a rank the bytes it has in the run call by call.
LEMMA KernelSeq ==
    ASSUME NEW r \in Rank, Going(r), Kernel(r)
    PROVE  SeqInv'
<1>1. /\ TypeInv /\ TypeOK /\ TypeOK' /\ SyncInv' /\ prog' = prog /\ Others(r)
      /\ SeqInv /\ FileOK /\ GlobalsAt(r) /\ TrayAt(r)
      /\ prog \in Programs /\ Len(prog) \in Nat /\ pc[r] \in 1 .. Len(prog) + 1
    BY GoingIs
<1>2. /\ Return(r) /\ UNCHANGED << MPIentityTypeSize, ePerRank, file >> /\ pc[r] <= Len(prog) /\ Cur(r).op = "kernel"
      /\ tray' = [tray EXCEPT ![r] = [k \in DOMAIN tray[r] |-> << pc[r], r, k >>]]
    BY DEF Kernel, AtCall, globalVars
<1>3. pc'[r] = pc[r] + 1 /\ phase'[r] = "call" /\ prog[pc[r]].op = "kernel"
    BY <1>1, <1>2, ReturnIs DEF Cur
<1>4. FileOK'
    BY <1>1, <1>2, <1>3, FilesKept
<1>5. GlobalsAt(r)'
    BY <1>1, <1>2, <1>3, SameGlobals
<1>6. TrayAt(r)'
    <2>1. pc[r] \in 1 .. Len(prog) /\ pc'[r] - 1 = pc[r]
        BY <1>1, <1>2, <1>3
    <2>2. After[pc[r]].tray[r] = [k \in DOMAIN After[pc[r] - 1].tray[r] |-> << pc[r], r, k >>]
        BY <1>1, <1>3, <2>1, CallEffect
    <2>3. tray'[r] = [k \in DOMAIN tray[r] |-> << pc[r], r, k >>]
        BY <1>1, <1>2 DEF TypeOK
    <2>4. After' = After
        BY <1>1, ProgramKept
    <2> QED BY <1>1, <2>1, <2>2, <2>3, <2>4 DEF TrayAt
<1>7. TmpAt(r)'
    BY <1>3 DEF TmpAt
<1> QED BY <1>1, <1>4, <1>5, <1>6, <1>7, SeqKept DEF RankAt

\* All ranks have entered the call, so no gather is writing the file whose size is taken.
LEMMA GetSizeSeq ==
    ASSUME NEW r \in Rank, Going(r), GetSize(r)
    PROVE  SeqInv'
<1> DEFINE n == pc[r]
<1>1. /\ TypeInv /\ TypeOK /\ TypeOK' /\ SyncInv /\ SyncInv' /\ prog' = prog /\ Others(r) /\ PhaseAt(r) /\ Fits
      /\ SeqInv /\ FileOK /\ GlobalsAt(r) /\ TrayAt(r)
      /\ prog \in Programs /\ Len(prog) \in Nat /\ n \in 1 .. Len(prog) + 1
    BY GoingIs
<1>2. phase[r] = "size" /\ OpenReturns(r)
    BY DEF GetSize, At
<1>3. n <= Len(prog) /\ Cur(r).op \in {"query", "scatter"} /\ Cur(r) = prog[n]
    BY <1>1, <1>2 DEF PhaseAt, Cur
<1>4. n \in 1 .. Len(prog) /\ n - 1 \in 0 .. Len(prog)
    BY <1>1, <1>3
<1>5. /\ MPIentityTypeSize' = [MPIentityTypeSize EXCEPT ![r] = Cur(r).e]
      /\ ePerRank' = [ePerRank EXCEPT ![r] = Sizes(Len(file[Cur(r).file]), Cur(r).e)]
      /\ \/ Cur(r).op = "query" /\ Return(r)
         \/ Cur(r).op = "scatter" /\ Goto(r, "read")
      /\ UNCHANGED << tray, file >>
    BY <1>3 DEF GetSize
<1>6. \A q \in Rank : Entered(q, n)
    BY <1>1, <1>2, OpenSyncs
<1>7. prog[n].file \in File /\ prog[n].e \in Nat \ {0}
    BY <1>1, <1>4, CallIs
<1>8. file[prog[n].file] = After[n - 1].file[prog[n].file]
    BY <1>1, <1>3, <1>6, <1>7, FileNow
<1>9. Len(After[n - 1].file[prog[n].file]) < IntLimit /\ Len(After[n - 1].file[prog[n].file]) \in Nat
    BY <1>1, <1>3, <1>4, <1>7, FitsBefore, AfterIs DEF Collective
<1>10. MPIentityTypeSize'[r] = Cur(r).e /\ ePerRank'[r] = Per(n)
    <2>1. MPIentityTypeSize'[r] = Cur(r).e /\ ePerRank'[r] = Sizes(Len(After[n - 1].file[prog[n].file]), prog[n].e)
        BY <1>1, <1>3, <1>5, <1>8 DEF TypeOK
    <2>2. Sizes(Len(After[n - 1].file[prog[n].file]), prog[n].e) = Per(n)
        BY <1>7, <1>9, SizesIs DEF Per
    <2> QED BY <2>1, <2>2
<1>11. CASE Cur(r).op = "query" /\ Return(r)
    <2>1. pc'[r] = n + 1 /\ phase'[r] = "call"
        BY <1>1, <1>3, <1>11, ReturnIs
    <2>2. FileOK'
        BY <1>1, <1>3, <1>5, <1>11, <2>1, FilesKept
    <2>3. GlobalsAt(r)'
        <3>1. SetsGlobals(Cur(r))
            BY <1>11 DEF SetsGlobals
        <3>2. MPIentityTypeSize'[r] \in {MPIentityTypeSize[r], Cur(r).e} /\ Cur(r).op # "scatter"
            BY <1>10, <1>11
        <3>3. Cur(r).op = "query" /\ ePerRank'[r] = Per(pc[r]) /\ MPIentityTypeSize'[r] = Cur(r).e
            BY <1>10, <1>11
        <3>4. pc[r] <= Len(prog) /\ phase'[r] = "call" /\ pc'[r] = pc[r] + 1
            BY <1>3, <2>1
        <3> HIDE DEF n
        <3> QED BY <3>1, <3>2, <3>3, <3>4, GlobalsAgain
    <2>4. TrayAt(r)'
        BY <1>1, <1>3, <1>5, <1>11, <2>1, TrayKept
    <2>5. TmpAt(r)'
        BY <2>1 DEF TmpAt
    <2> QED BY <1>1, <2>2, <2>3, <2>4, <2>5, SeqKept DEF RankAt
<1>12. CASE Cur(r).op = "scatter" /\ Goto(r, "read")
    <2>1. pc' = pc /\ phase'[r] = "read"
        BY <1>1, <1>12, GotoIs
    <2>2. FileOK'
        BY <1>1, <1>5, <2>1, FilesKept
    <2>3. GlobalsAt(r)'
        <3>1. After' = After /\ \A k : Per(k)' = Per(k) /\ LastScatter(k)' = LastScatter(k)
            BY <1>1, ProgramKept
        <3>2. MPIentityTypeSize'[r] = prog'[pc'[r]].e /\ ePerRank'[r] = Per(pc'[r])
            BY <1>1, <1>3, <1>10, <2>1
        <3>3. ASSUME NEW g \in 1 .. Len(prog), n <= g, prog[g].op = "gather", NEW s \in LastScatter(g), s < n PROVE FALSE
            <4>1. s \in Nat /\ \A m \in s + 1 .. g - 1 : prog[m].op # "scatter"
                BY <1>1, LastIs
            <4>2. n # g
                BY <1>3, <1>12, <3>3
            <4>3. n \in s + 1 .. g - 1
                BY <1>1, <3>3, <4>1, <4>2
            <4> QED BY <1>3, <1>12, <4>1, <4>3
        <3>4. Ready(r, pc[r])'
            BY <3>1, <3>2 DEF Ready
        <3> QED BY <1>1, <2>1, <3>1, <3>3, <3>4 DEF GlobalsAt
    <2>4. TrayAt(r)'
        BY <1>1, <1>5, <2>1, TrayKept
    <2>5. TmpAt(r)'
        BY <2>1 DEF TmpAt
    <2> QED BY <1>1, <2>2, <2>3, <2>4, <2>5, SeqKept DEF RankAt
<1> QED BY <1>5, <1>11, <1>12

\* Nobody has got to the next gather, so the part that is read is that of the run call by call.
LEMMA ReadPartSeq ==
    ASSUME NEW r \in Rank, Going(r), ReadPart(r), status = "ok"
    PROVE  status' # "wild" /\ (status' = "ok" => SeqInv')
<1> DEFINE n == pc[r]
           b == ePerRank[r] * MPIentityTypeSize[r]
           i == Displacement(r)
<1>1. /\ TypeInv /\ TypeOK /\ TypeOK' /\ SyncInv /\ SyncInv' /\ prog' = prog /\ Others(r) /\ PhaseAt(r)
      /\ SeqInv /\ FileOK /\ GlobalsAt(r) /\ TrayAt(r)
      /\ prog \in Programs /\ Len(prog) \in Nat /\ n \in 1 .. Len(prog) + 1
      /\ WholeFloats
    BY GoingIs
<1>2. phase[r] = "read" /\ n <= Len(prog) /\ Cur(r).op = "scatter" /\ Cur(r) = prog[n]
    BY <1>1 DEF ReadPart, At, PhaseAt, Cur
<1>3. /\ \/ ePerRank[r] < NumTasks /\ Stop("died")
         \/ /\ ~(ePerRank[r] < NumTasks) /\ Return(r) /\ status' = status
            /\ tray' = [tray EXCEPT ![r] = SubSeq(file[Cur(r).file], i + 1, i + Int32(b))]
      /\ UNCHANGED << MPIentityTypeSize, ePerRank, file >>
    BY DEF ReadPart, globalVars
<1>4. CASE Stop("died")
    BY <1>4 DEF Stop
<1>5. CASE /\ ~(ePerRank[r] < NumTasks) /\ Return(r) /\ status' = status
           /\ tray' = [tray EXCEPT ![r] = SubSeq(file[Cur(r).file], i + 1, i + Int32(b))]
    <2>1. pc'[r] = n + 1 /\ phase'[r] = "call" /\ n \in 1 .. Len(prog) /\ pc'[r] - 1 = n
        BY <1>1, <1>2, <1>5, ReturnIs
    <2>2. Ready(r, n)
        BY <1>1, <1>2 DEF GlobalsAt
    <2>3. After' = After /\ \A k : Per(k)' = Per(k) /\ LastScatter(k)' = LastScatter(k)
        BY <1>1, ProgramKept
    <2>4. FileOK'
        BY <1>1, <1>2, <1>3, <2>1, FilesKept
    <2>5. GlobalsAt(r)'
        <3> SUFFICES ASSUME NEW g \in 1 .. Len(prog), pc'[r] <= g, prog[g].op = "gather", NEW s \in LastScatter(g), s < pc'[r]
                     PROVE  Ready(r, s)'
            BY <1>1, <2>1, <2>3 DEF GlobalsAt
        <3>1. s \in Nat /\ \A m \in s + 1 .. g - 1 : prog[m].op # "scatter"
            BY <1>1, LastIs
        <3>2. s = n
            <4>1. SUFFICES ASSUME s < n PROVE FALSE
                BY <1>1, <2>1, <3>1
            <4>2. n \in s + 1 .. g - 1
                BY <1>1, <2>1, <3>1, <4>1
            <4> QED BY <1>2, <3>1, <4>2
        <3>3. Ready(r, s)
            BY <2>2, <3>2
        <3> QED BY <1>1, <1>3, <2>3, <3>3 DEF Ready
    <2>6. TrayAt(r)'
        <3>1. Int32(b) = b /\ i = r * b
            <4>1. Cur(r).e % FloatSize = 0
                BY <1>1, <1>2, <2>1 DEF WholeFloats
            <4> QED BY <1>1, <1>2, <1>5, <4>1, ReadIs
        <3>2. b = Per(n) * prog[n].e
            BY <2>2 DEF Ready
        <3>3. \A q \in Rank : Entered(q, n)
            <4>1. Collective(prog[n]) /\ Through(r, n)
                BY <1>2 DEF Collective, Through
            <4> QED BY <1>1, <2>1, <4>1 DEF SyncInv, SyncOK
        <3>4. prog[n].file \in File
            BY <1>1, <2>1, CallIs
        <3>5. file[prog[n].file] = After[n - 1].file[prog[n].file]
            BY <1>1, <1>2, <3>3, <3>4, FileNow
        <3>6. tray'[r] = SubSeq(file[Cur(r).file], i + 1, i + Int32(b))
            BY <1>1, <1>5 DEF TypeOK
        <3>7. tray'[r] = SubSeq(After[n - 1].file[prog[n].file], r * b + 1, r * b + b)
            BY <1>2, <3>1, <3>5, <3>6
        <3>8. After[n].tray[r] = SubSeq(After[n - 1].file[prog[n].file], r * b + 1, r * b + b)
            <4> DEFINE c == Per(n) * prog[n].e
            <4>1. After[n].tray[r] = SubSeq(After[n - 1].file[prog[n].file], r * c + 1, r * c + c)
                BY <1>1, <1>2, <2>1, CallEffect
            <4>2. b = c
                BY <3>2
            <4> HIDE DEF b, c
            <4> QED BY <4>1, <4>2
        <3> QED BY <2>1, <2>3, <3>7, <3>8 DEF TrayAt
    <2>7. TmpAt(r)'
        BY <2>1 DEF TmpAt
    <2>8. SeqInv'
        BY <1>1, <2>4, <2>5, <2>6, <2>7, SeqKept DEF RankAt
    <2> QED BY <1>5, <2>8
<1> QED BY <1>3, <1>4, <1>5

\* What rank r has in a gather: the globals and the tray of the last scatter, a buffer with
\* room for it, and views that fit an int.
LEMMA GatherIs ==
    ASSUME NEW r \in Rank, Going(r), pc[r] <= Len(prog), Cur(r).op = "gather"
    PROVE  /\ ePerRank[r] \in Nat /\ MPIentityTypeSize[r] = Cur(r).e /\ Cur(r).e \in Nat \ {0}
           /\ ePerRank[r] * Cur(r).e \in Nat
           /\ Len(tray[r]) = ePerRank[r] * Cur(r).e /\ Len(After[pc[r] - 1].tray[0]) = ePerRank[r] * Cur(r).e
           /\ Space(r) \in Nat /\ Space(r) >= Len(tray[r])
           /\ \E z \in Nat : z < IntLimit /\ NumRanks * (ePerRank[r] * Cur(r).e) <= z
<1> DEFINE g == pc[r]
<1>1. /\ TypeInv /\ TypeOK /\ Clean /\ Fits /\ GlobalsAt(r) /\ TrayAt(r)
      /\ prog \in Programs /\ Len(prog) \in Nat /\ g \in 1 .. Len(prog) + 1
    BY GoingIs
<1>2. g \in 1 .. Len(prog) /\ Cur(r) = prog[g] /\ prog[g].op = "gather" /\ g \in Int
    BY <1>1 DEF Cur
<1>3. PICK s \in LastScatter(g) : prog[g].e = prog[s].e /\ prog[g].count * prog[g].e * NumTasks \in Len(After[s].tray[0]) .. IntLimit - 1
    BY <1>1, <1>2, CleanIs
<1>4. s \in 1 .. Len(prog) /\ s < g /\ s \in Nat /\ prog[s].op = "scatter"
    BY <1>1, <1>2, LastIs
<1>5. Ready(r, s)
    BY <1>1, <1>2, <1>4 DEF GlobalsAt
<1>6. MPIentityTypeSize[r] = Cur(r).e /\ ePerRank[r] = Per(s) /\ prog[s].e = Cur(r).e
    BY <1>2, <1>3, <1>5 DEF Ready
<1>7. /\ Per(s) \in Nat /\ Per(s) * prog[s].e \in Nat
      /\ NumRanks * (Per(s) * prog[s].e) <= Len(After[s - 1].file[prog[s].file])
    BY <1>1, <1>4, PerIs
<1>8. Cur(r).e \in Nat \ {0}
    BY <1>1, <1>2, CallIs
<1>9. \A n \in s .. g - 1 : \A q \in Rank : Len(After[n].tray[q]) = Per(s) * prog[s].e
    BY <1>1, <1>2, TrayLength
<1>10. s \in s .. g - 1 /\ g - 1 \in s .. g - 1 /\ 0 \in Rank
    BY <1>2, <1>4, ConstantsAre
<1>11. /\ Len(tray[r]) = ePerRank[r] * Cur(r).e /\ Len(After[g - 1].tray[0]) = ePerRank[r] * Cur(r).e
       /\ Len(After[s].tray[0]) = ePerRank[r] * Cur(r).e
    BY <1>1, <1>6, <1>9, <1>10 DEF TrayAt
<1>12. Space(r) = Int32(prog[g].count * prog[g].e * NumTasks)
    BY <1>2, <1>6 DEF Space
<1>13. Space(r) \in Nat /\ Space(r) >= Len(tray[r])
    <2> DEFINE x == prog[g].count * prog[g].e * NumTasks
               l == Len(After[s].tray[0])
    <2>1. l = Len(tray[r]) /\ l \in Nat /\ x \in l .. IntLimit - 1 /\ Space(r) = Int32(x)
        BY <1>3, <1>6, <1>7, <1>11, <1>12
    <2> HIDE DEF x, l
    <2>2. x \in Nat /\ x < IntLimit /\ x >= l
        BY <2>1, ConstantsAre
    <2>3. Int32(x) = x
        BY <2>2, IntIs
    <2> QED BY <2>1, <2>2, <2>3
<1>14. \E z \in Nat : z < IntLimit /\ NumRanks * (ePerRank[r] * Cur(r).e) <= z
    <2> DEFINE z == Len(After[s - 1].file[prog[s].file])
    <2>1. s - 1 \in 0 .. Len(prog) /\ prog[s].file \in File
        BY <1>1, <1>4, CallIs
    <2>2. z \in Nat
        BY <1>1, <2>1, AfterIs
    <2>3. z < IntLimit
        BY <1>1, <1>4, FitsBefore DEF Collective
    <2>4. NumRanks * (ePerRank[r] * Cur(r).e) <= z
        BY <1>6, <1>7
    <2> HIDE DEF z
    <2> QED BY <2>2, <2>3, <2>4
<1> QED BY <1>6, <1>7, <1>8, <1>11, <1>13, <1>14

\* The buffer has room for the trays, and begins with them.
LEMMA ReadTraysSeq ==
    ASSUME NEW r \in Rank, Going(r), ReadTrays(r), status = "ok"
    PROVE  status' # "wild" /\ (status' = "ok" => SeqInv')
<1> DEFINE t == [k \in 1 .. Space(r) |-> IF k <= Len(tray[r]) THEN tray[r][k] ELSE Junk]
<1>1. /\ TypeInv /\ TypeOK /\ TypeOK' /\ SyncInv' /\ prog' = prog /\ Others(r)
      /\ SeqInv /\ FileOK /\ GlobalsAt(r) /\ TrayAt(r)
    BY GoingIs
<1>2. pc[r] <= Len(prog) /\ Cur(r).op = "gather"
    BY DEF ReadTrays, AtCall
<1>3. Space(r) \in Nat /\ Space(r) >= Len(tray[r]) /\ Len(tray[r]) \in Nat
    BY <1>1, <1>2, GatherIs, PlaceIs
<1>4. ~(Len(tray[r]) > Space(r))
    BY <1>3
<1>5. /\ \/ Stop("died")
         \/ /\ tmphostbuffer' = [tmphostbuffer EXCEPT ![r] = t] /\ Goto(r, "write") /\ status' = status
      /\ UNCHANGED << MPIentityTypeSize, ePerRank, tray, file >>
    BY <1>4 DEF ReadTrays, globalVars
<1>6. CASE Stop("died")
    BY <1>6 DEF Stop
<1>7. CASE tmphostbuffer' = [tmphostbuffer EXCEPT ![r] = t] /\ Goto(r, "write") /\ status' = status
    <2>1. pc' = pc /\ phase'[r] = "write"
        BY <1>1, <1>7, GotoIs
    <2>2. FileOK'
        BY <1>1, <1>5, <2>1, FilesKept
    <2>3. GlobalsAt(r)'
        BY <1>1, <1>5, <2>1, SameGlobals
    <2>4. TrayAt(r)'
        BY <1>1, <1>5, <2>1, TrayKept
    <2>5. TmpAt(r)'
        <3>1. tmphostbuffer'[r] = t
            BY <1>1, <1>7 DEF TypeOK
        <3>2. Len(t) = Space(r) /\ \A k \in 1 .. Len(tray[r]) : t[k] = tray[r][k]
            BY <1>3
        <3> HIDE DEF t
        <3> QED BY <1>3, <1>5, <3>1, <3>2 DEF TmpAt
    <2>6. SeqInv'
        BY <1>1, <2>2, <2>3, <2>4, <2>5, SeqKept DEF RankAt
    <2> QED BY <1>7, <2>6
<1> QED BY <1>5, <1>6, <1>7

\* A rank puts its part of a gather into the file.
LEMMA FilePart ==
    ASSUME NEW r \in Rank, Going(r), pc[r] <= Len(prog), Cur(r).op = "gather", \A q \in Rank : Entered(q, pc[r]),
           NEW t \in Seq(Byte), Len(t) = Len(After[pc[r] - 1].tray[0]), \A k \in 1 .. Len(t) : t[k] = After[pc[r] - 1].tray[r][k],
           file' = [file EXCEPT ![Cur(r).file] = WriteAt(file[Cur(r).file], r * Len(After[pc[r] - 1].tray[0]), t)],
           pc'[r] = pc[r] + 1, phase'[r] = "call"
    PROVE  FileOK'
<1> DEFINE g == pc[r]
           f == Cur(r).file
           M == After[g - 1]
           w == WriteAt(file[f], r * Len(M.tray[0]), t)
           D == {q \in Rank : pc[q] > g}
<1>1. /\ TypeInv /\ TypeOK /\ TypeOK' /\ SyncInv' /\ prog' = prog /\ Others(r) /\ FileOK
      /\ prog \in Programs /\ Len(prog) \in Nat /\ g \in 1 .. Len(prog) + 1
    BY GoingIs
<1>2. g \in 1 .. Len(prog) /\ Cur(r) = prog[g] /\ prog[g].op = "gather" /\ g \in Int /\ g - 1 \in 0 .. Len(prog) /\ f \in File
    BY <1>1, CallIs DEF Cur
<1>3. M \in Memory /\ Even(M) /\ M.file[f] \in Seq(Byte) /\ Len(M.tray[0]) \in Nat
    BY <1>1, <1>2, AfterIs, ConstantsAre
<1>4. \A q \in Rank : pc[q] \in 1 .. Len(prog) + 1
    BY <1>1, PlaceIs
<1>5. Slowest(g) /\ \A q \in Rank : g <= pc[q]
    BY <1>2, <1>4 DEF Slowest, Entered
<1>6. FileAt(g)
    BY <1>1, <1>5 DEF FileOK
<1>7. Partly(file[f], M.file[f], M.tray, D)
    BY <1>2, <1>6 DEF FileAt
<1>8. \A h \in File : h # f => file[h] = M.file[h]
    BY <1>2, <1>6 DEF FileAt
<1>9. file[f] \in Seq(Byte) /\ file'[f] = w /\ \A h \in File : h # f => file'[h] = file[h]
    BY <1>1, <1>2 DEF TypeOK
<1>10. D \in SUBSET Rank /\ r \notin D
    BY <1>2
<1>11. Partly(w, M.file[f], M.tray, D \cup {r})
    <2>1. Len(t) = Len(M.tray[0]) /\ \A k \in 1 .. Len(t) : t[k] = M.tray[r][k]
        OBVIOUS
    <2> HIDE DEF M, f, D, g
    <2> QED BY <1>3, <1>7, <1>9, <1>10, <2>1, PartlyMore
<1>12. \A q \in Rank : q # r => pc'[q] = pc[q]
    BY <1>1 DEF Others
<1>13. After' = After
    BY <1>1, ProgramKept
<1> SUFFICES ASSUME NEW n \in 1 .. Len(prog) + 1, Slowest(n)'
             PROVE  FileAt(n)'
    BY <1>1 DEF FileOK
<1>14. n \in Int /\ (\A q \in Rank : n <= pc'[q]) /\ \E q \in Rank : pc'[q] = n
    BY <1>1 DEF Slowest
<1>15. CASE \E q \in Rank : pc'[q] = g
    <2>1. n = g
        BY <1>2, <1>4, <1>5, <1>12, <1>14, <1>15
    <2>2. {q \in Rank : pc'[q] > g} = D \cup {r}
        BY <1>2, <1>4, <1>12
    <2>3. Partly(file'[f], M.file[f], M.tray, {q \in Rank : pc'[q] > n})
        BY <1>9, <1>11, <2>1, <2>2
    <2>4. \A h \in File : h # f => file'[h] = M.file[h]
        BY <1>8, <1>9
    <2> QED BY <1>1, <1>2, <1>13, <2>1, <2>3, <2>4 DEF FileAt
<1>16. CASE ~\E q \in Rank : pc'[q] = g
    <2>1. \A q \in Rank : q # r => pc[q] > g
        BY <1>2, <1>4, <1>5, <1>12, <1>16
    <2>2. n = g + 1
        <3>1. \A q \in Rank : pc'[q] >= g + 1
            BY <1>2, <1>4, <1>12, <2>1
        <3>2. n <= g + 1
            BY <1>14
        <3>3. n >= g + 1
            BY <1>14, <3>1
        <3> QED BY <1>2, <1>14, <3>2, <3>3
    <2>3. D \cup {r} = Rank
        BY <2>1
    <2>4. w = WriteAt(M.file[f], 0, GatheredBlocks(M))
        <3>1. w \in Seq(Byte)
            <4>1. file' \in [File -> Seq(Byte)]
                BY <1>1 DEF TypeOK
            <4> HIDE DEF w
            <4> QED BY <1>2, <1>9, <4>1
        <3> HIDE DEF w, M, f, D, g
        <3>2. Partly(w, M.file[f], M.tray, Rank)
            BY <1>11, <2>3
        <3> QED BY <1>2, <1>3, <3>1, <3>2, PartlyAll
    <2>5. After[g].file = [M.file EXCEPT ![f] = WriteAt(M.file[f], 0, GatheredBlocks(M))]
        BY <1>1, <1>2, CallEffect
    <2>6. \A h \in File : file'[h] = After[g].file[h]
        <3>1. M.file \in [File -> Seq(Byte)]
            BY <1>3 DEF Memory
        <3> HIDE DEF w, M, f, D, g
        <3> QED BY <1>2, <1>8, <1>9, <2>4, <2>5, <3>1
    <2>7. n - 1 = g
        BY <1>2, <2>2
    <2>8. \A h \in File : file'[h] = After[n - 1].file[h]
        BY <2>6, <2>7
    <2> QED BY <1>1, <2>2, <2>8, FileArrives
<1> QED BY <1>15, <1>16

\* The part goes where the run call by call puts it, from within the buffer.
LEMMA WritePartSeq ==
    ASSUME NEW r \in Rank, Going(r), WritePart(r), status = "ok"
    PROVE  status' # "wild" /\ (status' = "ok" => SeqInv')
<1> DEFINE n == ePerRank[r] * Cur(r).e
           t == SubSeq(tmphostbuffer[r], 1, n)
           f == Cur(r).file
<1>1. /\ TypeInv /\ TypeOK /\ TypeOK' /\ SyncInv /\ SyncInv' /\ prog' = prog /\ Others(r) /\ PhaseAt(r)
      /\ SeqInv /\ FileOK /\ GlobalsAt(r) /\ TrayAt(r) /\ TmpAt(r)
      /\ prog \in Programs /\ Len(prog) \in Nat /\ pc[r] \in 1 .. Len(prog) + 1 /\ WholeFloats
    BY GoingIs
<1>2. phase[r] = "write" /\ OpenReturns(r)
    BY DEF WritePart, At
<1>3. pc[r] <= Len(prog) /\ Cur(r).op = "gather" /\ prog[pc[r]].op = "gather"
    BY <1>1, <1>2 DEF PhaseAt, Cur
<1>4. /\ ePerRank[r] \in Nat /\ MPIentityTypeSize[r] = Cur(r).e /\ Cur(r).e \in Nat \ {0}
      /\ n \in Nat /\ Len(tray[r]) = n /\ Len(After[pc[r] - 1].tray[0]) = n
      /\ \E z \in Nat : z < IntLimit /\ NumRanks * n <= z
    BY <1>3, GatherIs
<1>5. /\ n <= Len(tmphostbuffer[r]) /\ \A k \in 1 .. n : tmphostbuffer[r][k] = After[pc[r] - 1].tray[r][k]
      /\ tmphostbuffer[r] \in Seq(Byte) /\ Len(tmphostbuffer[r]) \in Nat
    <2>1. tmphostbuffer[r] \in Seq(Byte)
        BY <1>1 DEF TypeOK
    <2> QED BY <1>1, <1>2, <1>4, <2>1 DEF TmpAt, TrayAt
<1>6. ToWrite(r) = n /\ ~(n > Len(tmphostbuffer[r]))
    <2>1. ToWrite(r) = IF n \in 0 .. IntLimit - 1 THEN n ELSE 0
        BY DEF ToWrite
    <2> HIDE DEF n
    <2>2. n < IntLimit
        <3>1. PICK z \in Nat : z < IntLimit /\ NumRanks * n <= z
            BY <1>4
        <3>2. n <= NumRanks * n
            <4>1. 1 * n <= NumRanks * n
                BY <1>4, ConstantsAre, MulLess
            <4> QED BY <1>4, <4>1
        <3>3. NumRanks * n \in Nat
            BY <1>4, ConstantsAre, MulNat
        <3> QED BY <1>4, <3>1, <3>2, <3>3, ConstantsAre
    <2> QED BY <1>4, <1>5, <2>1, <2>2, ConstantsAre
<1>7. /\ file' = IF n = 0 THEN file ELSE [file EXCEPT ![f] = WriteAt(file[f], Displacement(r), t)]
      /\ Return(r) /\ status' = status
      /\ UNCHANGED << MPIentityTypeSize, ePerRank, tray >>
    BY <1>6 DEF WritePart, globalVars
<1>8. pc'[r] = pc[r] + 1 /\ phase'[r] = "call"
    BY <1>1, <1>3, <1>7, ReturnIs
<1>9. Displacement(r) = r * n
    <2>1. PICK z \in Nat : z < IntLimit /\ NumRanks * n <= z
        BY <1>4
    <2>2. r * n \in Nat /\ Int32(r * ePerRank[r] * Cur(r).e) = r * n
        <3> DEFINE q == ePerRank[r]
                   e == Cur(r).e
        <3>1. q \in Nat /\ e \in Nat \ {0} /\ NumRanks * (q * e) <= z
            BY <1>4, <2>1
        <3> HIDE DEF q, e
        <3>2. r * (q * e) \in Nat /\ Int32(r * q * e) = r * (q * e)
            BY <2>1, <3>1, ViewIs
        <3> QED BY <3>2 DEF q, e
    <2>3. /\ Displacement(r) = IF ViewAccepted(r) THEN Int32(r * ePerRank[r] * Cur(r).e) ELSE 0
          /\ ViewAccepted(r) <=> Int32(r * ePerRank[r] * Cur(r).e) >= 0
        <3>1. Cur(r).e % FloatSize = 0
            BY <1>1, <1>3 DEF WholeFloats, Cur
        <3> QED BY <1>4, <3>1 DEF Displacement, ViewAccepted, Offset
    <2> DEFINE i == r * n
    <2>4. i \in Nat /\ Displacement(r) = IF i >= 0 THEN i ELSE 0
        BY <2>2, <2>3
    <2> HIDE DEF i
    <2>5. Displacement(r) = i
        BY <2>4
    <2> QED BY <2>5 DEF i
<1>10. t \in Seq(Byte) /\ Len(t) = n /\ \A k \in 1 .. Len(t) : t[k] = After[pc[r] - 1].tray[r][k]
    <2> HIDE DEF n
    <2>1. \A k \in 1 .. n : tmphostbuffer[r][k] \in Byte
        BY <1>4, <1>5
    <2>2. t \in Seq(Byte) /\ Len(t) = (IF 1 <= n THEN n - 1 + 1 ELSE 0) /\ \A k \in 1 .. n - 1 + 1 : t[k] = tmphostbuffer[r][1 + k - 1]
        BY <1>4, <2>1, SubSeqProperties
    <2>3. Len(t) = n
        <3> HIDE DEF t
        <3> QED BY <1>4, <2>2
    <2>4. ASSUME NEW k \in 1 .. n PROVE t[k] = tmphostbuffer[r][k]
        <3>1. k \in 1 .. n - 1 + 1 /\ 1 + k - 1 = k
            BY <1>4
        <3> HIDE DEF t
        <3> QED BY <2>2, <3>1
    <2> HIDE DEF t
    <2> QED BY <1>5, <2>2, <2>3, <2>4
<1>11. \A q \in Rank : Entered(q, pc[r])
    BY <1>1, <1>2, OpenSyncs
<1>12. FileOK'
    <2>1. file' = [file EXCEPT ![f] = WriteAt(file[f], Displacement(r), t)]
        <3>1. CASE n = 0
            <4>1. file \in [File -> Seq(Byte)] /\ f \in File
                BY <1>1, <1>3, CurIs DEF TypeOK
            <4>2. Displacement(r) = 0 /\ Len(t) = 0 /\ file[f] \in Seq(Byte)
                <5>1. r * 0 = 0
                    BY ConstantsAre
                <5> HIDE DEF t, n
                <5> QED BY <1>9, <1>10, <3>1, <4>1, <5>1
            <4> HIDE DEF t, f
            <4>3. WriteAt(file[f], Displacement(r), t) = file[f]
                BY <4>2 DEF WriteAt
            <4> QED BY <1>7, <3>1, <4>1, <4>3
        <3>2. CASE n # 0
            BY <1>7, <3>2
        <3> QED BY <3>1, <3>2
    <2>2. /\ Len(t) = Len(After[pc[r] - 1].tray[0])
          /\ file' = [file EXCEPT ![f] = WriteAt(file[f], r * Len(After[pc[r] - 1].tray[0]), t)]
        BY <1>4, <1>9, <1>10, <2>1
    <2> HIDE DEF t, n
    <2> QED BY <1>3, <1>8, <1>10, <1>11, <2>2, FilePart
<1>13. GlobalsAt(r)'
    BY <1>1, <1>3, <1>7, <1>8, SameGlobals
<1>14. TrayAt(r)'
    BY <1>1, <1>3, <1>7, <1>8, TrayKept
<1>15. TmpAt(r)'
    BY <1>8 DEF TmpAt
<1>16. SeqInv'
    BY <1>1, <1>12, <1>13, <1>14, <1>15, SeqKept DEF RankAt
<1> QED BY <1>7, <1>16

\* The inductive invariant.
SGInv ==
    /\ TypeInv /\ SyncInv
    /\ Clean /\ WholeFloats /\ Fits => status # "wild" /\ (status = "ok" => SeqInv)

\* The inductive invariant holds initially.
LEMMA SGStart == Init => SGInv
<1> SUFFICES ASSUME Init PROVE SGInv
    OBVIOUS
<1>1. TypeInv /\ SyncInv /\ TypeOK
    BY StartTypes, StartSyncs DEF TypeInv
<1>2. prog \in Programs /\ Len(prog) \in Nat /\ status = "ok"
    BY CallIs DEF Init
<1>3. \A r \in Rank : pc[r] = 1 /\ phase[r] = "call" /\ tray[r] = << >>
    BY DEF Init
<1>4. After[0] = AtStart
    BY <1>2, AfterIs
<1>5. ASSUME NEW r \in Rank PROVE RankAt(r)
    <2>1. GlobalsAt(r)
        <3>1. \A g \in 1 .. Len(prog) : \A s \in LastScatter(g) : ~(s < 1)
            BY <1>2, LastIs
        <3> QED BY <1>3, <3>1 DEF GlobalsAt
    <2>2. TrayAt(r)
        <3>1. AtStart.tray[r] = << >>
            BY DEF AtStart
        <3>2. pc[r] - 1 = 0
            BY <1>3
        <3> QED BY <1>3, <1>4, <3>1, <3>2 DEF TrayAt
    <2>3. TmpAt(r)
        BY <1>3 DEF TmpAt
    <2> QED BY <2>1, <2>2, <2>3 DEF RankAt
<1>6. FileOK
    <2> SUFFICES ASSUME NEW n \in 1 .. Len(prog) + 1, Slowest(n) PROVE FileAt(n)
        BY DEF FileOK
    <2>1. n = 1 /\ n - 1 = 0
        BY <1>3 DEF Slowest
    <2>2. {q \in Rank : pc[q] > n} = {}
        BY <1>3, <2>1
    <2>3. file = After[0].file
        BY <1>4 DEF Init, AtStart
    <2>4. ASSUME NEW f \in File PROVE Partly(file[f], After[n - 1].file[f], After[n - 1].tray, {q \in Rank : pc[q] > n})
        <3> DEFINE x == After[n - 1].file[f]
                   T == After[n - 1].tray
                   D == {q \in Rank : pc[q] > n}
        <3>1. file[f] = x /\ D = {}
            BY <2>1, <2>2, <2>3
        <3>2. x \in Seq(Byte)
            BY <1>2, <2>1, AfterIs
        <3> HIDE DEF x, T, D
        <3>3. Partly(x, x, T, {})
            BY <3>2, PartlyNone
        <3>4. Partly(file[f], x, T, D)
            BY <3>1, <3>3
        <3> QED BY <3>4 DEF x, T, D
    <2> QED BY <2>1, <2>3, <2>4 DEF FileAt
<1> QED BY <1>1, <1>2, <1>5, <1>6 DEF SGInv, SeqInv

\* Every step preserves the inductive invariant.
LEMMA SGStep == SGInv /\ [Next]_vars => SGInv'
<1> SUFFICES ASSUME SGInv, [Next]_vars PROVE SGInv'
    OBVIOUS
<1>1. TypeInv /\ SyncInv /\ (Clean /\ WholeFloats /\ Fits => status # "wild" /\ (status = "ok" => SeqInv))
    BY DEF SGInv
<1>2. ASSUME NEW r \in Rank, Step(r) PROVE SGInv'
    <2>1. TypeInv' /\ prog' = prog /\ Others(r)
        BY <1>1, <1>2, StepTypes
    <2>2. SyncInv'
        BY <1>1, <1>2, <2>1, StepMoves, SyncKept
    <2>3. (Clean' <=> Clean) /\ (Fits' <=> Fits) /\ (WholeFloats' <=> WholeFloats)
        BY <2>1, ProgramKept
    <2>4. ASSUME Clean, WholeFloats, Fits PROVE status' # "wild" /\ (status' = "ok" => SeqInv')
        <3>1. status = "ok"
            BY <1>2 DEF Step, OpenToRead, GetSize, ReadPart, ReadTrays, WritePart, Transfer, Kernel, AtCall, At
        <3>2. Going(r)
            BY <1>1, <2>1, <2>2, <2>4, <3>1 DEF Going
        <3>3. CASE OpenToRead(r)
            BY <3>1, <3>2, <3>3, OpenToReadSeq DEF OpenToRead
        <3>4. CASE GetSize(r)
            BY <3>1, <3>2, <3>4, GetSizeSeq DEF GetSize
        <3>5. CASE ReadPart(r)
            BY <3>1, <3>2, <3>5, ReadPartSeq
        <3>6. CASE ReadTrays(r)
            BY <3>1, <3>2, <3>6, ReadTraysSeq
        <3>7. CASE WritePart(r)
            BY <3>1, <3>2, <3>7, WritePartSeq
        <3>8. CASE Transfer(r)
            BY <3>1, <3>2, <3>8, TransferSeq DEF Transfer
        <3>9. CASE Kernel(r)
            BY <3>1, <3>2, <3>9, KernelSeq DEF Kernel
        <3> QED BY <1>2, <3>3, <3>4, <3>5, <3>6, <3>7, <3>8, <3>9 DEF Step
    <2> QED BY <2>1, <2>2, <2>3, <2>4 DEF SGInv
<1>3. CASE UNCHANGED vars
    <2>1. UNCHANGED << prog, pc, phase, MPIentityTypeSize, ePerRank, tray, tmphostbuffer, file, opened, viewed, status >>
        BY <1>3 DEF vars, globalVars
    <2>2. TypeInv'
        BY <1>1, <1>3, StutterTypes
    <2>3. /\ After' = After /\ (Clean' <=> Clean) /\ (Fits' <=> Fits) /\ (WholeFloats' <=> WholeFloats)
          /\ \A n : Per(n)' = Per(n) /\ LastScatter(n)' = LastScatter(n)
        BY <2>1, ProgramKept
    <2>4. SyncInv'
        BY <1>1, <2>1 DEF SyncInv, OpenedOK, EnteredCalls, SyncOK, Entered, Through
    <2>5. SeqInv => SeqInv'
        <3> SUFFICES ASSUME SeqInv PROVE SeqInv'
            OBVIOUS
        <3>1. ASSUME NEW r \in Rank PROVE RankAt(r)'
            <4>1. GlobalsAt(r) /\ TrayAt(r) /\ TmpAt(r)
                BY DEF SeqInv, RankAt
            <4>2. \A s : Ready(r, s) => Ready(r, s)'
                BY <2>1, <2>3 DEF Ready
            <4>3. GlobalsAt(r)'
                BY <2>1, <2>3, <4>1, <4>2 DEF GlobalsAt
            <4>4. TrayAt(r)' /\ TmpAt(r)'
                BY <2>1, <2>3, <4>1 DEF TrayAt, TmpAt
            <4> QED BY <4>3, <4>4 DEF RankAt
        <3>2. FileOK'
            BY <2>1, <2>3 DEF SeqInv, FileOK, Slowest, FileAt
        <3> QED BY <3>1, <3>2 DEF SeqInv
    <2> QED BY <1>1, <2>1, <2>2, <2>3, <2>4, <2>5 DEF SGInv
<1> QED BY <1>2, <1>3 DEF Next

\* The inductive invariant holds in every reachable state.
LEMMA SGAlways == Spec => []SGInv
BY SGStart, SGStep, PTL DEF Spec

\* OMPI_XclScatter, between any numbers of ranks, entities and calls: in a program whose gathers
\* match its scatters, whose entities are multiples of MPI_FLOAT and whose files fit an int, a
\* rank that has returned from MPI_File_read and uploaded its part has exactly its block of the
\* file as the calls before left it, although other ranks may by then be several calls away.
THEOREM ScattersSequentially == Spec => []ScatterIsSequential
<1>1. SGInv => ScatterIsSequential
    BY DEF SGInv, SeqInv, RankAt, TrayAt, ScatterIsSequential
<1> QED BY <1>1, SGAlways, PTL

\* OMPI_XclGather in such a program: when all ranks have returned, the blocks are at the beginning
\* of the file one after the other in the order of the ranks, and the rest of the file is as
\* it was, in whatever order the ranks have written their parts.
THEOREM GathersSequentially == Spec => []GatherIsSequential
<1>1. SGInv => GatherIsSequential
    <2> SUFFICES ASSUME SGInv, Clean, WholeFloats, Fits, status = "ok",
                        \A r, q \in Rank : pc[r] = pc[q], \A r \in Rank : phase[r] = "call"
                 PROVE  file = After[pc[0] - 1].file
        BY DEF GatherIsSequential
    <2> DEFINE n == pc[0]
    <2>1. TypeOK /\ SeqInv
        BY DEF SGInv, TypeInv
    <2>2. 0 \in Rank
        BY ConstantsAre
    <2>3. prog \in Programs /\ Len(prog) \in Nat /\ n \in 1 .. Len(prog) + 1 /\ n \in Nat /\ n - 1 \in 0 .. Len(prog)
        BY <2>1, <2>2, PlaceIs
    <2>4. \A q \in Rank : pc[q] = n
        BY <2>2
    <2>5. Slowest(n) /\ {q \in Rank : pc[q] > n} = {}
        BY <2>2, <2>3, <2>4 DEF Slowest
    <2>6. FileAt(n)
        BY <2>1, <2>3, <2>5 DEF SeqInv, FileOK
    <2>7. file \in [File -> Seq(Byte)] /\ After[n - 1].file \in [File -> Seq(Byte)]
        <3>1. After[n - 1] \in Memory
            BY <2>3, AfterIs
        <3> QED BY <2>1, <3>1 DEF TypeOK, Memory
    <2>8. ASSUME NEW f \in File PROVE file[f] = After[n - 1].file[f]
        <3> DEFINE x == After[n - 1].file[f]
                   T == After[n - 1].tray
                   D == {q \in Rank : pc[q] > n}
        <3>1. file[f] \in Seq(Byte) /\ x \in Seq(Byte) /\ D = {}
            BY <2>5, <2>7
        <3>2. file[f] = x \/ Partly(file[f], x, T, D)
            BY <2>6 DEF FileAt
        <3> HIDE DEF x, T, D
        <3>3. file[f] = x
            BY <3>1, <3>2, PartlyNone
        <3> QED BY <3>3 DEF x
    <2> HIDE DEF n
    <2>9. file = After[n - 1].file
        BY <2>7, <2>8
    <2> QED BY <2>9 DEF n
<1> QED BY <1>1, SGAlways, PTL

\* In such a program no rank reads trays into a tmphostbuffer that is too small for them, and
\* none writes more to the file than its buffer holds; in every program the variables keep
\* their types, the int ePerRank included.
THEOREM NeverWild == Spec => [](TypeOK /\ (WholeFloats => NoWildAccess))
<1>1. SGInv => TypeOK /\ (WholeFloats => NoWildAccess)
    BY DEF SGInv, TypeInv, NoWildAccess
<1> QED BY <1>1, SGAlways, PTL

----------------------------------------------------------------------------
(* LibHandles                                                              *)

\* The references to libmultiDeviceMgmt that stay when the call in progress is over.
Kept == IF stage = "inner" /\ ClosesMulti(op) THEN refs["multi"] - 1 ELSE refs["multi"]

InnerOK == stage = "inner" => uses > 0 /\ refs["multi"] > 0
OuterOK == stage \in {"outer", "inner"} /\ HasOuter(op) => refs[Outer(op)] > 0
LaunchOK == (threads > 0 => launched) /\ (launched => Kept > 0 /\ thds)
ScatterOK == scattered > 0 => Kept > 0 /\ tskbufferSize = scattered

\* The inductive invariant.
LibInv == LibTypeOK /\ InnerOK /\ OuterOK /\ LaunchOK /\ ScatterOK

\* The initial state satisfies the inductive invariant: nothing is open.
LEMMA LibStart == LibInit => LibInv
<1> SUFFICES ASSUME LibInit PROVE LibInv
  OBVIOUS
<1>1. thds \in BOOLEAN /\ launched \in BOOLEAN
  BY Zenon DEF LibInit
<1>2. LibTypeOK
  BY <1>1, LibHandlesAssumption DEF LibInit, LibTypeOK, Op
<1>3. ~launched
  BY Zenon DEF LibInit
<1>4. InnerOK /\ OuterOK /\ LaunchOK /\ ScatterOK
  BY <1>3 DEF LibInit, InnerOK, OuterOK, LaunchOK, ScatterOK
<1> QED BY <1>2, <1>4 DEF LibInv

\* Every step preserves the inductive invariant.
LEMMA LibStep == LibInv /\ [LibNext]_libVars => LibInv'
<1> SUFFICES ASSUME LibInv, [LibNext]_libVars PROVE LibInv'
  OBVIOUS
<1>0. /\ LibTypeOK /\ InnerOK /\ OuterOK /\ LaunchOK /\ ScatterOK
      /\ MaxLibCalls \in Nat /\ MaxThreads \in Nat
  BY LibHandlesAssumption DEF LibInv
<1>1. ASSUME NEW o \in Op, LibCall(o) PROVE LibInv'
  <2>1. /\ stage = "app" /\ calls < MaxLibCalls /\ calls' = calls + 1 /\ op' = o /\ stage' = "outer"
        /\ uses' \in Uses(o)
        /\ refs' = IF HasOuter(o) THEN [refs EXCEPT ![Outer(o)] = @ + 1] ELSE refs
        /\ thds' = thds /\ tskbufferSize' = tskbufferSize
        /\ threads' = threads /\ launched' = launched /\ scattered' = scattered
    BY <1>1 DEF LibCall, dataVars
  <2>2. Outer(o) \in {"tsk", "dv"} /\ Outer(o) \in Lib
    BY DEF Outer, Lib
  <2>3. uses' \in 0 .. 2
    BY <2>1 DEF Uses, Op
  <2>4. refs' \in [Lib -> Nat] /\ refs'["multi"] = refs["multi"] /\ (HasOuter(o) => refs'[Outer(o)] > 0)
    BY <1>0, <2>1, <2>2 DEF LibTypeOK, Lib
  <2>5. LibTypeOK'
    BY <1>0, <2>1, <2>3, <2>4 DEF LibTypeOK
  <2>6. Kept' = Kept
    BY <2>1, <2>4 DEF Kept
  <2> QED
    BY <1>0, <2>1, <2>4, <2>5, <2>6 DEF LibInv, InnerOK, OuterOK, LaunchOK, ScatterOK
<1>2. CASE Use
  <2>1. /\ stage = "outer" /\ uses > 0 /\ stage' = "inner"
        /\ refs' = [refs EXCEPT !["multi"] = @ + 1]
        /\ thds' = (thds \/ op = "exec") /\ launched' = (launched \/ op = "exec")
        /\ threads' = threads \/ (op = "exec" /\ threads < MaxThreads /\ threads' = threads + 1)
        /\ \/ op = "scatter" /\ tskbufferSize' = calls /\ scattered' = calls
           \/ tskbufferSize' = tskbufferSize /\ scattered' = scattered
        /\ calls' = calls /\ op' = op /\ uses' = uses
    BY <1>2 DEF Use
  <2>2. refs' \in [Lib -> Nat] /\ refs'["multi"] = refs["multi"] + 1 /\ refs["multi"] \in Nat
    BY <1>0, <2>1 DEF LibTypeOK, Lib
  <2>3. LibTypeOK'
    BY <1>0, <2>1, <2>2 DEF LibTypeOK
  <2>4. InnerOK'
    BY <2>1, <2>2 DEF InnerOK
  <2>5. OuterOK'
    BY <1>0, <2>1 DEF OuterOK, Outer, HasOuter, LibTypeOK, Lib
  <2>6. Kept = refs["multi"] /\ Kept' = IF ClosesMulti(op) THEN refs["multi"] ELSE refs["multi"] + 1
    BY <2>1, <2>2 DEF Kept, ClosesMulti
  <2>7. LaunchOK'
    <3>1. op = "exec" => ~ClosesMulti(op)
      BY DEF ClosesMulti
    <3>2. launched' => Kept' > 0 /\ thds'
      BY <1>0, <2>1, <2>2, <2>6, <3>1 DEF LaunchOK, LibTypeOK
    <3>3. threads' > 0 => launched'
      BY <1>0, <2>1 DEF LaunchOK, LibTypeOK
    <3> QED BY <3>2, <3>3 DEF LaunchOK
  <2>8. ScatterOK'
    <3>1. op = "scatter" => ~ClosesMulti(op)
      BY DEF ClosesMulti
    <3> QED BY <1>0, <2>1, <2>2, <2>6, <3>1 DEF ScatterOK
  <2> QED
    BY <2>3, <2>4, <2>5, <2>7, <2>8 DEF LibInv
<1>3. CASE EndUse
  <2>1. /\ stage = "inner" /\ stage' = "outer" /\ uses' = uses - 1
        /\ calls' = calls /\ op' = op /\ threads' = threads /\ launched' = launched /\ scattered' = scattered
    BY <1>3 DEF EndUse
  <2>2. uses > 0 /\ refs["multi"] > 0
    BY <1>0, <2>1 DEF InnerOK
  <2>3. CASE ClosesMulti(op)
    <3>1. /\ refs' = [refs EXCEPT !["multi"] = @ - 1]
          /\ IF refs["multi"] = 1 THEN thds' = FALSE /\ tskbufferSize' = 0
             ELSE thds' = thds /\ tskbufferSize' = tskbufferSize
      BY <1>3, <2>3 DEF EndUse, Close, dataVars
    <3>2. refs' \in [Lib -> Nat] /\ refs'["multi"] = refs["multi"] - 1
      BY <1>0, <2>2, <3>1 DEF LibTypeOK, Lib
    <3>3. LibTypeOK'
      <4>1. thds' \in BOOLEAN /\ launched' \in BOOLEAN
        BY <1>0, <2>1, <3>1, Zenon DEF LibTypeOK
      <4> QED BY <1>0, <2>1, <2>2, <3>1, <3>2, <4>1 DEF LibTypeOK
    <3>4. Kept = refs["multi"] - 1 /\ Kept' = refs["multi"] - 1
      BY <2>1, <2>3, <3>2 DEF Kept
    <3>5. OuterOK'
      BY <1>0, <2>1, <3>1 DEF OuterOK, Outer, HasOuter, LibTypeOK, Lib
    <3> QED
      BY <1>0, <2>1, <2>2, <3>1, <3>3, <3>4, <3>5 DEF LibInv, InnerOK, LaunchOK, ScatterOK, LibTypeOK
  <2>4. CASE ~ClosesMulti(op)
    <3>1. refs' = refs /\ thds' = thds /\ tskbufferSize' = tskbufferSize
      BY <1>3, <2>4 DEF EndUse, dataVars
    <3>2. LibTypeOK'
      BY <1>0, <2>1, <2>2, <3>1 DEF LibTypeOK
    <3>3. Kept' = Kept
      BY <2>1, <2>4, <3>1 DEF Kept
    <3> QED
      BY <1>0, <2>1, <3>1, <3>2, <3>3 DEF LibInv, InnerOK, OuterOK, LaunchOK, ScatterOK
  <2> QED BY <2>3, <2>4
<1>4. CASE LibReturn
  <2>1. /\ stage = "outer" /\ stage' = "app" /\ uses' = uses
        /\ calls' = calls /\ op' = op /\ threads' = threads /\ launched' = launched /\ scattered' = scattered
    BY <1>4 DEF LibReturn
  <2>2. /\ thds' = thds /\ tskbufferSize' = tskbufferSize
        /\ refs' \in [Lib -> Nat] /\ refs'["multi"] = refs["multi"]
    <3>1. CASE ClosesOuter(op)
      <4>1. Outer(op) \in {"tsk", "dv"} /\ HasOuter(op)
        BY <3>1 DEF Outer, ClosesOuter, HasOuter
      <4>2. refs[Outer(op)] > 0
        BY <1>0, <2>1, <4>1 DEF OuterOK
      <4>3. refs' = [refs EXCEPT ![Outer(op)] = @ - 1] /\ thds' = thds /\ tskbufferSize' = tskbufferSize
        BY <1>4, <3>1, <4>1 DEF LibReturn, Close, dataVars
      <4> QED BY <1>0, <4>1, <4>2, <4>3 DEF LibTypeOK, Lib
    <3>2. CASE ~ClosesOuter(op)
      BY <1>0, <1>4, <3>2 DEF LibReturn, dataVars, LibTypeOK
    <3> QED BY <3>1, <3>2
  <2>3. LibTypeOK'
    BY <1>0, <2>1, <2>2 DEF LibTypeOK
  <2>4. Kept' = Kept
    BY <2>1, <2>2 DEF Kept
  <2> QED
    BY <1>0, <2>1, <2>2, <2>3, <2>4 DEF LibInv, InnerOK, OuterOK, LaunchOK, ScatterOK
<1>5. CASE DlError
  <2>1. /\ stage \in {"app", "outer"} /\ stage' = "exited" /\ threads' = 0
        /\ calls' = calls /\ op' = op /\ uses' = uses /\ refs' = refs
        /\ thds' = thds /\ tskbufferSize' = tskbufferSize /\ launched' = launched /\ scattered' = scattered
    BY <1>5 DEF DlError, dataVars
  <2>2. LibTypeOK'
    BY <1>0, <2>1 DEF LibTypeOK
  <2>3. Kept' = Kept
    BY <2>1 DEF Kept
  <2> QED
    BY <1>0, <2>1, <2>2, <2>3 DEF LibInv, InnerOK, OuterOK, LaunchOK, ScatterOK
<1>6. CASE ThreadExit
  <2>1. /\ threads > 0 /\ threads' = threads - 1
        /\ calls' = calls /\ op' = op /\ stage' = stage /\ uses' = uses /\ refs' = refs
        /\ thds' = thds /\ tskbufferSize' = tskbufferSize /\ launched' = launched /\ scattered' = scattered
    BY <1>6 DEF ThreadExit, dataVars
  <2>2. LibTypeOK'
    BY <1>0, <2>1 DEF LibTypeOK
  <2>3. Kept' = Kept
    BY <2>1 DEF Kept
  <2> QED
    BY <1>0, <2>1, <2>2, <2>3 DEF LibInv, InnerOK, OuterOK, LaunchOK, ScatterOK
<1>7. CASE UNCHANGED libVars
  BY <1>0, <1>7 DEF libVars, dataVars, LibInv, LibTypeOK, InnerOK, OuterOK, LaunchOK, ScatterOK, Kept
<1> QED
  BY <1>1, <1>2, <1>3, <1>4, <1>5, <1>6, <1>7 DEF LibNext

\* The inductive invariant holds in every reachable state.
LEMMA LibInvariant == LibSpec => []LibInv
BY LibStart, LibStep, PTL DEF LibSpec

\* What is left when a call ends is at most what there is now.
LEMMA KeptBound == LibInv => (Kept > 0 => refs["multi"] > 0)
BY DEF LibInv, LibTypeOK, Kept, Lib

\* No library is closed more often than it was opened, and the variables have their types.
THEOREM LibTypeCorrect == LibSpec => []LibTypeOK
<1>1. LibInv => LibTypeOK
  BY DEF LibInv
<1> QED BY <1>1, LibInvariant, PTL

\* After the first launch the arrays that waits read are never lost, and a gather finds the
\* sizes of the last scatter.
THEOREM GlobalsNeverLost == LibSpec => []GlobalsKept
<1>1. LibInv => GlobalsKept
  BY KeptBound DEF LibInv, LaunchOK, ScatterOK, GlobalsKept
<1> QED BY <1>1, LibInvariant, PTL

\* No code runs in a library that is not loaded: no dlclose of a wait or of a kernel
\* creation unloads libmultiDeviceMgmt under a launch thread.
THEOREM CodeAlwaysMapped == LibSpec => []CodeMapped
<1>1. LibInv => (threads > 0 => refs["multi"] > 0)
  BY KeptBound DEF LibInv, LaunchOK
<1>2. LibInv => CodeMapped
  BY <1>1 DEF LibInv, OuterOK, InnerOK, CodeMapped
<1> QED BY <1>2, LibInvariant, PTL
=============================================================================
