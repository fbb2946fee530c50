-------------------------- MODULE MemDBReadProofs --------------------------
(***************************************************************************)
(* Theorems about what a reader of MemDB is given at a revision, when the  *)
(* calls of ReadWriteTx do not overlap and the clock moves between two     *)
(* readings.                                                               *)
(***************************************************************************)
EXTENDS MemDBProofs, WellFoundedInduction

(***************************************************************************)
(* The bisection                                                           *)
(***************************************************************************)
\* The body of SearchRevision's bisection.
Bisection(f, n, dr) ==
  [b \in (0..n) \X (0..n) |->
     IF b[1] >= b[2] THEN b[1]
     ELSE LET h == (b[1] + b[2]) \div 2
          IN  IF revisions[h + 1].revision >= dr
              THEN f[<<b[1], h>>] ELSE f[<<h + 1, b[2]>>]]

\* c as a place between i and j.
Between(c, i, j) == IF i >= j \/ c <= i THEN i ELSE IF c >= j THEN j ELSE c

\* c entries come before dr, and the others do not.
Splits(c, n, dr) ==
  \A k \in 1..n : revisions[k].revision < dr <=> k <= c

\* The middle of two numbers lies between them.
LEMMA Middle ==
  ASSUME NEW i \in Nat, NEW j \in Nat, i < j
  PROVE  (i + j) \div 2 \in Nat /\ i <= (i + j) \div 2 /\ (i + j) \div 2 < j
  OBVIOUS

\* In sorted revisions there is a place that splits them.
LEMMA SplitExists ==
  ASSUME NEW n \in Nat, NEW dr \in Nat,
         \A k \in 1..n : revisions[k].revision \in Nat,
         \A i, j \in 1..n : i < j => revisions[i].revision < revisions[j].revision
  PROVE  \E c \in 0..n : Splits(c, n, dr)
<1> DEFINE D == {d \in Nat : d = n \/ (d < n /\ ~(revisions[d + 1].revision < dr))}
<1>1. D \in SUBSET Nat /\ n \in D
  OBVIOUS
<1>2. PICK d \in D : \A e \in D : <<e, d>> \notin OpToRel(<, Nat)
  BY <1>1, NatLessThanWellFounded, WFMin
<1>3. \A e \in D : ~(e < d)
  BY <1>1, <1>2 DEF OpToRel
<1>4. d \in 0..n
  BY <1>3
<1>5. ASSUME NEW k \in 1..n, k <= d
      PROVE  revisions[k].revision < dr
  <2>1. k - 1 \in Nat /\ k - 1 < d /\ k - 1 < n /\ (k - 1) + 1 = k
    BY <1>4, <1>5
  <2>2. k - 1 \notin D
    BY <2>1, <1>3
  <2> QED
    BY <2>1, <2>2
<1>6. ASSUME NEW k \in 1..n, d < k
      PROVE  ~(revisions[k].revision < dr)
  <2>1. d < n /\ d + 1 \in 1..n /\ ~(revisions[d + 1].revision < dr)
    BY <1>4, <1>6
  <2>2. d + 1 = k \/ revisions[d + 1].revision < revisions[k].revision
    BY <2>1, <1>4, <1>6
  <2>3. revisions[d + 1].revision \in Nat /\ revisions[k].revision \in Nat
    BY <2>1
  <2> QED
    BY <2>1, <2>2, <2>3
<1>7. Splits(d, n, dr)
  BY <1>4, <1>5, <1>6 DEF Splits
<1> QED
  BY <1>4, <1>7

\* The place that splits the revisions solves the bisection's equation.
LEMMA BisectionSolved ==
  ASSUME NEW n \in Nat, NEW dr \in Nat, NEW c \in 0..n, Splits(c, n, dr),
         \A k \in 1..n : revisions[k].revision \in Nat
  PROVE  LET f == [b \in (0..n) \X (0..n) |-> Between(c, b[1], b[2])]
         IN  f = Bisection(f, n, dr)
<1> DEFINE f == [b \in (0..n) \X (0..n) |-> Between(c, b[1], b[2])]
<1>1. ASSUME NEW i \in 0..n, NEW j \in 0..n
      PROVE  f[<<i, j>>] = Between(c, i, j)
  OBVIOUS
<1>2. ASSUME NEW b \in (0..n) \X (0..n)
      PROVE  f[b] = Bisection(f, n, dr)[b]
  <2>1. PICK i \in 0..n, j \in 0..n : b = <<i, j>> /\ b[1] = i /\ b[2] = j
    OBVIOUS
  <2> DEFINE h == (i + j) \div 2
  <2>2. Bisection(f, n, dr)[b] =
          IF i >= j THEN i
          ELSE IF revisions[h + 1].revision >= dr THEN f[<<i, h>>] ELSE f[<<h + 1, j>>]
    BY <2>1 DEF Bisection
  <2>3. f[b] = Between(c, i, j)
    BY <1>1, <2>1
  <2> HIDE DEF f
  <2>4. CASE i >= j
    BY <2>2, <2>3, <2>4 DEF Between
  <2>5. CASE i < j
    <3>1. h \in Nat /\ i <= h /\ h < j
      BY <2>5, Middle
    <3> HIDE DEF h
    <3>2. h \in 0..n /\ h + 1 \in 0..n /\ h + 1 \in 1..n
      BY <3>1
    <3>3. f[<<i, h>>] = Between(c, i, h) /\ f[<<h + 1, j>>] = Between(c, h + 1, j)
      BY <1>1, <3>2
    <3>4. revisions[h + 1].revision \in Nat /\ (revisions[h + 1].revision < dr <=> h + 1 <= c)
      BY <3>2 DEF Splits
    <3>5. CASE h + 1 <= c
      <4>1. f[b] = IF c >= j THEN j ELSE c
        BY <2>3, <2>5, <3>1, <3>5 DEF Between
      <4>2. Bisection(f, n, dr)[b] = Between(c, h + 1, j)
        BY <2>2, <2>5, <3>3, <3>4, <3>5
      <4> QED
        BY <4>1, <4>2, <3>1, <3>5 DEF Between
    <3>6. CASE ~(h + 1 <= c)
      <4>1. Bisection(f, n, dr)[b] = Between(c, i, h)
        BY <2>2, <2>5, <3>3, <3>4, <3>6
      <4> QED
        BY <4>1, <2>3, <2>5, <3>1, <3>6 DEF Between
    <3> QED
      BY <3>5, <3>6
  <2> QED
    BY <2>4, <2>5
<1> QED
  <2>1. f = [b \in (0..n) \X (0..n) |-> f[b]]
    OBVIOUS
  <2> HIDE DEF f
  <2>2. f = Bisection(f, n, dr)
    BY <1>2, <2>1 DEF Bisection
  <2> QED
    BY <2>2 DEF f

\* Nothing else does: the intervals shrink.
LEMMA BisectionUnique ==
  ASSUME NEW n \in Nat, NEW dr \in Nat, NEW c \in 0..n, Splits(c, n, dr),
         \A k \in 1..n : revisions[k].revision \in Nat,
         NEW f, f = Bisection(f, n, dr)
  PROVE  f[<<0, n>>] = c
<1> DEFINE D == {d \in Nat : \E i, j \in 0..n : /\ i <= j /\ d = j - i
                                                /\ f[<<i, j>>] # Between(c, i, j)}
<1>1. D = {}
  <2> SUFFICES ASSUME D # {} PROVE FALSE
    OBVIOUS
  <2>1. PICK d \in D : \A e \in D : <<e, d>> \notin OpToRel(<, Nat)
    BY NatLessThanWellFounded, WFMin
  <2>2. \A e \in D : ~(e < d)
    BY <2>1 DEF OpToRel
  <2>3. PICK i \in 0..n, j \in 0..n : /\ i <= j /\ d = j - i
                                      /\ f[<<i, j>>] # Between(c, i, j)
    OBVIOUS
  <2>4. ASSUME NEW k \in 0..n, NEW l \in 0..n, k <= l, l - k < d
        PROVE  f[<<k, l>>] = Between(c, k, l)
    <3>1. l - k \in Nat
      BY <2>4
    <3>2. l - k \notin D
      <4> HIDE DEF D
      <4> QED
        BY <2>2, <2>4
    <3>3. ~\E p, q \in 0..n : p <= q /\ l - k = q - p /\ f[<<p, q>>] # Between(c, p, q)
      BY <3>1, <3>2
    <3> QED
      BY <3>3, <2>4
  <2> HIDE DEF D
  <2> DEFINE h == (i + j) \div 2
  <2>5. f[<<i, j>>] =
          IF i >= j THEN i
          ELSE IF revisions[h + 1].revision >= dr THEN f[<<i, h>>] ELSE f[<<h + 1, j>>]
    <3>1. Bisection(f, n, dr)[<<i, j>>] =
            IF i >= j THEN i
            ELSE IF revisions[h + 1].revision >= dr THEN f[<<i, h>>] ELSE f[<<h + 1, j>>]
      BY DEF Bisection
    <3> QED
      BY <3>1
  <2>6. i < j
    BY <2>3, <2>5 DEF Between
  <2>7. h \in Nat /\ i <= h /\ h < j
    BY <2>6, Middle
  <2> HIDE DEF h
  <2>8. h \in 0..n /\ h + 1 \in 0..n /\ h + 1 \in 1..n
    BY <2>7
  <2>9. f[<<i, h>>] = Between(c, i, h) /\ f[<<h + 1, j>>] = Between(c, h + 1, j)
    BY <2>3, <2>4, <2>7, <2>8
  <2>10. revisions[h + 1].revision \in Nat /\ (revisions[h + 1].revision < dr <=> h + 1 <= c)
    BY <2>8 DEF Splits
  <2>11. CASE h + 1 <= c
    <3>1. f[<<i, j>>] = Between(c, h + 1, j)
      BY <2>5, <2>6, <2>9, <2>10, <2>11
    <3> QED
      BY <3>1, <2>3, <2>6, <2>7, <2>11 DEF Between
  <2>12. CASE ~(h + 1 <= c)
    <3>1. f[<<i, j>>] = Between(c, i, h)
      BY <2>5, <2>6, <2>9, <2>10, <2>12
    <3> QED
      BY <3>1, <2>3, <2>6, <2>7, <2>12 DEF Between
  <2> QED
    BY <2>11, <2>12
<1>2. n - 0 \notin D
  BY <1>1
<1>3. f[<<0, n>>] = Between(c, 0, n)
  BY <1>2
<1> QED
  BY <1>3 DEF Between

\* In sorted revisions the search finds the first that is not before dr.
LEMMA Searched ==
  ASSUME revisions \in Seq(Snapshot), NEW dr \in Nat,
         \A i, j \in DOMAIN revisions : i < j => revisions[i].revision < revisions[j].revision
  PROVE  /\ SearchRevision(dr) \in 0..Len(revisions)
         /\ Splits(SearchRevision(dr), Len(revisions), dr)
<1> DEFINE n == Len(revisions)
<1>1. n \in Nat /\ DOMAIN revisions = 1..n
  OBVIOUS
<1>2. \A k \in 1..n : revisions[k].revision \in Nat
  <2>1. \A k \in 1..n : revisions[k] \in Snapshot
    BY <1>1
  <2> QED
    BY <2>1 DEF Snapshot
<1> HIDE DEF n
<1>3. PICK c \in 0..n : Splits(c, n, dr)
  BY <1>1, <1>2, SplitExists
<1> DEFINE g == CHOOSE f : f = Bisection(f, n, dr)
<1>4. \E f : f = Bisection(f, n, dr)
  BY <1>1, <1>2, <1>3, BisectionSolved
<1>5. g = Bisection(g, n, dr)
  BY <1>4
<1>6. SearchRevision(dr) = g[<<0, n>>]
  BY DEF SearchRevision, Bisection, n
<1> HIDE DEF g
<1>7. g[<<0, n>>] = c
  BY <1>1, <1>2, <1>3, <1>5, BisectionUnique
<1> QED
  BY <1>3, <1>6, <1>7 DEF n

----------------------------------------------------------------------------
(***************************************************************************)
(* Revisions of calls that do not overlap                                  *)
(***************************************************************************)
\* One goroutine writes, and the clock moves between two readings.
Sequential ==
  /\ \A v, w \in Writers : v = w
  /\ 0 \notin ClockSteps

Started(w) == pc[w] \notin {"idle", "panicked"}

\* No revision is ahead of the clock, and that of the call under way is ahead
\* of all others.
Dated ==
  /\ \A i \in DOMAIN roots : roots[i].revision <= clock
  /\ \A i \in DOMAIN revisions : revisions[i].revision <= clock
  /\ \A w \in Writers : Started(w) =>
       /\ newRevision[w] <= clock
       /\ \A i \in DOMAIN roots : roots[i].revision < newRevision[w]
       /\ isOpen => \A i \in DOMAIN revisions : revisions[i].revision < newRevision[w]

\* Roots and revisions are in the order of their revisions.
Increasing ==
  /\ \A i, j \in DOMAIN roots : i < j => roots[i].revision < roots[j].revision
  /\ \A i, j \in DOMAIN revisions : i < j => revisions[i].revision < revisions[j].revision

\* What was returned to a caller stays in the revisions.
AckedKept ==
  isOpen => \A a \in acked :
    /\ a.root # Live
    /\ \E i \in DOMAIN revisions : revisions[i] = [revision |-> a.revision, db |-> a.root]

DatedInv == Dated /\ Increasing /\ AckedKept

\* The numbers the invariant compares.
LEMMA RevisionTypes ==
  ASSUME TypeOK
  PROVE  /\ DOMAIN roots = 1..Len(roots) /\ Len(roots) \in Nat /\ Len(roots) # 0
         /\ DOMAIN revisions = 1..Len(revisions) /\ Len(revisions) \in Nat
         /\ \A i \in DOMAIN roots : roots[i].revision \in Nat
         /\ \A i \in DOMAIN revisions : revisions[i].revision \in Nat /\ revisions[i].db \in Nat
         /\ \A w \in Writers : newRevision[w] \in Nat
         /\ clock \in Nat
<1>1. \A i \in DOMAIN roots : roots[i] \in Root
  BY DEF TypeOK
<1>2. \A i \in DOMAIN revisions : revisions[i] \in Snapshot
  BY DEF TypeOK
<1>3. \A i \in DOMAIN roots : roots[i].revision \in Nat
  BY <1>1 DEF Root
<1>4. \A i \in DOMAIN revisions : revisions[i].revision \in Nat /\ revisions[i].db \in Nat
  BY <1>2 DEF Snapshot
<1> QED
  BY <1>3, <1>4 DEF TypeOK

\* An element at the end of a sequence.
LEMMA Appended ==
  ASSUME NEW S, NEW s \in Seq(S), NEW e
  PROVE  /\ DOMAIN Append(s, e) = 1..(Len(s) + 1)
         /\ \A i \in 1..Len(s) : Append(s, e)[i] = s[i]
         /\ Append(s, e)[Len(s) + 1] = e
  OBVIOUS

\* At first the root and the revision are those of time 0.
LEMMA DatedInit == Init => DatedInv
<1> SUFFICES ASSUME Init
             PROVE  DatedInv
  OBVIOUS
<1>1. /\ Len(roots) = 1 /\ DOMAIN roots = {1} /\ roots[1].revision = 0
      /\ DOMAIN revisions = {1} /\ revisions[1].revision = 0 /\ clock = 0
  BY DEF Init
<1>2. \A w \in Writers : ~Started(w)
  BY DEF Init, Started
<1>3. acked = {}
  BY DEF Init
<1> QED
  BY <1>1, <1>2, <1>3 DEF DatedInv, Dated, Increasing, AckedKept

\* Steps that give no revision out, and leave the clock and the databases.
LEMMA DatedKept ==
  ASSUME DatedInv, UNCHANGED <<revisions, roots, acked, isOpen, clock>>,
         \A w \in Writers : Started(w)' => Started(w) /\ newRevision'[w] = newRevision[w]
  PROVE  DatedInv'
  BY DEF DatedInv, Dated, Increasing, AckedKept

\* A revision just taken is ahead of all others.
LEMMA TakeDated ==
  ASSUME Sequential, TypeOK, TypeOK', DatedInv, NEW w \in Writers, TakeRevision(w),
         UNCHANGED <<revisions, roots, acked, isOpen>>
  PROVE  DatedInv'
<1>1. clock' \in Nat /\ clock' > clock
  BY NumbersAssumption DEF TakeRevision, ReadClock, Sequential, TypeOK
<1>2. \A v \in Writers : v = w
  BY DEF Sequential
<1>3. CASE revisions = <<>>
  <2>1. ~Started(w)'
    BY <1>3 DEF TakeRevision, Started, TypeOK
  <2> QED
    BY <1>1, <1>2, <2>1, RevisionTypes DEF DatedInv, Dated, Increasing, AckedKept
<1>4. CASE revisions # <<>>
  <2>1. Len(revisions) \in DOMAIN revisions
    BY <1>4, RevisionTypes DEF TypeOK
  <2>2. headRevision \in Nat /\ headRevision <= clock
    BY <2>1, RevisionTypes DEF headRevision, DatedInv, Dated
  <2>3. newRevisionID(clock') = clock'
    <3>1. clock \in Nat
      BY DEF TypeOK
    <3>2. clock' # headRevision
      BY <1>1, <2>2, <3>1
    <3> QED
      BY <3>2 DEF newRevisionID
  <2>4. newRevision'[w] = clock'
    BY <1>4, <2>3 DEF TakeRevision, TypeOK
  <2> QED
    BY <1>1, <1>2, <2>4, RevisionTypes DEF DatedInv, Dated, Increasing, AckedKept
<1> QED
  BY <1>3, <1>4

\* A commit puts its revision at the end of the roots and of the revisions.
LEMMA FinishDated ==
  ASSUME Sequential, TypeOK, TypeOK', DatedInv, NEW w \in Writers, Finish(w)
  PROVE  DatedInv'
<1>1. /\ pc[w] = "returned" /\ ~Started(w)'
      /\ \A v \in Writers : v = w
  BY ReturnEffect DEF Finish, Sequential, Started
<1>2. /\ newRevision[w] \in Nat /\ newRevision[w] <= clock
      /\ \A i \in DOMAIN roots : roots[i].revision < newRevision[w]
      /\ isOpen => \A i \in DOMAIN revisions : revisions[i].revision < newRevision[w]
  BY <1>1, RevisionTypes DEF DatedInv, Dated, Started
<1>3. UNCHANGED <<clock, isOpen>>
  BY DEF Finish
<1>4. /\ \A i \in DOMAIN roots' : roots'[i].revision <= clock
      /\ \A i, j \in DOMAIN roots' : i < j => roots'[i].revision < roots'[j].revision
  <2>1. CASE InTx(w)
    <3>1. roots' = Append(roots, CommittedRoot(w))
      BY <2>1 DEF Finish
    <3>2. /\ DOMAIN roots' = 1..(Len(roots) + 1)
          /\ \A i \in DOMAIN roots : roots'[i] = roots[i]
          /\ roots'[Len(roots) + 1].revision = newRevision[w]
      <4>1. roots \in Seq(Root) /\ DOMAIN roots = 1..Len(roots)
            /\ CommittedRoot(w).revision = newRevision[w]
        BY DEF TypeOK, CommittedRoot
      <4> HIDE DEF CommittedRoot
      <4> QED
        BY <3>1, <4>1, Appended
    <3> QED
      BY <1>2, <3>2, RevisionTypes DEF DatedInv, Dated, Increasing
  <2>2. CASE ~InTx(w)
    BY <2>2 DEF Finish, DatedInv, Dated, Increasing
  <2> QED
    BY <2>1, <2>2
<1>5. CASE isOpen
  <2> DEFINE s == SnapshotAfter(w)
  <2>1. revisions' = Append(revisions, s)
    BY <1>5 DEF Finish
  <2>2. s = [revision |-> newRevision[w], db |-> Len(roots')]
    BY DEF SnapshotAfter
  <2> HIDE DEF s
  <2>3. /\ DOMAIN revisions' = 1..(Len(revisions) + 1)
        /\ \A i \in DOMAIN revisions : revisions'[i] = revisions[i]
        /\ revisions'[Len(revisions) + 1] = s
        /\ DOMAIN revisions \subseteq DOMAIN revisions'
        /\ Len(revisions) + 1 \in DOMAIN revisions'
    <3>1. /\ DOMAIN revisions' = 1..(Len(revisions) + 1)
          /\ \A i \in 1..Len(revisions) : revisions'[i] = revisions[i]
          /\ revisions'[Len(revisions) + 1] = s
      BY <2>1, Appended DEF TypeOK
    <3> QED
      BY <3>1, RevisionTypes
  <2>4. /\ \A i \in DOMAIN revisions' : revisions'[i].revision <= clock
        /\ \A i, j \in DOMAIN revisions' :
             i < j => revisions'[i].revision < revisions'[j].revision
    <3>1. s.revision = newRevision[w]
      BY <2>2
    <3>2. ASSUME NEW i \in DOMAIN revisions'
          PROVE  /\ i = Len(revisions) + 1 => revisions'[i].revision = newRevision[w]
                 /\ i # Len(revisions) + 1 => /\ i \in DOMAIN revisions
                                              /\ revisions'[i] = revisions[i]
      BY <2>3, <3>1, RevisionTypes
    <3>3. ASSUME NEW i \in DOMAIN revisions'
          PROVE  revisions'[i].revision <= clock
      BY <1>2, <3>2 DEF DatedInv, Dated
    <3>4. ASSUME NEW i \in DOMAIN revisions', NEW j \in DOMAIN revisions', i < j
          PROVE  revisions'[i].revision < revisions'[j].revision
      <4>1. i # Len(revisions) + 1
        BY <2>3, <3>4, RevisionTypes
      <4>2. CASE j = Len(revisions) + 1
        BY <1>2, <1>5, <3>2, <4>1, <4>2
      <4>3. CASE j # Len(revisions) + 1
        BY <3>2, <3>4, <4>1, <4>3 DEF DatedInv, Increasing
      <4> QED
        BY <4>2, <4>3
    <3> QED
      BY <3>3, <3>4
  <2>5. AckedKept'
    <3>1. acked' = acked \cup {[revision |-> newRevision[w], root |-> Len(roots')]}
      BY <1>5 DEF Finish
    <3>2. Len(roots') # Live
      BY RevisionTypes DEF TypeOK, Live
    <3>3. ASSUME NEW a \in acked'
          PROVE  /\ a.root # Live
                 /\ \E i \in DOMAIN revisions' :
                      revisions'[i] = [revision |-> a.revision, db |-> a.root]
      <4>1. CASE a \in acked
        BY <4>1, <1>5, <2>3 DEF DatedInv, AckedKept
      <4>2. CASE a = [revision |-> newRevision[w], root |-> Len(roots')]
        BY <4>2, <2>2, <2>3, <3>2
      <4> QED
        BY <3>1, <3>3, <4>1, <4>2
    <3> QED
      BY <3>3 DEF AckedKept, Live
  <2> QED
    BY <1>1, <1>3, <1>4, <2>4, <2>5 DEF DatedInv, Dated, Increasing
<1>6. CASE ~isOpen
  <2>1. UNCHANGED <<revisions, acked>>
    BY <1>6 DEF Finish
  <2> QED
    BY <1>1, <1>3, <1>4, <1>6, <2>1 DEF DatedInv, Dated, Increasing, AckedKept
<1> QED
  BY <1>5, <1>6

\* Every step of the datastore keeps the revisions in order.
LEMMA DatedStep ==
  ASSUME Sequential
  PROVE  TypeOK /\ DatedInv /\ [Next]_vars => DatedInv'
<1> SUFFICES ASSUME TypeOK, DatedInv, [Next]_vars
             PROVE  DatedInv'
  OBVIOUS
<1>0. TypeOK' /\ pc \in [Writers -> PcValues]
  BY TypeStep DEF TypeOK, PcValues
<1>1. ASSUME NEW w \in Writers, Start(w) \/ Retry(w)
      PROVE  DatedInv'
  <2>1. TakeRevision(w) /\ UNCHANGED <<revisions, roots, acked, isOpen>>
    BY <1>1 DEF Start, Retry, dbVars, memVars
  <2> QED
    BY <1>0, <2>1, TakeDated
<1>2. ASSUME NEW w \in Writers, NEW q \in PcValues \ {"idle", "panicked"},
             Started(w), pc' = [pc EXCEPT ![w] = q],
             UNCHANGED <<revisions, roots, acked, isOpen, clock, newRevision>>
      PROVE  DatedInv'
  <2>1. \A v \in Writers : Started(v)' => Started(v)
    BY <1>0, <1>2 DEF Started
  <2> QED
    BY <1>2, <2>1, DatedKept
<1>3. ASSUME NEW w \in Writers,
             \/ TxConflict(w) \/ TxClosed(w) \/ TxLock(w) \/ TxBegin(w)
             \/ BodyEnds(w)
      PROVE  DatedInv'
  <2>1. /\ Started(w)
        /\ \E q \in PcValues \ {"idle", "panicked"} : pc' = [pc EXCEPT ![w] = q]
        /\ UNCHANGED <<revisions, roots, acked, isOpen, clock, newRevision>>
    BY <1>3 DEF TxConflict, TxClosed, TxLock, TxBegin, BodyEnds, BodyFails,
                BodyConflicts, BodyReturns,
                Goto, Started, PcValues, allButPc, dbVars, memVars
  <2> QED
    BY <1>2, <2>1
<1>4. ASSUME NEW w \in Writers, GiveUp(w) \/ Rollback(w)
      PROVE  DatedInv'
  <2>1. /\ pc' = [pc EXCEPT ![w] = "idle"]
        /\ newRevision' = [newRevision EXCEPT ![w] = 0]
        /\ UNCHANGED <<revisions, roots, acked, isOpen, clock>>
    BY <1>4 DEF GiveUp, Rollback, Return, Goto, dbVars, memVars
  <2>2. newRevision \in [Writers -> Nat]
    BY DEF TypeOK
  <2>3. \A v \in Writers : Started(v)' => Started(v) /\ newRevision'[v] = newRevision[v]
    BY <1>0, <2>1, <2>2 DEF Started
  <2> QED
    BY <2>1, <2>3, DatedKept
<1>5. ASSUME NEW w \in Writers, Finish(w)
      PROVE  DatedInv'
  BY <1>0, <1>5, FinishDated
<1>6. ASSUME Close
      PROVE  DatedInv'
  <2>1. /\ clock' \in Nat /\ clock <= clock' /\ ~isOpen'
        /\ UNCHANGED <<roots, pc, newRevision, acked>>
    BY <1>6, NumbersAssumption DEF Close, ReadClock, TypeOK, memVars, callVars
  <2>2. /\ \A i \in DOMAIN revisions' : revisions'[i].revision <= clock'
        /\ \A i, j \in DOMAIN revisions' : ~(i < j)
    BY <1>6, <2>1 DEF Close
  <2> QED
    BY <2>1, <2>2, RevisionTypes DEF DatedInv, Dated, Increasing, AckedKept, Started
<1>7. ASSUME NEW w \in Writers, BodyStep(w)
      PROVE  DatedInv'
  <2>1. PICK t \in Tx : Body(w, t)
    BY <1>7, BodyStepShape
  <2>2. UNCHANGED <<revisions, roots, acked, isOpen, clock, pc, newRevision>>
    BY <2>1 DEF Body, dbVars, memVars
  <2> QED
    BY <2>2, DatedKept DEF Started
<1>8. ASSUME UNCHANGED vars
      PROVE  DatedInv'
  <2>1. UNCHANGED <<revisions, roots, acked, isOpen, clock, pc, newRevision>>
    BY <1>8 DEF vars, dbVars, memVars, callVars
  <2> QED
    BY <2>1, DatedKept DEF Started
<1> QED
  BY <1>1, <1>3, <1>4, <1>5, <1>6, <1>7, <1>8 DEF Next, Writer, CallStep

\* So revisions come in the order of the commits.
LEMMA DatedInvariant ==
  ASSUME Sequential
  PROVE  Spec => [](TypeOK /\ DatedInv)
<1>1. Init => TypeOK /\ DatedInv
  BY TypeInit, DatedInit
<1>2. TypeOK /\ DatedInv /\ [Next]_vars => (TypeOK /\ DatedInv)'
  BY Sequential, TypeStep, DatedStep
<1> QED
  BY <1>1, <1>2, PTL DEF Spec

\* With one writer and a clock that moves, revisions are unique, as the comment
\* in newRevisionID wants them; two writers or a clock that stands still are
\* what it takes to break it (revisions.go:24-33).
THEOREM SequentialUnique ==
  ASSUME Sequential
  PROVE  Spec => []RevisionsUnique
<1>1. TypeOK /\ DatedInv => RevisionsUnique
  <2> SUFFICES ASSUME TypeOK, DatedInv,
                      NEW i \in DOMAIN revisions, NEW j \in DOMAIN revisions, i # j
               PROVE  revisions[i].revision # revisions[j].revision
    BY DEF RevisionsUnique
  <2>1. i < j \/ j < i
    BY RevisionTypes
  <2> QED
    BY <2>1, RevisionTypes DEF DatedInv, Increasing
<1> QED
  BY <1>1, Sequential, DatedInvariant, PTL

----------------------------------------------------------------------------
(***************************************************************************)
(* What is read at a revision                                              *)
(***************************************************************************)
\* The entry a reader of dr is given: the first that is not before dr, or the
\* last one.
LEMMA EntryRead ==
  ASSUME TypeOK, DatedInv, revisions # <<>>, NEW dr \in Nat
  PROVE  \E e \in DOMAIN revisions :
           /\ SnapshotRoot(dr) = RootOf(revisions[e])
           /\ \A k \in DOMAIN revisions : k < e => revisions[k].revision < dr
           /\ e < Len(revisions) => revisions[e].revision >= dr
           /\ (\E k \in DOMAIN revisions : revisions[k].revision >= dr)
                => revisions[e].revision >= dr
<1> DEFINE n == Len(revisions)
           i == SearchRevision(dr)
           e == IF i = n THEN n ELSE i + 1
<1>1. i \in 0..n /\ Splits(i, n, dr)
  BY Searched DEF TypeOK, DatedInv, Increasing
<1>2. n \in Nat \ {0} /\ DOMAIN revisions = 1..n
  BY RevisionTypes DEF TypeOK
<1>3. SnapshotRoot(dr) = RootOf(revisions[e])
  BY DEF SnapshotRoot
<1>4. \A k \in 1..n : revisions[k].revision \in Nat
  BY <1>2, RevisionTypes
<1> HIDE DEF n, i
<1>5. e \in 1..n
  BY <1>1, <1>2
<1>6. \A k \in 1..n : k < e => revisions[k].revision < dr
  BY <1>1, <1>2 DEF Splits
<1>7. i < n => revisions[e].revision >= dr
  BY <1>1, <1>2, <1>4, <1>5 DEF Splits
<1>8. i = n => \A k \in 1..n : ~(revisions[k].revision >= dr)
  BY <1>1, <1>2, <1>4 DEF Splits
<1>9. i < n \/ i = n
  BY <1>1, <1>2
<1>10. e < n => i < n
  BY <1>9
<1> HIDE DEF e
<1> QED
  BY <1>2, <1>3, <1>5, <1>6, <1>7, <1>8, <1>9, <1>10 DEF n

\* A revision that was returned is read as the database that call committed
\* (memdb.go:126-144, revisions.go:85-118).
THEOREM OwnCommitRead ==
  ASSUME Sequential
  PROVE  Spec => []ReadsOwnCommit
<1>1. TypeOK /\ DatedInv => ReadsOwnCommit
  <2> SUFFICES ASSUME TypeOK, DatedInv, NEW a \in acked, isOpen,
                      clock <= a.revision + GCWindow
               PROVE  /\ CheckRevision(clock, a.revision)
                      /\ SnapshotRoot(a.revision) = a.root
    BY DEF ReadsOwnCommit
  <2>1. PICK i \in DOMAIN revisions :
          revisions[i] = [revision |-> a.revision, db |-> a.root] /\ a.root # Live
    BY DEF DatedInv, AckedKept
  <2>2. /\ a.revision \in Nat /\ a.revision <= clock /\ clock \in Nat
        /\ revisions[i].revision = a.revision /\ RootOf(revisions[i]) = a.root
    BY <2>1, RevisionTypes DEF DatedInv, Dated, RootOf
  <2>3. CheckRevision(clock, a.revision)
    <3>1. ~(a.revision + GCWindow < clock) /\ ~(a.revision > clock)
      BY <2>2, NumbersAssumption
    <3> QED
      BY <3>1 DEF CheckRevision, outsideGCWindow
  <2>4. PICK e \in DOMAIN revisions :
          /\ SnapshotRoot(a.revision) = RootOf(revisions[e])
          /\ \A k \in DOMAIN revisions : k < e => revisions[k].revision < a.revision
          /\ revisions[e].revision >= a.revision
    <3>1. revisions # <<>> /\ revisions[i].revision >= a.revision
      BY <2>1, <2>2 DEF TypeOK
    <3> QED
      BY <2>2, <3>1, EntryRead
  <2>5. e = i
    <3>1. ~(i < e) /\ ~(e < i)
      BY <2>2, <2>4, RevisionTypes DEF DatedInv, Increasing
    <3> QED
      BY <3>1, RevisionTypes
  <2> QED
    BY <2>2, <2>3, <2>4, <2>5
<1> QED
  BY <1>1, Sequential, DatedInvariant, PTL

\* A quantized time is less than a quantum behind.
LEMMA Quantized ==
  ASSUME NEW now \in Nat
  PROVE  /\ OptimizedRevision(now) \in Nat /\ OptimizedRevision(now) <= now
         /\ now < OptimizedRevision(now) + Quantum
  BY NumbersAssumption DEF OptimizedRevision

\* The revision optimized readers share is accepted, and no commit
\* acknowledged up to it is missing from what they read
\* (revisions.go:64-118, memdb.go:126-144).
THEOREM OptimizedRead ==
  ASSUME Sequential
  PROVE  Spec => []OptimizedSeesCommits
<1>1. TypeOK /\ DatedInv /\ SnapshotInv => OptimizedSeesCommits
  <2> DEFINE dr == OptimizedRevision(clock)
  <2> SUFFICES ASSUME TypeOK, DatedInv, SnapshotInv, isOpen
               PROVE  /\ CheckRevision(clock, dr)
                      /\ \A a \in acked : a.revision <= dr => a.root <= SnapshotRoot(dr)
    BY DEF OptimizedSeesCommits
  <2>1. clock \in Nat /\ dr \in Nat /\ dr <= clock /\ clock < dr + Quantum
    BY Quantized DEF TypeOK
  <2> HIDE DEF dr
  <2>2. CheckRevision(clock, dr)
    <3>1. ~(dr + GCWindow < clock) /\ ~(dr > clock)
      BY <2>1, NumbersAssumption
    <3> QED
      BY <3>1 DEF CheckRevision, outsideGCWindow
  <2>3. revisions # <<>>
    BY DEF SnapshotInv
  <2>4. PICK e \in DOMAIN revisions :
          /\ SnapshotRoot(dr) = RootOf(revisions[e])
          /\ e < Len(revisions) => revisions[e].revision >= dr
    BY <2>1, <2>3, EntryRead
  <2>5. ASSUME NEW a \in acked, a.revision <= dr
        PROVE  a.root <= SnapshotRoot(dr)
    <3>1. PICK i \in DOMAIN revisions :
            revisions[i] = [revision |-> a.revision, db |-> a.root] /\ a.root # Live
      BY DEF DatedInv, AckedKept
    <3>2. revisions[i].revision = a.revision /\ revisions[i].db = a.root
      BY <3>1
    <3>3. i <= e
      BY <2>1, <2>4, <2>5, <3>2, RevisionTypes DEF DatedInv, Increasing
    <3>4. CASE i = e
      BY <2>4, <3>1, <3>2, <3>4, RevisionTypes DEF RootOf
    <3>5. CASE i < e
      BY <2>4, <3>1, <3>2, <3>5 DEF SnapshotInv, SnapshotsInCommitOrder
    <3> QED
      BY <3>3, <3>4, <3>5, RevisionTypes
  <2> QED
    BY <2>2, <2>5
<1>2. Spec => []SnapshotInv
  BY SnapshotInit, SnapshotStep, PTL DEF Spec
<1> QED
  BY <1>1, <1>2, Sequential, DatedInvariant, PTL

----------------------------------------------------------------------------
(***************************************************************************)
(* The changelog                                                           *)
(***************************************************************************)
EntryOf(r) == [revision |-> r.revision, changes |-> r.changes]

\* Only a commit publishes a root.
LEMMA RootsStep ==
  ASSUME TypeOK, [Next]_vars
  PROVE  UNCHANGED roots \/ \E w \in Writers : Finish(w) /\ InTx(w)
<1>1. ASSUME NEW w \in Writers, BodyStep(w)
      PROVE  UNCHANGED roots
  <2>1. PICK t \in Tx : Body(w, t)
    BY <1>1, BodyStepShape
  <2> QED
    BY <2>1 DEF Body, memVars
<1>2. ASSUME NEW w \in Writers, CallStep(w), ~(Finish(w) /\ InTx(w))
      PROVE  UNCHANGED roots
  BY <1>2 DEF CallStep, TxConflict, TxClosed, TxLock, TxBegin, Retry, GiveUp,
              Rollback, Finish, allButPc, memVars
<1>3. ASSUME NEW w \in Writers, Start(w) \/ BodyEnds(w)
      PROVE  UNCHANGED roots
  BY <1>3 DEF Start, BodyEnds, BodyFails, BodyConflicts, BodyReturns, allButPc, memVars
<1>4. ASSUME Close \/ UNCHANGED vars
      PROVE  UNCHANGED roots
  BY <1>4 DEF Close, vars, memVars
<1> QED
  BY <1>1, <1>2, <1>3, <1>4 DEF Next, Writer

\* A commit enters its changes under a revision no entry has.
LEMMA ChangelogStep ==
  ASSUME Sequential
  PROVE  ViewInv /\ DatedInv /\ ChangelogComplete /\ [Next]_vars => ChangelogComplete'
<1> SUFFICES ASSUME ViewInv, DatedInv, ChangelogComplete, [Next]_vars
             PROVE  ChangelogComplete'
  OBVIOUS
<1>0. TypeOK
  BY DEF ViewInv, LockInv
<1>1. CASE UNCHANGED roots
  BY <1>1 DEF ChangelogComplete
<1>2. ASSUME NEW w \in Writers, Finish(w), InTx(w)
      PROVE  ChangelogComplete'
  <2> DEFINE n == Len(roots)
             r == CommittedRoot(w)
  <2>1. /\ n \in Nat /\ roots' = Append(roots, r) /\ tx[w].base = n
        /\ DOMAIN roots = 1..n
    BY <1>0, <1>2, RevisionTypes DEF Finish, ViewInv, TxView
  <2>2. r.changelog = InsertEntry(roots[n].changelog, EntryOf(r))
    BY <2>1 DEF CommittedRoot, EntryOf
  <2>3. \A i \in 1..n : roots[i].revision \in Nat /\ roots[i].revision < r.revision
    <3>1. pc[w] = "returned" /\ r.revision = newRevision[w]
      BY <1>0, <1>2, ReturnEffect DEF Finish, CommittedRoot
    <3> QED
      BY <1>0, <2>1, <3>1, RevisionTypes DEF DatedInv, Dated, Started
  <2> HIDE DEF r
  <2>4. /\ Len(roots') = n + 1
        /\ \A i \in 1..n : roots'[i] = roots[i]
        /\ roots'[n + 1] = r
    BY <1>0, <2>1, Appended DEF TypeOK
  <2> HIDE DEF n
  <2>5. ASSUME NEW i \in 2..(n + 1), NEW j \in i..(n + 1)
        PROVE  EntryOf(roots'[i]) \in roots'[j].changelog
    <3>1. CASE j # n + 1
      <4>1. i \in 2..n /\ j \in i..n /\ i \in 1..n /\ j \in 1..n
        BY <2>1, <2>5, <3>1
      <4>2. EntryOf(roots[i]) \in roots[j].changelog
        BY <4>1 DEF ChangelogComplete, EntryOf, n
      <4> QED
        BY <2>4, <4>1, <4>2
    <3>2. CASE j = n + 1 /\ i = n + 1
      BY <2>2, <2>4, <3>2 DEF InsertEntry
    <3>3. CASE j = n + 1 /\ i # n + 1
      <4>1. i \in 2..n /\ n \in i..n /\ i \in 1..n
        BY <2>1, <2>5, <3>3
      <4>2. EntryOf(roots[i]) \in roots[n].changelog
        BY <4>1 DEF ChangelogComplete, EntryOf, n
      <4>3. EntryOf(roots[i]).revision # EntryOf(r).revision
        BY <2>3, <4>1 DEF EntryOf
      <4> QED
        BY <2>2, <2>4, <3>3, <4>1, <4>2, <4>3 DEF InsertEntry
    <3> QED
      BY <3>1, <3>2, <3>3
  <2> QED
    BY <2>4, <2>5 DEF ChangelogComplete, EntryOf
<1>3. UNCHANGED roots \/ \E w \in Writers : Finish(w) /\ InTx(w)
  BY <1>0, RootsStep
<1> QED
  BY <1>1, <1>2, <1>3

\* Every commit's changes stay in the changelog under its revision, where a
\* watcher that resumes finds them (memdb.go:308-314, watch.go:113).
THEOREM ChangelogKept ==
  ASSUME Sequential
  PROVE  Spec => []ChangelogComplete
<1>1. Init => ChangelogComplete
  <2> SUFFICES ASSUME Init PROVE ChangelogComplete
    OBVIOUS
  <2>1. Len(roots) = 1
    BY DEF Init
  <2> QED
    BY <2>1 DEF ChangelogComplete
<1>2. TypeOK /\ DatedInv /\ ViewInv /\ ChangelogComplete /\ [Next]_vars => ChangelogComplete'
  BY Sequential, ChangelogStep
<1> QED
  BY <1>1, <1>2, Sequential, DatedInvariant, ViewInvariant, PTL DEF Spec
=============================================================================
