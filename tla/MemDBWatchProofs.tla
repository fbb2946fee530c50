-------------------------- MODULE MemDBWatchProofs --------------------------
(***************************************************************************)
(* Theorems about the watchers of MemDB: what a watcher is sent, beside    *)
(* writers whose calls do not overlap, however it is overtaken by commits. *)
(***************************************************************************)
EXTENDS MemDBWatch, MemDBReadProofs, FiniteSetTheorems

(***************************************************************************)
(* The entries that loadChanges finds                                      *)
(***************************************************************************)
\* Entries of a table that is unique on the revision.
Entries(S) ==
  /\ IsFiniteSet(S)
  /\ \A e \in S : e.revision \in Nat
  /\ \A e, f \in S : e.revision = f.revision => e = f

\* ByRevision lists all entries, each once, in the order of their revisions.
LEMMA EntriesSorted ==
  ASSUME NEW S, Entries(S)
  PROVE  /\ Cardinality(S) \in Nat
         /\ ByRevision(S) \in [1..Cardinality(S) -> S]
         /\ \A e \in S : \E i \in 1..Cardinality(S) : ByRevision(S)[i] = e
         /\ \A i, j \in 1..Cardinality(S) :
              i < j => ByRevision(S)[i].revision < ByRevision(S)[j].revision
<1> DEFINE Before(e) == {f \in S : f.revision < e.revision}
           rank(e) == Cardinality(Before(e))
           n == Cardinality(S)
           ranks == [e \in S |-> rank(e)]
<1>1. /\ IsFiniteSet(S)
      /\ \A e \in S : e.revision \in Nat
      /\ \A e, f \in S : e.revision = f.revision => e = f
  BY DEF Entries
<1>2. n \in Nat
  BY <1>1, FS_CardinalityType
<1>3. ASSUME NEW e \in S
      PROVE  /\ Before(e) \in SUBSET S /\ e \notin Before(e)
             /\ IsFiniteSet(Before(e)) /\ rank(e) \in 0..(n - 1)
  <2>1. Before(e) \in SUBSET S /\ e \notin Before(e)
    BY <1>1
  <2> HIDE DEF Before
  <2>2. /\ IsFiniteSet(Before(e)) /\ Cardinality(Before(e)) <= n
        /\ Cardinality(Before(e)) # n
    BY <1>1, <2>1, FS_Subset
  <2> QED
    BY <1>2, <2>1, <2>2, FS_CardinalityType
<1>4. ASSUME NEW e \in S, NEW f \in S, e.revision < f.revision
      PROVE  rank(e) < rank(f)
  <2>1. Before(e) \in SUBSET Before(f) /\ e \in Before(f) /\ e \notin Before(e)
    BY <1>1, <1>4
  <2>2. IsFiniteSet(Before(f))
    BY <1>3
  <2> HIDE DEF Before
  <2>3. rank(e) \in 0..(n - 1) /\ rank(f) \in 0..(n - 1)
    BY <1>3
  <2>4. rank(e) <= rank(f) /\ rank(e) # rank(f)
    BY <2>1, <2>2, FS_Subset
  <2> QED
    BY <2>3, <2>4
<1>5. \A e \in S : rank(e) \in 0..(n - 1)
  BY <1>3
<1> HIDE DEF rank
<1>6. ASSUME NEW e \in S, NEW f \in S, rank(e) = rank(f)
      PROVE  e = f
  <2>1. rank(e) \in Nat /\ rank(f) \in Nat
    BY <1>5
  <2>2. ~(e.revision < f.revision) /\ ~(f.revision < e.revision)
    BY <1>4, <1>6, <2>1
  <2> QED
    BY <1>1, <2>2
<1>7. \A i \in 1..n : \E e \in S : rank(e) = i - 1
  <2> DEFINE T == 0..(n - 1)
  <2>1. ranks \in Injection(S, T)
    BY <1>5, <1>6 DEF Injection, IsInjective
  <2>2. IsFiniteSet(T) /\ Cardinality(T) = n
    BY <1>2, FS_Interval
  <2>3. \A i \in 1..n : i - 1 \in T
    BY <1>2
  <2> HIDE DEF T, ranks
  <2>4. ranks \in Surjection(S, T)
    BY <1>1, <2>1, <2>2, FS_Injection
  <2> QED
    BY <2>3, <2>4 DEF Surjection, ranks
<1> DEFINE s == ByRevision(S)
<1>8. s = [i \in 1..n |-> CHOOSE e \in S : rank(e) = i - 1]
  BY DEF ByRevision, rank
<1> HIDE DEF s
<1>9. ASSUME NEW i \in 1..n
      PROVE  s[i] \in S /\ rank(s[i]) = i - 1
  <2>1. s[i] = CHOOSE e \in S : rank(e) = i - 1
    BY <1>8
  <2> QED
    BY <1>7, <2>1
<1>10. s \in [1..n -> S]
  BY <1>8, <1>9
<1>11. ASSUME NEW e \in S
       PROVE  \E i \in 1..n : s[i] = e
  <2>1. rank(e) + 1 \in 1..n /\ (rank(e) + 1) - 1 = rank(e)
    BY <1>2, <1>5
  <2> QED
    BY <1>6, <1>9, <2>1
<1>12. ASSUME NEW i \in 1..n, NEW j \in 1..n, i < j
       PROVE  s[i].revision < s[j].revision
  <2>1. s[i] \in S /\ s[j] \in S /\ rank(s[i]) = i - 1 /\ rank(s[j]) = j - 1
    BY <1>9
  <2>2. ~(s[j].revision < s[i].revision) /\ s[i] # s[j]
    BY <1>4, <1>12, <2>1
  <2> QED
    BY <1>1, <2>1, <2>2
<1> QED
  BY <1>2, <1>10, <1>11, <1>12 DEF s

----------------------------------------------------------------------------
(***************************************************************************)
(* The events staged for them                                              *)
(***************************************************************************)
\* Events in the order of their revisions, a checkpoint after all others of its.
Ordered(s) ==
  \A i, j \in 1..Len(s) : i < j => /\ s[i].revision <= s[j].revision
                                   /\ s[i].checkpoint => s[i].revision < s[j].revision

\* The revisions whose changes are told.
Told(s) == {s[i].revision : i \in {j \in 1..Len(s) : ~s[j].checkpoint}}

\* What a watcher is told of.
Tells(e) ==
  \/ "relationships" \in Content /\ RelationshipChanges(e) # {}
  \/ "schema" \in Content /\ ChangedDefinitions(e) # {}
  \/ DeletedDefinitions(e) # {}

\* Short sequences, one after another.
LEMMA SmallConcats ==
  ASSUME NEW S, NEW a \in S, NEW b \in S
  PROVE  /\ <<a>> \o <<a>> = <<a, a>> /\ <<a>> \o <<b>> = <<a, b>>
         /\ <<a, a>> \o <<b>> = <<a, a, b>>
         /\ \A t \in Seq(S) : t \o <<>> = t /\ <<>> \o t = t
<1>1. <<a>> \in Seq(S) /\ <<b>> \in Seq(S) /\ <<a, a>> \in Seq(S)
  OBVIOUS
<1>2. ASSUME NEW e \in S
      PROVE  <<a>> \o <<e>> = <<a, e>>
  <2> DEFINE w == <<a>> \o <<e>>
  <2>1. <<e>> \in Seq(S)
    OBVIOUS
  <2>2. w \in Seq(S) /\ Len(w) = 2 /\ w[1] = a /\ w[2] = e
    BY <1>1, <2>1
  <2> HIDE DEF w
  <2>3. w = <<a, e>>
    BY <2>2
  <2> QED
    BY <2>3 DEF w
<1>3. <<a, a>> \o <<b>> = <<a, a, b>>
  <2> DEFINE w == <<a, a>> \o <<b>>
  <2>1. w \in Seq(S) /\ Len(w) = 3 /\ w[1] = a /\ w[2] = a /\ w[3] = b
    BY <1>1
  <2> HIDE DEF w
  <2>2. w = <<a, a, b>>
    BY <2>1
  <2> QED
    BY <2>2 DEF w
<1> QED
  BY <1>1, <1>2, <1>3

\* The events of one entry: its changes, and then its checkpoint.
LEMMA EntryEvents ==
  ASSUME NEW e, e.revision \in Nat
  PROVE  /\ EventsOf(e) \in Seq(Event)
         /\ Ordered(EventsOf(e))
         /\ Told(EventsOf(e)) = IF Tells(e) THEN {e.revision} ELSE {}
         /\ \A i \in 1..Len(EventsOf(e)) : EventsOf(e)[i].revision = e.revision
<1> DEFINE c == Change(e)
           p == Checkpoint(e)
           s == EventsOf(e)
<1>1. /\ c \in Event /\ p \in Event /\ c.revision = e.revision /\ p.revision = e.revision
      /\ ~c.checkpoint /\ p.checkpoint
  BY DEF Change, Checkpoint, Event
<1>2. /\ s \in {<<>>, <<c>>, <<c, c>>, <<p>>, <<c, p>>, <<c, c, p>>}
      /\ Tells(e) <=> s \notin {<<>>, <<p>>}
  <2> DEFINE A == "relationships" \in Content /\ RelationshipChanges(e) # {}
             B == \/ "schema" \in Content /\ ChangedDefinitions(e) # {}
                  \/ DeletedDefinitions(e) # {}
             C == "checkpoints" \in Content
  <2>1. s = When(A, c) \o When(B, c) \o When(C, p)
    BY DEF EventsOf
  <2>2. Tells(e) <=> A \/ B
    BY DEF Tells
  <2>3. c # p
    BY <1>1
  <2>4. /\ <<c>> \o <<c>> = <<c, c>> /\ <<c>> \o <<p>> = <<c, p>>
        /\ <<c, c>> \o <<p>> = <<c, c, p>>
        /\ \A t \in Seq(Event) : t \o <<>> = t /\ <<>> \o t = t
    BY <1>1, SmallConcats
  <2>5. <<c>> \in Seq(Event) /\ <<c, c>> \in Seq(Event) /\ <<p>> \in Seq(Event)
        /\ <<>> \in Seq(Event)
    BY <1>1
  <2> HIDE DEF A, B, C, c, p, s
  <2>6. CASE ~A /\ ~B
    <3>1. s = (<<>> \o <<>>) \o (IF C THEN <<p>> ELSE <<>>)
      BY <2>1, <2>6 DEF When
    <3> QED
      BY <2>2, <2>4, <2>5, <2>6, <3>1
  <2>7. CASE A /\ B
    <3>1. s = (<<c>> \o <<c>>) \o (IF C THEN <<p>> ELSE <<>>)
      BY <2>1, <2>7 DEF When
    <3>2. s = IF C THEN <<c, c, p>> ELSE <<c, c>>
      BY <2>4, <2>5, <3>1
    <3> QED
      BY <2>2, <2>7, <3>2
  <2>8. CASE A /\ ~B
    <3>1. s = (<<c>> \o <<>>) \o (IF C THEN <<p>> ELSE <<>>)
      BY <2>1, <2>8 DEF When
    <3>2. s = IF C THEN <<c, p>> ELSE <<c>>
      BY <2>4, <2>5, <3>1
    <3> QED
      BY <2>2, <2>3, <2>8, <3>2
  <2>9. CASE ~A /\ B
    <3>1. s = (<<>> \o <<c>>) \o (IF C THEN <<p>> ELSE <<>>)
      BY <2>1, <2>9 DEF When
    <3>2. s = IF C THEN <<c, p>> ELSE <<c>>
      BY <2>4, <2>5, <3>1
    <3> QED
      BY <2>2, <2>3, <2>9, <3>2
  <2> QED
    BY <2>6, <2>7, <2>8, <2>9
<1> HIDE DEF c, p, s
<1>3. ASSUME NEW t, t \in {<<>>, <<c>>, <<c, c>>, <<p>>, <<c, p>>, <<c, c, p>>}
      PROVE  /\ t \in Seq(Event) /\ Ordered(t)
             /\ \A i \in 1..Len(t) : t[i].revision = e.revision
             /\ t \in {<<>>, <<p>>} => Told(t) = {}
             /\ t \notin {<<>>, <<p>>} => Told(t) = {e.revision}
  <2>1. CASE t = <<>>
    BY <2>1 DEF Ordered, Told
  <2>2. CASE t = <<c>>
    BY <1>1, <2>2 DEF Ordered, Told
  <2>3. CASE t = <<c, c>>
    BY <1>1, <2>3 DEF Ordered, Told
  <2>4. CASE t = <<p>>
    BY <1>1, <2>4 DEF Ordered, Told
  <2>5. CASE t = <<c, p>>
    BY <1>1, <2>5 DEF Ordered, Told
  <2>6. CASE t = <<c, c, p>>
    BY <1>1, <2>6 DEF Ordered, Told
  <2> QED
    BY <1>3, <2>1, <2>2, <2>3, <2>4, <2>5, <2>6
<1>4. /\ s \in Seq(Event) /\ Ordered(s)
      /\ \A i \in 1..Len(s) : s[i].revision = e.revision
      /\ Told(s) = IF Tells(e) THEN {e.revision} ELSE {}
  BY <1>2, <1>3
<1> QED
  BY <1>4 DEF s

\* Events after others, of later revisions.
LEMMA EventsJoined ==
  ASSUME NEW s \in Seq(Event), NEW t \in Seq(Event), Ordered(s), Ordered(t),
         \A i \in 1..Len(s) : \A j \in 1..Len(t) : s[i].revision < t[j].revision
  PROVE  /\ s \o t \in Seq(Event)
         /\ Ordered(s \o t)
         /\ Told(s \o t) = Told(s) \cup Told(t)
         /\ \A i \in 1..Len(s \o t) : \/ \E j \in 1..Len(s) : (s \o t)[i] = s[j]
                                      \/ \E j \in 1..Len(t) : (s \o t)[i] = t[j]
<1> DEFINE u == s \o t
           m == Len(s)
           n == Len(t)
<1>1. /\ u \in Seq(Event) /\ Len(u) = m + n /\ m \in Nat /\ n \in Nat
      /\ \A i \in 1..m : u[i] = s[i]
      /\ \A i \in 1..n : u[m + i] = t[i]
  OBVIOUS
<1>2. \A i \in 1..m : s[i].revision \in Nat
  <2>1. \A i \in 1..m : s[i] \in Event
    OBVIOUS
  <2> QED
    BY <2>1 DEF Event
<1>3. \A i \in 1..n : t[i].revision \in Nat
  <2>1. \A i \in 1..n : t[i] \in Event
    OBVIOUS
  <2> QED
    BY <2>1 DEF Event
<1> HIDE DEF u, m, n
<1>4. \A i \in 1..(m + n) : i \in 1..m \/ (i - m \in 1..n /\ i = m + (i - m))
  BY <1>1
<1>5. ASSUME NEW i \in 1..(m + n), NEW j \in 1..(m + n), i < j
      PROVE  /\ u[i].revision <= u[j].revision
             /\ u[i].checkpoint => u[i].revision < u[j].revision
  <2>1. CASE i \in 1..m /\ j \in 1..m
    BY <1>1, <1>5, <2>1 DEF Ordered, m
  <2>2. ASSUME i \in 1..m, NEW k \in 1..n, j = m + k
        PROVE  /\ u[i].revision <= u[j].revision
               /\ u[i].checkpoint => u[i].revision < u[j].revision
    <3>1. u[i] = s[i] /\ u[j] = t[k] /\ s[i].revision < t[k].revision
      BY <1>1, <2>2 DEF m, n
    <3> QED
      BY <1>2, <1>3, <2>2, <3>1
  <2>3. ASSUME NEW h \in 1..n, i = m + h, NEW k \in 1..n, j = m + k
        PROVE  /\ u[i].revision <= u[j].revision
               /\ u[i].checkpoint => u[i].revision < u[j].revision
    <3>1. u[i] = t[h] /\ u[j] = t[k] /\ h < k
      BY <1>1, <1>5, <2>3
    <3> QED
      BY <3>1 DEF Ordered, n
  <2>4. ~(j \in 1..m /\ ~(i \in 1..m))
    BY <1>1, <1>5
  <2> QED
    BY <1>4, <2>1, <2>2, <2>3, <2>4
<1>6. Ordered(u)
  BY <1>1, <1>5 DEF Ordered
<1>7. \A i \in 1..(m + n) : (\E j \in 1..m : u[i] = s[j]) \/ (\E j \in 1..n : u[i] = t[j])
  BY <1>1, <1>4
<1>8. /\ \A i \in 1..m : i \in 1..(m + n)
      /\ \A i \in 1..n : m + i \in 1..(m + n)
  BY <1>1
<1>9. Told(u) = Told(s) \cup Told(t)
  <2>1. ASSUME NEW r \in Told(u) PROVE r \in Told(s) \cup Told(t)
    <3>1. PICK i \in 1..(m + n) : ~u[i].checkpoint /\ r = u[i].revision
      BY <1>1 DEF Told
    <3>2. CASE \E j \in 1..m : u[i] = s[j]
      BY <3>1, <3>2 DEF Told, m
    <3>3. CASE \E j \in 1..n : u[i] = t[j]
      BY <3>1, <3>3 DEF Told, n
    <3> QED
      BY <1>7, <3>2, <3>3
  <2>2. ASSUME NEW r \in Told(s) PROVE r \in Told(u)
    BY <1>1, <1>8 DEF Told, m
  <2>3. ASSUME NEW r \in Told(t) PROVE r \in Told(u)
    BY <1>1, <1>8 DEF Told, n
  <2> QED
    BY <2>1, <2>2, <2>3
<1> QED
  BY <1>1, <1>6, <1>7, <1>9 DEF u, m, n

----------------------------------------------------------------------------
\* The loop of loadChanges, as far as its entry number m.
Staging(f, m, entries) ==
  f = [n \in 0..m |-> IF n = 0 THEN <<>> ELSE f[n - 1] \o EventsOf(entries[n])]

\* The loop ends, after any number of entries.
LEMMA StagingExists ==
  ASSUME NEW entries, NEW len \in Nat
  PROVE  \E f : Staging(f, len, entries)
<1> DEFINE Bad == {m \in Nat : ~\E f : Staging(f, m, entries)}
<1> SUFFICES ASSUME Bad # {} PROVE FALSE
  OBVIOUS
<1>1. PICK m \in Bad : \A k \in Bad : <<k, m>> \notin OpToRel(<, Nat)
  BY NatLessThanWellFounded, WFMin
<1>2. m \in Nat /\ \A k \in Bad : ~(k < m)
  BY <1>1 DEF OpToRel
<1>3. CASE m = 0
  <2> DEFINE f == [n \in 0..0 |-> <<>>]
  <2>1. Staging(f, 0, entries)
    BY DEF Staging
  <2> QED
    BY <1>1, <1>3, <2>1
<1>4. CASE m # 0
  <2>1. m - 1 \in Nat /\ m - 1 < m /\ m \in 1..m
    BY <1>2, <1>4
  <2>2. PICK f : Staging(f, m - 1, entries)
    BY <1>2, <2>1
  <2> DEFINE g == [n \in 0..m |-> IF n = m THEN f[m - 1] \o EventsOf(entries[m]) ELSE f[n]]
  <2>3. \A n \in 0..(m - 1) : f[n] = IF n = 0 THEN <<>> ELSE f[n - 1] \o EventsOf(entries[n])
    <3> DEFINE body(n) == IF n = 0 THEN <<>> ELSE f[n - 1] \o EventsOf(entries[n])
    <3>1. f = [n \in 0..(m - 1) |-> body(n)]
      BY <2>2 DEF Staging
    <3> HIDE DEF body
    <3>2. \A n \in 0..(m - 1) : f[n] = body(n)
      BY <3>1
    <3> QED
      BY <3>2 DEF body
  <2>4. ASSUME NEW n \in 0..m
        PROVE  g[n] = IF n = 0 THEN <<>> ELSE g[n - 1] \o EventsOf(entries[n])
    <3>1. CASE n = m
      <4>1. m \in 0..m /\ m - 1 \in 0..m /\ m - 1 # m
        BY <1>2, <2>1
      <4>2. g[m] = f[m - 1] \o EventsOf(entries[m])
        BY <4>1
      <4>3. g[m - 1] = f[m - 1]
        BY <4>1
      <4> QED
        BY <1>4, <3>1, <4>2, <4>3
    <3>2. CASE n # m
      <4>1. n \in 0..(m - 1) /\ g[n] = f[n] /\ (n # 0 => n - 1 \in 0..(m - 1) /\ g[n - 1] = f[n - 1])
        BY <1>2, <2>1, <3>2
      <4> QED
        BY <2>3, <4>1
    <3> QED
      BY <3>1, <3>2
  <2>5. g = [n \in 0..m |-> g[n]]
    OBVIOUS
  <2> HIDE DEF g
  <2>6. Staging(g, m, entries)
    <3> DEFINE body(n) == IF n = 0 THEN <<>> ELSE g[n - 1] \o EventsOf(entries[n])
    <3>1. \A n \in 0..m : g[n] = body(n)
      BY <2>4
    <3> HIDE DEF body
    <3>2. g = [n \in 0..m |-> body(n)]
      BY <2>5, <3>1
    <3> QED
      BY <3>2 DEF Staging, body
  <2> QED
    BY <1>1, <2>6
<1> QED
  BY <1>3, <1>4

\* What the first m entries have staged.
StagedTo(s, m, entries) ==
  /\ s \in Seq(Event)
  /\ Ordered(s)
  /\ Told(s) = {entries[k].revision : k \in {h \in 1..m : Tells(entries[h])}}
  /\ \A i \in 1..Len(s) : \E k \in 1..m : s[i].revision = entries[k].revision

\* The events of sorted entries are in order, and tell of those that a watcher
\* wants.
LEMMA EntriesStaged ==
  ASSUME NEW entries, Len(entries) \in Nat,
         \A i \in 1..Len(entries) : entries[i].revision \in Nat,
         \A i, j \in 1..Len(entries) : i < j => entries[i].revision < entries[j].revision
  PROVE  StagedTo(StagedUpdates(entries), Len(entries), entries)
<1> DEFINE len == Len(entries)
           f == CHOOSE g : Staging(g, len, entries)
<1>1. StagedUpdates(entries) = f[len]
  BY DEF StagedUpdates, Staging
<1>2. Staging(f, len, entries)
  BY StagingExists
<1> HIDE DEF f
<1>3. \A n \in 0..len : f[n] = IF n = 0 THEN <<>> ELSE f[n - 1] \o EventsOf(entries[n])
  <2> DEFINE body(n) == IF n = 0 THEN <<>> ELSE f[n - 1] \o EventsOf(entries[n])
  <2>1. f = [n \in 0..len |-> body(n)]
    BY <1>2 DEF Staging
  <2> HIDE DEF body
  <2>2. \A n \in 0..len : f[n] = body(n)
    BY <2>1
  <2> QED
    BY <2>2 DEF body
<1> HIDE DEF len
<1>4. StagedTo(f[0], 0, entries)
  <2>1. f[0] = <<>>
    BY <1>3 DEF len
  <2> QED
    BY <2>1 DEF StagedTo, Ordered, Told
<1>5. ASSUME NEW m \in 1..len, StagedTo(f[m - 1], m - 1, entries)
      PROVE  StagedTo(f[m], m, entries)
  <2> DEFINE s == f[m - 1]
             t == EventsOf(entries[m])
             e == entries[m]
  <2>1. f[m] = s \o t /\ m - 1 \in Nat /\ m \in 1..len /\ len \in Nat
    <3>1. len \in Nat
      BY DEF len
    <3>2. m \in 0..len /\ m # 0 /\ m - 1 \in Nat
      BY <3>1
    <3> HIDE DEF t
    <3>3. f[m] = s \o EventsOf(entries[m])
      BY <1>3, <3>2
    <3> QED
      BY <3>1, <3>2, <3>3 DEF t
  <2>2. e.revision \in Nat
    BY DEF len
  <2>3. /\ t \in Seq(Event) /\ Ordered(t) /\ Told(t) = IF Tells(e) THEN {e.revision} ELSE {}
        /\ \A i \in 1..Len(t) : t[i].revision = e.revision
    BY <2>2, EntryEvents
  <2>4. /\ s \in Seq(Event) /\ Ordered(s)
        /\ Told(s) = {entries[k].revision : k \in {h \in 1..(m - 1) : Tells(entries[h])}}
        /\ \A i \in 1..Len(s) : \E k \in 1..(m - 1) : s[i].revision = entries[k].revision
    BY <1>5 DEF StagedTo
  <2>5. \A k \in 1..(m - 1) : k \in 1..len /\ k < m /\ entries[k].revision < e.revision
    BY <2>1 DEF len
  <2> HIDE DEF s, t
  <2>6. \A i \in 1..Len(s) : \A j \in 1..Len(t) : s[i].revision < t[j].revision
    BY <2>3, <2>4, <2>5
  <2>7. /\ s \o t \in Seq(Event) /\ Ordered(s \o t)
        /\ Told(s \o t) = Told(s) \cup Told(t)
        /\ \A i \in 1..Len(s \o t) : \/ \E j \in 1..Len(s) : (s \o t)[i] = s[j]
                                     \/ \E j \in 1..Len(t) : (s \o t)[i] = t[j]
    BY <2>3, <2>4, <2>6, EventsJoined
  <2>8. 1..m = (1..(m - 1)) \cup {m}
    BY <2>1
  <2>9. Told(s \o t) = {entries[k].revision : k \in {h \in 1..m : Tells(entries[h])}}
    BY <2>3, <2>4, <2>7, <2>8
  <2>10. \A i \in 1..Len(s \o t) : \E k \in 1..m : (s \o t)[i].revision = entries[k].revision
    <3>1. ASSUME NEW i \in 1..Len(s \o t)
          PROVE  \E k \in 1..m : (s \o t)[i].revision = entries[k].revision
      <4>1. CASE \E j \in 1..Len(s) : (s \o t)[i] = s[j]
        BY <2>4, <2>8, <4>1
      <4>2. CASE \E j \in 1..Len(t) : (s \o t)[i] = t[j]
        BY <2>3, <2>8, <4>2
      <4> QED
        BY <2>7, <4>1, <4>2
    <3> QED
      BY <3>1
  <2> QED
    BY <2>1, <2>7, <2>9, <2>10 DEF StagedTo
<1> DEFINE Bad == {m \in 0..len : ~StagedTo(f[m], m, entries)}
<1>6. Bad = {}
  <2> SUFFICES ASSUME Bad # {} PROVE FALSE
    OBVIOUS
  <2>0. len \in Nat /\ Bad \in SUBSET Nat
    BY DEF len
  <2>1. PICK m \in Bad : \A k \in Bad : <<k, m>> \notin OpToRel(<, Nat)
    BY <2>0, NatLessThanWellFounded, WFMin
  <2>2. m \in 0..len /\ \A k \in Bad : ~(k < m)
    BY <2>0, <2>1 DEF OpToRel
  <2>3. m # 0
    BY <1>4, <2>1
  <2>4. m \in 1..len /\ m - 1 \in 0..len /\ m - 1 < m
    BY <2>0, <2>2, <2>3
  <2>5. m - 1 \notin Bad
    BY <2>2, <2>4
  <2> QED
    BY <1>5, <2>1, <2>4, <2>5
<1>7. len \in 0..len
  BY DEF len
<1> QED
  BY <1>1, <1>6, <1>7 DEF len

----------------------------------------------------------------------------
(***************************************************************************)
(* The changelog and the clock, beside which watchers read                 *)
(***************************************************************************)
\* A commit puts its entry into the changelog of the database before it.
LEMMA Published ==
  ASSUME ViewInv, NEW w \in Writers, Finish(w), InTx(w)
  PROVE  /\ Len(roots') = Len(roots) + 1
         /\ \A i \in 1..Len(roots) : roots'[i] = roots[i]
         /\ Current' = CommittedRoot(w)
         /\ CommittedRoot(w).changelog = InsertEntry(Current.changelog, EntryOf(CommittedRoot(w)))
         /\ CommittedRoot(w).revision = newRevision[w] /\ newRevision[w] \in Nat
         /\ Started(w)
<1>1. TypeOK /\ tx[w].base = Len(roots)
  BY DEF ViewInv, LockInv, TxView
<1>2. /\ CommittedRoot(w).changelog = InsertEntry(Current.changelog, EntryOf(CommittedRoot(w)))
      /\ CommittedRoot(w).revision = newRevision[w]
  BY <1>1 DEF CommittedRoot, EntryOf, Current
<1>3. Started(w) /\ newRevision[w] \in Nat
  BY <1>1, ReturnEffect, SMTT(30) DEF Finish, Started, TypeOK
<1>4. roots' = Append(roots, CommittedRoot(w))
  BY DEF Finish
<1> HIDE DEF CommittedRoot
<1>5. /\ Len(roots') = Len(roots) + 1
      /\ \A i \in 1..Len(roots) : roots'[i] = roots[i]
      /\ roots'[Len(roots')] = CommittedRoot(w)
  BY <1>1, <1>4, Appended DEF TypeOK
<1> QED
  BY <1>2, <1>3, <1>5 DEF Current

\* The changelog is unique on the revision.
LogInv == Entries(Current.changelog)

\* Init has no entry.
LEMMA LogInit == Init => LogInv
<1> SUFFICES ASSUME Init PROVE LogInv
  OBVIOUS
<1>1. Len(roots) = 1 /\ roots[1].changelog = {}
  BY DEF Init
<1>2. Current.changelog = {}
  BY <1>1 DEF Current
<1> QED
  BY <1>2, FS_EmptySet DEF LogInv, Entries

\* InsertEntry replaces an entry of the same revision.
LEMMA LogStep == ViewInv /\ LogInv /\ [Next]_vars => LogInv'
<1> SUFFICES ASSUME ViewInv, LogInv, [Next]_vars
             PROVE  LogInv'
  OBVIOUS
<1>1. CASE UNCHANGED roots
  BY <1>1 DEF LogInv, Current
<1>2. ASSUME NEW w \in Writers, Finish(w), InTx(w)
      PROVE  LogInv'
  <2> DEFINE r == CommittedRoot(w)
             L == Current.changelog
             K == {x \in L : x.revision # EntryOf(r).revision}
  <2>1. Current' = r /\ r.changelog = InsertEntry(L, EntryOf(r)) /\ r.revision \in Nat
    BY <1>2, Published
  <2>2. EntryOf(r).revision \in Nat
    BY <2>1 DEF EntryOf
  <2> HIDE DEF r
  <2>3. Entries(L)
    BY DEF LogInv
  <2>4. r.changelog = K \cup {EntryOf(r)}
    BY <2>1 DEF InsertEntry
  <2>5. K \in SUBSET L
    OBVIOUS
  <2>6. \A x \in K : x.revision # EntryOf(r).revision
    OBVIOUS
  <2> HIDE DEF K, L
  <2>7. IsFiniteSet(K \cup {EntryOf(r)})
    BY <2>3, <2>5, FS_Subset, FS_AddElement DEF Entries
  <2>8. Entries(K \cup {EntryOf(r)})
    BY <2>2, <2>3, <2>5, <2>6, <2>7 DEF Entries
  <2>9. Entries(Current'.changelog)
    BY <2>1, <2>4, <2>8
  <2> QED
    BY <2>9 DEF LogInv, Entries
<1> QED
  BY <1>1, <1>2, RootsStep DEF ViewInv, LockInv

\* Its entries are those of the commits.
LogExact == \A e \in Current.changelog : \E i \in 2..Len(roots) : e = EntryOf(roots[i])

\* A commit enters its own changes and no others.
LEMMA LogExactStep == ViewInv /\ LogExact /\ [Next]_vars => LogExact'
<1> SUFFICES ASSUME ViewInv, LogExact, [Next]_vars
             PROVE  LogExact'
  OBVIOUS
<1>0. Len(roots) \in Nat /\ Len(roots) # 0
  BY RevisionTypes DEF ViewInv, LockInv
<1>1. CASE UNCHANGED roots
  BY <1>1 DEF LogExact, Current
<1>2. ASSUME NEW w \in Writers, Finish(w), InTx(w)
      PROVE  LogExact'
  <2> DEFINE r == CommittedRoot(w)
             n == Len(roots)
  <2>1. /\ Current' = r /\ r.changelog = InsertEntry(Current.changelog, EntryOf(r))
        /\ Len(roots') = n + 1 /\ \A i \in 1..n : roots'[i] = roots[i]
        /\ roots'[Len(roots')] = Current'
    BY <1>2, Published DEF Current
  <2> HIDE DEF r
  <2>2. ASSUME NEW e \in r.changelog
        PROVE  \E i \in 2..(n + 1) : e = EntryOf(roots'[i])
    <3>1. CASE e = EntryOf(r)
      <4>1. n + 1 \in 2..(n + 1) /\ roots'[n + 1] = r
        BY <1>0, <2>1
      <4> QED
        BY <3>1, <4>1
    <3>2. CASE e \in Current.changelog
      <4>1. PICK i \in 2..n : e = EntryOf(roots[i])
        BY <3>2 DEF LogExact
      <4>2. i \in 2..(n + 1) /\ roots'[i] = roots[i]
        BY <1>0, <2>1, <4>1
      <4> QED
        BY <4>1, <4>2
    <3> QED
      BY <2>1, <2>2, <3>1, <3>2 DEF InsertEntry
  <2> HIDE DEF n
  <2>3. /\ Current'.changelog = r.changelog /\ Len(roots') = n + 1
    BY <2>1
  <2> QED
    BY <2>2, <2>3 DEF LogExact, EntryOf
<1> QED
  BY <1>1, <1>2, RootsStep DEF ViewInv, LockInv

\* A revision that no commit to come is at or before.
Past(r) == r <= clock /\ \A w \in Writers : Started(w) => r < newRevision[w]

\* What is past stays so: calls take their revisions from a clock that has moved.
LEMMA PastKept ==
  ASSUME Sequential, TypeOK, [Next]_vars, NEW r \in Nat, Past(r)
  PROVE  Past(r)'
<1>0. /\ pc \in [Writers -> PcValues] /\ newRevision \in [Writers -> Nat] /\ clock \in Nat
      /\ \A v, w \in Writers : v = w
  BY DEF TypeOK, PcValues, Sequential
<1>1. ASSUME NEW w \in Writers, Start(w) \/ Retry(w)
      PROVE  Past(r)'
  <2>1. TakeRevision(w)
    BY <1>1 DEF Start, Retry
  <2>2. clock' \in Nat /\ clock' > clock
    BY <2>1, NumbersAssumption DEF TakeRevision, ReadClock, Sequential, TypeOK
  <2>3. CASE revisions = <<>>
    <3>1. ~Started(w)'
      BY <1>0, <2>1, <2>3 DEF TakeRevision, Started
    <3> QED
      BY <1>0, <2>2, <3>1 DEF Past
  <2>4. CASE revisions # <<>>
    <3>1. newRevision'[w] \in {clock', clock' + 1}
      BY <1>0, <2>1, <2>4 DEF TakeRevision, newRevisionID
    <3>2. \A v \in Writers : r < newRevision'[v]
      BY <1>0, <2>2, <3>1 DEF Past
    <3> QED
      BY <1>0, <2>2, <3>2 DEF Past
  <2> QED
    BY <2>3, <2>4
<1>2. ASSUME UNCHANGED clock,
             \A w \in Writers : Started(w)' => Started(w) /\ newRevision'[w] = newRevision[w]
      PROVE  Past(r)'
  BY <1>2 DEF Past
<1>3. ASSUME NEW w \in Writers,
             \/ TxConflict(w) \/ TxClosed(w) \/ TxLock(w) \/ TxBegin(w)
             \/ BodyEnds(w)
      PROVE  Past(r)'
  <2>1. /\ Started(w)
        /\ \E q \in PcValues : pc' = [pc EXCEPT ![w] = q]
        /\ UNCHANGED <<clock, newRevision>>
    BY <1>3 DEF TxConflict, TxClosed, TxLock, TxBegin, BodyEnds, BodyFails,
                BodyConflicts, BodyReturns,
                Goto, Started, PcValues, allButPc, dbVars, memVars
  <2>2. \A v \in Writers : Started(v)' => Started(v)
    BY <1>0, <2>1 DEF Started
  <2> QED
    BY <1>2, <2>1, <2>2
<1>4. ASSUME NEW w \in Writers, GiveUp(w) \/ Rollback(w) \/ Finish(w)
      PROVE  Past(r)'
  <2>1. pc' = [pc EXCEPT ![w] = "idle"] /\ UNCHANGED clock
    BY <1>4 DEF GiveUp, Rollback, Finish, Return, Goto, dbVars, memVars
  <2>2. \A v \in Writers : ~Started(v)'
    BY <1>0, <2>1 DEF Started
  <2> QED
    BY <1>2, <2>1, <2>2
<1>5. ASSUME Close
      PROVE  Past(r)'
  <2>1. /\ clock' \in Nat /\ clock <= clock' /\ UNCHANGED <<pc, newRevision>>
    BY <1>5, NumbersAssumption DEF Close, ReadClock, TypeOK, callVars
  <2> QED
    BY <1>0, <2>1 DEF Past, Started
<1>6. ASSUME NEW w \in Writers, BodyStep(w)
      PROVE  Past(r)'
  <2>1. PICK t \in Tx : Body(w, t)
    BY <1>6, BodyStepShape
  <2>2. UNCHANGED <<clock, pc, newRevision>>
    BY <2>1 DEF Body
  <2> QED
    BY <1>2, <2>2 DEF Started
<1>7. ASSUME UNCHANGED vars
      PROVE  Past(r)'
  <2>1. UNCHANGED <<clock, pc, newRevision>>
    BY <1>7 DEF vars, callVars
  <2> QED
    BY <1>2, <2>1 DEF Started
<1> QED
  BY <1>1, <1>3, <1>4, <1>5, <1>6, <1>7 DEF Next, Writer, CallStep

----------------------------------------------------------------------------
(***************************************************************************)
(* What one pass of loadChanges stages                                     *)
(***************************************************************************)
\* The revisions after a and up to b, of the entries a watcher is told of.
ToldOf(log, a, b) ==
  {e.revision : e \in {f \in log : a < f.revision /\ f.revision <= b /\ Tells(f)}}

\* s stages what the changelog holds after c, up to d.
Loads(s, c, d) ==
  /\ s \in Seq(Event) /\ Ordered(s)
  /\ d \in Nat /\ c <= d
  /\ Told(s) = ToldOf(Current.changelog, c, d)
  /\ \A i \in 1..Len(s) : c < s[i].revision /\ s[i].revision <= d
  /\ \A e \in Current.changelog : e.revision <= d
  /\ d = c \/ \E e \in Current.changelog : d = e.revision

\* loadChanges stages the entries after its cursor, and moves it to the last.
LEMMA EntriesLoaded ==
  ASSUME LogInv, NEW c \in Nat
  PROVE  LET entries == EntriesAfter(c)
         IN  Loads(StagedUpdates(entries), c,
                   IF entries = <<>> THEN c ELSE entries[Len(entries)].revision)
<1> DEFINE L == Current.changelog
           S == {e \in L : e.revision > c}
           es == EntriesAfter(c)
           n == Len(es)
           s == StagedUpdates(es)
           d == IF es = <<>> THEN c ELSE es[n].revision
<1>1. Entries(L)
  BY DEF LogInv
<1>2. S \in SUBSET L /\ \A e \in L : e.revision \in Nat
  BY <1>1 DEF Entries
<1>3. Entries(S)
  BY <1>1, <1>2, FS_Subset DEF Entries
<1>4. es = ByRevision(S)
  BY DEF EntriesAfter
<1>5. \A e \in L : e \in S <=> e.revision > c
  OBVIOUS
<1> HIDE DEF L, S, es
<1>6. /\ n \in Nat /\ es \in [1..n -> S]
      /\ \A e \in S : \E i \in 1..n : es[i] = e
      /\ \A i, j \in 1..n : i < j => es[i].revision < es[j].revision
  <2>1. /\ Cardinality(S) \in Nat /\ es \in [1..Cardinality(S) -> S]
        /\ \A e \in S : \E i \in 1..Cardinality(S) : es[i] = e
        /\ \A i, j \in 1..Cardinality(S) : i < j => es[i].revision < es[j].revision
    BY <1>3, <1>4, EntriesSorted
  <2>2. Len(es) = Cardinality(S)
    <3>1. es \in Seq(S)
      BY <2>1
    <3>2. DOMAIN es = 1..Len(es) /\ Len(es) \in Nat /\ DOMAIN es = 1..Cardinality(S)
      BY <2>1, <3>1
    <3> QED
      BY <2>1, <3>2
  <2> QED
    BY <2>1, <2>2
<1>7. es = <<>> <=> n = 0
  <2>1. es \in Seq(S)
    BY <1>6
  <2> QED
    BY <2>1
<1> HIDE DEF n
<1>8. \A i \in 1..n : es[i] \in S /\ es[i] \in L /\ es[i].revision \in Nat /\ c < es[i].revision
  BY <1>2, <1>5, <1>6
<1>9. StagedTo(s, n, es)
  BY <1>6, <1>8, EntriesStaged DEF n
<1> HIDE DEF s
<1>10. /\ d \in Nat /\ c <= d /\ \A i \in 1..n : es[i].revision <= d
       /\ d = c \/ \E e \in L : d = e.revision
  <2>1. CASE n = 0
    BY <1>7, <2>1
  <2>2. CASE n # 0
    <3>1. n \in 1..n /\ d = es[n].revision
      BY <1>6, <1>7, <2>2
    <3>2. \A i \in 1..n : i = n \/ i < n
      BY <1>6
    <3> HIDE DEF d
    <3> QED
      BY <1>6, <1>8, <3>1, <3>2
  <2> QED
    BY <2>1, <2>2
<1> HIDE DEF d
<1>11. \A e \in L : e.revision <= d
  <2>1. ASSUME NEW e \in L PROVE e.revision <= d
    <3>1. CASE e \in S
      BY <1>6, <1>10, <3>1
    <3>2. CASE e \notin S
      BY <1>2, <1>5, <1>10, <3>2
    <3> QED
      BY <3>1, <3>2
  <2> QED
    BY <2>1
<1>12. \A i \in 1..Len(s) : c < s[i].revision /\ s[i].revision <= d
  <2>1. \A i \in 1..Len(s) : \E k \in 1..n : s[i].revision = es[k].revision
    BY <1>9 DEF StagedTo
  <2> QED
    BY <1>8, <1>10, <2>1
<1>13. Told(s) = ToldOf(L, c, d)
  <2>1. Told(s) = {es[k].revision : k \in {h \in 1..n : Tells(es[h])}}
    BY <1>9 DEF StagedTo
  <2>2. ASSUME NEW r \in Told(s) PROVE r \in ToldOf(L, c, d)
    <3>1. PICK k \in 1..n : Tells(es[k]) /\ r = es[k].revision
      BY <2>1, <2>2
    <3> QED
      BY <1>8, <1>10, <3>1 DEF ToldOf
  <2>3. ASSUME NEW r \in ToldOf(L, c, d) PROVE r \in Told(s)
    <3>1. PICK e \in L : c < e.revision /\ Tells(e) /\ r = e.revision
      BY <2>3 DEF ToldOf
    <3>2. PICK k \in 1..n : es[k] = e
      BY <1>2, <1>5, <1>6, <3>1
    <3> QED
      BY <2>1, <3>1, <3>2
  <2> QED
    BY <2>2, <2>3
<1>14. s \in Seq(Event) /\ Ordered(s)
  BY <1>9 DEF StagedTo
<1>15. Loads(s, c, d)
  BY <1>10, <1>11, <1>12, <1>13, <1>14 DEF Loads, L
<1> QED
  BY <1>15 DEF s, d, es, n

----------------------------------------------------------------------------
(***************************************************************************)
(* Types                                                                   *)
(***************************************************************************)
WpcValues == {"off", "load", "send", "full", "wait", "canceled", "disconnected", "closed"}

WatchTypes ==
  /\ wpc \in [Watchers -> WpcValues]
  /\ from \in [Watchers -> Nat] /\ cursor \in [Watchers -> Nat]
  /\ seenRoot \in [Watchers -> Nat]
  /\ staged \in [Watchers -> Seq(Event)]
  /\ updates \in [Watchers -> Seq(Event)]
  /\ received \in [Watchers -> Seq(Event)]
  /\ \A w \in Watchers : Len(updates[w]) <= BufferLength
  /\ canceled \in [Watchers -> BOOLEAN]

\* At first every watcher's variables are empty.
LEMMA WatchTypesInit == WatchInit => WatchTypes
<1> SUFFICES ASSUME WatchInit PROVE WatchTypes
  OBVIOUS
<1>1. <<>> \in Seq(Event) /\ Len(<<>>) = 0 /\ BufferLength \in Nat
  BY WatchAssumption
<1> QED
  BY <1>1 DEF WatchInit, WatchTypes, WpcValues

\* Every step of a watcher keeps the types of its variables.
LEMMA WatchTypesStep ==
  ASSUME TypeOK, LogInv, WatchTypes, NEW w \in Watchers, Watcher(w)
  PROVE  WatchTypes'
<1>0. BufferLength \in Nat
  BY WatchAssumption
<1>1. CASE Watch(w)
  <2>1. \A a \in acked : a.revision \in Nat
    BY DEF TypeOK, Ack
  <2>2. PICK ar \in {0} \cup {a.revision : a \in acked} :
          /\ from' = [from EXCEPT ![w] = ar]
          /\ cursor' = [cursor EXCEPT ![w] = ar]
    BY <1>1 DEF Watch
  <2>3. ar \in Nat
    BY <2>1, <2>2
  <2> QED
    BY <1>1, <2>2, <2>3 DEF Watch, WGoto, WatchTypes, WpcValues
<1>2. CASE LoadChanges(w)
  <2> DEFINE entries == EntriesAfter(cursor[w])
             s == StagedUpdates(entries)
             d == IF entries = <<>> THEN cursor[w] ELSE entries[Len(entries)].revision
  <2>1. Loads(s, cursor[w], d)
    BY EntriesLoaded DEF WatchTypes
  <2>2. /\ staged' = [staged EXCEPT ![w] = s] /\ cursor' = [cursor EXCEPT ![w] = d]
        /\ seenRoot' = [seenRoot EXCEPT ![w] = Len(roots)] /\ WGoto(w, "send")
        /\ UNCHANGED <<from, updates, received, canceled>>
    BY <1>2 DEF LoadChanges
  <2> HIDE DEF s, d
  <2>3. s \in Seq(Event) /\ d \in Nat /\ Len(roots) \in Nat
    BY <2>1 DEF Loads, TypeOK
  <2> QED
    BY <2>2, <2>3 DEF WGoto, WatchTypes, WpcValues
<1>3. CASE Send(w)
  <2>1. /\ staged[w] \in Seq(Event) /\ staged[w] # <<>> /\ updates[w] \in Seq(Event)
        /\ Len(updates[w]) < BufferLength
    BY <1>3 DEF Send, HasRoom, WatchTypes
  <2>2. /\ Head(staged[w]) \in Event /\ Tail(staged[w]) \in Seq(Event)
        /\ Append(updates[w], Head(staged[w])) \in Seq(Event)
        /\ Len(Append(updates[w], Head(staged[w]))) <= BufferLength
    BY <1>0, <2>1
  <2> QED
    BY <1>3, <2>2 DEF Send, WGoto, WatchTypes, WpcValues
<1>4. CASE Receive(w)
  <2>1. updates[w] \in Seq(Event) /\ updates[w] # <<>> /\ received[w] \in Seq(Event)
        /\ Len(updates[w]) <= BufferLength
    BY <1>4 DEF Receive, WatchTypes
  <2>2. /\ Tail(updates[w]) \in Seq(Event) /\ Len(Tail(updates[w])) <= BufferLength
        /\ Append(received[w], Head(updates[w])) \in Seq(Event)
    BY <1>0, <2>1
  <2> QED
    BY <1>4, <2>2 DEF Receive, WatchTypes, WpcValues
<1>5. CASE Cancel(w)
  BY <1>5 DEF Cancel, WatchTypes, WpcValues
<1>6. CASE LoadClosed(w) \/ FindFull(w) \/ SendTimeout(w) \/ SentAll(w) \/ Wake(w) \/ WatchCanceled(w)
  BY <1>6 DEF LoadClosed, FindFull, SendTimeout, SentAll, Wake, WatchCanceled, WGoto,
              WatchTypes, WpcValues
<1> QED
  BY <1>1, <1>2, <1>3, <1>4, <1>5, <1>6 DEF Watcher, Loop

\* A step of the watchers' specification is one of the datastore's, or leaves
\* it alone.
LEMMA WatchNextShape ==
  ASSUME [WatchNext]_allVars
  PROVE  /\ [Next]_vars
         /\ UNCHANGED watchVars \/ (UNCHANGED vars /\ \E w \in Watchers : Watcher(w))
  BY DEF WatchNext, allVars

\* The datastore's own invariants hold beside watchers.
LEMMA WatchSpecImplies == WatchSpec => Spec
<1>1. WatchInit => Init
  BY DEF WatchInit
<1>2. [WatchNext]_allVars => [Next]_vars
  BY WatchNextShape
<1> QED
  BY <1>1, <1>2, PTL DEF WatchSpec, Spec

\* So the types hold beside writers whose calls may overlap.
LEMMA WatchTypesInvariant == WatchSpec => [](ViewInv /\ LogInv /\ WatchTypes)
<1>1. WatchInit => LogInv
  BY LogInit DEF WatchInit
<1>2. ViewInv /\ LogInv /\ [WatchNext]_allVars => LogInv'
  BY WatchNextShape, LogStep
<1>3. ViewInv /\ LogInv /\ WatchTypes /\ [WatchNext]_allVars => WatchTypes'
  <2> SUFFICES ASSUME ViewInv, LogInv, WatchTypes, [WatchNext]_allVars
               PROVE  WatchTypes'
    OBVIOUS
  <2>1. CASE UNCHANGED watchVars
    BY <2>1 DEF watchVars, WatchTypes
  <2>2. TypeOK
    BY DEF ViewInv, LockInv
  <2> QED
    BY <2>1, <2>2, WatchNextShape, WatchTypesStep
<1> QED
  BY <1>1, <1>2, <1>3, WatchTypesInit, WatchSpecImplies, ViewInvariant, PTL DEF WatchSpec

\* Each watcher's variables keep their types, and its channel never holds more
\* than WatchBufferLength events (watch.go:24-61, 150-174).
THEOREM WatchersTyped == WatchSpec => []WatchTypeOK
<1>1. WatchTypes => WatchTypeOK
  <2> SUFFICES ASSUME WatchTypes PROVE WatchTypeOK
    OBVIOUS
  <2>1. ASSUME NEW w \in Watchers, NEW s \in {staged[w], updates[w], received[w]},
               NEW i \in DOMAIN s
        PROVE  s[i] \in Event
    <3>1. s \in Seq(Event)
      BY DEF WatchTypes
    <3> QED
      BY <2>1, <3>1
  <2> QED
    BY <2>1 DEF WatchTypes, WatchTypeOK, WpcValues
<1> QED
  BY <1>1, WatchTypesInvariant, PTL

----------------------------------------------------------------------------
(***************************************************************************)
(* What a watcher has been sent                                            *)
(***************************************************************************)
\* The revisions callers hold are past.
AckedPast == \A a \in acked : Past(a.revision)

\* A watcher's events, sent or staged, tell of the changelog from its start to
\* its cursor, and no commit to come can be at or before the cursor.
StreamOf(w) ==
  /\ Past(cursor[w])
  /\ from[w] <= cursor[w]
  /\ Ordered(Stream(w))
  /\ Told(Stream(w)) = ToldOf(Current.changelog, from[w], cursor[w])
  /\ \A i \in 1..Len(Stream(w)) : Stream(w)[i].revision <= cursor[w]
  /\ wpc[w] = "off" => Stream(w) = <<>>
  /\ wpc[w] \in {"load", "wait"} => staged[w] = <<>>

StreamInv == AckedPast /\ \A w \in Watchers : StreamOf(w)

\* An event passed on from one sequence to the end of the one before it.
LEMMA PassedOn ==
  ASSUME NEW S, NEW r \in Seq(S), NEW u \in Seq(S), NEW t \in Seq(S)
  PROVE  /\ u # <<>> => (Append(r, Head(u)) \o Tail(u)) \o t = (r \o u) \o t
         /\ t # <<>> => (r \o Append(u, Head(t))) \o Tail(t) = (r \o u) \o t
         /\ (r \o u) \o t \in Seq(S)
         /\ Len((r \o u) \o t) = Len(r) + Len(u) + Len(t)
         /\ \A i \in 1..Len(r) : ((r \o u) \o t)[i] = r[i]
         /\ (r \o u) \o <<>> = r \o u
<1>1. ASSUME u # <<>>
      PROVE  Append(r, Head(u)) \o Tail(u) = r \o u
  BY <1>1
<1>2. ASSUME t # <<>>
      PROVE  (r \o Append(u, Head(t))) \o Tail(t) = (r \o u) \o t
  <2> DEFINE a == (r \o Append(u, Head(t))) \o Tail(t)
             b == (r \o u) \o t
  <2>1. /\ Head(t) = t[1] /\ Tail(t) \in Seq(S) /\ Len(Tail(t)) = Len(t) - 1
        /\ \A k \in 1..(Len(t) - 1) : Tail(t)[k] = t[k + 1]
        /\ Append(u, Head(t)) \in Seq(S)
    BY <1>2
  <2>2. a \in Seq(S) /\ b \in Seq(S) /\ Len(a) = Len(b) /\ Len(a) = Len(r) + Len(u) + Len(t)
    BY <1>2, <2>1
  <2>3. \A i \in 1..Len(r) : a[i] = r[i] /\ b[i] = r[i]
    BY <2>1
  <2>4. \A i \in 1..Len(u) : a[Len(r) + i] = u[i] /\ b[Len(r) + i] = u[i]
    BY <2>1
  <2>5. \A i \in 1..Len(t) : a[Len(r) + Len(u) + i] = t[i] /\ b[Len(r) + Len(u) + i] = t[i]
    BY <2>1
  <2> DEFINE p == Len(r)
             q == Len(u)
             n == Len(t)
  <2>0. p \in Nat /\ q \in Nat /\ n \in Nat
    OBVIOUS
  <2> HIDE DEF a, b, p, q, n
  <2>6. ASSUME NEW i \in 1..Len(a) PROVE a[i] = b[i]
    <3>0. i \in Nat /\ 1 <= i /\ i <= p + q + n
      BY <2>0, <2>2 DEF p, q, n
    <3>1. CASE i <= p
      BY <2>0, <2>3, <3>0, <3>1, SMTT(30) DEF p
    <3>2. CASE p < i /\ i <= p + q
      <4>1. i - p \in 1..q /\ p + (i - p) = i
        BY <2>0, <3>0, <3>2
      <4> QED
        BY <2>4, <4>1 DEF p, q
    <3>3. CASE p + q < i
      <4>1. i - (p + q) \in 1..n /\ (p + q) + (i - (p + q)) = i
        BY <2>0, <3>0, <3>3
      <4> QED
        BY <2>5, <4>1 DEF p, q, n
    <3> QED
      BY <2>0, <3>0, <3>1, <3>2, <3>3
  <2>7. a = b
    BY <2>2, <2>6, SeqEqual
  <2> QED
    BY <2>7 DEF a, b
<1>3. /\ (r \o u) \o t \in Seq(S)
      /\ Len((r \o u) \o t) = Len(r) + Len(u) + Len(t)
      /\ (r \o u) \o <<>> = r \o u
  OBVIOUS
<1>4. \A i \in 1..Len(r) : ((r \o u) \o t)[i] = r[i]
  <2>1. /\ r \o u \in Seq(S) /\ Len(r \o u) = Len(r) + Len(u)
        /\ \A i \in 1..Len(r) : (r \o u)[i] = r[i]
    OBVIOUS
  <2> DEFINE v == r \o u
  <2> HIDE DEF v
  <2>2. \A i \in 1..Len(v) : (v \o t)[i] = v[i]
    BY <2>1 DEF v
  <2> QED
    BY <2>1, <2>2 DEF v
<1> QED
  BY <1>1, <1>2, <1>3, <1>4

\* The three sequences of a watcher's events.
LEMMA StreamShape ==
  ASSUME WatchTypes, NEW w \in Watchers
  PROVE  /\ Stream(w) \in Seq(Event)
         /\ \A i \in 1..Len(Stream(w)) : Stream(w)[i].revision \in Nat
         /\ Len(received[w]) <= Len(Stream(w))
         /\ \A i \in 1..Len(received[w]) : Stream(w)[i] = received[w][i]
<1>1. received[w] \in Seq(Event) /\ updates[w] \in Seq(Event) /\ staged[w] \in Seq(Event)
  BY DEF WatchTypes
<1> DEFINE r == received[w]
           u == updates[w]
           t == staged[w]
<1>2. Stream(w) = (r \o u) \o t
  BY DEF Stream
<1> HIDE DEF r, u, t
<1> DEFINE s == Stream(w)
<1> HIDE DEF s
<1>3. /\ s \in Seq(Event) /\ Len(s) = Len(r) + Len(u) + Len(t)
      /\ \A i \in 1..Len(r) : s[i] = r[i]
  <2>1. r \in Seq(Event) /\ u \in Seq(Event) /\ t \in Seq(Event)
    BY <1>1 DEF r, u, t
  <2> QED
    BY <1>2, <2>1, PassedOn DEF s
<1>4. \A i \in 1..Len(s) : s[i] \in Event
  BY <1>3
<1>5. Len(r) <= Len(s)
  <2>1. Len(r) \in Nat /\ Len(u) \in Nat /\ Len(t) \in Nat
    BY <1>1 DEF r, u, t
  <2> QED
    BY <1>3, <2>1
<1> QED
  BY <1>3, <1>4, <1>5 DEF Event, s, r

\* At first nothing is past but the start, and no event is on its way.
LEMMA StreamInit == WatchInit => StreamInv
<1> SUFFICES ASSUME WatchInit PROVE StreamInv
  OBVIOUS
<1>1. /\ \A v \in Writers : ~Started(v)
      /\ clock = 0 /\ acked = {}
  BY DEF WatchInit, Init, Started
<1>2. AckedPast
  BY <1>1 DEF AckedPast
<1>3. ASSUME NEW w \in Watchers PROVE StreamOf(w)
  <2>1. Stream(w) = <<>>
    BY DEF WatchInit, Stream
  <2>2. Current.changelog = {}
    <3>1. Len(roots) = 1 /\ roots[1].changelog = {}
      BY DEF WatchInit, Init
    <3> QED
      BY <3>1 DEF Current
  <2>3. /\ wpc[w] = "off" /\ cursor[w] = 0 /\ from[w] = 0 /\ staged[w] = <<>>
    BY DEF WatchInit
  <2>4. Ordered(<<>>) /\ Told(<<>>) = {} /\ Len(<<>>) = 0
    BY DEF Ordered, Told
  <2>5. ToldOf({}, 0, 0) = {}
    BY DEF ToldOf
  <2>6. Past(0)
    BY <1>1 DEF Past
  <2>7. \A i \in 1..Len(<<>>) : FALSE
    BY <2>4
  <2>8. \A i \in 1..Len(Stream(w)) : Stream(w)[i].revision <= cursor[w]
    BY <2>1, <2>7
  <2>9. Told(Stream(w)) = ToldOf(Current.changelog, from[w], cursor[w])
    BY <2>1, <2>2, <2>3, <2>4, <2>5
  <2> QED
    BY <2>1, <2>3, <2>4, <2>6, <2>8, <2>9 DEF StreamOf
<1> QED
  BY <1>2, <1>3 DEF StreamInv

\* The revision of a commit is past.
LEMMA CommitPast ==
  ASSUME Sequential, TypeOK, DatedInv, NEW i \in 1..Len(roots)
  PROVE  Past(roots[i].revision)
  BY RevisionTypes DEF DatedInv, Dated, Past

\* A call that returns makes its own revision past, and acknowledges it.
LEMMA AckedStep ==
  ASSUME Sequential, TypeOK, DatedInv, AckedPast, [Next]_vars
  PROVE  AckedPast'
<1>1. \A a \in acked : a.revision \in Nat
  BY DEF TypeOK, Ack
<1>2. \A a \in acked : Past(a.revision)'
  <2>1. ASSUME NEW a \in acked PROVE Past(a.revision)'
    BY <1>1, PastKept DEF AckedPast
  <2> QED
    BY <2>1
<1>3. CASE UNCHANGED acked
  BY <1>2, <1>3 DEF AckedPast
<1>4. ASSUME NEW w \in Writers, Finish(w)
      PROVE  AckedPast'
  <2>1. /\ pc[w] = "returned" /\ pc' = [pc EXCEPT ![w] = "idle"] /\ UNCHANGED clock
        /\ acked' \subseteq acked \cup {[revision |-> newRevision[w], root |-> Len(roots')]}
    BY <1>4 DEF Finish, Return, Goto
  <2>2. /\ newRevision[w] <= clock' /\ \A v \in Writers : ~Started(v)'
    BY <2>1 DEF Started, Sequential, TypeOK, DatedInv, Dated
  <2>3. ASSUME NEW a \in acked' PROVE Past(a.revision)'
    <3>1. CASE a \in acked
      BY <1>2, <3>1
    <3>2. CASE a.revision = newRevision[w]
      BY <2>2, <3>2 DEF Past
    <3> QED
      BY <2>1, <3>1, <3>2
  <2> QED
    BY <2>3 DEF AckedPast
<1>5. ASSUME NEW w \in Writers, CallStep(w), ~Finish(w)
      PROVE  UNCHANGED acked
  BY <1>5 DEF CallStep, TxConflict, TxClosed, TxLock, TxBegin, Retry, GiveUp, Rollback, allButPc
<1>6. ASSUME NEW w \in Writers, Start(w) \/ BodyEnds(w)
      PROVE  UNCHANGED acked
  BY <1>6 DEF Start, BodyEnds, BodyFails, BodyConflicts, BodyReturns, allButPc
<1>7. ASSUME NEW w \in Writers, BodyStep(w)
      PROVE  UNCHANGED acked
  <2>1. PICK t \in Tx : Body(w, t)
    BY <1>7, BodyStepShape
  <2> QED
    BY <2>1 DEF Body
<1>8. ASSUME Close \/ UNCHANGED vars
      PROVE  UNCHANGED acked
  BY <1>8 DEF Close, vars
<1> QED
  BY <1>3, <1>4, <1>5, <1>6, <1>7, <1>8 DEF Next, Writer

\* A commit is after the cursor of every watcher.
LEMMA StreamBesideWriters ==
  ASSUME Sequential, ViewInv, DatedInv, LogInv, WatchTypes, StreamInv, [Next]_vars,
         UNCHANGED watchVars
  PROVE  StreamInv'
<1>0. TypeOK
  BY DEF ViewInv, LockInv
<1>1. AckedPast'
  BY <1>0, AckedStep DEF StreamInv
<1>2. ASSUME NEW w \in Watchers
      PROVE  StreamOf(w)'
  <2> DEFINE L == Current.changelog
  <2>1. /\ StreamOf(w) /\ cursor[w] \in Nat /\ from[w] \in Nat
    BY DEF StreamInv, WatchTypes
  <2>2. UNCHANGED <<from, cursor, staged, updates, received, wpc>>
    BY DEF watchVars
  <2>3. UNCHANGED Stream(w)
    BY <2>2 DEF Stream
  <2>4. Past(cursor[w])'
    <3>1. Past(cursor[w])
      BY <2>1 DEF StreamOf
    <3>2. cursor[w] <= clock' /\ \A v \in Writers : Started(v)' => cursor[w] < newRevision'[v]
      BY <1>0, <2>1, <3>1, PastKept DEF Past
    <3> QED
      BY <2>2, <3>2 DEF Past
  <2>5. ToldOf(Current'.changelog, from[w], cursor[w]) = ToldOf(L, from[w], cursor[w])
    <3>1. CASE UNCHANGED roots
      BY <3>1 DEF Current
    <3>2. ASSUME NEW v \in Writers, Finish(v), InTx(v)
          PROVE  ToldOf(Current'.changelog, from[w], cursor[w]) = ToldOf(L, from[w], cursor[w])
      <4> DEFINE e == EntryOf(CommittedRoot(v))
      <4>1. /\ Current'.changelog = InsertEntry(L, e)
            /\ e.revision \in Nat /\ cursor[w] < e.revision
        BY <2>1, <3>2, Published DEF EntryOf, StreamOf, Past
      <4> HIDE DEF e, L
      <4>2. Current'.changelog = {x \in L : x.revision # e.revision} \cup {e}
        BY <4>1 DEF InsertEntry
      <4>3. ~(e.revision <= cursor[w])
        BY <2>1, <4>1
      <4>4. \A r : r \in ToldOf(L, from[w], cursor[w]) <=> r \in ToldOf(Current'.changelog, from[w], cursor[w])
        BY <4>2, <4>3 DEF ToldOf
      <4>5. \A r \in ToldOf(Current'.changelog, from[w], cursor[w]) : r \in ToldOf(L, from[w], cursor[w])
        BY <4>4
      <4> QED
        BY <4>4
    <3> QED
      BY <1>0, <3>1, <3>2, RootsStep
  <2> QED
    BY <2>1, <2>2, <2>3, <2>4, <2>5 DEF StreamOf, ToldOf, Tells, RelationshipChanges,
       ChangedDefinitions, DeletedDefinitions
<1> QED
  BY <1>1, <1>2 DEF StreamInv

----------------------------------------------------------------------------
\* What a step of a watcher leaves of the streams of others.
LEMMA OtherStreams ==
  ASSUME StreamInv, UNCHANGED vars, NEW w \in Watchers,
         \A v \in Watchers \ {w} :
           /\ from'[v] = from[v] /\ cursor'[v] = cursor[v] /\ staged'[v] = staged[v]
           /\ updates'[v] = updates[v] /\ received'[v] = received[v] /\ wpc'[v] = wpc[v],
         StreamOf(w)'
  PROVE  StreamInv'
<1>1. /\ acked' = acked /\ clock' = clock /\ roots' = roots
      /\ pc' = pc /\ newRevision' = newRevision
  BY DEF vars, memVars, callVars
<1>2. AckedPast'
  BY <1>1 DEF StreamInv, AckedPast, Past, Started
<1>3. ASSUME NEW v \in Watchers, v # w
      PROVE  StreamOf(v)'
  <2>1. StreamOf(v)
    BY DEF StreamInv
  <2>2. Stream(v)' = Stream(v)
    BY <1>3 DEF Stream
  <2>3. Current'.changelog = Current.changelog
    BY <1>1 DEF Current
  <2>4. Past(cursor[v])'
    BY <1>1, <1>3, <2>1 DEF StreamOf, Past, Started
  <2> QED
    BY <1>3, <2>1, <2>2, <2>3, <2>4 DEF StreamOf, ToldOf, Tells, RelationshipChanges,
       ChangedDefinitions, DeletedDefinitions
<1> QED
  BY <1>2, <1>3 DEF StreamInv

\* A watcher's step keeps its stream exact: it starts it, adds what loadChanges
\* found, or passes an event on.
LEMMA StreamOfWatcher ==
  ASSUME Sequential, TypeOK, DatedInv, LogInv, LogExact, WatchTypes, StreamInv,
         UNCHANGED vars, NEW w \in Watchers, Watcher(w)
  PROVE  StreamInv'
<1> DEFINE L == Current.changelog
           s == Stream(w)
<1>1. /\ acked' = acked /\ clock' = clock /\ roots' = roots
      /\ pc' = pc /\ newRevision' = newRevision
  BY DEF vars, memVars, callVars
<1>2. \A r : Past(r) => Past(r)'
  BY <1>1 DEF Past, Started
<1>3. /\ StreamOf(w) /\ AckedPast
      /\ cursor[w] \in Nat /\ from[w] \in Nat
      /\ received[w] \in Seq(Event) /\ updates[w] \in Seq(Event) /\ staged[w] \in Seq(Event)
      /\ s \in Seq(Event) /\ \A i \in 1..Len(s) : s[i].revision \in Nat
  BY StreamShape DEF StreamInv, WatchTypes
<1>4. Current'.changelog = L
  BY <1>1 DEF Current
<1>5. CASE Watch(w)
  <2>1. PICK ar \in {0} \cup {a.revision : a \in acked} :
          /\ from' = [from EXCEPT ![w] = ar]
          /\ cursor' = [cursor EXCEPT ![w] = ar]
    BY <1>5 DEF Watch
  <2>2. Past(0)
    BY RevisionTypes DEF Past, DatedInv, Dated
  <2>3. Past(ar) /\ ar \in Nat
    BY <1>3, <2>1, <2>2 DEF AckedPast, TypeOK, Ack
  <2>4. /\ s = <<>> /\ Stream(w)' = s
        /\ wpc[w] = "off" /\ wpc' = [wpc EXCEPT ![w] = "load"] /\ staged' = staged
        /\ updates' = updates /\ received' = received
    BY <1>3, <1>5 DEF Watch, At, WGoto, StreamOf, Stream
  <2>5. staged[w] = <<>>
    <3> DEFINE a == Len(received[w])
               b == Len(updates[w])
               e == Len(staged[w])
    <3>1. Len(s) = a + b + e
      BY <1>3, PassedOn DEF Stream
    <3>2. Len(s) = 0
      BY <2>4
    <3>3. a \in Nat /\ b \in Nat /\ e \in Nat
      BY <1>3
    <3> HIDE DEF a, b, e
    <3>4. e = 0
      BY <3>1, <3>2, <3>3
    <3>5. Len(staged[w]) = 0
      BY <3>4 DEF e
    <3> QED
      BY <1>3, <3>5
  <2>6. /\ from'[w] = ar /\ cursor'[w] = ar /\ wpc'[w] = "load"
    BY <2>1, <2>4 DEF WatchTypes
  <2>7. Ordered(<<>>) /\ Told(<<>>) = {} /\ \A i \in 1..Len(<<>>) : FALSE
    BY DEF Ordered, Told
  <2>8. ToldOf(Current.changelog, from[w], cursor[w])' = {}
    <3>1. \A e \in L : ~(ar < e.revision /\ e.revision <= ar)
      BY <2>3 DEF LogInv, Entries
    <3> QED
      BY <1>4, <2>6, <3>1 DEF ToldOf
  <2>9. StreamOf(w)'
    <3>1. Stream(w)' = <<>>
      BY <2>4
    <3>2. Past(cursor[w])'
      BY <1>2, <2>3, <2>6 DEF Past
    <3>3. staged'[w] = <<>>
      BY <2>4, <2>5
    <3>4. Told(Stream(w))' = ToldOf(Current.changelog, from[w], cursor[w])'
      BY <2>7, <2>8, <3>1 DEF Told
    <3>5. Ordered(Stream(w))' /\ \A i \in 1..Len(Stream(w)') : FALSE
      BY <2>7, <3>1 DEF Ordered
    <3> QED
      BY <2>3, <2>6, <3>1, <3>2, <3>3, <3>4, <3>5 DEF StreamOf
  <2> QED
    BY <2>1, <2>4, <2>9, OtherStreams DEF WatchTypes
<1>6. CASE LoadChanges(w)
  <2> DEFINE c == cursor[w]
             entries == EntriesAfter(c)
             t == StagedUpdates(entries)
             d == IF entries = <<>> THEN c ELSE entries[Len(entries)].revision
  <2>1. Loads(t, c, d)
    BY <1>3, EntriesLoaded
  <2>2. /\ staged' = [staged EXCEPT ![w] = t] /\ cursor' = [cursor EXCEPT ![w] = d]
        /\ wpc[w] = "load" /\ wpc' = [wpc EXCEPT ![w] = "send"]
        /\ UNCHANGED <<from, updates, received>>
    BY <1>6 DEF LoadChanges, At, WGoto
  <2> HIDE DEF t, d
  <2>3. staged'[w] = t /\ cursor'[w] = d /\ wpc'[w] = "send" /\ from'[w] = from[w]
    BY <2>2 DEF WatchTypes
  <2>4. /\ t \in Seq(Event) /\ Ordered(t) /\ d \in Nat /\ c <= d
        /\ Told(t) = ToldOf(L, c, d)
        /\ \A i \in 1..Len(t) : c < t[i].revision /\ t[i].revision <= d
        /\ d = c \/ \E e \in L : d = e.revision
    BY <2>1 DEF Loads
  <2>5. Stream(w)' = s \o t
    <3>1. staged[w] = <<>>
      BY <1>3, <2>2 DEF StreamOf
    <3>2. s = received[w] \o updates[w]
      <4>1. s = (received[w] \o updates[w]) \o <<>>
        BY <3>1 DEF Stream
      <4> QED
        BY <1>3, <4>1, PassedOn
    <3> QED
      BY <2>2, <2>3, <3>2 DEF Stream
  <2> HIDE DEF s, L
  <2>6. /\ Ordered(s) /\ Told(s) = ToldOf(L, from[w], c) /\ from[w] <= c /\ Past(c)
        /\ \A i \in 1..Len(s) : s[i].revision <= c
    BY <1>3 DEF StreamOf, s, L
  <2>7. \A i \in 1..Len(s) : \A j \in 1..Len(t) : s[i].revision < t[j].revision
    <3>1. \A j \in 1..Len(t) : t[j].revision \in Nat
      <4>1. \A j \in 1..Len(t) : t[j] \in Event
        BY <2>4
      <4> QED
        BY <4>1 DEF Event
    <3> QED
      BY <1>3, <2>4, <2>6, <3>1
  <2>8. /\ s \o t \in Seq(Event) /\ Ordered(s \o t)
        /\ Told(s \o t) = Told(s) \cup Told(t)
        /\ \A i \in 1..Len(s \o t) : \/ \E j \in 1..Len(s) : (s \o t)[i] = s[j]
                                     \/ \E j \in 1..Len(t) : (s \o t)[i] = t[j]
    BY <1>3, <2>4, <2>6, <2>7, EventsJoined
  <2>9. ToldOf(L, from[w], c) \cup ToldOf(L, c, d) = ToldOf(L, from[w], d)
    <3>1. \A e \in L : e.revision \in Nat
      BY DEF LogInv, Entries, L
    <3>2. \A e \in L : (from[w] < e.revision /\ e.revision <= d)
                         <=> \/ from[w] < e.revision /\ e.revision <= c
                             \/ c < e.revision /\ e.revision <= d
      BY <1>3, <2>4, <2>6, <3>1
    <3> QED
      BY <3>2 DEF ToldOf
  <2>10. \A i \in 1..Len(s \o t) : (s \o t)[i].revision <= d
    <3>1. \A j \in 1..Len(s) : s[j].revision <= d
      BY <1>3, <2>4, <2>6
    <3> QED
      BY <2>4, <2>8, <3>1
  <2>11. Past(d)
    <3>1. CASE d = c
      BY <2>6, <3>1
    <3>2. ASSUME NEW e \in L, d = e.revision PROVE Past(d)
      <4>1. PICK i \in 2..Len(roots) : e = EntryOf(roots[i])
        BY <3>2 DEF LogExact, L
      <4>2. i \in 1..Len(roots) /\ d = roots[i].revision
        BY <3>2, <4>1 DEF EntryOf
      <4> QED
        BY <4>2, CommitPast
    <3> QED
      BY <2>4, <3>1, <3>2
  <2>12. StreamOf(w)'
    <3>1. Past(cursor[w])'
      BY <1>2, <2>3, <2>11 DEF Past
    <3>2. ToldOf(Current.changelog, from[w], cursor[w])' = ToldOf(L, from[w], d)
      BY <1>4, <2>3 DEF ToldOf, Tells, RelationshipChanges, ChangedDefinitions,
         DeletedDefinitions
    <3>3. from'[w] <= cursor'[w]
      BY <1>3, <2>3, <2>4, <2>6
    <3>4. /\ Told(Stream(w))' = Told(s \o t) /\ Ordered(Stream(w))' 
          /\ Told(s \o t) = ToldOf(L, from[w], d)
      BY <2>4, <2>5, <2>6, <2>8, <2>9 DEF Told, Ordered
    <3>5. \A i \in 1..Len(Stream(w)') : Stream(w)'[i].revision <= cursor'[w]
      BY <2>3, <2>5, <2>10
    <3> QED
      BY <2>3, <3>1, <3>2, <3>3, <3>4, <3>5 DEF StreamOf
  <2> QED
    BY <2>2, <2>12, OtherStreams DEF WatchTypes
<1>7. ASSUME UNCHANGED <<from, cursor>>, Stream(w)' = s,
             \A v \in Watchers \ {w} :
               /\ staged'[v] = staged[v] /\ updates'[v] = updates[v]
               /\ received'[v] = received[v] /\ wpc'[v] = wpc[v],
             wpc[w] # "off" => wpc'[w] # "off",
             wpc[w] = "off" => wpc'[w] = "off",
             wpc'[w] \in {"load", "wait"} => staged'[w] = <<>>
      PROVE  StreamInv'
  <2>1. Past(cursor[w])'
    BY <1>2, <1>3, <1>7 DEF StreamOf, Past
  <2>2. ToldOf(Current.changelog, from[w], cursor[w])' = ToldOf(L, from[w], cursor[w])
    BY <1>4, <1>7 DEF ToldOf, Tells, RelationshipChanges, ChangedDefinitions,
       DeletedDefinitions
  <2>3. Told(Stream(w))' = Told(s) /\ (Ordered(Stream(w))' <=> Ordered(s))
    BY <1>7 DEF Told, Ordered
  <2>4. StreamOf(w)'
    BY <1>3, <1>7, <2>1, <2>2, <2>3 DEF StreamOf
  <2> QED
    BY <1>7, <2>4, OtherStreams
<1>8. CASE Send(w)
  <2>1. /\ staged[w] # <<>> /\ wpc[w] \in {"send", "full"}
        /\ updates' = [updates EXCEPT ![w] = Append(@, Head(staged[w]))]
        /\ staged' = [staged EXCEPT ![w] = Tail(@)]
        /\ wpc' = [wpc EXCEPT ![w] = "send"] /\ UNCHANGED <<from, cursor, received>>
    BY <1>8 DEF Send, At, WGoto
  <2>2. Stream(w)' = (received[w] \o Append(updates[w], Head(staged[w]))) \o Tail(staged[w])
    BY <2>1 DEF Stream, WatchTypes
  <2>3. Stream(w)' = s
    <3> DEFINE r == received[w]
               u == updates[w]
               t == staged[w]
    <3>1. s = (r \o u) \o t
      BY DEF Stream
    <3>2. r \in Seq(Event) /\ u \in Seq(Event) /\ t \in Seq(Event) /\ t # <<>>
      BY <1>3, <2>1
    <3>3. Stream(w)' = (r \o Append(u, Head(t))) \o Tail(t)
      BY <2>2
    <3> HIDE DEF s, r, u, t
    <3> QED
      BY <3>1, <3>2, <3>3, PassedOn, SMTT(30)
  <2> QED
    BY <1>7, <2>1, <2>3 DEF WatchTypes
<1>9. CASE Receive(w)
  <2>1. /\ updates[w] # <<>>
        /\ received' = [received EXCEPT ![w] = Append(@, Head(updates[w]))]
        /\ updates' = [updates EXCEPT ![w] = Tail(@)]
        /\ UNCHANGED <<from, cursor, staged, wpc>>
    BY <1>9 DEF Receive
  <2>2. Stream(w)' = (Append(received[w], Head(updates[w])) \o Tail(updates[w])) \o staged[w]
    BY <2>1 DEF Stream, WatchTypes
  <2>3. Stream(w)' = s
    <3> DEFINE r == received[w]
               u == updates[w]
               t == staged[w]
    <3>1. s = (r \o u) \o t
      BY DEF Stream
    <3>2. r \in Seq(Event) /\ u \in Seq(Event) /\ t \in Seq(Event) /\ u # <<>>
      BY <1>3, <2>1
    <3>3. Stream(w)' = (Append(r, Head(u)) \o Tail(u)) \o t
      BY <2>2
    <3> HIDE DEF s, r, u, t
    <3> QED
      BY <3>1, <3>2, <3>3, PassedOn
  <2> QED
    BY <1>3, <1>7, <2>1, <2>3 DEF WatchTypes, StreamOf
<1>10. ASSUME UNCHANGED <<from, cursor, staged, updates, received>>,
              \/ UNCHANGED wpc
              \/ \E p \in WpcValues : /\ wpc' = [wpc EXCEPT ![w] = p]
                                      /\ wpc[w] # "off" /\ p # "off"
                                      /\ p \in {"load", "wait"} => staged[w] = <<>>
       PROVE  StreamInv'
  <2>1. Stream(w)' = s
    BY <1>10 DEF Stream
  <2> QED
    BY <1>3, <1>7, <1>10, <2>1 DEF WatchTypes, StreamOf
<1>11. CASE Cancel(w)
  BY <1>10, <1>11 DEF Cancel
<1>12. CASE LoadClosed(w) \/ FindFull(w) \/ SendTimeout(w) \/ SentAll(w) \/ Wake(w) \/ WatchCanceled(w)
  <2>1. UNCHANGED <<from, cursor, staged, updates, received>>
    BY <1>12 DEF LoadClosed, FindFull, SendTimeout, SentAll, Wake, WatchCanceled
  <2>2. wpc[w] = "wait" => staged[w] = <<>>
    BY <1>3 DEF StreamOf
  <2>3. \E p \in WpcValues : /\ wpc' = [wpc EXCEPT ![w] = p]
                             /\ wpc[w] # "off" /\ p # "off"
                             /\ p \in {"load", "wait"} => staged[w] = <<>>
    BY <1>12, <2>2 DEF LoadClosed, FindFull, SendTimeout, SentAll, Wake, WatchCanceled,
                       At, WGoto, WpcValues
  <2> QED
    BY <1>10, <2>1, <2>3
<1> QED
  BY <1>5, <1>6, <1>8, <1>9, <1>11, <1>12 DEF Watcher, Loop

\* So every watcher's stream stays exact beside calls that do not overlap.
LEMMA StreamInvariant ==
  ASSUME Sequential
  PROVE  WatchSpec => [](ViewInv /\ DatedInv /\ ChangelogComplete /\ LogExact /\ WatchTypes /\ StreamInv)
<1>1. WatchInit => LogExact
  <2> SUFFICES ASSUME WatchInit PROVE LogExact
    OBVIOUS
  <2>1. Len(roots) = 1 /\ roots[1].changelog = {}
    BY DEF WatchInit, Init
  <2> QED
    BY <2>1 DEF LogExact, Current
<1>2. ViewInv /\ LogExact /\ [WatchNext]_allVars => LogExact'
  BY WatchNextShape, LogExactStep
<1>3. /\ TypeOK /\ DatedInv /\ ViewInv /\ LogInv /\ LogExact /\ WatchTypes /\ StreamInv
      /\ [WatchNext]_allVars
      => StreamInv'
  <2> SUFFICES ASSUME TypeOK, DatedInv, ViewInv, LogInv, LogExact, WatchTypes, StreamInv,
                      [WatchNext]_allVars
               PROVE  StreamInv'
    OBVIOUS
  <2>1. CASE UNCHANGED watchVars
    BY <2>1, Sequential, WatchNextShape, StreamBesideWriters
  <2> QED
    BY <2>1, Sequential, WatchNextShape, StreamOfWatcher
<1> QED
  BY <1>1, <1>2, <1>3, StreamInit, Sequential, DatedInvariant, ChangelogKept, WatchSpecImplies,
     WatchTypesInvariant, PTL DEF WatchSpec

\* What a watcher wants is what its stream must tell of.
LEMMA WantedTold ==
  ASSUME TypeOK, ChangelogComplete, LogExact, NEW w \in Watchers
  PROVE  ToldOf(Current.changelog, from[w], cursor[w])
           = {roots[i].revision : i \in {j \in Wanted(w) : roots[j].revision <= cursor[w]}}
<1> DEFINE n == Len(roots)
           L == Current.changelog
<1>1. n \in Nat
  BY DEF TypeOK
<1>2. \A i \in 2..n : EntryOf(roots[i]) \in L
  <2>1. \A i \in 2..n : n \in i..n
    BY <1>1
  <2> QED
    BY <2>1 DEF ChangelogComplete, EntryOf, Current
<1>3. \A e \in L : \E i \in 2..n : e = EntryOf(roots[i])
  BY DEF LogExact
<1>4. \A i \in 2..n : /\ EntryOf(roots[i]).revision = roots[i].revision
                      /\ Tells(EntryOf(roots[i])) <=> Tells(roots[i])
  BY DEF EntryOf, Tells, RelationshipChanges, ChangedDefinitions, DeletedDefinitions
<1>5. Wanted(w) = {i \in 2..n : roots[i].revision > from[w] /\ Tells(roots[i])}
  BY DEF Wanted, Tells
<1> HIDE DEF n, L
<1>6. \A i \in 2..n : roots[i].revision > from[w] <=> from[w] < roots[i].revision
  OBVIOUS
<1> QED
  BY <1>2, <1>3, <1>4, <1>5, <1>6 DEF ToldOf, L

\* Beside calls that do not overlap, a watcher is sent what it wants of the
\* commits up to its cursor and nothing else, in the order of their revisions,
\* whatever is committed while it loads, sends and waits (watch.go:63-147).
THEOREM StreamsExact ==
  ASSUME Sequential
  PROVE  WatchSpec => []StreamExact
<1>1. TypeOK /\ ChangelogComplete /\ LogExact /\ WatchTypes /\ StreamInv => StreamExact
  <2> SUFFICES ASSUME TypeOK, ChangelogComplete, LogExact, WatchTypes, StreamInv,
                      NEW w \in Watchers
               PROVE  LET s == Stream(w)
                      IN  /\ {s[i].revision : i \in {j \in DOMAIN s : ~s[j].checkpoint}}
                               = {roots[i].revision : i \in {j \in Wanted(w) : roots[j].revision <= cursor[w]}}
                          /\ \A i, j \in DOMAIN s : i < j => s[i].revision <= s[j].revision
    BY DEF StreamExact
  <2> DEFINE s == Stream(w)
  <2>1. /\ Ordered(s) /\ Told(s) = ToldOf(Current.changelog, from[w], cursor[w])
        /\ DOMAIN s = 1..Len(s)
    BY StreamShape DEF StreamInv, StreamOf
  <2> HIDE DEF s
  <2>2. {s[i].revision : i \in {j \in DOMAIN s : ~s[j].checkpoint}}
          = {roots[i].revision : i \in {j \in Wanted(w) : roots[j].revision <= cursor[w]}}
    BY <2>1, WantedTold DEF Told
  <2>3. \A i, j \in DOMAIN s : i < j => s[i].revision <= s[j].revision
    BY <2>1 DEF Ordered
  <2> QED
    BY <2>2, <2>3 DEF s
<1>2. ViewInv => TypeOK
  BY DEF ViewInv, LockInv
<1> QED
  BY <1>1, <1>2, Sequential, StreamInvariant, PTL

\* Beside calls that do not overlap, a checkpoint a consumer has received is
\* final: all it wants up to that revision came before, and what comes after it
\* is later (watch.go:132-137).
THEOREM CheckpointsFinal ==
  ASSUME Sequential
  PROVE  WatchSpec => []CheckpointFinal
<1>1. TypeOK /\ ChangelogComplete /\ LogExact /\ WatchTypes /\ StreamInv => CheckpointFinal
  <2> SUFFICES ASSUME TypeOK, ChangelogComplete, LogExact, WatchTypes, StreamInv,
                      NEW w \in Watchers, NEW c \in DOMAIN received[w],
                      received[w][c].checkpoint
               PROVE  /\ \A i \in Wanted(w) : roots[i].revision <= received[w][c].revision =>
                           \E j \in 1..(c - 1) : received[w][j].revision = roots[i].revision
                      /\ \A j \in DOMAIN Stream(w) :
                           j > c => Stream(w)[j].revision > received[w][c].revision
    BY DEF CheckpointFinal
  <2> DEFINE s == Stream(w)
             m == Len(received[w])
  <2>1. /\ Ordered(s) /\ Told(s) = ToldOf(Current.changelog, from[w], cursor[w])
        /\ DOMAIN s = 1..Len(s) /\ Len(s) \in Nat /\ cursor[w] \in Nat
        /\ \A i \in 1..Len(s) : s[i].revision \in Nat /\ s[i].revision <= cursor[w]
    BY StreamShape DEF StreamInv, StreamOf, WatchTypes
  <2>2. m <= Len(s) /\ m \in Nat /\ c \in 1..m /\ \A i \in 1..m : s[i] = received[w][i]
    BY StreamShape DEF WatchTypes
  <2> HIDE DEF s, m
  <2>3. c \in 1..Len(s) /\ s[c] = received[w][c] /\ s[c].checkpoint
    BY <2>1, <2>2
  <2>4. ASSUME NEW i \in Wanted(w), roots[i].revision <= received[w][c].revision
        PROVE  \E j \in 1..(c - 1) : received[w][j].revision = roots[i].revision
    <3>1. i \in 1..Len(roots) /\ roots[i].revision \in Nat
      BY RevisionTypes DEF Wanted
    <3>2. roots[i].revision <= cursor[w]
      BY <2>1, <2>3, <2>4, <3>1
    <3>3. roots[i].revision \in Told(s)
      <4>1. Told(s) = {roots[k].revision : k \in {j \in Wanted(w) : roots[j].revision <= cursor[w]}}
        BY <2>1, WantedTold
      <4> QED
        BY <2>4, <3>2, <4>1
    <3>4. PICK j \in 1..Len(s) : ~s[j].checkpoint /\ s[j].revision = roots[i].revision
      BY <3>3 DEF Told
    <3>5. ~(c < j)
      <4>1. c < j => s[c].revision < s[j].revision
        BY <2>1, <2>3 DEF Ordered
      <4> QED
        BY <2>1, <2>3, <2>4, <3>1, <3>4, <4>1
    <3>6. j \in 1..(c - 1) /\ j \in 1..m
      BY <2>1, <2>2, <2>3, <3>4, <3>5
    <3> QED
      BY <2>2, <3>4, <3>6
  <2>5. ASSUME NEW j \in DOMAIN s, j > c
        PROVE  s[j].revision > received[w][c].revision
    BY <2>1, <2>3, <2>5 DEF Ordered
  <2> QED
    BY <2>4, <2>5 DEF s
<1>2. ViewInv => TypeOK
  BY DEF ViewInv, LockInv
<1> QED
  BY <1>1, <1>2, Sequential, StreamInvariant, PTL
=============================================================================
