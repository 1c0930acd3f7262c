-------------------------- MODULE PathPlanningProofs --------------------------
(***************************************************************************)
(* What the path search returns, for every topology and all limits.  The   *)
(* search and the concatenation it uses are recursive functions; that they *)
(* are defined, and what they compute, is shown by taking the smallest     *)
(* number for which it would fail.                                         *)
(***************************************************************************)
EXTENDS PathPlanning, SequenceTheorems, TLAPS, FiniteSetTheorems, WellFoundedInduction

-----------------------------------------------------------------------------
(* Induction *)

\* A set of natural numbers that is not empty has a least element.
LEMMA LeastNumber ==
  ASSUME NEW T, T \subseteq Nat, T # {}
  PROVE  \E n \in T : \A m \in T : n <= m
<1> DEFINE below(n) == {k \in Nat : k < n}
<1>1. PICK F : F = {below(n) : n \in T}
  OBVIOUS
<1>2. \A n \in Nat : IsFiniteSet(below(n))
  <2> SUFFICES ASSUME NEW n \in Nat PROVE IsFiniteSet(below(n))
    OBVIOUS
  <2>1. below(n) \in SUBSET Nat /\ \A k \in below(n) : k <= n
    OBVIOUS
  <2> HIDE DEF below
  <2> QED BY <2>1, FS_BoundedSetOfNaturals
<1>3. F \subseteq FiniteSubsetsOf(Nat) /\ F # {}
  BY <1>1, <1>2 DEF FiniteSubsetsOf
<1>4. PICK S \in F : \A U \in F : <<U, S>> \notin StrictSubsetOrdering(Nat)
  BY <1>3, WFMin, FS_StrictSubsetOrderingWellFounded
<1>5. PICK n \in T : S = below(n)
  BY <1>1
<1>6. ASSUME NEW m \in T, m < n PROVE FALSE
  <2>1. below(m) \in F
    BY <1>1
  <2>2. below(m) \subseteq below(n) /\ m \in below(n) /\ m \notin below(m)
    BY <1>6
  <2>3. below(m) \in SUBSET Nat /\ below(n) \in SUBSET Nat
    OBVIOUS
  <2> HIDE DEF below
  <2>4. <<below(m), below(n)>> \in StrictSubsetOrdering(Nat)
    BY <2>2, <2>3 DEF StrictSubsetOrdering
  <2> QED BY <1>4, <1>5, <2>1, <2>4
<1>7. n \in Nat /\ \A m \in T : m \in Nat /\ ~(m < n)
  BY <1>6
<1> QED BY <1>7

\* Induction on a set: if it holds zero, and with every number the next one, it
\* holds all of them.
LEMMA SetInduction ==
  ASSUME NEW S, 0 \in S, \A n \in Nat : n \in S => n + 1 \in S
  PROVE  Nat \subseteq S
<1> SUFFICES ASSUME ~(Nat \subseteq S) PROVE FALSE
  OBVIOUS
<1>1. PICK T : T = Nat \ S
  OBVIOUS
<1>2. PICK n \in T : \A m \in T : n <= m
  BY <1>1, LeastNumber
<1>3. n \in Nat /\ n # 0 /\ n \notin S
  BY <1>1
<1>4. n - 1 \in Nat /\ (n - 1) + 1 = n /\ ~(n <= n - 1)
  BY <1>3
<1>5. n - 1 \in S
  BY <1>1, <1>2, <1>4
<1> QED BY <1>3, <1>4, <1>5

-----------------------------------------------------------------------------
(* Concatenation *)

Elements(s) == {s[i] : i \in DOMAIN s}

Distinct(s) == \A i, j \in DOMAIN s : s[i] = s[j] => i = j

\* The elements of a concatenation are those of its parts, and no element occurs
\* twice if none does in a part or in both.
LEMMA ConcatElements ==
  ASSUME NEW S, NEW s \in Seq(S), NEW t \in Seq(S)
  PROVE  /\ s \o t \in Seq(S)
         /\ Elements(s \o t) = Elements(s) \cup Elements(t)
         /\ Distinct(s) /\ Distinct(t) /\ Elements(s) \cap Elements(t) = {} =>
              Distinct(s \o t)
<1>1. PICK u : u = s \o t
  OBVIOUS
<1>2. PICK m \in Nat, n \in Nat : m = Len(s) /\ n = Len(t)
  BY LenProperties
<1>3. /\ u \in Seq(S) /\ Len(u) = m + n
      /\ \A i \in 1..m : u[i] = s[i]
      /\ \A i \in 1..n : u[m + i] = t[i]
  BY <1>1, <1>2, ConcatProperties
<1>4. DOMAIN s = 1..m /\ DOMAIN t = 1..n /\ DOMAIN u = 1..(m + n)
  BY <1>2, <1>3, LenProperties
<1>5. \A i \in DOMAIN u : \/ i \in DOMAIN s /\ u[i] = s[i]
                          \/ i - m \in DOMAIN t /\ u[i] = t[i - m]
  <2> SUFFICES ASSUME NEW i \in 1..(m + n), ~(i \in 1..m)
               PROVE  i - m \in 1..n /\ u[i] = t[i - m]
    BY <1>3, <1>4
  <2>1. i - m \in 1..n /\ m + (i - m) = i
    BY <1>2
  <2> QED BY <1>3, <2>1
<1>6. (\A i \in DOMAIN s : i \in DOMAIN u) /\ (\A i \in DOMAIN t : m + i \in DOMAIN u)
  BY <1>4
<1>7. Elements(u) = Elements(s) \cup Elements(t)
  BY <1>3, <1>4, <1>5, <1>6 DEF Elements
<1>8. ASSUME Distinct(s), Distinct(t), Elements(s) \cap Elements(t) = {}
      PROVE  Distinct(u)
  <2> SUFFICES ASSUME NEW i \in DOMAIN u, NEW j \in DOMAIN u, u[i] = u[j] PROVE i = j
    BY DEF Distinct
  <2>1. i \in Nat /\ j \in Nat
    BY <1>4
  <2>2. CASE /\ i \in DOMAIN s /\ u[i] = s[i]
             /\ j \in DOMAIN s /\ u[j] = s[j]
    BY <1>8, <2>2 DEF Distinct
  <2>3. CASE /\ i - m \in DOMAIN t /\ u[i] = t[i - m]
             /\ j - m \in DOMAIN t /\ u[j] = t[j - m]
    <3>1. i - m = j - m
      BY <1>8, <2>3 DEF Distinct
    <3> QED BY <2>1, <3>1
  <2>4. ASSUME NEW x \in DOMAIN s, NEW y \in DOMAIN t, s[x] = t[y] PROVE FALSE
    BY <1>8, <2>4 DEF Elements
  <2> QED BY <1>5, <2>2, <2>3, <2>4
<1> QED BY <1>1, <1>3, <1>7, <1>8

\* The partial concatenations of FlattenSeq exist: they are built one by one.
LEMMA FlattenDefined ==
  ASSUME NEW ss, NEW n \in Nat
  PROVE  \E f : f = [i \in 1..n |-> IF i = 1 THEN ss[i] ELSE f[i - 1] \o ss[i]]
<1> DEFINE step(f, i) == IF i = 1 THEN ss[i] ELSE f[i - 1] \o ss[i]
<1>1. PICK M : M = {m \in Nat : \E f : /\ DOMAIN f = 1..n /\ f = [i \in 1..n |-> f[i]]
                                       /\ \A i \in 1..n : i <= m => f[i] = step(f, i)}
  OBVIOUS
<1> HIDE DEF step
<1>2. 0 \in M
  <2>1. PICK f : f = [i \in 1..n |-> 0]
    OBVIOUS
  <2>2. DOMAIN f = 1..n /\ f = [i \in 1..n |-> f[i]]
    BY <2>1
  <2>3. \A i \in 1..n : ~(i <= 0)
    OBVIOUS
  <2> QED BY <1>1, <2>2, <2>3
<1>3. ASSUME NEW m \in Nat, m \in M PROVE m + 1 \in M
  <2>1. PICK f : /\ DOMAIN f = 1..n /\ f = [i \in 1..n |-> f[i]]
                 /\ \A i \in 1..n : i <= m => f[i] = step(f, i)
    BY <1>1, <1>3
  <2>2. PICK g : g = [i \in 1..n |-> IF i = m + 1 THEN step(f, i) ELSE f[i]]
    OBVIOUS
  <2>3. /\ DOMAIN g = 1..n /\ g = [i \in 1..n |-> g[i]]
        /\ \A i \in 1..n : g[i] = IF i = m + 1 THEN step(f, i) ELSE f[i]
    BY <2>2
  <2>4. \A i \in 1..n : i <= m + 1 /\ i # 1 => g[i - 1] = f[i - 1]
    BY <2>3
  <2>5. \A i \in 1..n : i <= m + 1 => step(g, i) = step(f, i)
    BY <2>4 DEF step
  <2>6. \A i \in 1..n : i <= m + 1 => g[i] = step(f, i)
    BY <2>1, <2>3
  <2>7. m + 1 \in Nat
    OBVIOUS
  <2> QED BY <1>1, <2>3, <2>5, <2>6, <2>7
<1>4. n \in M
  BY <1>2, <1>3, SetInduction
<1>5. PICK f : /\ DOMAIN f = 1..n /\ f = [i \in 1..n |-> f[i]]
               /\ \A i \in 1..n : i <= n => f[i] = step(f, i)
  BY <1>1, <1>4
<1>6. f = [i \in 1..n |-> step(f, i)]
  BY <1>5
<1> QED BY <1>6 DEF step

\* What FlattenSeq returns: the elements of all parts, none of them twice if no
\* part holds one twice and no two parts share one.
LEMMA FlattenElements ==
  ASSUME NEW S, NEW ss \in Seq(Seq(S))
  PROVE  /\ Seqs!FlattenSeq(ss) \in Seq(S)
         /\ Elements(Seqs!FlattenSeq(ss)) = UNION {Elements(ss[i]) : i \in DOMAIN ss}
         /\ /\ \A i \in DOMAIN ss : Distinct(ss[i])
            /\ \A i, j \in DOMAIN ss : i # j => Elements(ss[i]) \cap Elements(ss[j]) = {}
            => Distinct(Seqs!FlattenSeq(ss))
<1>1. PICK n \in Nat : n = Len(ss)
  BY LenProperties
<1>2. DOMAIN ss = 1..n /\ \A i \in 1..n : ss[i] \in Seq(S)
  BY <1>1, LenProperties, ElementOfSeq
<1>3. CASE n = 0
  <2>1. Seqs!FlattenSeq(ss) = ss /\ DOMAIN ss = {}
    BY <1>1, <1>2, <1>3 DEF Seqs!FlattenSeq
  <2>2. ss = << >>
    BY <1>1, <1>3, EmptySeq
  <2> QED BY <2>1, <2>2, EmptySeq DEF Elements, Distinct
<1>4. CASE n # 0
  <2>1. PICK f : /\ f = [i \in 1..n |-> IF i = 1 THEN ss[i] ELSE f[i - 1] \o ss[i]]
                 /\ f = CHOOSE g : g = [i \in 1..n |-> IF i = 1 THEN ss[i]
                                                       ELSE g[i - 1] \o ss[i]]
    BY FlattenDefined, Zenon
  <2>2. Seqs!FlattenSeq(ss) = f[n]
    BY <1>1, <1>4, <2>1, Zenon DEF Seqs!FlattenSeq
  <2>3. /\ f[1] = ss[1]
        /\ \A i \in 1..n : i # 1 => f[i] = f[i - 1] \o ss[i]
    <3>1. f = [i \in 1..n |-> IF i = 1 THEN ss[i] ELSE f[i - 1] \o ss[i]]
      BY <2>1, Zenon
    <3>2. \A i \in 1..n : f[i] = IF i = 1 THEN ss[i] ELSE f[i - 1] \o ss[i]
      BY <3>1, Zenon
    <3>3. 1 \in 1..n
      BY <1>4
    <3> QED BY <3>2, <3>3, Zenon
  <2> DEFINE Apart == /\ \A i \in 1..n : Distinct(ss[i])
                      /\ \A i, j \in 1..n : i # j =>
                           Elements(ss[i]) \cap Elements(ss[j]) = {}
             Upto(i) == UNION {Elements(ss[h]) : h \in 1..i}
             Good(i) == /\ f[i] \in Seq(S) /\ Elements(f[i]) = Upto(i)
                        /\ Apart => Distinct(f[i])
  <2>4. Good(1)
    <3>1. Upto(1) = Elements(ss[1])
      <4>1. \A h \in 1..1 : h = 1
        OBVIOUS
      <4>2. 1 \in 1..1
        OBVIOUS
      <4> QED BY <4>1, <4>2
    <3>2. 1 \in 1..n
      BY <1>4
    <3> HIDE DEF Upto
    <3> QED BY <1>2, <2>3, <3>1, <3>2
  <2>5. ASSUME NEW i \in Nat, i + 1 \in 1..n, i # 0, Good(i) PROVE Good(i + 1)
    <3>1. i \in 1..n /\ i + 1 # 1 /\ (i + 1) - 1 = i
      BY <2>5
    <3>2. f[i + 1] = f[i] \o ss[i + 1]
      BY <2>3, <2>5, <3>1
    <3>3. ss[i + 1] \in Seq(S)
      BY <1>2, <2>5
    <3>4. Upto(i + 1) = Upto(i) \cup Elements(ss[i + 1])
      <4>1. 1..(i + 1) = (1..i) \cup {i + 1}
        BY <2>5
      <4> QED BY <4>1
    <3>5. ASSUME Apart PROVE Upto(i) \cap Elements(ss[i + 1]) = {}
      <4>1. \A h \in 1..i : h \in 1..n /\ h # i + 1
        BY <2>5
      <4>2. \A h \in 1..i : Elements(ss[h]) \cap Elements(ss[i + 1]) = {}
        BY <2>5, <3>5, <4>1
      <4> QED BY <4>2
    <3>6. Apart => Distinct(ss[i + 1])
      BY <2>5
    <3> HIDE DEF Upto, Apart
    <3>7. PICK s \in Seq(S), v \in Seq(S) : s = f[i] /\ v = ss[i + 1]
      BY <2>5, <3>3
    <3>8. /\ s \o v \in Seq(S) /\ Elements(s \o v) = Elements(s) \cup Elements(v)
          /\ Distinct(s) /\ Distinct(v) /\ Elements(s) \cap Elements(v) = {} =>
               Distinct(s \o v)
      BY ConcatElements
    <3>9. f[i + 1] = s \o v
      BY <3>2, <3>7, Zenon
    <3> QED BY <2>5, <3>4, <3>5, <3>6, <3>7, <3>8, <3>9, Zenon
  <2>6. Good(n)
    <3>1. PICK M : M = {i \in Nat : i + 1 \in 1..n => Good(i + 1)}
      OBVIOUS
    <3> HIDE DEF Good
    <3>2. 0 \in M
      BY <2>4, <3>1
    <3>3. ASSUME NEW i \in Nat, i \in M PROVE i + 1 \in M
      <4>1. i + 1 \in Nat /\ i + 1 # 0
        OBVIOUS
      <4>2. (i + 1) + 1 \in 1..n => i + 1 \in 1..n
        OBVIOUS
      <4> QED BY <2>5, <3>1, <3>3, <4>1, <4>2
    <3>4. n - 1 \in Nat /\ (n - 1) + 1 = n /\ n \in 1..n
      BY <1>4
    <3>5. n - 1 \in M
      BY <3>2, <3>3, <3>4, SetInduction
    <3> QED BY <3>1, <3>4, <3>5
  <2> QED BY <1>2, <2>2, <2>6
<1> QED BY <1>3, <1>4

-----------------------------------------------------------------------------
(* Adjacency lists *)

\* What the search needs of a view: finitely many links, between two devices.
Routable(view) ==
  /\ DOMAIN view.links \subseteq LinkId /\ IsFiniteSet(DOMAIN view.links)
  /\ \A l \in DOMAIN view.links :
       /\ view.links[l].source \in DeviceId /\ view.links[l].target \in DeviceId
       /\ view.links[l].source # view.links[l].target

Sorted(s) == \A i, j \in DOMAIN s : i < j => s[i].link < s[j].link

\* Out of a device there is at most one edge per link, and it leads elsewhere.
LEMMA EdgesFrom ==
  ASSUME NEW view, Routable(view), NEW d
  PROVE  /\ edges_from(view, d) \subseteq Edge
         /\ IsFiniteSet(edges_from(view, d))
         /\ \A e, f \in edges_from(view, d) : e.link = f.link => e = f
         /\ \A e \in edges_from(view, d) : e.link \in Nat /\ e.to # d
<1>1. PICK E : E = edges_from(view, d)
  OBVIOUS
<1>2. \A e \in E : \E l \in DOMAIN view.links :
        \/ e = [link |-> l, to |-> view.links[l].target] /\ view.links[l].source = d
        \/ e = [link |-> l, to |-> view.links[l].source] /\ view.links[l].target = d
  BY <1>1 DEF edges_from
<1>3. \A e \in E : /\ e \in Edge /\ e.link \in DOMAIN view.links /\ e.to # d
                   /\ e = [link |-> e.link, to |-> e.to]
                   /\ \/ e.to = view.links[e.link].target /\ view.links[e.link].source = d
                      \/ e.to = view.links[e.link].source /\ view.links[e.link].target = d
  BY <1>2 DEF Routable, Edge
<1>4. \A e, f \in E : e.link = f.link => e = f
  <2> SUFFICES ASSUME NEW e \in E, NEW f \in E, e.link = f.link PROVE e = f
    OBVIOUS
  <2>1. view.links[e.link].source # view.links[e.link].target
    BY <1>3 DEF Routable
  <2>2. e.to = f.to
    BY <1>3, <2>1
  <2> QED BY <1>3, <2>2
<1>5. PICK h : h = [e \in E |-> e.link]
  OBVIOUS
<1>6. h \in Injection(E, DOMAIN view.links)
  BY <1>3, <1>4, <1>5 DEF Injection, IsInjective
<1>7. IsFiniteSet(E)
  BY <1>6, FS_Injection DEF Routable
<1> QED BY <1>1, <1>3, <1>4, <1>7, LinkIdsOrdered DEF Routable

\* Any finite set of edges with different links can be listed by link identity:
\* the least of them first.
LEMMA SortedExists ==
  ASSUME NEW E, IsFiniteSet(E), \A e \in E : e.link \in Nat,
         \A e, f \in E : e.link = f.link => e = f
  PROVE  \E s \in [1..Cardinality(E) -> E] : Sorted(s)
<1>1. PICK M : M = {n \in Nat : \A U \in SUBSET E :
                      Cardinality(U) = n => \E s \in [1..n -> U] : Sorted(s)}
  OBVIOUS
<1>2. 0 \in M
  <2>1. ASSUME NEW U \in SUBSET E, Cardinality(U) = 0
        PROVE  \E s \in [1..0 -> U] : Sorted(s)
    <3>1. 1..0 = {}
      OBVIOUS
    <3>2. PICK s : s = [i \in {} |-> 0]
      OBVIOUS
    <3>3. s \in [1..0 -> U] /\ Sorted(s)
      BY <3>1, <3>2 DEF Sorted
    <3> QED BY <3>3
  <2> QED BY <1>1, <2>1
<1>3. ASSUME NEW n \in Nat, n \in M PROVE n + 1 \in M
  <2> SUFFICES ASSUME NEW U \in SUBSET E, Cardinality(U) = n + 1
               PROVE  \E s \in [1..(n + 1) -> U] : Sorted(s)
    BY <1>1
  <2>1. IsFiniteSet(U)
    BY FS_Subset
  <2>2. U # {}
    BY <2>1, FS_EmptySet
  <2>3. PICK L : L = {e.link : e \in U}
    OBVIOUS
  <2>4. PICK k \in L : \A l \in L : k <= l
    <3>1. L \subseteq Nat /\ L # {}
      BY <2>2, <2>3
    <3> QED BY <3>1, LeastNumber
  <2>5. PICK e \in U : e.link = k
    BY <2>3, <2>4
  <2>6. \A f \in U \ {e} : e.link < f.link
    <3> SUFFICES ASSUME NEW f \in U \ {e} PROVE e.link < f.link
      OBVIOUS
    <3>1. e.link <= f.link /\ e.link # f.link /\ e.link \in Nat /\ f.link \in Nat
      BY <2>3, <2>4, <2>5
    <3> QED BY <3>1
  <2>7. PICK V : V = U \ {e}
    OBVIOUS
  <2>8. V \in SUBSET E /\ Cardinality(V) = n
    <3>1. Cardinality(U \ {e}) = Cardinality(U) - 1
      BY <2>1, <2>5, FS_RemoveElement, Zenon
    <3>2. Cardinality(U) - 1 = n
      OBVIOUS
    <3> QED BY <2>7, <3>1, <3>2
  <2>9. PICK t \in [1..n -> V] : Sorted(t)
    BY <1>1, <1>3, <2>8
  <2>10. PICK s : s = [i \in 1..(n + 1) |-> IF i = 1 THEN e ELSE t[i - 1]]
    OBVIOUS
  <2>11. \A i \in 1..(n + 1) : i # 1 => i - 1 \in 1..n
    OBVIOUS
  <2>12. /\ DOMAIN s = 1..(n + 1) /\ 1 \in 1..(n + 1) /\ s[1] = e
         /\ \A i \in 1..(n + 1) : i # 1 => s[i] = t[i - 1] /\ s[i] \in V
    BY <2>9, <2>10, <2>11
  <2>13. s \in [1..(n + 1) -> U]
    BY <2>7, <2>10, <2>12
  <2>14. Sorted(s)
    <3> SUFFICES ASSUME NEW i \in 1..(n + 1), NEW j \in 1..(n + 1), i < j
                 PROVE  s[i].link < s[j].link
      BY <2>12 DEF Sorted
    <3>1. j # 1
      OBVIOUS
    <3>2. CASE i = 1
      BY <2>6, <2>7, <2>12, <3>1, <3>2
    <3>3. CASE i # 1
      <4>1. i - 1 \in 1..n /\ j - 1 \in 1..n /\ i - 1 < j - 1
        BY <3>1, <3>3
      <4>2. t[i - 1].link < t[j - 1].link
        BY <2>9, <4>1 DEF Sorted
      <4> QED BY <2>12, <3>1, <3>3, <4>2
    <3> QED BY <3>2, <3>3
  <2> QED BY <2>13, <2>14
<1>4. Cardinality(E) \in M
  BY <1>2, <1>3, SetInduction, FS_CardinalityType
<1> QED BY <1>1, <1>4

\* The adjacency list of a device holds each of its edges exactly once.
LEMMA Adjacency ==
  ASSUME NEW view, Routable(view), NEW d
  PROVE  /\ build_adjacency(view, d) \in Seq(edges_from(view, d))
         /\ Distinct(build_adjacency(view, d))
         /\ Elements(build_adjacency(view, d)) = edges_from(view, d)
<1>1. PICK E : E = edges_from(view, d)
  OBVIOUS
<1>2. /\ IsFiniteSet(E) /\ \A e \in E : e.link \in Nat
      /\ \A e, f \in E : e.link = f.link => e = f
  BY <1>1, EdgesFrom
<1>3. PICK n \in Nat : n = Cardinality(E)
  BY <1>2, FS_CardinalityType
<1>4. \E s \in [1..n -> E] : Sorted(s)
  BY <1>2, <1>3, SortedExists
<1>5. PICK s \in [1..n -> E] : Sorted(s) /\ s = build_adjacency(view, d)
  BY <1>1, <1>3, <1>4, Zenon DEF Sorted, build_adjacency
<1>6. s \in Seq(E)
  BY SeqDef, LenProperties
<1>7. Distinct(s)
  <2> SUFFICES ASSUME NEW i \in 1..n, NEW j \in 1..n, s[i] = s[j], i # j PROVE FALSE
    BY DEF Distinct
  <2>1. i < j \/ j < i
    OBVIOUS
  <2>2. s[i].link < s[j].link \/ s[j].link < s[i].link
    BY <1>5, <2>1 DEF Sorted
  <2>3. s[i].link \in Nat
    BY <1>2
  <2> QED BY <2>2, <2>3
<1>8. s \in Injection(1..n, E)
  BY <1>7 DEF Injection, IsInjective, Distinct
<1>9. IsFiniteSet(1..n) /\ Cardinality(1..n) = n
  BY FS_Interval
<1>10. s \in Surjection(1..n, E)
  BY <1>2, <1>3, <1>8, <1>9, FS_Injection
<1>11. Elements(s) = E
  BY <1>10 DEF Surjection, Elements
<1> QED BY <1>1, <1>5, <1>6, <1>7, <1>11

-----------------------------------------------------------------------------
(* The search *)

\* The parts of dfs, with the function it defines as a parameter.
last_device(src, p) == IF p = << >> THEN src ELSE p[Len(p)].to

visited(src, p) == {src} \cup {p[i].to : i \in DOMAIN p}

branch(f, src, tgt, p, e) ==
  IF e.to \in visited(src, p) THEN << >>
  ELSE IF e.to = tgt THEN << Append(p, e) >>
  ELSE IF Len(p) + 1 < max_path_depth THEN f[Append(p, e)]
  ELSE << >>

branches(f, view, src, tgt, p) ==
  LET adj == build_adjacency(view, last_device(src, p))
  IN  [i \in DOMAIN adj |-> branch(f, src, tgt, p, adj[i])]

\* f is the function that dfs defines.
Search(f, view, src, tgt) ==
  f = [p \in Seq(Edge) |-> Seqs!FlattenSeq(branches(f, view, src, tgt, p))]

\* dfs starts the search at the source.
LEMMA SearchFromSource ==
  ASSUME NEW view, NEW src, NEW tgt
  PROVE  dfs(view, src, tgt) = (CHOOSE f : Search(f, view, src, tgt))[<< >>]
BY Zenon DEF dfs, Search, branches, branch, visited, last_device

\* The branches at a path depend on the search of its extensions only, and not
\* on that at the depth limit.
LEMMA BranchesDepend ==
  ASSUME NEW view, Routable(view), NEW src, NEW tgt, NEW p \in Seq(Edge), NEW f, NEW g,
         \A e \in Edge : Len(p) + 1 < max_path_depth => f[Append(p, e)] = g[Append(p, e)]
  PROVE  branches(f, view, src, tgt, p) = branches(g, view, src, tgt, p)
<1>1. PICK adj : adj = build_adjacency(view, last_device(src, p))
  OBVIOUS
<1>2. \A i \in DOMAIN adj : adj[i] \in Edge
  <2>1. PICK E : E = edges_from(view, last_device(src, p))
    OBVIOUS
  <2>2. adj \in Seq(E) /\ E \subseteq Edge
    BY <1>1, <2>1, Adjacency, EdgesFrom
  <2>3. \A i \in DOMAIN adj : adj[i] \in E
    BY <2>2, LenProperties, ElementOfSeq
  <2> QED BY <2>2, <2>3
<1>3. \A i \in DOMAIN adj : branch(f, src, tgt, p, adj[i]) = branch(g, src, tgt, p, adj[i])
  BY <1>2, Zenon DEF branch
<1> QED BY <1>1, <1>3, Zenon DEF branches

\* The recursion of dfs is well-founded: the paths that are longer by one are
\* searched first.
LEMMA SearchDefined ==
  ASSUME NEW view, Routable(view), NEW src, NEW tgt
  PROVE  \E f : Search(f, view, src, tgt)
<1> DEFINE next(f, p) == Seqs!FlattenSeq(branches(f, view, src, tgt, p))
<1>1. PICK M : M = {n \in Nat :
                      \E f : \A p \in Seq(Edge) :
                        Len(p) + n >= max_path_depth => f[p] = next(f, p)}
  OBVIOUS
<1>2. \A p \in Seq(Edge) : Len(p) \in Nat
  BY LenProperties
<1>3. ASSUME NEW p \in Seq(Edge), NEW f, NEW g,
             \A e \in Edge : Len(p) + 1 < max_path_depth =>
                               f[Append(p, e)] = g[Append(p, e)]
      PROVE  next(f, p) = next(g, p)
  BY <1>3, BranchesDepend, Zenon
<1> HIDE DEF next
<1>4. 0 \in M
  <2>1. PICK f : f = [p \in Seq(Edge) |-> next(0, p)]
    OBVIOUS
  <2>2. \A p \in Seq(Edge) : f[p] = next(0, p)
    BY <2>1
  <2>3. ASSUME NEW p \in Seq(Edge), Len(p) + 0 >= max_path_depth
        PROVE  f[p] = next(f, p)
    <3>1. ~(Len(p) + 1 < max_path_depth)
      BY <1>2, <2>3, PathLimits
    <3>2. next(0, p) = next(f, p)
      BY <1>3, <3>1
    <3> QED BY <2>2, <3>2
  <2> QED BY <1>1, <2>3
<1>5. ASSUME NEW n \in Nat, n \in M PROVE n + 1 \in M
  <2>1. PICK f : \A p \in Seq(Edge) : Len(p) + n >= max_path_depth => f[p] = next(f, p)
    BY <1>1, <1>5
  <2>2. PICK g : g = [p \in Seq(Edge) |-> next(f, p)]
    OBVIOUS
  <2>3. \A p \in Seq(Edge) : g[p] = next(f, p)
    BY <2>2
  <2>4. ASSUME NEW p \in Seq(Edge), Len(p) + (n + 1) >= max_path_depth
        PROVE  g[p] = next(g, p)
    <3>1. ASSUME NEW e \in Edge PROVE f[Append(p, e)] = g[Append(p, e)]
      <4>1. PICK q \in Seq(Edge) : q = Append(p, e) /\ Len(q) = Len(p) + 1
        BY AppendProperties
      <4>2. Len(q) + n >= max_path_depth
        BY <1>2, <2>4, <4>1, PathLimits
      <4> QED BY <2>1, <2>3, <4>1, <4>2
    <3>2. next(f, p) = next(g, p)
      BY <1>3, <3>1
    <3> QED BY <2>3, <3>2
  <2> QED BY <1>1, <2>4
<1>6. max_path_depth \in M
  BY <1>4, <1>5, SetInduction, PathLimits
<1>7. PICK f : \A p \in Seq(Edge) : Len(p) + max_path_depth >= max_path_depth =>
                                      f[p] = next(f, p)
  BY <1>1, <1>6
<1>8. \A p \in Seq(Edge) : f[p] = next(f, p)
  BY <1>2, <1>7, PathLimits
<1>9. PICK g : g = [p \in Seq(Edge) |-> f[p]]
  OBVIOUS
<1>10. \A p \in Seq(Edge) : g[p] = f[p]
  BY <1>9
<1>11. \A p \in Seq(Edge) : next(f, p) = next(g, p)
  <2> SUFFICES ASSUME NEW p \in Seq(Edge) PROVE next(f, p) = next(g, p)
    OBVIOUS
  <2>1. \A e \in Edge : Append(p, e) \in Seq(Edge)
    BY AppendProperties
  <2> QED BY <1>3, <1>10, <2>1
<1>12. g = [p \in Seq(Edge) |-> next(g, p)]
  BY <1>8, <1>9, <1>10, <1>11
<1> QED BY <1>12, Zenon DEF Search, next

-----------------------------------------------------------------------------
(* What the search finds *)

depth == IF max_path_depth = 0 THEN 1 ELSE max_path_depth

\* A path out of src that visits no device twice.
Walk(view, src, p) ==
  /\ p \in Seq(Edge)
  /\ \A i \in 1..Len(p) : p[i] \in edges_from(view, device_at(src, p, i - 1))
  /\ \A i, j \in 0..Len(p) : i # j => device_at(src, p, i) # device_at(src, p, j)

\* The search goes on at p.
Open(view, src, tgt, p) ==
  Walk(view, src, p) /\ tgt \notin visited(src, p) /\ Len(p) < depth

\* The paths to find that go on from p, and those whose next hop is e.
Beyond(view, src, tgt, p) ==
  {q \in Seq(Edge) : /\ Walk(view, src, q) /\ Len(q) <= depth
                     /\ Len(p) < Len(q) /\ \A i \in 1..Len(p) : q[i] = p[i]
                     /\ device_at(src, q, Len(q)) = tgt}

Via(view, src, tgt, p, e) ==
  {q \in Beyond(view, src, tgt, p) : q[Len(p) + 1] = e}

\* s lists the set Q.
Lists(s, Q) == s \in Seq(Q) /\ Elements(s) = Q /\ Distinct(s)

\* The devices on a path.
LEMMA Devices ==
  ASSUME NEW src, NEW p \in Seq(Edge)
  PROVE  /\ last_device(src, p) = device_at(src, p, Len(p))
         /\ visited(src, p) = {device_at(src, p, i) : i \in 0..Len(p)}
<1>1. Len(p) \in Nat /\ DOMAIN p = 1..Len(p) /\ (Len(p) = 0 <=> p = << >>)
  BY LenProperties, EmptySeq
<1>2. last_device(src, p) = device_at(src, p, Len(p))
  BY <1>1 DEF last_device, device_at
<1>3. /\ 0 \in 0..Len(p) /\ device_at(src, p, 0) = src
      /\ \A i \in 1..Len(p) : i \in 0..Len(p) /\ device_at(src, p, i) = p[i].to
      /\ \A i \in 0..Len(p) : i = 0 \/ i \in 1..Len(p)
  BY <1>1 DEF device_at
<1> QED BY <1>1, <1>2, <1>3 DEF visited

\* The devices on a path that starts with another one.
LEMMA SharedDevices ==
  ASSUME NEW src, NEW p \in Seq(Edge), NEW q \in Seq(Edge), Len(p) <= Len(q),
         \A i \in 1..Len(p) : q[i] = p[i]
  PROVE  \A i \in 0..Len(p) : device_at(src, q, i) = device_at(src, p, i)
BY LenProperties DEF device_at

\* A path with one more hop.
LEMMA Hop ==
  ASSUME NEW src, NEW p \in Seq(Edge), NEW e \in Edge
  PROVE  \E q \in Seq(Edge) :
           /\ q = Append(p, e) /\ Len(q) = Len(p) + 1
           /\ \A i \in 1..Len(p) : q[i] = p[i]
           /\ q[Len(p) + 1] = e
           /\ \A i \in 0..Len(p) : device_at(src, q, i) = device_at(src, p, i)
           /\ device_at(src, q, Len(p) + 1) = e.to
<1>1. PICK q : q = Append(p, e)
  OBVIOUS
<1>2. /\ q \in Seq(Edge) /\ Len(q) = Len(p) + 1
      /\ \A i \in 1..Len(p) : q[i] = p[i]
      /\ q[Len(p) + 1] = e
  BY <1>1, AppendProperties
<1>3. Len(p) \in Nat
  BY LenProperties
<1>4. Len(p) <= Len(q)
  BY <1>2, <1>3
<1>5. \A i \in 0..Len(p) : device_at(src, q, i) = device_at(src, p, i)
  BY <1>2, <1>4, SharedDevices
<1>6. device_at(src, q, Len(p) + 1) = e.to
  BY <1>2, <1>3 DEF device_at
<1> QED BY <1>1, <1>2, <1>5, <1>6

\* A walk goes on with an edge to a device that is not visited yet.
LEMMA WalkOn ==
  ASSUME NEW view, NEW src, NEW p, Walk(view, src, p), NEW e \in Edge,
         e \in edges_from(view, last_device(src, p)), e.to \notin visited(src, p),
         NEW q, q = Append(p, e)
  PROVE  Walk(view, src, q)
<1>1. PICK n \in Nat : n = Len(p)
  BY LenProperties DEF Walk
<1>2. p \in Seq(Edge)
  BY DEF Walk
<1>3. /\ q \in Seq(Edge) /\ Len(q) = n + 1
      /\ \A i \in 1..n : q[i] = p[i]
      /\ q[n + 1] = e
      /\ \A i \in 0..n : device_at(src, q, i) = device_at(src, p, i)
      /\ device_at(src, q, n + 1) = e.to
  <2>1. PICK r \in Seq(Edge) :
          /\ r = Append(p, e) /\ Len(r) = Len(p) + 1
          /\ \A i \in 1..Len(p) : r[i] = p[i]
          /\ r[Len(p) + 1] = e
          /\ \A i \in 0..Len(p) : device_at(src, r, i) = device_at(src, p, i)
          /\ device_at(src, r, Len(p) + 1) = e.to
    BY <1>2, Hop, ZenonT(60)
  <2>2. r = q
    BY <2>1
  <2> QED BY <1>1, <2>1, <2>2
<1>4. \A i \in 1..(n + 1) : q[i] \in edges_from(view, device_at(src, q, i - 1))
  <2> SUFFICES ASSUME NEW i \in 1..(n + 1)
               PROVE  q[i] \in edges_from(view, device_at(src, q, i - 1))
    OBVIOUS
  <2>1. CASE i = n + 1
    <3>1. device_at(src, q, n) = last_device(src, p)
      BY <1>1, <1>2, <1>3, Devices
    <3>2. i - 1 = n
      BY <2>1
    <3> QED BY <1>3, <2>1, <3>1, <3>2
  <2>2. CASE i # n + 1
    <3>1. i \in 1..n /\ i - 1 \in 0..n
      BY <2>2
    <3> QED BY <1>1, <1>3, <3>1 DEF Walk
  <2> QED BY <2>1, <2>2
<1>5. \A i \in 0..n : device_at(src, q, i) # e.to
  BY <1>1, <1>2, <1>3, Devices
<1>6. \A i, j \in 0..(n + 1) : i # j => device_at(src, q, i) # device_at(src, q, j)
  <2> SUFFICES ASSUME NEW i \in 0..(n + 1), NEW j \in 0..(n + 1), i # j
               PROVE  device_at(src, q, i) # device_at(src, q, j)
    OBVIOUS
  <2>1. \A k \in 0..(n + 1) : k = n + 1 \/ k \in 0..n
    OBVIOUS
  <2>2. CASE i \in 0..n /\ j \in 0..n
    BY <1>1, <1>3, <2>2 DEF Walk
  <2> QED BY <1>3, <1>5, <2>1, <2>2
<1> QED BY <1>3, <1>4, <1>6 DEF Walk

\* Each branch at an open path lists the paths that go on through its edge: none
\* when the edge returns to the path, the path itself when it reaches the
\* target, and otherwise what the search finds from there, unless the depth
\* limit leaves no room for another hop.
LEMMA BranchLists ==
  ASSUME NEW view, NEW src, NEW tgt, NEW p, Open(view, src, tgt, p),
         NEW e \in Edge, e \in edges_from(view, last_device(src, p)),
         NEW f, Len(p) + 1 < max_path_depth /\ Open(view, src, tgt, Append(p, e)) =>
                  Lists(f[Append(p, e)], Beyond(view, src, tgt, Append(p, e)))
  PROVE  Lists(branch(f, src, tgt, p, e), Via(view, src, tgt, p, e))
<1>1. PICK n \in Nat : n = Len(p)
  BY LenProperties DEF Open, Walk
<1>2. /\ p \in Seq(Edge) /\ Walk(view, src, p) /\ tgt \notin visited(src, p)
      /\ n < depth /\ depth \in Nat
  BY <1>1, PathLimits DEF Open, Walk, depth
<1>3. PICK q : q = Append(p, e)
  OBVIOUS
<1>4. /\ q \in Seq(Edge) /\ Len(q) = n + 1
      /\ \A i \in 1..n : q[i] = p[i]
      /\ q[n + 1] = e
      /\ \A i \in 0..n : device_at(src, q, i) = device_at(src, p, i)
      /\ device_at(src, q, n + 1) = e.to
  <2>1. PICK r \in Seq(Edge) :
          /\ r = Append(p, e) /\ Len(r) = Len(p) + 1
          /\ \A i \in 1..Len(p) : r[i] = p[i]
          /\ r[Len(p) + 1] = e
          /\ \A i \in 0..Len(p) : device_at(src, r, i) = device_at(src, p, i)
          /\ device_at(src, r, Len(p) + 1) = e.to
    BY <1>2, Hop, ZenonT(60)
  <2>2. r = q
    BY <1>3, <2>1
  <2> QED BY <1>1, <2>1, <2>2
<1>5. PICK Q : Q = Via(view, src, tgt, p, e)
  OBVIOUS
<1>6. \A r \in Q : /\ r \in Seq(Edge) /\ Walk(view, src, r) /\ Len(r) <= depth /\ n < Len(r)
                   /\ \A i \in 1..n : r[i] = p[i]
                   /\ r[n + 1] = e /\ device_at(src, r, Len(r)) = tgt
  BY <1>1, <1>5 DEF Via, Beyond
<1>7. \A r \in Q : /\ Len(r) \in Nat
                   /\ \A i \in 0..n : device_at(src, r, i) = device_at(src, p, i)
                   /\ device_at(src, r, n + 1) = e.to
  <2> SUFFICES ASSUME NEW r \in Q
               PROVE  /\ Len(r) \in Nat
                      /\ \A i \in 0..n : device_at(src, r, i) = device_at(src, p, i)
                      /\ device_at(src, r, n + 1) = e.to
    OBVIOUS
  <2>1. Len(r) \in Nat /\ Len(p) <= Len(r)
    BY <1>1, <1>6, LenProperties
  <2>2. \A i \in 0..n : device_at(src, r, i) = device_at(src, p, i)
    BY <1>1, <1>2, <1>6, <2>1, SharedDevices, Zenon
  <2>3. device_at(src, r, n + 1) = e.to
    BY <1>6 DEF device_at
  <2> QED BY <2>1, <2>2, <2>3
<1>8. \A r \in Q : \A i, j \in 0..Len(r) :
        device_at(src, r, i) = device_at(src, r, j) => i = j
  BY <1>6 DEF Walk
<1>9. Lists(<< >>, {})
  BY EmptySeq DEF Lists, Elements, Distinct
<1>10. visited(src, p) = {device_at(src, p, i) : i \in 0..n}
  BY <1>1, <1>2, Devices
<1>11. CASE e.to \in visited(src, p)
  <2>1. PICK k \in 0..n : device_at(src, p, k) = e.to
    BY <1>10, <1>11
  <2>2. ASSUME NEW r \in Q PROVE FALSE
    <3>1. k \in 0..Len(r) /\ n + 1 \in 0..Len(r) /\ k # n + 1
      BY <1>6, <1>7
    <3>2. device_at(src, r, k) = device_at(src, r, n + 1)
      BY <1>7, <2>1
    <3> QED BY <1>8, <3>1, <3>2
  <2>3. Q = {}
    BY <2>2
  <2>4. branch(f, src, tgt, p, e) = << >>
    BY <1>11 DEF branch
  <2> QED BY <1>5, <1>9, <2>3, <2>4
<1>12. ASSUME e.to \notin visited(src, p) PROVE Walk(view, src, q)
  BY <1>2, <1>3, <1>12, WalkOn
<1>13. CASE e.to \notin visited(src, p) /\ e.to = tgt
  <2>1. q \in Q
    <3>1. Len(q) <= depth /\ Len(p) < Len(q)
      BY <1>1, <1>2, <1>4
    <3>2. q \in Beyond(view, src, tgt, p)
      BY <1>1, <1>4, <1>12, <1>13, <3>1 DEF Beyond
    <3> QED BY <1>1, <1>4, <1>5, <3>2 DEF Via
  <2>2. ASSUME NEW r \in Q PROVE r = q
    <3>1. n + 1 \in 0..Len(r) /\ Len(r) \in 0..Len(r)
      BY <1>6, <1>7
    <3>2. Len(r) = n + 1
      BY <1>6, <1>7, <1>8, <1>13, <3>1
    <3>3. \A i \in 1..Len(r) : r[i] = q[i]
      BY <1>4, <1>6, <3>2
    <3> QED BY <1>4, <1>6, <3>2, <3>3, SeqEqual
  <2>3. Q = {q}
    BY <2>1, <2>2
  <2>4. branch(f, src, tgt, p, e) = << q >>
    BY <1>3, <1>13 DEF branch
  <2>5. Lists(<< q >>, {q})
    BY DEF Lists, Elements, Distinct
  <2> QED BY <1>5, <2>3, <2>4, <2>5
<1>14. CASE e.to \notin visited(src, p) /\ e.to # tgt
  <2>1. \A r \in Q : n + 1 < Len(r)
    <3> SUFFICES ASSUME NEW r \in Q PROVE n + 1 < Len(r)
      OBVIOUS
    <3>1. Len(r) # n + 1
      BY <1>6, <1>7, <1>14
    <3> QED BY <1>6, <1>7, <3>1
  <2>2. CASE n + 1 < max_path_depth
    <3>1. branch(f, src, tgt, p, e) = f[q]
      BY <1>1, <1>3, <1>14, <2>2 DEF branch
    <3>2. Open(view, src, tgt, q)
      <4>1. tgt \notin visited(src, q)
        <5>1. visited(src, q) = {device_at(src, q, i) : i \in 0..(n + 1)}
          BY <1>4, Devices
        <5>2. \A i \in 0..(n + 1) : i \in 0..n \/ i = n + 1
          OBVIOUS
        <5>3. \A i \in 0..n : device_at(src, q, i) # tgt
          BY <1>2, <1>4, <1>10
        <5> QED BY <1>4, <1>14, <5>1, <5>2, <5>3
      <4>2. Len(q) < depth
        BY <1>4, <2>2, PathLimits DEF depth
      <4> QED BY <1>12, <1>14, <4>1, <4>2 DEF Open
    <3>3. Lists(f[q], Beyond(view, src, tgt, q))
      BY <1>1, <1>3, <2>2, <3>2
    <3>4. Beyond(view, src, tgt, q) \subseteq Q
      <4> SUFFICES ASSUME NEW r \in Beyond(view, src, tgt, q) PROVE r \in Q
        OBVIOUS
      <4>1. /\ r \in Seq(Edge) /\ Walk(view, src, r) /\ Len(r) <= depth /\ n + 1 < Len(r)
            /\ \A i \in 1..(n + 1) : r[i] = q[i]
            /\ device_at(src, r, Len(r)) = tgt /\ Len(r) \in Nat
        BY <1>4, LenProperties DEF Beyond
      <4>2. Len(p) < Len(r) /\ (\A i \in 1..Len(p) : r[i] = p[i]) /\ r[Len(p) + 1] = e
        BY <1>1, <1>4, <4>1
      <4> QED BY <1>5, <4>1, <4>2 DEF Via, Beyond
    <3>5. Q \subseteq Beyond(view, src, tgt, q)
      <4> SUFFICES ASSUME NEW r \in Q PROVE r \in Beyond(view, src, tgt, q)
        OBVIOUS
      <4>1. Len(q) < Len(r) /\ \A i \in 1..Len(q) : r[i] = q[i]
        BY <1>4, <1>6, <2>1
      <4> QED BY <1>6, <4>1 DEF Beyond
    <3>6. Q = Beyond(view, src, tgt, q)
      BY <3>4, <3>5
    <3> QED BY <1>5, <3>1, <3>3, <3>6
  <2>3. CASE ~(n + 1 < max_path_depth)
    <3>1. branch(f, src, tgt, p, e) = << >>
      BY <1>1, <1>14, <2>3 DEF branch
    <3>2. depth <= n + 1
      BY <1>2, <2>3, PathLimits DEF depth
    <3>3. Q = {}
      <4> SUFFICES ASSUME NEW r \in Q PROVE FALSE
        OBVIOUS
      <4>1. Len(r) <= depth /\ n + 1 < Len(r) /\ Len(r) \in Nat
        BY <1>6, <1>7, <2>1
      <4> QED BY <1>2, <3>2, <4>1
    <3> QED BY <1>5, <1>9, <3>1, <3>3
  <2> QED BY <2>2, <2>3
<1> QED BY <1>11, <1>13, <1>14

\* At an open path the branches, one after the other, list the paths that go on
\* from it.
LEMMA BranchesList ==
  ASSUME NEW view, Routable(view), NEW src, NEW tgt, NEW p, Open(view, src, tgt, p), NEW f,
         \A e \in Edge :
           Len(p) + 1 < max_path_depth /\ Open(view, src, tgt, Append(p, e)) =>
             Lists(f[Append(p, e)], Beyond(view, src, tgt, Append(p, e)))
  PROVE  Lists(Seqs!FlattenSeq(branches(f, view, src, tgt, p)), Beyond(view, src, tgt, p))
<1>1. PICK adj, E, Q, ss :
        /\ adj = build_adjacency(view, last_device(src, p))
        /\ E = edges_from(view, last_device(src, p))
        /\ Q = Beyond(view, src, tgt, p)
        /\ ss = branches(f, view, src, tgt, p)
  OBVIOUS
<1>2. adj \in Seq(E) /\ Distinct(adj) /\ Elements(adj) = E /\ E \subseteq Edge
  BY <1>1, Adjacency, EdgesFrom
<1>3. PICK n \in Nat : n = Len(adj) /\ DOMAIN adj = 1..n
  BY <1>2, LenProperties
<1>4. \A i \in 1..n : adj[i] \in E /\ adj[i] \in Edge
  BY <1>2, <1>3, ElementOfSeq
<1>5. /\ DOMAIN ss = 1..n /\ ss = [i \in 1..n |-> ss[i]]
      /\ \A i \in 1..n : ss[i] = branch(f, src, tgt, p, adj[i])
  BY <1>1, <1>3, Zenon DEF branches
<1> DEFINE via(e) == Via(view, src, tgt, p, e)
<1>6. \A i \in 1..n : Lists(ss[i], via(adj[i]))
  <2> SUFFICES ASSUME NEW i \in 1..n PROVE Lists(ss[i], via(adj[i]))
    OBVIOUS
  <2>1. PICK e \in Edge : e = adj[i] /\ e \in edges_from(view, last_device(src, p))
    BY <1>1, <1>4
  <2>2. Lists(branch(f, src, tgt, p, e), Via(view, src, tgt, p, e))
    BY <2>1, BranchLists
  <2> QED BY <1>5, <2>1, <2>2
<1>7. \A e : via(e) \subseteq Q
  BY <1>1 DEF Via
<1>8. \A d, e : d # e => via(d) \cap via(e) = {}
  BY DEF Via
<1>9. \A q \in Q : \E i \in 1..n : q \in via(adj[i])
  <2> SUFFICES ASSUME NEW q \in Q PROVE \E i \in 1..n : q \in via(adj[i])
    OBVIOUS
  <2>1. p \in Seq(Edge) /\ Len(p) \in Nat
    BY LenProperties DEF Open, Walk
  <2>2. /\ q \in Seq(Edge) /\ Walk(view, src, q) /\ Len(p) < Len(q) /\ Len(q) \in Nat
        /\ \A i \in 1..Len(p) : q[i] = p[i]
    BY <1>1, LenProperties DEF Beyond
  <2>3. Len(p) + 1 \in 1..Len(q) /\ (Len(p) + 1) - 1 = Len(p) /\ Len(p) <= Len(q)
    BY <2>1, <2>2
  <2>4. q[Len(p) + 1] \in edges_from(view, device_at(src, q, Len(p)))
    <3>1. \A i \in 1..Len(q) : q[i] \in edges_from(view, device_at(src, q, i - 1))
      BY <2>2 DEF Walk
    <3> QED BY <2>3, <3>1
  <2>5. device_at(src, q, Len(p)) = last_device(src, p)
    <3>1. Len(p) \in 0..Len(p)
      BY <2>1
    <3>2. \A i \in 0..Len(p) : device_at(src, q, i) = device_at(src, p, i)
      BY <2>1, <2>2, <2>3, SharedDevices
    <3>3. last_device(src, p) = device_at(src, p, Len(p))
      BY <2>1, Devices
    <3> QED BY <3>1, <3>2, <3>3
  <2>6. PICK i \in 1..n : adj[i] = q[Len(p) + 1]
    BY <1>1, <1>2, <1>3, <2>4, <2>5 DEF Elements
  <2> QED BY <1>1, <2>6 DEF Via
<1> HIDE DEF via
<1>10. \A i \in 1..n : ss[i] \in Seq(Q)
  <2> SUFFICES ASSUME NEW i \in 1..n PROVE ss[i] \in Seq(Q)
    OBVIOUS
  <2>1. PICK s, R : s = ss[i] /\ R = via(adj[i]) /\ s \in Seq(R) /\ R \subseteq Q
    BY <1>6, <1>7 DEF Lists
  <2>2. s \in [1..Len(s) -> R] /\ Len(s) \in Nat
    BY <2>1, LenProperties
  <2>3. s \in [1..Len(s) -> Q]
    BY <2>1, <2>2
  <2>4. s \in Seq(Q)
    BY <2>2, <2>3, SeqDef, LenProperties
  <2> QED BY <2>1, <2>4
<1>11. ss \in Seq(Seq(Q))
  <2>1. ss \in [1..n -> Seq(Q)]
    BY <1>5, <1>10
  <2> QED BY <2>1, SeqDef, LenProperties
<1>12. /\ \A i \in DOMAIN ss : Distinct(ss[i]) /\ Elements(ss[i]) = via(adj[i])
       /\ \A i, j \in DOMAIN ss : i # j => Elements(ss[i]) \cap Elements(ss[j]) = {}
  <2>1. \A i \in 1..n : Distinct(ss[i]) /\ Elements(ss[i]) = via(adj[i])
    BY <1>6 DEF Lists
  <2>2. \A i, j \in 1..n : i # j => adj[i] # adj[j]
    BY <1>2, <1>3 DEF Distinct
  <2> QED BY <1>5, <1>8, <2>1, <2>2
<1>13. PICK u : u = Seqs!FlattenSeq(ss)
  OBVIOUS
<1>14. /\ u \in Seq(Q) /\ Distinct(u)
       /\ Elements(u) = UNION {Elements(ss[i]) : i \in DOMAIN ss}
  BY <1>11, <1>12, <1>13, FlattenElements
<1>15. Elements(u) = Q
  <2>1. \A i \in DOMAIN ss : Elements(ss[i]) \subseteq Q
    BY <1>7, <1>12
  <2>2. \A q \in Q : \E i \in DOMAIN ss : q \in Elements(ss[i])
    BY <1>5, <1>9, <1>12
  <2> QED BY <1>14, <2>1, <2>2
<1> QED BY <1>1, <1>13, <1>14, <1>15 DEF Lists

\* The search lists, from any open path, the paths that go on from it.
LEMMA SearchLists ==
  ASSUME NEW view, Routable(view), NEW src, NEW tgt, NEW f, Search(f, view, src, tgt),
         NEW p, Open(view, src, tgt, p)
  PROVE  Lists(f[p], Beyond(view, src, tgt, p))
<1> DEFINE open(q) == Open(view, src, tgt, q)
           listed(q) == Lists(f[q], Beyond(view, src, tgt, q))
<1>1. \A q : open(q) => q \in Seq(Edge) /\ Len(q) \in Nat /\ Len(q) < depth
  BY LenProperties DEF Open, Walk
<1>2. depth \in Nat
  BY PathLimits DEF depth
<1>3. \A q \in Seq(Edge) : f[q] = Seqs!FlattenSeq(branches(f, view, src, tgt, q))
  BY Zenon DEF Search
<1>4. ASSUME NEW q, open(q),
             \A e \in Edge : open(Append(q, e)) => listed(Append(q, e))
      PROVE  listed(q)
  <2>1. Lists(Seqs!FlattenSeq(branches(f, view, src, tgt, q)), Beyond(view, src, tgt, q))
    BY <1>4, BranchesList
  <2>2. f[q] = Seqs!FlattenSeq(branches(f, view, src, tgt, q))
    BY <1>1, <1>3, <1>4
  <2> QED BY <2>1, <2>2
<1> HIDE DEF open, listed
<1>5. PICK M : M = {n \in Nat : \A q : open(q) /\ Len(q) + n >= depth => listed(q)}
  OBVIOUS
<1>6. 0 \in M
  <2>1. \A q : open(q) => ~(Len(q) + 0 >= depth)
    BY <1>1, <1>2
  <2> QED BY <1>5, <2>1
<1>7. ASSUME NEW n \in Nat, n \in M PROVE n + 1 \in M
  <2> SUFFICES ASSUME NEW q, open(q), Len(q) + (n + 1) >= depth PROVE listed(q)
    BY <1>5
  <2>1. ASSUME NEW e \in Edge, open(Append(q, e)) PROVE listed(Append(q, e))
    <3>1. Len(Append(q, e)) = Len(q) + 1
      BY <1>1, AppendProperties
    <3>2. Len(Append(q, e)) + n >= depth
      BY <1>1, <1>2, <3>1
    <3> QED BY <1>5, <1>7, <2>1, <3>2
  <2> QED BY <1>4, <2>1
<1>8. depth \in M
  BY <1>2, <1>6, <1>7, SetInduction
<1>9. open(p) /\ Len(p) + depth >= depth
  BY <1>1, <1>2 DEF open
<1> QED BY <1>5, <1>8, <1>9 DEF listed

\* The paths to find from the source are the simple paths.
LEMMA SimplePaths ==
  ASSUME NEW view, Routable(view), NEW src \in DeviceId, NEW tgt
  PROVE  simple_paths(view, src, tgt) = Beyond(view, src, tgt, << >>)
<1>1. PICK hops : hops = UNION {edges_from(view, d) : d \in DeviceId}
  OBVIOUS
<1>2. hops \subseteq Edge
  BY <1>1, EdgesFrom
<1>3. depth \in Nat
  BY PathLimits DEF depth
<1> DEFINE good(p) ==
      /\ \A i \in 1..Len(p) : p[i] \in edges_from(view, device_at(src, p, i - 1))
      /\ \A i, j \in 0..Len(p) : i # j => device_at(src, p, i) # device_at(src, p, j)
      /\ device_at(src, p, Len(p)) = tgt
<1>4. simple_paths(view, src, tgt) = {p \in UNION {[1..n -> hops] : n \in 1..depth} : good(p)}
  BY <1>1, ZenonT(60) DEF simple_paths, depth
<1>5. \A p : p \in Beyond(view, src, tgt, << >>) <=>
               p \in Seq(Edge) /\ Len(p) <= depth /\ 0 < Len(p) /\ good(p)
  <2>1. Len(<< >>) = 0 /\ \A i \in 1..0 : FALSE
    BY EmptySeq
  <2> QED BY <2>1 DEF Beyond, Walk
<1> HIDE DEF good
<1>6. ASSUME NEW p, p \in simple_paths(view, src, tgt)
      PROVE  p \in Beyond(view, src, tgt, << >>)
  <2>1. PICK n \in 1..depth : p \in [1..n -> hops] /\ good(p)
    BY <1>4, <1>6
  <2>2. n \in Nat /\ n <= depth /\ 0 < n /\ p \in [1..n -> Edge]
    BY <1>2, <1>3, <2>1
  <2>3. p \in Seq(Edge) /\ Len(p) = n
    BY <2>2, SeqDef, LenProperties
  <2> QED BY <1>5, <2>1, <2>2, <2>3
<1>7. ASSUME NEW p, p \in Beyond(view, src, tgt, << >>)
      PROVE  p \in simple_paths(view, src, tgt)
  <2>1. p \in Seq(Edge) /\ Len(p) <= depth /\ 0 < Len(p) /\ good(p)
    BY <1>5, <1>7
  <2>2. PICK n \in Nat : n = Len(p) /\ p \in [1..n -> Edge]
    BY <2>1, LenProperties
  <2>3. n \in 1..depth
    BY <1>3, <2>1, <2>2
  <2>4. \A i \in 1..n : p[i] \in hops
    <3> SUFFICES ASSUME NEW i \in 1..n PROVE p[i] \in hops
      OBVIOUS
    <3>1. p[i] \in edges_from(view, device_at(src, p, i - 1))
      BY <2>1, <2>2 DEF good
    <3>2. i - 1 = 0 \/ i - 1 \in 1..n
      OBVIOUS
    <3>3. \A j \in 1..n : p[j].to \in DeviceId
      BY <2>2 DEF Edge
    <3>4. device_at(src, p, i - 1) \in DeviceId
      BY <3>2, <3>3 DEF device_at
    <3> QED BY <1>1, <3>1, <3>4
  <2>5. p \in [1..n -> hops]
    BY <2>2, <2>4
  <2> QED BY <1>4, <2>1, <2>3, <2>5
<1> QED BY <1>6, <1>7

\* dfs lists the simple paths between two devices.
LEMMA DfsLists ==
  ASSUME NEW view, Routable(view), NEW src \in DeviceId, NEW tgt, src # tgt
  PROVE  Lists(dfs(view, src, tgt), simple_paths(view, src, tgt))
<1>1. PICK f : /\ Search(f, view, src, tgt)
               /\ f = CHOOSE g : Search(g, view, src, tgt)
  BY SearchDefined, Zenon
<1>2. dfs(view, src, tgt) = f[<< >>]
  BY <1>1, SearchFromSource, Zenon
<1>3. Open(view, src, tgt, << >>)
  <2>1. << >> \in Seq(Edge) /\ Len(<< >>) = 0 /\ DOMAIN << >> = {}
    BY EmptySeq
  <2>2. \A i \in 1..0 : FALSE
    OBVIOUS
  <2>3. \A i, j \in 0..0 : i = j
    OBVIOUS
  <2>4. Walk(view, src, << >>)
    BY <2>1, <2>2, <2>3 DEF Walk
  <2>5. visited(src, << >>) = {src}
    BY <2>1 DEF visited
  <2>6. 0 < depth
    BY PathLimits DEF depth
  <2> QED BY <2>1, <2>4, <2>5, <2>6 DEF Open
<1>4. Lists(f[<< >>], Beyond(view, src, tgt, << >>))
  BY <1>1, <1>3, SearchLists
<1> QED BY <1>2, <1>4, SimplePaths, Zenon

\* A sequence without repetition has as many elements as places.
LEMMA DistinctCount ==
  ASSUME NEW S, NEW s \in Seq(S), Distinct(s)
  PROVE  Cardinality(Elements(s)) = Len(s)
<1>1. PICK n \in Nat : n = Len(s) /\ DOMAIN s = 1..n
  BY LenProperties
<1>2. PICK Q : Q = Elements(s)
  OBVIOUS
<1>3. s \in [1..n -> Q] /\ \A q \in Q : \E i \in 1..n : s[i] = q
  BY <1>1, <1>2, LenProperties DEF Elements
<1>4. s \in Bijection(1..n, Q)
  BY <1>1, <1>3 DEF Bijection, Injection, Surjection, IsInjective, Distinct
<1>5. ExistsBijection(1..n, Q)
  BY <1>4 DEF ExistsBijection
<1> QED BY <1>1, <1>2, <1>5, FS_CountingElements

\* enumerate_paths on any topology, for any limits: it returns distinct simple
\* paths from the source to the target, all there are within max_path_depth when
\* max_candidate_paths allows it, and exactly that many otherwise.
THEOREM SearchExact ==
  ASSUME NEW view, Routable(view), NEW src \in DeviceId, NEW tgt \in DeviceId
  PROVE  enumerated_exactly(view, src, tgt)
<1>1. PICK out, found, all :
        /\ out = enumerate_paths_impl(view, src, tgt)
        /\ found = Elements(out)
        /\ all = IF src = tgt THEN {} ELSE simple_paths(view, src, tgt)
  OBVIOUS
<1>2. SUFFICES /\ Cardinality(found) = Len(out) /\ found \subseteq all
               /\ Len(out) = IF Cardinality(all) <= max_candidate_paths
                               THEN Cardinality(all) ELSE max_candidate_paths
  BY <1>1, Zenon DEF enumerated_exactly, Elements
<1>3. CASE src = tgt
  <2>1. out = << >> /\ found = {} /\ all = {}
    BY <1>1, <1>3, EmptySeq DEF enumerate_paths_impl, Elements
  <2>2. Cardinality({}) = 0 /\ Len(<< >>) = 0 /\ 0 <= max_candidate_paths
    BY FS_EmptySet, EmptySeq, PathLimits
  <2> QED BY <2>1, <2>2
<1>4. CASE src # tgt
  <2>1. PICK u : u = dfs(view, src, tgt)
    OBVIOUS
  <2>2. u \in Seq(all) /\ Elements(u) = all /\ Distinct(u)
    BY <1>1, <1>4, <2>1, DfsLists DEF Lists
  <2>3. PICK n \in Nat : n = Len(u) /\ DOMAIN u = 1..n
    BY <2>2, LenProperties
  <2>4. Cardinality(all) = n
    BY <2>2, <2>3, DistinctCount
  <2>5. out = IF n <= max_candidate_paths THEN u ELSE SubSeq(u, 1, max_candidate_paths)
    BY <1>1, <1>4, <2>1, <2>3, Zenon DEF enumerate_paths_impl
  <2>6. CASE n <= max_candidate_paths
    <3>1. out = u
      BY <2>5, <2>6
    <3> QED BY <1>1, <2>2, <2>3, <2>4, <2>6, <3>1
  <2>7. CASE ~(n <= max_candidate_paths)
    <3>1. PICK m \in Nat : m = max_candidate_paths /\ m < n
      BY <2>7, PathLimits
    <3>2. out = SubSeq(u, 1, m)
      BY <2>5, <2>7, <3>1
    <3>3. out \in Seq(all) /\ Len(out) = m /\ \A i \in 1..m : out[i] = u[i]
      BY <2>2, <2>3, <3>1, <3>2, SubSeqProperties
    <3>4. DOMAIN out = 1..m /\ \A i \in 1..m : i \in DOMAIN u
      BY <2>3, <3>1, <3>3, LenProperties
    <3>5. Distinct(out) /\ found \subseteq all
      BY <1>1, <2>2, <3>3, <3>4 DEF Distinct, Elements
    <3>6. Cardinality(found) = m
      BY <1>1, <3>3, <3>5, DistinctCount
    <3> QED BY <2>4, <2>7, <3>1, <3>3, <3>5, <3>6
  <2> QED BY <2>6, <2>7
<1> QED BY <1>3, <1>4

\* Every candidate of a decision leads from its source to its target.
LEMMA FoundPaths ==
  ASSUME NEW view, Routable(view), NEW src \in DeviceId, NEW tgt \in DeviceId,
         NEW p, p \in Elements(enumerate_paths_impl(view, src, tgt))
  PROVE  Walk(view, src, p) /\ device_at(src, p, Len(p)) = tgt
<1>1. p \in IF src = tgt THEN {} ELSE simple_paths(view, src, tgt)
  BY SearchExact, Zenon DEF enumerated_exactly, Elements
<1>2. p \in Beyond(view, src, tgt, << >>)
  BY <1>1, SimplePaths
<1> QED BY <1>2 DEF Beyond

=============================================================================
