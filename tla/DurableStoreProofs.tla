--------------------------- MODULE DurableStoreProofs ---------------------------
(***************************************************************************)
(* Theorems about DurableStore, for any savers, loaders and checkpoints.   *)
(***************************************************************************)
EXTENDS DurableStore, SequenceTheorems, FiniteSetTheorems, TLAPS

\* What the steps use of the constants.
LEMMA StoreConstants == None \notin Inode /\ max_persisted_state_bytes \in Nat
BY CheckpointsAssumption

-----------------------------------------------------------------------------
(* The frame of a checkpoint *)

\* The cells that serialize puts before the checksum.
Plain == {"header", "generation", "count", "device", "link"}

\* A list of records as cells.
LEMMA CellsOfRecords ==
  ASSUME NEW q, Records(q), NEW part
  PROVE  LET S == {cell(part, q[i]) : i \in DOMAIN q}
         IN  /\ Len(q) \in Nat /\ DOMAIN q = 1..Len(q)
             /\ cells(part, q) \in Seq(S) /\ Len(cells(part, q)) = Len(q)
             /\ \A i \in 1..Len(q) : cells(part, q)[i] = cell(part, q[i])
<1> DEFINE S == {cell(part, q[i]) : i \in DOMAIN q}
           n == Len(q)
           c == cells(part, q)
<1>1. q \in Seq({q[i] : i \in DOMAIN q})
  BY DEF Records
<1>2. n \in Nat /\ DOMAIN q = 1..n
  BY <1>1, LenProperties
<1>3. c = [i \in 1..n |-> cell(part, q[i])]
  BY <1>2 DEF cells
<1>4. \A i \in 1..n : cell(part, q[i]) \in S
  BY <1>2
<1> HIDE DEF S, n, c
<1>5. c \in [1..n -> S]
  BY <1>3, <1>4
<1>6. c \in Seq(S) /\ Len(c) = n
  BY <1>2, <1>5, SeqDef, LenProperties
<1>7. \A i \in 1..n : c[i] = cell(part, q[i])
  BY <1>3
<1> QED BY <1>2, <1>6, <1>7 DEF S, n, c

\* The cells of a frame: header, generation, devices and links with their counts,
\* and the checksum of all of them, the only cell of its kind.
LEMMA FrameShape ==
  ASSUME NEW s \in Checkpoints
  PROVE  LET f == serialize(s)
             d == Len(s.devices)
             l == Len(s.links)
         IN  /\ d \in Nat /\ l \in Nat /\ Len(f) = 5 + d + l
             /\ DOMAIN s.devices = 1..d /\ DOMAIN s.links = 1..l
             /\ f \in Seq({f[i] : i \in 1..Len(f)})
             /\ f[1] = cell("header", 3 + d + l)
             /\ f[2] = cell("generation", s.topology_generation)
             /\ f[3] = cell("count", d) /\ f[4 + d] = cell("count", l)
             /\ \A i \in 1..d : f[3 + i] = cell("device", s.devices[i])
             /\ \A i \in 1..l : f[4 + d + i] = cell("link", s.links[i])
             /\ f[Len(f)] = crc32(SubSeq(f, 1, Len(f) - 1))
             /\ \A i \in 1..(Len(f) - 1) : f[i].part # "crc"
<1> DEFINE d == Len(s.devices)
           l == Len(s.links)
           D == cells("device", s.devices)
           K == cells("link", s.links)
           V == Nat \cup {s.topology_generation} \cup {s.devices[i] : i \in DOMAIN s.devices}
                  \cup {s.links[i] : i \in DOMAIN s.links}
           P == {cell(p, v) : p \in Plain, v \in V}
           A == <<cell("generation", s.topology_generation), cell("count", d)>>
           B == <<cell("count", l)>>
           AD == A \o D
           ADB == AD \o B
           W == ADB \o K
           H == <<cell("header", Len(W))>>
           F == H \o W
           C == crc32(F)
           f == Append(F, C)
<1>1. Records(s.devices) /\ Records(s.links)
  BY CheckpointsAssumption
<1>2. d \in Nat /\ DOMAIN s.devices = 1..d /\ l \in Nat /\ DOMAIN s.links = 1..l
  BY <1>1, CellsOfRecords
<1>27. /\ \A p \in Plain, v \in V : cell(p, v) \in P
       /\ "device" \in Plain /\ "link" \in Plain /\ "header" \in Plain
       /\ "generation" \in Plain /\ "count" \in Plain
  <2> HIDE DEF V
  <2>1. \A p \in Plain, v \in V : cell(p, v) \in P
    OBVIOUS
  <2> QED BY <2>1 DEF Plain
<1>28. /\ Nat \subseteq V /\ s.topology_generation \in V
       /\ \A i \in DOMAIN s.devices : s.devices[i] \in V
       /\ \A i \in DOMAIN s.links : s.links[i] \in V
  OBVIOUS
<1>7. \A x \in P : x.part # "crc"
  BY DEF Plain, cell
<1> HIDE DEF V, P
<1>3. /\ D \in Seq(P) /\ Len(D) = d /\ \A i \in 1..d : D[i] = cell("device", s.devices[i])
  <2> DEFINE S == {cell("device", s.devices[i]) : i \in DOMAIN s.devices}
  <2>1. D \in Seq(S) /\ Len(D) = d /\ \A i \in 1..d : D[i] = cell("device", s.devices[i])
    BY <1>1, CellsOfRecords
  <2>2. S \subseteq P
    BY <1>27, <1>28
  <2> HIDE DEF S, P
  <2> QED BY <2>1, <2>2, SeqMonotonic
<1>4. /\ K \in Seq(P) /\ Len(K) = l /\ \A i \in 1..l : K[i] = cell("link", s.links[i])
  <2> DEFINE S == {cell("link", s.links[i]) : i \in DOMAIN s.links}
  <2>1. K \in Seq(S) /\ Len(K) = l /\ \A i \in 1..l : K[i] = cell("link", s.links[i])
    BY <1>1, CellsOfRecords
  <2>2. S \subseteq P
    BY <1>27, <1>28
  <2> HIDE DEF S, P
  <2> QED BY <2>1, <2>2, SeqMonotonic
<1>5. serialize(s) = f
  BY DEF serialize, write_durable
<1>6. /\ cell("generation", s.topology_generation) \in P /\ cell("count", d) \in P
      /\ cell("count", l) \in P /\ \A n \in Nat : cell("header", n) \in P
  BY <1>2, <1>27, <1>28
<1> HIDE DEF D, K, d, l
<1>8. /\ A \in Seq(P) /\ Len(A) = 2 /\ A[2] = cell("count", d)
      /\ A[1] = cell("generation", s.topology_generation)
      /\ B \in Seq(P) /\ Len(B) = 1 /\ B[1] = cell("count", l)
  <2>1. PICK x, y, z : /\ x = cell("generation", s.topology_generation)
                       /\ y = cell("count", d) /\ z = cell("count", l)
    OBVIOUS
  <2>2. x \in P /\ y \in P /\ z \in P /\ A = <<x, y>> /\ B = <<z>>
    BY <1>6, <2>1
  <2>3. A \in Seq(P) /\ Len(A) = 2 /\ A[1] = x /\ A[2] = y /\ B \in Seq(P) /\ Len(B) = 1 /\ B[1] = z
    BY <2>2
  <2> QED BY <2>1, <2>3
<1> HIDE DEF A, B
<1>9. /\ AD \in Seq(P) /\ Len(AD) = 2 + d /\ AD[1] = A[1] /\ AD[2] = A[2]
      /\ \A i \in 1..d : AD[2 + i] = D[i]
  <2>1. AD = A \o D
    OBVIOUS
  <2> HIDE DEF AD
  <2>2. /\ AD \in Seq(P) /\ Len(AD) = Len(A) + Len(D)
        /\ \A i \in 1..Len(A) : AD[i] = A[i]
        /\ \A i \in 1..Len(D) : AD[Len(A) + i] = D[i]
    <3>1. A \in Seq(P) /\ D \in Seq(P)
      BY <1>3, <1>8
    <3> QED BY <2>1, <3>1, ConcatProperties
  <2> QED BY <1>3, <1>8, <2>2
<1> HIDE DEF AD
<1>10. /\ ADB \in Seq(P) /\ Len(ADB) = 3 + d /\ ADB[3 + d] = B[1]
       /\ \A i \in 1..(2 + d) : ADB[i] = AD[i]
  <2>1. ADB = AD \o B
    OBVIOUS
  <2> HIDE DEF ADB
  <2>2. /\ ADB \in Seq(P) /\ Len(ADB) = Len(AD) + Len(B)
        /\ \A i \in 1..Len(AD) : ADB[i] = AD[i]
        /\ \A i \in 1..Len(B) : ADB[Len(AD) + i] = B[i]
    <3>1. AD \in Seq(P) /\ B \in Seq(P)
      BY <1>8, <1>9
    <3> QED BY <2>1, <3>1, ConcatProperties
  <2> QED BY <1>2, <1>8, <1>9, <2>2
<1> HIDE DEF ADB
<1>11. /\ W \in Seq(P) /\ Len(W) = 3 + d + l
       /\ \A i \in 1..(3 + d) : W[i] = ADB[i]
       /\ \A i \in 1..l : W[(3 + d) + i] = K[i]
  <2>1. W = ADB \o K
    OBVIOUS
  <2> HIDE DEF W
  <2>2. /\ W \in Seq(P) /\ Len(W) = Len(ADB) + Len(K)
        /\ \A i \in 1..Len(ADB) : W[i] = ADB[i]
        /\ \A i \in 1..Len(K) : W[Len(ADB) + i] = K[i]
    <3>1. ADB \in Seq(P) /\ K \in Seq(P)
      BY <1>4, <1>10
    <3> QED BY <2>1, <3>1, ConcatProperties
  <2> QED BY <1>2, <1>4, <1>10, <2>2
<1> HIDE DEF W
<1>12. H \in Seq(P) /\ Len(H) = 1 /\ H[1] = cell("header", 3 + d + l)
  <2>1. PICK x : x = cell("header", 3 + d + l)
    OBVIOUS
  <2>2. 3 + d + l \in Nat
    BY <1>2
  <2>3. x \in P /\ H = <<x>>
    BY <1>6, <1>11, <2>1, <2>2
  <2>4. H \in Seq(P) /\ Len(H) = 1 /\ H[1] = x
    BY <2>3
  <2> QED BY <2>1, <2>4
<1> HIDE DEF H
<1>13. /\ F \in Seq(P) /\ Len(F) = 4 + d + l /\ F[1] = H[1]
       /\ \A i \in 1..(3 + d + l) : F[1 + i] = W[i]
  <2>1. F = H \o W
    OBVIOUS
  <2> HIDE DEF F
  <2>2. /\ F \in Seq(P) /\ Len(F) = Len(H) + Len(W)
        /\ \A i \in 1..Len(H) : F[i] = H[i]
        /\ \A i \in 1..Len(W) : F[Len(H) + i] = W[i]
    <3>1. H \in Seq(P) /\ W \in Seq(P)
      BY <1>11, <1>12
    <3> QED BY <2>1, <3>1, ConcatProperties
  <2> QED BY <1>2, <1>11, <1>12, <2>2
<1> HIDE DEF F, C
<1>14. /\ Len(f) = 5 + d + l /\ f \in Seq(P \cup {C})
       /\ \A i \in 1..(4 + d + l) : f[i] = F[i]
       /\ f[5 + d + l] = C
  <2>1. F \in Seq(P \cup {C}) /\ C \in P \cup {C}
    BY <1>13, SeqMonotonic
  <2>2. /\ f \in Seq(P \cup {C}) /\ Len(f) = Len(F) + 1
        /\ \A i \in 1..Len(F) : f[i] = F[i] /\ f[Len(F) + 1] = C
    BY <2>1, AppendProperties
  <2>3. f[Len(F) + 1] = C
    BY <2>1, AppendProperties
  <2> QED BY <1>2, <1>13, <2>2, <2>3
<1> HIDE DEF f
<1>15. \A i \in 1..(3 + d + l) : f[1 + i] = W[i]
  BY <1>2, <1>13, <1>14, SMTT(30)
<1>16. f[1] = cell("header", 3 + d + l)
  BY <1>2, <1>12, <1>13, <1>14
<1>17. /\ f[2] = cell("generation", s.topology_generation) /\ f[3] = cell("count", d)
  <2>1. 1 \in 1..(3 + d + l) /\ 2 \in 1..(3 + d + l) /\ 1 \in 1..(3 + d) /\ 2 \in 1..(3 + d)
        /\ 1 \in 1..(2 + d) /\ 2 \in 1..(2 + d) /\ 1 + 1 = 2 /\ 1 + 2 = 3
    BY <1>2
  <2>2. f[1 + 1] = W[1] /\ f[1 + 2] = W[2]
    BY <1>15, <2>1
  <2>3. W[1] = A[1] /\ W[2] = A[2]
    BY <1>9, <1>10, <1>11, <2>1
  <2> QED BY <1>8, <2>1, <2>2, <2>3
<1>18. f[4 + d] = cell("count", l)
  <2>1. 3 + d \in 1..(3 + d + l) /\ 3 + d \in 1..(3 + d) /\ 1 + (3 + d) = 4 + d
    BY <1>2
  <2>2. f[1 + (3 + d)] = W[3 + d]
    BY <1>15, <2>1
  <2> QED BY <1>8, <1>10, <1>11, <2>1, <2>2
<1>19. \A i \in 1..d : f[3 + i] = cell("device", s.devices[i])
  <2> TAKE i \in 1..d
  <2>1. /\ 2 + i \in 1..(3 + d + l) /\ 2 + i \in 1..(3 + d) /\ 2 + i \in 1..(2 + d)
        /\ 1 + (2 + i) = 3 + i
    BY <1>2
  <2>2. f[1 + (2 + i)] = W[2 + i]
    BY <1>15, <2>1
  <2>3. W[2 + i] = D[i]
    BY <1>9, <1>10, <1>11, <2>1
  <2> QED BY <1>3, <2>1, <2>2, <2>3
<1>20. \A i \in 1..l : f[4 + d + i] = cell("link", s.links[i])
  <2> TAKE i \in 1..l
  <2>1. (3 + d) + i \in 1..(3 + d + l) /\ 1 + ((3 + d) + i) = 4 + d + i
    BY <1>2
  <2>2. f[1 + ((3 + d) + i)] = W[(3 + d) + i]
    BY <1>15, <2>1
  <2> QED BY <1>4, <1>11, <2>1, <2>2
<1>21. SubSeq(f, 1, 4 + d + l) = F
  <2>1. \A i \in 1..(4 + d + l) : f[i] \in P
    BY <1>2, <1>13, <1>14, ElementOfSeq
  <2>2. 4 + d + l \in Nat
    BY <1>2
  <2>3. /\ SubSeq(f, 1, 4 + d + l) \in Seq(P) /\ Len(SubSeq(f, 1, 4 + d + l)) = 4 + d + l
        /\ \A i \in 1..(4 + d + l) : SubSeq(f, 1, 4 + d + l)[i] = f[i]
    BY <2>1, <2>2, SubSeqProperties
  <2> QED BY <1>13, <1>14, <2>3, SeqEqual
<1>22. \A i \in 1..(4 + d + l) : f[i].part # "crc"
  BY <1>2, <1>7, <1>13, <1>14, ElementOfSeq
<1>23. f \in Seq({f[i] : i \in 1..Len(f)})
  <2>1. Len(f) \in Nat /\ DOMAIN f = 1..Len(f) /\ f \in [1..Len(f) -> P \cup {C}]
    BY <1>14, LenProperties
  <2>2. f \in [1..Len(f) -> {f[i] : i \in 1..Len(f)}]
    BY <2>1
  <2> QED BY <2>1, <2>2, SeqDef, LenProperties
<1>24. Len(f) - 1 = 4 + d + l
  BY <1>2, <1>14
<1>25. f[Len(f)] = crc32(SubSeq(f, 1, Len(f) - 1))
  BY <1>14, <1>21, <1>24, Zenon DEF C
<1>26. \A i \in 1..(Len(f) - 1) : f[i].part # "crc"
  BY <1>22, <1>24, Zenon
<1> QED BY <1>2, <1>5, <1>14, <1>16, <1>17, <1>18, <1>19, <1>20, <1>23, <1>25, <1>26, ZenonT(60)
       DEF d, l

\* deserialize's checks pass on what serialize made, and its parser takes it back.
LEMMA RoundTrip ==
  ASSUME NEW s \in Checkpoints
  PROVE  LET f == serialize(s)
         IN  intact(f) /\ parses(f) /\ parse(f) = s
<1> DEFINE f == serialize(s)
           d == Len(s.devices)
           l == Len(s.links)
<1>1. /\ d \in Nat /\ l \in Nat /\ Len(f) = 5 + d + l
      /\ DOMAIN s.devices = 1..d /\ DOMAIN s.links = 1..l
      /\ f[1] = cell("header", 3 + d + l)
      /\ f[2] = cell("generation", s.topology_generation)
      /\ f[3] = cell("count", d) /\ f[4 + d] = cell("count", l)
      /\ \A i \in 1..d : f[3 + i] = cell("device", s.devices[i])
      /\ \A i \in 1..l : f[4 + d + i] = cell("link", s.links[i])
      /\ f[Len(f)] = crc32(SubSeq(f, 1, Len(f) - 1))
  BY FrameShape, ZenonT(60)
<1>2. /\ s = [topology_generation |-> s.topology_generation,
              devices |-> s.devices, links |-> s.links]
      /\ Records(s.devices) /\ Records(s.links)
  BY CheckpointsAssumption
<1> HIDE DEF f, d, l
<1>4. /\ f[1].part = "header" /\ f[1].value = 3 + d + l
      /\ f[2].part = "generation" /\ f[2].value = s.topology_generation
      /\ f[3].part = "count" /\ f[3].value = d
      /\ f[4 + d].part = "count" /\ f[4 + d].value = l
  <2>1. /\ f[1] = cell("header", 3 + d + l)
        /\ f[2] = cell("generation", s.topology_generation)
        /\ f[3] = cell("count", d) /\ f[4 + d] = cell("count", l)
    BY <1>1, Zenon
  <2> QED BY <2>1 DEF cell
<1>5. intact(f)
  <2>1. Len(f) >= 2 /\ Len(f) = (3 + d + l) + 2
    BY <1>1
  <2> QED BY <1>1, <1>4, <2>1, Zenon DEF intact
<1>6. ASSUME NEW i \in 4..(3 + d)
      PROVE  f[i].part = "device" /\ f[i].value = s.devices[i - 3]
  <2>1. i - 3 \in 1..d /\ 3 + (i - 3) = i
    BY <1>1
  <2>2. f[3 + (i - 3)] = cell("device", s.devices[i - 3])
    BY <1>1, <2>1, Zenon
  <2>3. f[i] = cell("device", s.devices[i - 3])
    BY <2>1, <2>2
  <2> QED BY <2>3 DEF cell
<1>7. ASSUME NEW i \in (5 + d)..(4 + d + l)
      PROVE  f[i].part = "link" /\ f[i].value = s.links[i - (4 + d)]
  <2>1. i - (4 + d) \in 1..l /\ 4 + d + (i - (4 + d)) = i
    BY <1>1
  <2>2. f[4 + d + (i - (4 + d))] = cell("link", s.links[i - (4 + d)])
    BY <1>1, <2>1, Zenon
  <2>3. f[i] = cell("link", s.links[i - (4 + d)])
    BY <2>1, <2>2
  <2> QED BY <2>3 DEF cell
<1>8. parses(f)
  <2>1. Len(f) >= 5 /\ Len(f) >= 5 + d
    BY <1>1
  <2>2. AllOf("device", f, 4, 3 + d) /\ AllOf("link", f, 5 + d, 4 + d + l)
    BY <1>6, <1>7, Zenon DEF AllOf
  <2> QED BY <1>1, <1>4, <2>1, <2>2, Zenon DEF parses
<1>9. values(f, 4, 3 + d) = s.devices
  <2>1. (3 + d) - 4 + 1 = d
    BY <1>1
  <2>2. values(f, 4, 3 + d) = [i \in 1..d |-> f[4 + i - 1].value]
    BY <2>1, Zenon DEF values
  <2>3. \A i \in 1..d : f[4 + i - 1].value = s.devices[i]
    <3> TAKE i \in 1..d
    <3>1. 4 + i - 1 \in 4..(3 + d) /\ (4 + i - 1) - 3 = i
      BY <1>1
    <3> QED BY <1>6, <3>1
  <2>4. s.devices = [i \in 1..d |-> s.devices[i]]
    <3>1. s.devices \in Seq({s.devices[i] : i \in DOMAIN s.devices})
      BY <1>2 DEF Records
    <3>2. s.devices \in [1..d -> {s.devices[i] : i \in DOMAIN s.devices}]
      BY <3>1, LenProperties DEF d
    <3> QED BY <3>2
  <2> QED BY <2>2, <2>3, <2>4
<1>10. values(f, 5 + d, Len(f) - 1) = s.links
  <2>1. Len(f) - 1 = 4 + d + l /\ (4 + d + l) - (5 + d) + 1 = l
    BY <1>1
  <2>2. values(f, 5 + d, Len(f) - 1) = [i \in 1..l |-> f[(5 + d) + i - 1].value]
    BY <2>1, Zenon DEF values
  <2>3. \A i \in 1..l : f[(5 + d) + i - 1].value = s.links[i]
    <3> TAKE i \in 1..l
    <3>1. (5 + d) + i - 1 \in (5 + d)..(4 + d + l) /\ ((5 + d) + i - 1) - (4 + d) = i
      BY <1>1
    <3> QED BY <1>7, <3>1
  <2>4. s.links = [i \in 1..l |-> s.links[i]]
    <3>1. s.links \in Seq({s.links[i] : i \in DOMAIN s.links})
      BY <1>2 DEF Records
    <3>2. s.links \in [1..l -> {s.links[i] : i \in DOMAIN s.links}]
      BY <3>1, LenProperties DEF l
    <3> QED BY <3>2
  <2> QED BY <2>2, <2>3, <2>4
<1>11. parse(f) = [topology_generation |-> s.topology_generation,
                   devices |-> s.devices, links |-> s.links]
  BY <1>4, <1>9, <1>10, Zenon DEF parse
<1> QED BY <1>2, <1>5, <1>8, <1>11, Zenon DEF f

\* The cells that the frames of some checkpoints are made of, and holes.
CellsOf(G) == {hole} \cup UNION {{serialize(s)[i] : i \in 1..Len(serialize(s))} : s \in G}

LEMMA FrameCells ==
  ASSUME NEW G \in SUBSET Checkpoints, NEW s \in G
  PROVE  /\ serialize(s) \in Seq(CellsOf(G))
         /\ Len(serialize(s)) \in Nat /\ Len(serialize(s)) >= 5
         /\ \A i \in 1..Len(serialize(s)) : serialize(s)[i] \in CellsOf(G)
<1> DEFINE f == serialize(s)
           S == {f[i] : i \in 1..Len(f)}
<1>1. s \in Checkpoints
  OBVIOUS
<1>2. /\ Len(s.devices) \in Nat /\ Len(s.links) \in Nat
      /\ Len(f) = 5 + Len(s.devices) + Len(s.links) /\ f \in Seq(S)
  BY <1>1, FrameShape, Zenon
<1>3. S \subseteq CellsOf(G)
  BY DEF CellsOf
<1>4. Len(f) \in Nat /\ Len(f) >= 5
  <2>1. PICK d \in Nat, l \in Nat : d = Len(s.devices) /\ l = Len(s.links)
    BY <1>2
  <2>2. Len(f) = 5 + d + l
    BY <1>2, <2>1, Zenon
  <2> HIDE DEF f
  <2> QED BY <2>2
<1>5. \A i \in 1..Len(f) : f[i] \in CellsOf(G)
  BY <1>3
<1> HIDE DEF f, S
<1>6. f \in Seq(CellsOf(G))
  BY <1>2, <1>3, SeqMonotonic
<1> QED BY <1>4, <1>5, <1>6 DEF f

\* Saving more checkpoints only adds cells.
LEMMA CellsOfMonotonic ==
  ASSUME NEW G, NEW H, G \subseteq H
  PROVE  CellsOf(G) \subseteq CellsOf(H) /\ Seq(CellsOf(G)) \subseteq Seq(CellsOf(H))
<1>1. CellsOf(G) \subseteq CellsOf(H)
  BY DEF CellsOf
<1> QED BY <1>1, SeqMonotonic

\* A mixture of frames that passes the checks is one of the frames, whole: its
\* last cell is the checksum of all its other cells, and only the frame that
\* those cells make up has that cell.
LEMMA IntactIsWhole ==
  ASSUME NEW G \in SUBSET Checkpoints, NEW b \in Seq(CellsOf(G)), intact(b)
  PROVE  \E s \in G : b = serialize(s)
<1> DEFINE n == Len(b)
           x == SubSeq(b, 1, n - 1)
<1>1. n \in Nat /\ n >= 2 /\ b[n] = crc32(x)
  BY LenProperties DEF intact
<1>2. n - 1 \in Nat /\ n \in 1..n /\ \A i \in 1..(n - 1) : i \in 1..n
  BY <1>1
<1>3. /\ Len(x) = n - 1 /\ \A i \in 1..(n - 1) : x[i] = b[i]
  <2>1. \A i \in 1..(n - 1) : b[i] \in CellsOf(G)
    BY <1>2, ElementOfSeq
  <2>2. PICK k \in Nat : k = n - 1
    BY <1>2
  <2>3. \A i \in 1..k : b[i] \in CellsOf(G)
    BY <2>1, <2>2, Zenon
  <2>4. Len(SubSeq(b, 1, k)) = k /\ \A i \in 1..k : SubSeq(b, 1, k)[i] = b[i]
    BY <2>3, SubSeqProperties
  <2> QED BY <2>2, <2>4, Zenon
<1>4. b[n] \in CellsOf(G)
  BY <1>2, ElementOfSeq
<1> HIDE DEF n, x
<1>5. b[n].part = "crc" /\ b[n].value = x
  BY <1>1 DEF crc32, cell
<1>6. b[n] # hole
  <2>1. hole.part = "hole"
    BY DEF hole, cell
  <2> QED BY <1>5, <2>1
<1>7. PICK s \in G : \E i \in 1..Len(serialize(s)) : b[n] = serialize(s)[i]
  BY <1>4, <1>6 DEF CellsOf
<1> DEFINE f == serialize(s)
           m == Len(f)
           y == SubSeq(f, 1, m - 1)
<1>8. PICK i \in 1..m : b[n] = f[i]
  BY <1>7
<1>9. /\ f \in Seq(CellsOf(G)) /\ m \in Nat /\ m >= 5
  BY FrameCells
<1>10. f[m] = crc32(y) /\ \A j \in 1..(m - 1) : f[j].part # "crc"
  <2>1. s \in Checkpoints
    OBVIOUS
  <2> QED BY <2>1, FrameShape, Zenon
<1>11. m - 1 \in Nat /\ \A j \in 1..(m - 1) : j \in 1..m
  BY <1>9
<1>12. /\ Len(y) = m - 1 /\ \A j \in 1..(m - 1) : y[j] = f[j]
  <2>1. \A j \in 1..(m - 1) : f[j] \in CellsOf(G)
    BY <1>9, <1>11, ElementOfSeq
  <2>2. PICK k \in Nat : k = m - 1
    BY <1>11
  <2>3. \A j \in 1..k : f[j] \in CellsOf(G)
    BY <2>1, <2>2, Zenon
  <2>4. Len(SubSeq(f, 1, k)) = k /\ \A j \in 1..k : SubSeq(f, 1, k)[j] = f[j]
    <3> HIDE DEF f
    <3> QED BY <2>3, SubSeqProperties
  <2> QED BY <2>2, <2>4, Zenon
<1> HIDE DEF f, m, y
<1>13. i = m
  <2> SUFFICES ASSUME i # m
               PROVE  FALSE
    OBVIOUS
  <2>1. i \in 1..(m - 1)
    BY <1>8, <1>9
  <2> QED BY <1>5, <1>8, <1>10, <2>1, Zenon
<1>14. b[n] = f[m] /\ f[m].value = y
  BY <1>8, <1>10, <1>13 DEF crc32, cell
<1>15. x = y
  BY <1>5, <1>14
<1>16. n - 1 = m - 1
  BY <1>3, <1>12, <1>15, Zenon
<1>17. n = m
  BY <1>1, <1>9, <1>16
<1>18. \A j \in 1..n : j \in 1..(n - 1) \/ j = n
  BY <1>1
<1>19. \A j \in 1..n : b[j] = f[j]
  BY <1>3, <1>12, <1>14, <1>15, <1>17, <1>18, Zenon
<1>20. b = f
  BY <1>9, <1>17, <1>19, SeqEqual DEF m, n
<1> QED BY <1>20 DEF f

-----------------------------------------------------------------------------
(* The invariant *)

Names == {"path", "tmp"}

SaveRecord ==
  [pc: {"idle", "writing", "closed", "failed"}, state: Checkpoints \cup {None},
   inode: Inode \cup {None}, written: Nat]

LoadRecord(G) == [inode: Inode \cup {None}, size: Nat, bytes: Seq(CellsOf(G))]

Result ==
  [code: {"OK", "NOT_FOUND", "RESOURCE_LIMIT", "INTEGRITY_FAILURE"},
   state: Checkpoints \cup {None}]

\* A saver that is under way was given its state, which is not too large, and has
\* the temporary file open exactly while it writes.
SaverOK(v, G) ==
  /\ v \in SaveRecord /\ (v.pc = "writing" <=> v.inode \in Inode)
  /\ v.pc = "idle" => v = idle
  /\ v.pc # "idle" => /\ v.state \in G
                      /\ Len(serialize(v.state)) <= max_persisted_state_bytes
  /\ v.pc = "writing" => v.written < Len(serialize(v.state))

LoaderOK(v, G) ==
  /\ v \in LoadRecord(G) /\ Len(v.bytes) <= v.size
  /\ v.size <= max_persisted_state_bytes

SaversInv == save \in [Saver -> SaveRecord] /\ \A p \in Saver : SaverOK(save[p], given)

LoadersInv ==
  load \in [Loader -> LoadRecord(given)] /\ \A q \in Loader : LoaderOK(load[q], given)

\* Whatever the savers did to it, a file holds cells of their frames, and holes.
FilesInv ==
  /\ entry \in [Names -> Inode \cup {None}]
  /\ DOMAIN content = in_use
  /\ \A i \in in_use : /\ content[i] \in Seq(CellsOf(given))
                       /\ Len(content[i]) <= max_persisted_state_bytes

ResultsInv ==
  /\ loaded \in [Loader -> Result]
  /\ given \in SUBSET Checkpoints /\ replaced \in given \cup {None}
  /\ overlapped \in BOOLEAN

StoreInv == SaversInv /\ LoadersInv /\ FilesInv /\ ResultsInv /\ LoadsOnlySaved

\* An inode is in use when it has a name or is open, before and after a step.
LEMMA InUse ==
  ASSUME entry \in [Names -> Inode \cup {None}], entry' \in [Names -> Inode \cup {None}]
  PROVE  /\ \A i : i \in in_use <=>
              /\ i # None
              /\ \/ i = entry["path"] \/ i = entry["tmp"]
                 \/ \E p \in Saver : i = save[p].inode
                 \/ \E q \in Loader : i = load[q].inode
         /\ \A i : i \in in_use' <=>
              /\ i # None
              /\ \/ i = entry'["path"] \/ i = entry'["tmp"]
                 \/ \E p \in Saver : i = save'[p].inode
                 \/ \E q \in Loader : i = load'[q].inode
<1>1. DOMAIN entry = {"path", "tmp"} /\ DOMAIN entry' = {"path", "tmp"}
  BY DEF Names
<1>2. \A i : i \in in_use <=>
              /\ i # None
              /\ \/ i = entry["path"] \/ i = entry["tmp"]
                 \/ \E p \in Saver : i = save[p].inode
                 \/ \E q \in Loader : i = load[q].inode
  BY <1>1 DEF in_use
<1>3. \A i : i \in in_use' <=>
              /\ i # None
              /\ \/ i = entry'["path"] \/ i = entry'["tmp"]
                 \/ \E p \in Saver : i = save'[p].inode
                 \/ \E q \in Loader : i = load'[q].inode
  BY <1>1 DEF in_use
<1> QED BY <1>2, <1>3

LEMMA InodesInUse ==
  ASSUME SaversInv, LoadersInv, FilesInv
  PROVE  in_use \subseteq Inode
<1>1. entry["path"] \in Inode \cup {None} /\ entry["tmp"] \in Inode \cup {None}
  BY DEF FilesInv, Names
<1>2. \A p \in Saver : save[p].inode \in Inode \cup {None}
  BY DEF SaversInv, SaveRecord
<1>3. \A q \in Loader : load[q].inode \in Inode \cup {None}
  BY DEF LoadersInv, LoadRecord
<1>4. DOMAIN entry = {"path", "tmp"}
  BY DEF FilesInv, Names
<1> QED BY <1>1, <1>2, <1>3, <1>4 DEF in_use

\* A saver moves on.
LEMMA SaverMoves ==
  ASSUME SaversInv, NEW p \in Saver, NEW v, SaverOK(v, given'),
         save' = [save EXCEPT ![p] = v], given \subseteq given'
  PROVE  /\ SaversInv' /\ save'[p] = v
         /\ \A r \in Saver : r # p => save'[r] = save[r]
<1>1. save \in [Saver -> SaveRecord] /\ v \in SaveRecord
  BY DEF SaversInv, SaverOK
<1>2. /\ save' \in [Saver -> SaveRecord] /\ save'[p] = v
      /\ \A r \in Saver : r # p => save'[r] = save[r]
  BY <1>1
<1>3. ASSUME NEW r \in Saver
      PROVE  SaverOK(save'[r], given')
  <2>1. CASE r = p
    BY <1>2, <2>1
  <2>2. CASE r # p
    <3>1. SaverOK(save[r], given)
      BY DEF SaversInv
    <3>2. SaverOK(save[r], given')
      BY <3>1, Zenon DEF SaverOK
    <3> QED BY <1>2, <2>2, <3>2
  <2> QED BY <2>1, <2>2
<1> QED BY <1>2, <1>3 DEF SaversInv

\* The loaders are left alone.
LEMMA LoadersStay ==
  ASSUME LoadersInv, UNCHANGED load, given \subseteq given'
  PROVE  LoadersInv'
<1>1. Seq(CellsOf(given)) \subseteq Seq(CellsOf(given'))
  BY CellsOfMonotonic
<1>2. \A v \in LoadRecord(given) : v \in LoadRecord(given')
  BY <1>1 DEF LoadRecord
<1>3. load' \in [Loader -> LoadRecord(given')]
  BY <1>2 DEF LoadersInv
<1>4. \A q \in Loader : LoaderOK(load[q], given) => LoaderOK(load[q], given')
  BY <1>2, Zenon DEF LoaderOK
<1> QED BY <1>3, <1>4, Zenon DEF LoadersInv

\* Files that are no longer in use go away and the others keep their cells.
LEMMA FilesReclaimed ==
  ASSUME FilesInv, reclaim, entry' \in [Names -> Inode \cup {None}],
         in_use' \subseteq in_use, UNCHANGED given
  PROVE  FilesInv' /\ \A i \in in_use' : content'[i] = content[i]
<1>1. content' = [i \in in_use' |-> content[i]]
  BY DEF reclaim
<1>2. DOMAIN content' = in_use' /\ \A i \in in_use' : content'[i] = content[i]
  BY <1>1
<1>3. \A i \in in_use' : /\ content'[i] \in Seq(CellsOf(given'))
                         /\ Len(content'[i]) <= max_persisted_state_bytes
  BY <1>2 DEF FilesInv
<1> QED BY <1>2, <1>3 DEF FilesInv

\* The two names are never one file.
NamesDiffer == entry["path"] # None => entry["path"] # entry["tmp"]

\* While saves have not overlapped, one saver at most is under way ...
OneSaver ==
  ~ overlapped =>
    \A p \in Saver, r \in Saver : save[p] # idle /\ save[r] # idle => p = r

\* ... the temporary file holds what it has written so far ...
TmpInv ==
  ~ overlapped =>
    \A p \in Saver :
      LET frame == serialize(save[p].state)
      IN  /\ save[p].pc = "writing" =>
               /\ entry["tmp"] = save[p].inode
               /\ content[entry["tmp"]] = SubSeq(frame, 1, save[p].written)
          /\ save[p].pc = "closed" =>
               /\ entry["tmp"] # None
               /\ content[entry["tmp"]] = frame

\* ... and the file holds the whole of what was last reported as saved.
PathInv ==
  ~ overlapped /\ replaced # None =>
    entry["path"] # None /\ content[entry["path"]] = serialize(replaced)

ExclusiveInv == NamesDiffer /\ OneSaver /\ TmpInv /\ PathInv

\* There is an inode for a new temporary file that no process and no name uses.
LEMMA FreshInode ==
  ASSUME StoreInv, entry["tmp"] = None
  PROVE  fresh_inode \in Inode /\ fresh_inode \notin in_use
<1> DEFINE X == {entry["path"]}
           Y == {save[p].inode : p \in Saver}
           Z == {load[q].inode : q \in Loader}
           S == Cardinality(Saver)
           L == Cardinality(Loader)
           U == (X \cup Y) \cup Z
<1>1. /\ IsFiniteSet(Inode) /\ IsFiniteSet(Saver) /\ IsFiniteSet(Loader)
      /\ Cardinality(Inode) >= S + L + 2
  BY CheckpointsAssumption
<1>2. S \in Nat /\ L \in Nat /\ Cardinality(Inode) \in Nat
  BY <1>1, FS_CardinalityType
<1>3. IsFiniteSet(Y) /\ Cardinality(Y) <= S
  <2> DEFINE f == [p \in Saver |-> save[p].inode]
  <2>1. f \in Surjection(Saver, Y)
    BY DEF Surjection
  <2> HIDE DEF f, Y
  <2> QED BY <1>1, <2>1, FS_Surjection
<1>4. IsFiniteSet(Z) /\ Cardinality(Z) <= L
  <2> DEFINE f == [q \in Loader |-> load[q].inode]
  <2>1. f \in Surjection(Loader, Z)
    BY DEF Surjection
  <2> HIDE DEF f, Z
  <2> QED BY <1>1, <2>1, FS_Surjection
<1>5. IsFiniteSet(X) /\ Cardinality(X) = 1
  BY FS_Singleton
<1> HIDE DEF X, Y, Z, S, L
<1>6. \A A, B : IsFiniteSet(A) /\ IsFiniteSet(B) =>
        IsFiniteSet(A \cup B) /\ Cardinality(A \cup B) <= Cardinality(A) + Cardinality(B)
  <2> SUFFICES ASSUME NEW A, NEW B, IsFiniteSet(A), IsFiniteSet(B)
               PROVE  /\ IsFiniteSet(A \cup B)
                      /\ Cardinality(A \cup B) <= Cardinality(A) + Cardinality(B)
    OBVIOUS
  <2>1. /\ IsFiniteSet(A \cup B)
        /\ Cardinality(A \cup B) = Cardinality(A) + Cardinality(B) - Cardinality(A \cap B)
    BY FS_Union, Zenon
  <2>2. IsFiniteSet(A \cap B)
    BY FS_Subset
  <2>3. Cardinality(A) \in Nat /\ Cardinality(B) \in Nat /\ Cardinality(A \cap B) \in Nat
    BY <2>2, FS_CardinalityType, Zenon
  <2>4. PICK a, b, c, d : /\ a = Cardinality(A) /\ b = Cardinality(B)
                          /\ c = Cardinality(A \cap B) /\ d = Cardinality(A \cup B)
    BY Zenon
  <2>5. d = a + b - c /\ a \in Nat /\ b \in Nat /\ c \in Nat
    BY <2>1, <2>3, <2>4, Zenon
  <2>6. d <= a + b
    BY <2>5
  <2> QED BY <2>1, <2>4, <2>6, Zenon
<1>7. IsFiniteSet(X \cup Y) /\ Cardinality(X \cup Y) <= Cardinality(X) + Cardinality(Y)
  BY <1>3, <1>5, <1>6, Zenon
<1>8. IsFiniteSet(U) /\ Cardinality(U) <= Cardinality(X \cup Y) + Cardinality(Z)
  BY <1>4, <1>6, <1>7, Zenon
<1>9. Cardinality(U) < Cardinality(Inode)
  <2>1. /\ Cardinality(U) \in Nat /\ Cardinality(X \cup Y) \in Nat
        /\ Cardinality(Y) \in Nat /\ Cardinality(Z) \in Nat
    BY <1>3, <1>4, <1>7, <1>8, FS_CardinalityType, Zenon
  <2>2. PICK u, v, y, z, n : /\ u = Cardinality(U) /\ v = Cardinality(X \cup Y)
                             /\ y = Cardinality(Y) /\ z = Cardinality(Z) /\ n = Cardinality(Inode)
    BY Zenon
  <2>3. u <= v + z /\ v <= 1 + y /\ y <= S /\ z <= L /\ n >= S + L + 2
    BY <1>1, <1>3, <1>4, <1>5, <1>7, <1>8, <2>2, Zenon
  <2>4. u \in Nat /\ v \in Nat /\ y \in Nat /\ z \in Nat /\ n \in Nat
    BY <1>2, <2>1, <2>2, Zenon
  <2>5. u < n
    BY <1>2, <2>3, <2>4
  <2> QED BY <2>2, <2>5, Zenon
<1> HIDE DEF U
<1>10. ~(Inode \subseteq U)
  <2> SUFFICES ASSUME Inode \in SUBSET U
               PROVE  FALSE
    OBVIOUS
  <2>1. Cardinality(Inode) <= Cardinality(U)
    BY <1>8, FS_Subset, Zenon
  <2>2. Cardinality(U) \in Nat
    BY <1>8, FS_CardinalityType, Zenon
  <2> QED BY <1>2, <1>9, <2>1, <2>2
<1>11. in_use \subseteq U
  <2>1. DOMAIN entry = {"path", "tmp"}
    BY DEF StoreInv, FilesInv, Names
  <2> QED BY <2>1 DEF in_use, U, X, Y, Z
<1>12. \E i \in Inode : i \notin in_use
  BY <1>10, <1>11
<1> QED BY <1>12, ZenonT(30) DEF fresh_inode

LEMMA WriteAt ==
  ASSUME NEW S, NEW b \in Seq(S), hole \in S, NEW c \in S, NEW n \in Nat, n > 0
  PROVE  /\ write_at(b, n, c) \in Seq(S)
         /\ Len(write_at(b, n, c)) = IF n > Len(b) THEN n ELSE Len(b)
<1> DEFINE m == IF n > Len(b) THEN n ELSE Len(b)
           w == [i \in 1..m |-> IF i = n THEN c ELSE IF i <= Len(b) THEN b[i] ELSE hole]
<1>1. Len(b) \in Nat /\ m \in Nat
  BY LenProperties
<1>2. write_at(b, n, c) = w
  BY DEF write_at
<1> HIDE DEF m
<1>3. \A i \in 1..m : (IF i = n THEN c ELSE IF i <= Len(b) THEN b[i] ELSE hole) \in S
  <2> TAKE i \in 1..m
  <2>1. i <= Len(b) => b[i] \in S
    BY <1>1, ElementOfSeq
  <2> QED BY <2>1
<1>4. w \in [1..m -> S]
  BY <1>3
<1>5. w \in Seq(S) /\ Len(w) = m
  BY <1>1, <1>4, SeqDef, LenProperties
<1> QED BY <1>2, <1>5 DEF m

\* Writing the next cell of a frame after those before it.
LEMMA WriteNext ==
  ASSUME NEW S, NEW f \in Seq(S), NEW n \in Nat, n > 0, n <= Len(f),
         NEW b, b = SubSeq(f, 1, n - 1)
  PROVE  write_at(b, n, f[n]) = SubSeq(f, 1, n)
<1> DEFINE w == write_at(b, n, f[n])
<1>1. Len(f) \in Nat
  BY LenProperties
<1>2. \A i \in 1..n : f[i] \in S
  BY <1>1, ElementOfSeq
<1>3. PICK k \in Nat : k = n - 1
  OBVIOUS
<1>4. k + 1 = n /\ n > k /\ \A i \in 1..k : f[i] \in S
  BY <1>2, <1>3
<1>5. b = SubSeq(f, 1, k)
  BY <1>3
<1>6. Len(b) = k /\ \A i \in 1..k : b[i] = f[i]
  BY <1>4, <1>5, SubSeqProperties
<1>7. w = [i \in 1..n |-> IF i = n THEN f[n] ELSE IF i <= k THEN b[i] ELSE hole]
  BY <1>4, <1>6, Zenon DEF write_at
<1>8. \A i \in 1..n : w[i] = f[i]
  <2> TAKE i \in 1..n
  <2>1. i = n \/ i \in 1..k
    BY <1>4
  <2>2. CASE i = n
    BY <1>7, <2>2
  <2>3. CASE i # n /\ i \in 1..k
    <3>1. i <= k
      BY <2>3
    <3> QED BY <1>6, <1>7, <2>3, <3>1
  <2> QED BY <2>1, <2>2, <2>3
<1>9. /\ SubSeq(f, 1, n) \in Seq(S) /\ Len(SubSeq(f, 1, n)) = n
      /\ \A i \in 1..n : SubSeq(f, 1, n)[i] = f[i]
  BY <1>2, SubSeqProperties
<1>10. SubSeq(f, 1, n) = [i \in 1..n |-> f[i]]
  <2>1. SubSeq(f, 1, n) \in [1..n -> S]
    BY <1>9, LenProperties
  <2> QED BY <1>9, <2>1
<1> HIDE DEF w
<1>11. w = [i \in 1..n |-> f[i]]
  BY <1>7, <1>8
<1> QED BY <1>10, <1>11 DEF w

-----------------------------------------------------------------------------
(* The steps keep the invariant *)

LEMMA IdleOK == \A G : SaverOK(idle, G)
<1>1. idle \in SaveRecord /\ idle.pc = "idle" /\ idle.inode = None
  BY DEF idle, SaveRecord
<1>2. idle.inode \notin Inode
  BY <1>1, StoreConstants
<1> QED BY <1>1, <1>2 DEF SaverOK

\* A saver that is under way is told from an idle one by its program counter.
LEMMA UnderWay ==
  ASSUME SaversInv, NEW p \in Saver
  PROVE  /\ SaverOK(save[p], given) /\ save[p] \in SaveRecord
         /\ save[p] = idle <=> save[p].pc = "idle"
<1>1. SaverOK(save[p], given)
  BY DEF SaversInv
<1>2. idle.pc = "idle"
  BY DEF idle
<1> QED BY <1>1, <1>2 DEF SaverOK

\* Nothing that the exclusive invariant looks at has changed.
LEMMA ExclusiveStays ==
  ASSUME StoreInv, ExclusiveInv, UNCHANGED <<entry, save, replaced, overlapped>>,
         entry["path"] # None => content'[entry["path"]] = content[entry["path"]],
         entry["tmp"] # None => content'[entry["tmp"]] = content[entry["tmp"]]
  PROVE  ExclusiveInv'
<1>1. NamesDiffer' /\ OneSaver' /\ PathInv'
  BY DEF ExclusiveInv, NamesDiffer, OneSaver, PathInv
<1>2. ASSUME ~ overlapped, NEW p \in Saver, save[p].pc = "writing"
      PROVE  entry["tmp"] # None
  <2>1. save[p].inode \in Inode
    BY <1>2, UnderWay DEF StoreInv, SaverOK
  <2>2. entry["tmp"] = save[p].inode
    BY <1>2 DEF ExclusiveInv, TmpInv
  <2> QED BY <2>1, <2>2, StoreConstants
<1>3. TmpInv'
  BY <1>2, Zenon DEF ExclusiveInv, TmpInv
<1> QED BY <1>1, <1>3 DEF ExclusiveInv

\* The inodes in use shrink when a saver closes or keeps its file and the
\* directory loses a name or keeps both.
LEMMA InUseShrinks ==
  ASSUME StoreInv, entry' \in [Names -> Inode \cup {None}], UNCHANGED load,
         entry'["path"] \in {entry["path"], entry["tmp"]},
         entry'["tmp"] \in {entry["tmp"], None},
         \A p \in Saver : save'[p].inode = save[p].inode \/ save'[p].inode = None
  PROVE  in_use' \subseteq in_use
<1>1. entry \in [Names -> Inode \cup {None}]
  BY DEF StoreInv, FilesInv
<1> QED BY <1>1, InUse

\* save_write_fails, save_remove_tmp and crash: a saver stops, and the temporary
\* file may go.
LEMMA GiveUpStep ==
  ASSUME StoreInv, ExclusiveInv, NEW p \in Saver, save[p] # idle,
         save' = [save EXCEPT ![p] = idle], reclaim,
         entry' = entry \/ entry' = [entry EXCEPT !["tmp"] = None],
         UNCHANGED <<load, loaded, given, replaced, overlapped>>
  PROVE  StoreInv' /\ ExclusiveInv'
<1>1. entry \in [Names -> Inode \cup {None}]
  BY DEF StoreInv, FilesInv
<1>2. /\ entry' \in [Names -> Inode \cup {None}] /\ entry'["path"] = entry["path"]
      /\ entry'["tmp"] \in {entry["tmp"], None}
  BY <1>1 DEF Names
<1>3. SaverOK(idle, given') /\ given \subseteq given'
  BY IdleOK
<1>4. /\ SaversInv' /\ save'[p] = idle
      /\ \A r \in Saver : r # p => save'[r] = save[r]
  BY <1>3, SaverMoves DEF StoreInv
<1>5. LoadersInv'
  BY <1>3, LoadersStay DEF StoreInv
<1>6. idle.inode = None /\ idle.pc = "idle"
  BY DEF idle
<1>7. in_use' \subseteq in_use
  <2>1. \A r \in Saver : save'[r].inode = save[r].inode \/ save'[r].inode = None
    BY <1>4, <1>6
  <2>2. entry'["path"] \in {entry["path"], entry["tmp"]}
    BY <1>2
  <2> QED BY <1>2, <2>1, <2>2, InUseShrinks
<1>8. FilesInv' /\ \A i \in in_use' : content'[i] = content[i]
  BY <1>2, <1>7, FilesReclaimed DEF StoreInv
<1>9. ResultsInv' /\ LoadsOnlySaved'
  BY DEF StoreInv, ResultsInv, LoadsOnlySaved
<1>10. NamesDiffer' /\ OneSaver'
  <2>1. NamesDiffer'
    BY <1>2 DEF ExclusiveInv, NamesDiffer
  <2>2. OneSaver'
    BY <1>4, Zenon DEF ExclusiveInv, OneSaver
  <2> QED BY <2>1, <2>2
<1>11. TmpInv'
  <2> SUFFICES ASSUME ~ overlapped, NEW r \in Saver
               PROVE  save'[r].pc = "idle"
    BY DEF TmpInv
  <2>1. CASE r = p
    BY <1>4, <1>6, <2>1
  <2>2. CASE r # p
    <3>1. save[r] = idle
      BY <2>2 DEF ExclusiveInv, OneSaver
    <3> QED BY <1>4, <1>6, <2>2, <3>1
  <2> QED BY <2>1, <2>2
<1>12. PathInv'
  <2>1. entry["path"] # None => entry["path"] \in in_use'
    BY <1>1, <1>2, InUse
  <2> QED BY <1>2, <1>8, <2>1 DEF ExclusiveInv, PathInv
<1> QED BY <1>4, <1>5, <1>8, <1>9, <1>10, <1>11, <1>12 DEF StoreInv, ExclusiveInv

\* The temporary file becomes the file.
LEMMA ReplaceStep ==
  ASSUME StoreInv, ExclusiveInv, NEW p \in Saver, atomic_replace(p)
  PROVE  StoreInv' /\ ExclusiveInv'
<1>1. entry \in [Names -> Inode \cup {None}]
  BY DEF StoreInv, FilesInv
<1>2. /\ save[p].pc = "closed" /\ entry["tmp"] # None
      /\ entry' = [entry EXCEPT !["path"] = entry["tmp"], !["tmp"] = None]
      /\ replaced' = save[p].state /\ save' = [save EXCEPT ![p] = idle]
      /\ UNCHANGED <<load, loaded, given, overlapped>> /\ reclaim
  BY DEF atomic_replace
<1>3. /\ entry' \in [Names -> Inode \cup {None}] /\ entry'["path"] = entry["tmp"]
      /\ entry'["tmp"] = None
  <2>1. PICK t : t = entry["tmp"]
    OBVIOUS
  <2>2. PICK e : e = [entry EXCEPT !["path"] = t]
    OBVIOUS
  <2>3. e \in [Names -> Inode \cup {None}] /\ e["path"] = t
    BY <1>1, <2>1, <2>2 DEF Names
  <2>4. entry' = [e EXCEPT !["tmp"] = None]
    BY <1>2, <2>1, <2>2
  <2> QED BY <2>1, <2>3, <2>4 DEF Names
<1>4. SaverOK(idle, given') /\ given \subseteq given'
  BY <1>2, IdleOK
<1>5. /\ SaversInv' /\ save'[p] = idle
      /\ \A r \in Saver : r # p => save'[r] = save[r]
  BY <1>2, <1>4, SaverMoves DEF StoreInv
<1>6. LoadersInv'
  BY <1>2, <1>4, LoadersStay DEF StoreInv
<1>7. idle.inode = None /\ idle.pc = "idle"
  BY DEF idle
<1>8. in_use' \subseteq in_use
  <2>1. \A r \in Saver : save'[r].inode = save[r].inode \/ save'[r].inode = None
    BY <1>5, <1>7
  <2> QED BY <1>2, <1>3, <2>1, InUseShrinks
<1>9. FilesInv' /\ \A i \in in_use' : content'[i] = content[i]
  BY <1>2, <1>3, <1>8, FilesReclaimed DEF StoreInv
<1>10. save[p].state \in given
  BY <1>2, UnderWay DEF StoreInv, SaverOK
<1>11. ResultsInv' /\ LoadsOnlySaved'
  BY <1>2, <1>10 DEF StoreInv, ResultsInv, LoadsOnlySaved
<1>12. NamesDiffer' /\ OneSaver'
  <2>1. NamesDiffer'
    BY <1>2, <1>3 DEF NamesDiffer
  <2>2. OneSaver'
    BY <1>2, <1>5, Zenon DEF ExclusiveInv, OneSaver
  <2> QED BY <2>1, <2>2
<1>13. save[p] # idle
  BY <1>2, <1>7
<1>14. TmpInv'
  <2> SUFFICES ASSUME ~ overlapped, NEW r \in Saver
               PROVE  save'[r].pc = "idle"
    BY <1>2 DEF TmpInv
  <2>1. CASE r = p
    BY <1>5, <1>7, <2>1
  <2>2. CASE r # p
    <3>1. save[r] = idle
      BY <1>13, <2>2 DEF ExclusiveInv, OneSaver
    <3> QED BY <1>5, <1>7, <2>2, <3>1
  <2> QED BY <2>1, <2>2
<1>15. PathInv'
  <2> SUFFICES ASSUME ~ overlapped
               PROVE  entry'["path"] # None /\ content'[entry'["path"]] = serialize(replaced')
    BY <1>2 DEF PathInv
  <2>1. content[entry["tmp"]] = serialize(save[p].state)
    BY <1>2 DEF ExclusiveInv, TmpInv
  <2>2. entry'["path"] \in in_use'
    BY <1>1, <1>2, <1>3, InUse
  <2> QED BY <1>2, <1>3, <1>9, <2>1, <2>2
<1> QED BY <1>5, <1>6, <1>9, <1>11, <1>12, <1>14, <1>15 DEF StoreInv, ExclusiveInv

LEMMA ReplaceFailsStep ==
  ASSUME StoreInv, ExclusiveInv, NEW p \in Saver, atomic_replace_fails(p)
  PROVE  StoreInv' /\ ExclusiveInv'
<1>1. /\ save[p].pc = "closed" /\ save' = [save EXCEPT ![p].pc = "failed"]
      /\ UNCHANGED <<entry, content, load, loaded, given, replaced, overlapped>>
  BY DEF atomic_replace_fails
<1>2. PICK v : v = [save[p] EXCEPT !.pc = "failed"]
  OBVIOUS
<1>3. save' = [save EXCEPT ![p] = v]
  BY <1>1, <1>2
<1>4. SaverOK(save[p], given) /\ save[p] \in SaveRecord
  BY UnderWay DEF StoreInv
<1>5. /\ v \in SaveRecord /\ v.pc = "failed" /\ v.inode = save[p].inode
      /\ v.state = save[p].state
  BY <1>2, <1>4 DEF SaveRecord
<1>6. SaverOK(v, given') /\ given \subseteq given'
  BY <1>1, <1>4, <1>5 DEF SaverOK
<1>7. /\ SaversInv' /\ save'[p] = v
      /\ \A r \in Saver : r # p => save'[r] = save[r]
  BY <1>3, <1>6, SaverMoves DEF StoreInv
<1>8. LoadersInv'
  BY <1>1, <1>6, LoadersStay DEF StoreInv
<1>9. \A r \in Saver : save'[r].inode = save[r].inode
  BY <1>5, <1>7
<1>10. entry \in [Names -> Inode \cup {None}] /\ entry' \in [Names -> Inode \cup {None}]
  BY <1>1 DEF StoreInv, FilesInv
<1>11. in_use' = in_use
  <2>1. {save'[r].inode : r \in Saver} = {save[r].inode : r \in Saver}
    BY <1>9
  <2> QED BY <1>1, <2>1, Zenon DEF in_use
<1>12. FilesInv'
  BY <1>1, <1>11, Zenon DEF StoreInv, FilesInv
<1>13. ResultsInv' /\ LoadsOnlySaved'
  BY <1>1 DEF StoreInv, ResultsInv, LoadsOnlySaved
<1>14. idle.pc = "idle"
  BY DEF idle
<1>15. NamesDiffer' /\ PathInv'
  BY <1>1 DEF ExclusiveInv, NamesDiffer, PathInv
<1>16. save[p] # idle
  BY <1>1, <1>14
<1>17. OneSaver'
  BY <1>1, <1>7, <1>16, Zenon DEF ExclusiveInv, OneSaver
<1>18. TmpInv'
  <2> SUFFICES ASSUME ~ overlapped, NEW r \in Saver
               PROVE  save'[r].pc \notin {"writing", "closed"}
    BY <1>1 DEF TmpInv
  <2>1. CASE r = p
    BY <1>5, <1>7, <2>1
  <2>2. CASE r # p
    <3>1. save[r] = idle
      BY <1>16, <2>2 DEF ExclusiveInv, OneSaver
    <3> QED BY <1>7, <1>14, <2>2, <3>1
  <2> QED BY <2>1, <2>2
<1> QED BY <1>7, <1>8, <1>12, <1>13, <1>15, <1>17, <1>18 DEF StoreInv, ExclusiveInv

LEMMA BeginStep ==
  ASSUME StoreInv, ExclusiveInv, NEW p \in Saver, NEW s \in Checkpoints, save_begin(p, s)
  PROVE  StoreInv' /\ ExclusiveInv'
<1>1. PICK i \in Inode :
        /\ open_tmp(i)
        /\ save' = [save EXCEPT ![p] = [pc |-> "writing", state |-> s,
                                        inode |-> i, written |-> 0]]
  BY DEF save_begin
<1>2. /\ save[p] = idle /\ Len(serialize(s)) <= max_persisted_state_bytes
      /\ given' = given \cup {s} /\ UNCHANGED <<load, loaded, replaced>>
      /\ overlapped' = (overlapped \/ \E r \in Saver \ {p} : save[r] # idle)
  BY DEF save_begin
<1>3. /\ entry["tmp"] = None => i = fresh_inode
      /\ entry["tmp"] # None => i = entry["tmp"]
      /\ entry' = [entry EXCEPT !["tmp"] = i]
      /\ content' = [j \in in_use \cup {i} |-> IF j = i THEN <<>> ELSE content[j]]
  BY <1>1 DEF open_tmp
<1>4. given \in SUBSET Checkpoints /\ given' \in SUBSET Checkpoints /\ given \subseteq given'
  BY <1>2 DEF StoreInv, ResultsInv
<1>5. entry \in [Names -> Inode \cup {None}]
  BY DEF StoreInv, FilesInv
<1>6. /\ entry' \in [Names -> Inode \cup {None}] /\ entry'["path"] = entry["path"]
      /\ entry'["tmp"] = i
  BY <1>3, <1>5 DEF Names
<1>7. i # None
  BY StoreConstants
<1>8. PICK v : v = [pc |-> "writing", state |-> s, inode |-> i, written |-> 0]
  OBVIOUS
<1>9. /\ v \in SaveRecord /\ v.pc = "writing" /\ v.state = s /\ v.inode = i /\ v.written = 0
  BY <1>8 DEF SaveRecord
<1>10. SaverOK(v, given')
  <2>1. Len(serialize(s)) \in Nat /\ Len(serialize(s)) >= 5
    BY FrameCells
  <2>2. 0 < Len(serialize(s))
    BY <2>1
  <2>3. s \in given' /\ v.inode \in Inode
    BY <1>2, <1>9
  <2>4. v.pc # "idle"
    BY <1>9
  <2> QED BY <1>2, <1>9, <2>2, <2>3, <2>4, Zenon DEF SaverOK
<1>11. /\ SaversInv' /\ save'[p] = v
       /\ \A r \in Saver : r # p => save'[r] = save[r]
  BY <1>1, <1>4, <1>8, <1>10, SaverMoves DEF StoreInv
<1>12. LoadersInv'
  BY <1>2, <1>4, LoadersStay DEF StoreInv
<1>13. idle.inode = None /\ idle.pc = "idle"
  BY DEF idle
<1>14. in_use' = in_use \cup {i}
  <2>1. /\ \A j : j \in in_use <=>
              /\ j # None
              /\ \/ j = entry["path"] \/ j = entry["tmp"]
                 \/ \E r \in Saver : j = save[r].inode
                 \/ \E q \in Loader : j = load[q].inode
        /\ \A j : j \in in_use' <=>
              /\ j # None
              /\ \/ j = entry'["path"] \/ j = entry'["tmp"]
                 \/ \E r \in Saver : j = save'[r].inode
                 \/ \E q \in Loader : j = load'[q].inode
    BY <1>5, <1>6, InUse
  <2>2. ASSUME NEW j \in in_use'
        PROVE  j \in in_use \/ j = i
    <3>1. CASE \E r \in Saver : j = save'[r].inode
      BY <1>9, <1>11, <2>1, <3>1
    <3>2. CASE j = entry'["path"] \/ j = entry'["tmp"] \/ \E q \in Loader : j = load'[q].inode
      BY <1>2, <1>6, <2>1, <3>2
    <3> QED BY <2>1, <3>1, <3>2
  <2>3. ASSUME NEW j \in in_use
        PROVE  j \in in_use'
    <3>1. CASE j = entry["path"] \/ \E q \in Loader : j = load[q].inode
      BY <1>2, <1>6, <2>1, <3>1
    <3>2. CASE j = entry["tmp"]
      BY <1>3, <1>6, <2>1, <3>2
    <3>3. CASE \E r \in Saver : j = save[r].inode
      BY <1>2, <1>11, <1>13, <2>1, <3>3
    <3> QED BY <2>1, <3>1, <3>2, <3>3
  <2>4. i \in in_use'
    BY <1>6, <1>7, <2>1
  <2> QED BY <2>2, <2>3, <2>4
<1>15. /\ DOMAIN content' = in_use' /\ content'[i] = << >>
       /\ \A j \in in_use' : j # i => j \in in_use /\ content'[j] = content[j]
  BY <1>3, <1>14
<1>16. FilesInv'
  <2>1. ASSUME NEW j \in in_use'
        PROVE  /\ content'[j] \in Seq(CellsOf(given'))
               /\ Len(content'[j]) <= max_persisted_state_bytes
    <3>1. CASE j = i
      <4>1. << >> \in Seq(CellsOf(given')) /\ Len(<< >>) = 0 /\ max_persisted_state_bytes \in Nat
        BY StoreConstants
      <4>2. 0 <= max_persisted_state_bytes
        BY <4>1
      <4> QED BY <1>15, <3>1, <4>1, <4>2, ZenonT(60)
    <3>2. CASE j # i
      <4>1. j \in in_use /\ content'[j] = content[j]
        BY <1>15, <3>2
      <4>2. content[j] \in Seq(CellsOf(given)) /\ Len(content[j]) <= max_persisted_state_bytes
        BY <4>1 DEF StoreInv, FilesInv
      <4>3. Seq(CellsOf(given)) \subseteq Seq(CellsOf(given'))
        BY <1>4, CellsOfMonotonic
      <4> QED BY <4>1, <4>2, <4>3
    <3> QED BY <3>1, <3>2
  <2> QED BY <1>6, <1>15, <2>1 DEF FilesInv
<1>17. ResultsInv' /\ LoadsOnlySaved'
  <2>1. replaced \in given \cup {None} /\ overlapped \in BOOLEAN /\ loaded \in [Loader -> Result]
    BY DEF StoreInv, ResultsInv
  <2>2. overlapped' \in BOOLEAN
    BY <1>2
  <2>3. ResultsInv'
    BY <1>2, <1>4, <2>1, <2>2 DEF ResultsInv
  <2>4. LoadsOnlySaved'
    BY <1>2, <1>4, Zenon DEF StoreInv, LoadsOnlySaved
  <2> QED BY <2>3, <2>4
<1>18. entry["path"] # None => entry["path"] # i /\ entry["path"] \in in_use'
  <2> SUFFICES ASSUME entry["path"] # None
               PROVE  entry["path"] # i /\ entry["path"] \in in_use'
    OBVIOUS
  <2>1. entry["path"] \in in_use
    BY <1>5, <1>6, InUse
  <2>2. CASE entry["tmp"] = None
    BY <1>3, <2>1, <2>2, <1>14, FreshInode
  <2>3. CASE entry["tmp"] # None
    BY <1>3, <1>14, <2>1, <2>3 DEF ExclusiveInv, NamesDiffer
  <2> QED BY <2>2, <2>3
<1>19. NamesDiffer'
  BY <1>6, <1>18 DEF NamesDiffer
<1>20. ~ overlapped' => ~ overlapped /\ \A r \in Saver : r # p => save[r] = idle
  BY <1>2
<1>21. OneSaver'
  BY <1>11, <1>20, Zenon DEF OneSaver
<1>22. TmpInv'
  <2> SUFFICES ASSUME ~ overlapped', NEW r \in Saver
               PROVE  /\ save'[r].pc = "writing" =>
                           /\ entry'["tmp"] = save'[r].inode
                           /\ content'[entry'["tmp"]]
                                = SubSeq(serialize(save'[r].state), 1, save'[r].written)
                      /\ save'[r].pc # "closed"
    BY Zenon DEF TmpInv
  <2>1. CASE r = p
    <3>1. SubSeq(serialize(s), 1, 0) = << >>
      <4>1. serialize(s) \in Seq(CellsOf(given'))
        BY <1>2, <1>4, FrameCells
      <4> QED BY <4>1, SubSeqProperties, EmptySeq
    <3>2. v.pc # "closed"
      BY <1>9
    <3> QED BY <1>6, <1>9, <1>11, <1>15, <2>1, <3>1, <3>2, Zenon
  <2>2. CASE r # p
    <3>1. save'[r] = idle
      BY <1>11, <1>20, <2>2
    <3> QED BY <1>13, <3>1
  <2> QED BY <2>1, <2>2
<1>23. PathInv'
  BY <1>2, <1>6, <1>15, <1>18, <1>20 DEF ExclusiveInv, PathInv
<1> QED BY <1>11, <1>12, <1>16, <1>17, <1>19, <1>21, <1>22, <1>23
       DEF StoreInv, ExclusiveInv

LEMMA WriteStep ==
  ASSUME StoreInv, ExclusiveInv, NEW p \in Saver, save_write(p)
  PROVE  StoreInv' /\ ExclusiveInv'
<1> DEFINE f == serialize(save[p].state)
           n == save[p].written + 1
           at == save[p].inode
<1>1. /\ save[p].pc = "writing"
      /\ save' = [save EXCEPT ![p] =
                    IF n < Len(f) THEN [save[p] EXCEPT !.written = n]
                    ELSE [save[p] EXCEPT !.pc = "closed", !.inode = None, !.written = 0]]
      /\ UNCHANGED <<entry, load>>
      /\ content' = [i \in in_use' |->
                       IF i = at THEN write_at(content[i], n, f[n]) ELSE content[i]]
      /\ UNCHANGED <<loaded, given, replaced, overlapped>>
  BY Zenon DEF save_write
<1>2. PICK x, y : /\ x = [save[p] EXCEPT !.written = n]
                  /\ y = [save[p] EXCEPT !.pc = "closed", !.inode = None, !.written = 0]
  OBVIOUS
<1>3. PICK v : v = (IF n < Len(f) THEN x ELSE y) /\ save' = [save EXCEPT ![p] = v]
  BY <1>1, <1>2, Zenon
<1>4. SaverOK(save[p], given) /\ save[p] \in SaveRecord
  BY UnderWay DEF StoreInv
<1>5. given \in SUBSET Checkpoints
  BY DEF StoreInv, ResultsInv
<1>6. /\ save[p].state \in given /\ at \in Inode /\ save[p].written \in Nat
      /\ Len(f) <= max_persisted_state_bytes /\ save[p].written < Len(f)
  BY <1>1, <1>4 DEF SaverOK, SaveRecord
<1>7. /\ f \in Seq(CellsOf(given)) /\ Len(f) \in Nat
      /\ \A i \in 1..Len(f) : f[i] \in CellsOf(given)
  BY <1>5, <1>6, FrameCells
<1>8. n \in Nat /\ n > 0 /\ n <= Len(f) /\ n \in 1..Len(f) /\ n - 1 = save[p].written
  BY <1>6, <1>7
<1>9. /\ x \in SaveRecord /\ x.pc = "writing" /\ x.inode = at
      /\ x.state = save[p].state /\ x.written = n
  <2> HIDE DEF n
  <2> QED BY <1>1, <1>2, <1>4, <1>8 DEF SaveRecord
<1>10. /\ y \in SaveRecord /\ y.pc = "closed" /\ y.inode = None
       /\ y.state = save[p].state /\ y.written = 0
  <2>1. PICK y1 : y1 = [save[p] EXCEPT !.pc = "closed"]
    OBVIOUS
  <2>2. y1 \in SaveRecord /\ y1.pc = "closed" /\ y1.state = save[p].state
    BY <1>4, <2>1 DEF SaveRecord
  <2>3. PICK y2 : y2 = [y1 EXCEPT !.inode = None]
    OBVIOUS
  <2>4. y2 \in SaveRecord /\ y2.pc = "closed" /\ y2.state = save[p].state /\ y2.inode = None
    BY <2>2, <2>3 DEF SaveRecord
  <2>5. y = [y2 EXCEPT !.written = 0]
    BY <1>2, <2>1, <2>3
  <2> QED BY <2>4, <2>5 DEF SaveRecord
<1> HIDE DEF n, f, at
<1>11. SaverOK(v, given')
  <2>1. CASE n < Len(f)
    <3>1. v = x
      BY <1>3, <2>1
    <3>2. x.pc # "idle" /\ x.inode \in Inode
      BY <1>6, <1>9
    <3> QED BY <1>1, <1>6, <1>9, <2>1, <3>1, <3>2, Zenon DEF SaverOK, f
  <2>2. CASE ~(n < Len(f))
    <3>1. v = y
      BY <1>3, <2>2
    <3>2. y.pc # "idle" /\ y.inode \notin Inode /\ y.pc # "writing"
      BY <1>10, StoreConstants
    <3> QED BY <1>1, <1>6, <1>10, <3>1, <3>2, Zenon DEF SaverOK, f
  <2> QED BY <2>1, <2>2
<1>12. /\ SaversInv' /\ save'[p] = v
       /\ \A r \in Saver : r # p => save'[r] = save[r]
  <2>1. given \subseteq given'
    BY <1>1
  <2> QED BY <1>3, <1>11, <2>1, SaverMoves DEF StoreInv
<1>13. LoadersInv'
  <2>1. given \subseteq given'
    BY <1>1
  <2> QED BY <1>1, <2>1, LoadersStay DEF StoreInv
<1>14. entry \in [Names -> Inode \cup {None}] /\ entry' = entry
  BY <1>1 DEF StoreInv, FilesInv
<1>15. in_use' \subseteq in_use
  <2>1. v.inode = at \/ v.inode = None
    BY <1>3, <1>9, <1>10
  <2>2. \A r \in Saver : save'[r].inode = save[r].inode \/ save'[r].inode = None
    BY <1>12, <2>1 DEF at
  <2> QED BY <1>1, <1>14, <2>2, InUseShrinks
<1>16. /\ DOMAIN content' = in_use'
       /\ \A i \in in_use' : i # at => content'[i] = content[i]
       /\ at \in in_use' => content'[at] = write_at(content[at], n, f[n])
  BY <1>1
<1>17. FilesInv'
  <2>1. ASSUME NEW i \in in_use'
        PROVE  /\ content'[i] \in Seq(CellsOf(given))
               /\ Len(content'[i]) <= max_persisted_state_bytes
    <3>1. content[i] \in Seq(CellsOf(given)) /\ Len(content[i]) <= max_persisted_state_bytes
      BY <1>15 DEF StoreInv, FilesInv
    <3>2. CASE i = at
      <4>1. hole \in CellsOf(given) /\ f[n] \in CellsOf(given)
        BY <1>7, <1>8 DEF CellsOf
      <4>2. /\ write_at(content[i], n, f[n]) \in Seq(CellsOf(given))
            /\ Len(write_at(content[i], n, f[n]))
                 = IF n > Len(content[i]) THEN n ELSE Len(content[i])
        BY <1>8, <3>1, <4>1, WriteAt
      <4>3. Len(content[i]) \in Nat /\ max_persisted_state_bytes \in Nat
        BY <3>1, LenProperties, StoreConstants
      <4>4. n <= max_persisted_state_bytes
        BY <1>6, <1>7, <1>8, <4>3
      <4>5. (IF n > Len(content[i]) THEN n ELSE Len(content[i])) <= max_persisted_state_bytes
        BY <3>1, <4>4
      <4> QED BY <1>16, <3>2, <4>2, <4>5, Zenon
    <3>3. CASE i # at
      BY <1>16, <3>1, <3>3
    <3> QED BY <3>2, <3>3
  <2> QED BY <1>1, <1>14, <1>16, <2>1 DEF FilesInv
<1>18. ResultsInv' /\ LoadsOnlySaved'
  BY <1>1 DEF StoreInv, ResultsInv, LoadsOnlySaved
<1>19. idle.pc = "idle" /\ save[p] # idle
  BY <1>1 DEF idle
<1>20. NamesDiffer' /\ OneSaver'
  <2>1. NamesDiffer'
    BY <1>1 DEF ExclusiveInv, NamesDiffer
  <2>2. OneSaver'
    BY <1>1, <1>12, <1>19, Zenon DEF ExclusiveInv, OneSaver
  <2> QED BY <2>1, <2>2
<1>21. ASSUME ~ overlapped
       PROVE  /\ entry["tmp"] = at /\ at \in in_use'
              /\ content'[at] = SubSeq(f, 1, n)
  <2>1. entry["tmp"] = at /\ content[at] = SubSeq(f, 1, save[p].written)
    BY <1>1, <1>21 DEF ExclusiveInv, TmpInv, f, at
  <2>2. at # None
    BY <1>6, StoreConstants
  <2>3. at \in in_use'
    BY <1>14, <2>1, <2>2, InUse
  <2>4. content[at] = SubSeq(f, 1, n - 1)
    BY <1>8, <2>1
  <2>5. write_at(content[at], n, f[n]) = SubSeq(f, 1, n)
    BY <1>7, <1>8, <2>4, WriteNext
  <2> QED BY <1>16, <2>1, <2>3, <2>5
<1>22. SubSeq(f, 1, Len(f)) = f
  BY <1>7, SubSeqFull
<1>23. TmpInv'
  <2> SUFFICES ASSUME ~ overlapped, NEW r \in Saver
               PROVE  /\ save'[r].pc = "writing" =>
                           /\ entry["tmp"] = save'[r].inode
                           /\ content'[entry["tmp"]]
                                = SubSeq(serialize(save'[r].state), 1, save'[r].written)
                      /\ save'[r].pc = "closed" =>
                           /\ entry["tmp"] # None
                           /\ content'[entry["tmp"]] = serialize(save'[r].state)
    BY <1>1, ZenonT(60) DEF TmpInv
  <2>1. CASE r = p /\ n < Len(f)
    <3>1. save'[r] = x
      BY <1>3, <1>12, <2>1
    <3>2. x.pc # "closed"
      BY <1>9
    <3> QED BY <1>9, <1>21, <3>1, <3>2, Zenon DEF f
  <2>2. CASE r = p /\ ~(n < Len(f))
    <3>1. save'[r] = y
      BY <1>3, <1>12, <2>2
    <3>2. n = Len(f) /\ y.pc # "writing" /\ at # None
      BY <1>6, <1>7, <1>8, <1>10, <2>2, StoreConstants
    <3> QED BY <1>10, <1>21, <1>22, <3>1, <3>2, Zenon DEF f
  <2>3. CASE r # p
    <3>1. save[r] = idle
      BY <1>19, <2>3 DEF ExclusiveInv, OneSaver
    <3> QED BY <1>12, <1>19, <2>3, <3>1
  <2> QED BY <2>1, <2>2, <2>3
<1>24. PathInv'
  <2> SUFFICES ASSUME ~ overlapped, replaced # None
               PROVE  entry["path"] # None /\ content'[entry["path"]] = serialize(replaced)
    BY <1>1 DEF PathInv
  <2>1. entry["path"] # None /\ content[entry["path"]] = serialize(replaced)
    BY DEF ExclusiveInv, PathInv
  <2>2. entry["path"] # at
    BY <1>21, <2>1 DEF ExclusiveInv, NamesDiffer
  <2>3. entry["path"] \in in_use'
    BY <1>14, <2>1, InUse
  <2> QED BY <1>16, <2>1, <2>2, <2>3
<1> QED BY <1>12, <1>13, <1>17, <1>18, <1>20, <1>23, <1>24 DEF StoreInv, ExclusiveInv

LEMMA NotLoadingOK ==
  ASSUME NEW G
  PROVE  LoaderOK(not_loading, G) /\ not_loading.inode = None
<1>1. << >> \in Seq(CellsOf(G)) /\ Len(<< >>) = 0 /\ max_persisted_state_bytes \in Nat
  BY StoreConstants
<1>2. /\ not_loading.inode = None /\ not_loading.size = 0 /\ not_loading.bytes = << >>
      /\ not_loading \in LoadRecord(G)
  <2>1. PICK e \in Seq(CellsOf(G)) : e = << >>
    BY <1>1
  <2>2. not_loading = [inode |-> None, size |-> 0, bytes |-> e]
    BY <2>1 DEF not_loading
  <2> QED BY <2>1, <2>2 DEF LoadRecord
<1>3. 0 <= 0 /\ 0 <= max_persisted_state_bytes
  BY <1>1
<1> QED BY <1>1, <1>2, <1>3, Zenon DEF LoaderOK

\* A loader moves on.
LEMMA LoaderMoves ==
  ASSUME LoadersInv, NEW q \in Loader, NEW v, LoaderOK(v, given),
         load' = [load EXCEPT ![q] = v], UNCHANGED given
  PROVE  /\ LoadersInv' /\ load'[q] = v
         /\ \A r \in Loader : r # q => load'[r] = load[r]
<1>1. load \in [Loader -> LoadRecord(given)] /\ v \in LoadRecord(given)
  BY DEF LoadersInv, LoaderOK
<1>2. /\ load' \in [Loader -> LoadRecord(given)] /\ load'[q] = v
      /\ \A r \in Loader : r # q => load'[r] = load[r]
  BY <1>1
<1>3. \A r \in Loader : LoaderOK(load'[r], given)
  BY <1>2, Zenon DEF LoadersInv
<1> QED BY <1>2, <1>3, Zenon DEF LoadersInv

\* A load leaves the savers alone and opens no file that had no name.
LEMMA LoadStep ==
  ASSUME StoreInv, ExclusiveInv, UNCHANGED <<entry, save, given, replaced, overlapped>>,
         LoadersInv', in_use' \subseteq in_use, DOMAIN content' = in_use',
         \A i \in in_use' : content'[i] = content[i],
         loaded' \in [Loader -> Result], LoadsOnlySaved'
  PROVE  StoreInv' /\ ExclusiveInv'
<1>1. SaversInv'
  BY Zenon DEF StoreInv, SaversInv
<1>2. FilesInv'
  <2>1. entry' \in [Names -> Inode \cup {None}]
    BY DEF StoreInv, FilesInv
  <2>2. ASSUME NEW i \in in_use'
        PROVE  /\ content'[i] \in Seq(CellsOf(given))
               /\ Len(content'[i]) <= max_persisted_state_bytes
    <3>1. i \in in_use /\ content'[i] = content[i]
      OBVIOUS
    <3> QED BY <3>1 DEF StoreInv, FilesInv
  <2> QED BY <2>1, <2>2 DEF FilesInv
<1>3. ResultsInv'
  BY DEF StoreInv, ResultsInv
<1>4. entry \in [Names -> Inode \cup {None}] /\ entry' \in [Names -> Inode \cup {None}]
  BY DEF StoreInv, FilesInv
<1>5. /\ entry["path"] # None => entry["path"] \in in_use'
      /\ entry["tmp"] # None => entry["tmp"] \in in_use'
  BY <1>4, InUse
<1>6. ExclusiveInv'
  BY <1>5, ExclusiveStays
<1> QED BY <1>1, <1>2, <1>3, <1>6 DEF StoreInv

\* The inodes in use after a loader has opened, kept or closed its file.
LEMMA InUseByLoader ==
  ASSUME StoreInv, UNCHANGED <<entry, save>>, NEW q \in Loader,
         \A r \in Loader : r # q => load'[r] = load[r]
  PROVE  /\ load'[q].inode \in in_use \cup {None} => in_use' \subseteq in_use
         /\ load[q].inode \in {None, load'[q].inode} => in_use \subseteq in_use'
<1>1. entry \in [Names -> Inode \cup {None}] /\ entry' \in [Names -> Inode \cup {None}]
  BY DEF StoreInv, FilesInv
<1>2. /\ \A i : i \in in_use <=>
              /\ i # None
              /\ \/ i = entry["path"] \/ i = entry["tmp"]
                 \/ \E p \in Saver : i = save[p].inode
                 \/ \E r \in Loader : i = load[r].inode
      /\ \A i : i \in in_use' <=>
              /\ i # None
              /\ \/ i = entry["path"] \/ i = entry["tmp"]
                 \/ \E p \in Saver : i = save[p].inode
                 \/ \E r \in Loader : i = load'[r].inode
  BY <1>1, InUse
<1>3. ASSUME load'[q].inode \in in_use \cup {None}
      PROVE  in_use' \subseteq in_use
  BY <1>2, <1>3
<1>4. ASSUME load[q].inode \in {None, load'[q].inode}
      PROVE  in_use \subseteq in_use'
  BY <1>2, <1>4
<1> QED BY <1>3, <1>4

LEMMA OpenStep ==
  ASSUME StoreInv, ExclusiveInv, NEW q \in Loader, load_open(q)
  PROVE  StoreInv' /\ ExclusiveInv'
<1> DEFINE i == entry["path"]
<1>1. /\ load[q] = not_loading
      /\ UNCHANGED <<entry, content, save, given, replaced, overlapped>>
  BY DEF load_open
<1>2. \/ UNCHANGED load /\ \E c \in {"NOT_FOUND", "RESOURCE_LIMIT"} :
                              loaded' = [loaded EXCEPT ![q] = error(c)]
      \/ /\ i # None /\ ~(Len(content[i]) > max_persisted_state_bytes) /\ UNCHANGED loaded
         /\ load' = [load EXCEPT ![q] = [inode |-> i, bytes |-> << >>, size |-> Len(content[i])]]
  BY Zenon DEF load_open
<1>3. loaded \in [Loader -> Result] /\ LoadsOnlySaved
  BY DEF StoreInv, ResultsInv
<1>4. DOMAIN content = in_use
  BY DEF StoreInv, FilesInv
<1>5. CASE UNCHANGED load /\ \E c \in {"NOT_FOUND", "RESOURCE_LIMIT"} :
                                loaded' = [loaded EXCEPT ![q] = error(c)]
  <2>1. LoadersInv' /\ in_use' = in_use
    BY <1>1, <1>5 DEF StoreInv, LoadersInv, in_use
  <2>2. PICK e \in Result : e.code # "OK" /\ loaded' = [loaded EXCEPT ![q] = e]
    <3>1. PICK c \in {"NOT_FOUND", "RESOURCE_LIMIT"} : loaded' = [loaded EXCEPT ![q] = error(c)]
      BY <1>5
    <3>2. error(c) \in Result /\ error(c).code # "OK"
      BY DEF error, Result
    <3> QED BY <3>1, <3>2
  <2>3. loaded' \in [Loader -> Result] /\ LoadsOnlySaved'
    BY <1>1, <1>3, <2>2 DEF LoadsOnlySaved
  <2> QED BY <1>1, <1>4, <2>1, <2>3, LoadStep
<1>6. CASE /\ i # None /\ ~(Len(content[i]) > max_persisted_state_bytes) /\ UNCHANGED loaded
           /\ load' = [load EXCEPT ![q] = [inode |-> i, bytes |-> << >>, size |-> Len(content[i])]]
  <2>1. PICK v : v = [inode |-> i, bytes |-> << >>, size |-> Len(content[i])]
    OBVIOUS
  <2>2. i \in in_use /\ i \in Inode
    <3>1. entry \in [Names -> Inode \cup {None}] /\ entry' \in [Names -> Inode \cup {None}]
      BY <1>1 DEF StoreInv, FilesInv
    <3> QED BY <1>6, <3>1, InUse DEF Names
  <2>3. Len(content[i]) \in Nat /\ max_persisted_state_bytes \in Nat
    <3>1. content[i] \in Seq(CellsOf(given))
      BY <2>2, Zenon DEF StoreInv, FilesInv
    <3>2. Len(content[i]) \in Nat
      BY <3>1, LenProperties, Zenon
    <3> QED BY <3>2, StoreConstants
  <2>4. Len(content[i]) <= max_persisted_state_bytes
    BY <1>6, <2>3
  <2> HIDE DEF i
  <2>5. v \in LoadRecord(given) /\ v.inode = i /\ v.bytes = << >> /\ v.size = Len(content[i])
    <3>1. PICK n \in Nat : n = Len(content[i])
      BY <2>3
    <3>2. << >> \in Seq(CellsOf(given))
      OBVIOUS
    <3>3. v = [inode |-> i, bytes |-> << >>, size |-> n]
      BY <2>1, <3>1
    <3>4. PICK e \in Seq(CellsOf(given)) : e = << >>
      BY <3>2
    <3>5. v \in LoadRecord(given) /\ v.inode = i /\ v.bytes = e /\ v.size = n
      BY <2>2, <3>3, <3>4 DEF LoadRecord
    <3> QED BY <3>1, <3>4, <3>5
  <2>6. LoaderOK(v, given)
    <3>1. Len(<< >>) = 0 /\ 0 <= Len(content[i])
      BY <2>3
    <3> QED BY <2>4, <2>5, <3>1, Zenon DEF LoaderOK
  <2>7. /\ LoadersInv' /\ load'[q] = v
        /\ \A r \in Loader : r # q => load'[r] = load[r]
    BY <1>1, <1>6, <2>1, <2>6, LoaderMoves DEF StoreInv
  <2>8. in_use' = in_use
    <3>1. load[q].inode = None
      BY <1>1 DEF not_loading
    <3>2. in_use' \subseteq in_use /\ in_use \subseteq in_use'
      BY <1>1, <2>2, <2>5, <2>7, <3>1, InUseByLoader
    <3> QED BY <3>2
  <2>9. loaded' \in [Loader -> Result] /\ LoadsOnlySaved'
    BY <1>1, <1>3, <1>6 DEF LoadsOnlySaved
  <2> QED BY <1>1, <1>4, <2>7, <2>8, <2>9, LoadStep
<1> QED BY <1>2, <1>5, <1>6

LEMMA ReadStep ==
  ASSUME StoreInv, ExclusiveInv, NEW q \in Loader, load_read(q)
  PROVE  StoreInv' /\ ExclusiveInv'
<1>1. PICK i, b : i = load[q].inode /\ b = load[q].bytes
  OBVIOUS
<1>2. PICK c : c = content[i][Len(b) + 1]
  OBVIOUS
<1>3. /\ i # None /\ Len(b) < load[q].size /\ Len(b) < Len(content[i])
      /\ UNCHANGED <<entry, content, save, loaded, given, replaced, overlapped>>
  BY <1>1, Zenon DEF load_read, more_to_read
<1>4. load' = [load EXCEPT ![q].bytes = Append(b, c)]
  <2>1. load' = [load EXCEPT ![q].bytes =
                   Append(load[q].bytes, content[load[q].inode][Len(load[q].bytes) + 1])]
    BY DEF load_read
  <2> QED BY <1>1, <1>2, <2>1, Zenon
<1>5. LoaderOK(load[q], given) /\ load[q] \in LoadRecord(given)
  BY DEF StoreInv, LoadersInv, LoaderOK
<1>6. /\ b \in Seq(CellsOf(given)) /\ i \in Inode /\ load[q].size \in Nat
      /\ load[q].size <= max_persisted_state_bytes
  BY <1>1, <1>3, <1>5 DEF LoadRecord, LoaderOK
<1>7. i \in in_use
  <2>1. entry \in [Names -> Inode \cup {None}] /\ entry' \in [Names -> Inode \cup {None}]
    BY <1>3 DEF StoreInv, FilesInv
  <2> QED BY <1>1, <1>3, <2>1, InUse
<1>8. content[i] \in Seq(CellsOf(given))
  BY <1>7, Zenon DEF StoreInv, FilesInv
<1>9. Len(b) \in Nat /\ Len(content[i]) \in Nat
  BY <1>6, <1>8, LenProperties, Zenon
<1>10. c \in CellsOf(given)
  <2>1. Len(b) + 1 \in 1..Len(content[i])
    BY <1>3, <1>9
  <2> QED BY <1>2, <1>8, <2>1, ElementOfSeq
<1>11. PICK a : a = Append(b, c)
  OBVIOUS
<1>12. a \in Seq(CellsOf(given)) /\ Len(a) = Len(b) + 1
  BY <1>6, <1>10, <1>11, AppendProperties
<1>13. Len(a) <= load[q].size
  BY <1>3, <1>6, <1>9, <1>12
<1>14. PICK v : v = [load[q] EXCEPT !.bytes = a]
  OBVIOUS
<1>15. v \in LoadRecord(given) /\ v.bytes = a /\ v.size = load[q].size /\ v.inode = i
  BY <1>1, <1>5, <1>12, <1>14 DEF LoadRecord
<1>16. LoaderOK(v, given)
  BY <1>6, <1>13, <1>15, Zenon DEF LoaderOK
<1>17. load' = [load EXCEPT ![q] = v]
  BY <1>4, <1>11, <1>14
<1>18. /\ LoadersInv' /\ load'[q] = v
       /\ \A r \in Loader : r # q => load'[r] = load[r]
  BY <1>3, <1>16, <1>17, LoaderMoves DEF StoreInv
<1>19. in_use' = in_use
  <2>1. in_use' \subseteq in_use /\ in_use \subseteq in_use'
    BY <1>1, <1>3, <1>7, <1>15, <1>18, InUseByLoader
  <2> QED BY <2>1
<1>20. loaded' \in [Loader -> Result] /\ LoadsOnlySaved'
  BY <1>3 DEF StoreInv, ResultsInv, LoadsOnlySaved
<1>21. DOMAIN content = in_use
  BY DEF StoreInv, FilesInv
<1> QED BY <1>3, <1>18, <1>19, <1>20, <1>21, LoadStep

\* What deserialize makes of a mixture of frames is an error or a state that was
\* handed to a saver.
LEMMA DeserializeMixture ==
  ASSUME NEW G \in SUBSET Checkpoints, NEW b \in Seq(CellsOf(G))
  PROVE  /\ deserialize(b) \in Result
         /\ deserialize(b).code = "OK" => deserialize(b).state \in G
<1> DEFINE good == intact(b) /\ parses(b) /\ within_limits(parse(b))
<1>1. CASE good
  <2>1. PICK s \in G : b = serialize(s)
    BY <1>1, IntactIsWhole
  <2>2. s \in Checkpoints /\ parse(b) = s
    BY <2>1, RoundTrip, Zenon
  <2>3. deserialize(b) = ok(s)
    BY <1>1, <2>2, Zenon DEF deserialize
  <2>4. ok(s) \in Result /\ ok(s).state = s
    BY <2>2 DEF ok, Result
  <2> QED BY <2>3, <2>4
<1>2. CASE ~ good
  <2>1. deserialize(b) = error("INTEGRITY_FAILURE")
    BY <1>2, Zenon DEF deserialize
  <2>2. error("INTEGRITY_FAILURE") \in Result /\ error("INTEGRITY_FAILURE").code # "OK"
    BY DEF error, Result
  <2> QED BY <2>1, <2>2
<1> QED BY <1>1, <1>2

LEMMA FinishStep ==
  ASSUME StoreInv, ExclusiveInv, NEW q \in Loader, load_finish(q)
  PROVE  StoreInv' /\ ExclusiveInv'
<1>1. PICK b, n : b = load[q].bytes /\ n = load[q].size
  OBVIOUS
<1>2. PICK x : x = [i \in 1..n |-> IF i <= Len(b) THEN b[i] ELSE hole]
  OBVIOUS
<1>3. /\ UNCHANGED <<entry, save, given, replaced, overlapped>> /\ reclaim
      /\ load' = [load EXCEPT ![q] = not_loading]
  BY DEF load_finish
<1>4. loaded' = [loaded EXCEPT ![q] = deserialize(x)]
  BY <1>1, <1>2, Zenon DEF load_finish
<1>5. given \in SUBSET Checkpoints /\ loaded \in [Loader -> Result]
  BY DEF StoreInv, ResultsInv
<1>6. b \in Seq(CellsOf(given)) /\ n \in Nat /\ Len(b) \in Nat
  <2>1. load[q] \in LoadRecord(given)
    BY DEF StoreInv, LoadersInv
  <2>2. b \in Seq(CellsOf(given)) /\ n \in Nat
    BY <1>1, <2>1 DEF LoadRecord
  <2> QED BY <2>2, LenProperties
<1>7. x \in Seq(CellsOf(given))
  <2>1. hole \in CellsOf(given)
    BY DEF CellsOf
  <2>2. \A i \in 1..n : i <= Len(b) => b[i] \in CellsOf(given)
    BY <1>6, ElementOfSeq
  <2>3. x \in [1..n -> CellsOf(given)]
    BY <1>2, <2>1, <2>2
  <2> QED BY <1>6, <2>3, SeqDef, LenProperties
<1>8. PICK w : w = deserialize(x)
  OBVIOUS
<1>9. w \in Result /\ (w.code = "OK" => w.state \in given)
  BY <1>5, <1>7, <1>8, DeserializeMixture, Zenon
<1>10. loaded' \in [Loader -> Result] /\ LoadsOnlySaved'
  <2>1. loaded' = [loaded EXCEPT ![q] = w]
    BY <1>4, <1>8, Zenon
  <2> QED BY <1>3, <1>5, <1>9, <2>1 DEF StoreInv, LoadsOnlySaved
<1>11. LoaderOK(not_loading, given) /\ not_loading.inode = None
  BY NotLoadingOK
<1>12. /\ LoadersInv' /\ load'[q] = not_loading
       /\ \A r \in Loader : r # q => load'[r] = load[r]
  BY <1>3, <1>11, LoaderMoves DEF StoreInv
<1>13. in_use' \subseteq in_use
  BY <1>3, <1>11, <1>12, InUseByLoader
<1>14. content' = [i \in in_use' |-> content[i]]
  BY <1>3 DEF reclaim
<1>15. DOMAIN content' = in_use' /\ \A i \in in_use' : content'[i] = content[i]
  BY <1>14
<1> QED BY <1>3, <1>10, <1>12, <1>13, <1>15, LoadStep

LEMMA StoreInit ==
  ASSUME Init
  PROVE  StoreInv /\ ExclusiveInv
<1>1. /\ entry = [n \in {"path", "tmp"} |-> None] /\ content = [i \in {} |-> << >>]
      /\ save = [p \in Saver |-> idle] /\ load = [q \in Loader |-> not_loading]
      /\ loaded = [q \in Loader |-> error("NOT_FOUND")]
      /\ given = {} /\ replaced = None /\ overlapped = FALSE
  BY DEF Init
<1>2. idle.inode = None /\ idle.pc = "idle" /\ not_loading.inode = None
  BY DEF idle, not_loading
<1>3. SaversInv
  <2>1. idle \in SaveRecord /\ SaverOK(idle, given)
    BY IdleOK DEF SaverOK
  <2> QED BY <1>1, <2>1, Zenon DEF SaversInv
<1>4. LoadersInv
  <2>1. LoaderOK(not_loading, given)
    BY NotLoadingOK
  <2>2. not_loading \in LoadRecord(given)
    BY <2>1 DEF LoaderOK
  <2> QED BY <1>1, <2>1, <2>2, Zenon DEF LoadersInv
<1>5. in_use = {}
  BY <1>1, <1>2 DEF in_use
<1>6. FilesInv
  BY <1>1, <1>5 DEF FilesInv, Names
<1>7. ResultsInv /\ LoadsOnlySaved
  <2>1. error("NOT_FOUND") \in Result /\ error("NOT_FOUND").code # "OK"
    BY DEF error, Result
  <2> QED BY <1>1, <2>1 DEF ResultsInv, LoadsOnlySaved
<1>8. ExclusiveInv
  BY <1>1, <1>2 DEF ExclusiveInv, NamesDiffer, OneSaver, TmpInv, PathInv
<1> QED BY <1>3, <1>4, <1>6, <1>7, <1>8 DEF StoreInv

LEMMA StoreNext ==
  ASSUME StoreInv, ExclusiveInv, [Next]_vars
  PROVE  StoreInv' /\ ExclusiveInv'
<1>1. ASSUME NEW p \in Saver, NEW s \in Checkpoints, save_begin(p, s)
      PROVE  StoreInv' /\ ExclusiveInv'
  BY <1>1, BeginStep
<1>2. ASSUME NEW p \in Saver, save_write(p)
      PROVE  StoreInv' /\ ExclusiveInv'
  BY <1>2, WriteStep
<1>3. ASSUME NEW p \in Saver, save_write_fails(p) \/ save_remove_tmp(p) \/ crash(p)
      PROVE  StoreInv' /\ ExclusiveInv'
  <2>1. save[p] # idle
    BY <1>3 DEF save_write_fails, save_remove_tmp, crash, idle
  <2>2. /\ save' = [save EXCEPT ![p] = idle] /\ reclaim
        /\ entry' = entry \/ entry' = [entry EXCEPT !["tmp"] = None]
        /\ UNCHANGED <<load, loaded, given, replaced, overlapped>>
    BY <1>3 DEF save_write_fails, save_remove_tmp, crash
  <2> QED BY <2>1, <2>2, GiveUpStep
<1>4. ASSUME NEW p \in Saver, atomic_replace(p)
      PROVE  StoreInv' /\ ExclusiveInv'
  BY <1>4, ReplaceStep
<1>5. ASSUME NEW p \in Saver, atomic_replace_fails(p)
      PROVE  StoreInv' /\ ExclusiveInv'
  BY <1>5, ReplaceFailsStep
<1>6. ASSUME NEW q \in Loader, load_open(q)
      PROVE  StoreInv' /\ ExclusiveInv'
  BY <1>6, OpenStep
<1>7. ASSUME NEW q \in Loader, load_read(q)
      PROVE  StoreInv' /\ ExclusiveInv'
  BY <1>7, ReadStep
<1>8. ASSUME NEW q \in Loader, load_finish(q)
      PROVE  StoreInv' /\ ExclusiveInv'
  BY <1>8, FinishStep
<1>9. CASE UNCHANGED vars
  <2>1. UNCHANGED <<entry, content, save, load, loaded, given, replaced, overlapped>>
    BY <1>9 DEF vars
  <2>2. LoadersInv' /\ LoadsOnlySaved' /\ loaded' \in [Loader -> Result]
    BY <2>1 DEF StoreInv, LoadersInv, LoadsOnlySaved, ResultsInv
  <2>3. in_use' = in_use /\ DOMAIN content = in_use
    BY <2>1 DEF in_use, StoreInv, FilesInv
  <2> QED BY <2>1, <2>2, <2>3, LoadStep
<1> QED BY <1>1, <1>2, <1>3, <1>4, <1>5, <1>6, <1>7, <1>8, <1>9, Zenon DEF Next

LEMMA StoreInvariant == Spec => [](StoreInv /\ ExclusiveInv)
<1>1. Init => StoreInv /\ ExclusiveInv
  BY StoreInit
<1>2. StoreInv /\ ExclusiveInv /\ [Next]_vars => (StoreInv /\ ExclusiveInv)'
  BY StoreNext
<1> QED BY <1>1, <1>2, PTL DEF Spec

-----------------------------------------------------------------------------
(* The theorems *)

\* The state of every save and load under way is well formed, only inodes with a
\* name or a descriptor have cells, and neither a file nor a load's buffer ever
\* exceeds max_persisted_state_bytes: save_durable_state tests the size before it
\* opens the file and load_durable_state before it allocates, and no interleaving
\* of writers of the shared temporary file grows it beyond what each may write.
THEOREM StoreTypeCorrect == Spec => []StoreTypeOK
<1>1. ASSUME StoreInv
      PROVE  StoreTypeOK
  <2>1. entry \in [{"path", "tmp"} -> Inode \cup {None}] /\ DOMAIN content = in_use
    BY <1>1 DEF StoreInv, FilesInv, Names
  <2>2. in_use \subseteq Inode
    BY <1>1, InodesInUse DEF StoreInv
  <2>3. \A i \in in_use : Len(content[i]) <= max_persisted_state_bytes
    BY <1>1 DEF StoreInv, FilesInv
  <2>4. ASSUME NEW p \in Saver
        PROVE  /\ save[p].pc \in {"idle", "writing", "closed", "failed"}
               /\ save[p].state \in Checkpoints \cup {None}
               /\ (save[p].pc = "writing") <=> (save[p].inode \in Inode)
    <3>1. SaverOK(save[p], given) /\ save[p] \in SaveRecord
      BY <1>1, UnderWay DEF StoreInv
    <3> QED BY <3>1 DEF SaverOK, SaveRecord
  <2>5. ASSUME NEW q \in Loader
        PROVE  /\ load[q].inode \in Inode \cup {None}
               /\ Len(load[q].bytes) <= load[q].size
               /\ load[q].size <= max_persisted_state_bytes
    <3>1. LoaderOK(load[q], given) /\ load[q] \in LoadRecord(given)
      BY <1>1 DEF StoreInv, LoadersInv
    <3> QED BY <3>1 DEF LoaderOK, LoadRecord
  <2>6. given \subseteq Checkpoints /\ replaced \in Checkpoints \cup {None} /\ overlapped \in BOOLEAN
    BY <1>1 DEF StoreInv, ResultsInv
  <2> QED BY <2>1, <2>2, <2>3, <2>4, <2>5, <2>6, Zenon DEF StoreTypeOK
<1> QED BY <1>1, StoreInvariant, PTL

\* Whatever savers share the temporary file, die half way or replace the file
\* under a reader, load_durable_state returns an error or a state that was
\* handed to save_durable_state: deserialize's checksum refuses every mixture.
THEOREM LoadsReturnSavedStates == Spec => []LoadsOnlySaved
<1>1. StoreInv => LoadsOnlySaved
  BY DEF StoreInv
<1> QED BY <1>1, StoreInvariant, PTL

\* When every checkpoint respects the reader's own limits, which
\* save_durable_state does not test, and no two saves have overlapped, what a
\* save reported as saved is what deserialize makes of the file, through any
\* number of later saves that failed or died half way.
THEOREM SavedStatesLoad ==
  ASSUME \A s \in Checkpoints : within_limits(s)
  PROVE  Spec => []SavedStateLoads
<1>1. ASSUME StoreInv, ExclusiveInv
      PROVE  SavedStateLoads
  <2> SUFFICES ASSUME ~ overlapped, replaced # None
               PROVE  /\ entry["path"] # None
                      /\ deserialize(content[entry["path"]]) = ok(replaced)
    BY DEF SavedStateLoads
  <2>1. entry["path"] # None /\ content[entry["path"]] = serialize(replaced)
    BY <1>1 DEF ExclusiveInv, PathInv
  <2>2. replaced \in Checkpoints
    BY <1>1 DEF StoreInv, ResultsInv
  <2>3. /\ intact(serialize(replaced)) /\ parses(serialize(replaced))
        /\ parse(serialize(replaced)) = replaced
    BY <2>2, RoundTrip, Zenon
  <2>4. within_limits(replaced)
    BY <2>2
  <2>5. deserialize(serialize(replaced)) = ok(replaced)
    BY <2>3, <2>4, Zenon DEF deserialize
  <2> QED BY <2>1, <2>5
<1> QED BY <1>1, StoreInvariant, PTL
=============================================================================
