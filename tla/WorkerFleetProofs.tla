--------------------------- MODULE WorkerFleetProofs ---------------------------
(***************************************************************************)
(* Theorems about WorkerFleet, for any number of worker processes and any  *)
(* descriptors on their command lines.                                     *)
(***************************************************************************)
EXTENDS WorkerFleet, CoordinatorProofs

-----------------------------------------------------------------------------
(* The invariant of one connection *)

\* The publications that eligibility depends on.
first_device(c)  == device_frame(gpu0, base(c) + 1)
second_device(c) == device_frame(gpu1, base(c) + 2)
the_link(c)      == link_frame(base(c) + 1, base(c) + 1)

Evidence(c) == {first_device(c), second_device(c), the_link(c)}

Signals == {signal("HELLO"), signal("READY"), signal("HEARTBEAT"), signal("ROUTE")}

FramesOf(c) == Evidence(c) \cup {measurement_frame} \cup Signals

\* The frames of a queue.
In(q) == {q[i] : i \in DOMAIN q}

\* The link goes out once, and after both devices.
LinkLast(c, q) ==
  \A i \in DOMAIN q, j \in DOMAIN q : i < j /\ q[i] = the_link(c) => q[j] \notin Evidence(c)

Early == {"unspawned", "connecting", "handshake"}

Publishing == {"publishing", "beating", "routing"}

\* The phases of a thread that has replied to HELLO, or will never reply.
Answered == {"serving", "marking", "unregistering", "closed", "dropped"}

\* A process p with the frames t to publish, whose frames q and reply r are under
\* way on a connection in phase ph.
LocalOK(c, p, t, q, r, ph) ==
  /\ p \in ProgramCounter /\ r \in {None, "READY", "GOODBYE", "ROUTE"}
  /\ t \in Seq(FramesOf(c)) /\ q \in Seq(FramesOf(c)) /\ Len(q) <= socket_buffer
  /\ p \in Early => In(q) \cap Evidence(c) = {}
  /\ p = "publishing" => t # << >>
  /\ p \in {"beating", "routing"} => t = << >>
  /\ LinkLast(c, q) /\ LinkLast(c, t)
  /\ the_link(c) \in In(q) => In(t) \cap Evidence(c) = {}
  /\ p \in Publishing \/ r # None => ph \in Answered

ProcessesInv ==
  /\ pc \in [Conn -> ProgramCounter]
  /\ replies \in [Conn -> {None, "READY", "GOODBYE", "ROUTE"}]
  /\ DOMAIN todo = Conn /\ DOMAIN wire = Conn
  /\ backlog \subseteq Conn /\ overlap \subseteq Conn
  /\ \A c \in Conn : LocalOK(c, pc[c], todo[c], wire[c], replies[c], phase[c])

-----------------------------------------------------------------------------
(* The invariant of the registry *)

\* Every connection announces what is on its process's command line, and the
\* server keeps its epoch.
AnnouncedInv ==
  \A c \in Conn : hello[c] # None => hello[c] = descriptor[c] /\ hello[c].epoch = epoch

\* The numbers that an incarnation takes for its generations and its link.
seeded(boot, k) == boot * 1000000 + k

\* Generations are the owner's boot times a million, plus a number that is the
\* device's own: generations of one device are ordered as the boots are.
DevicesInv ==
  \A d \in DOMAIN devices :
    /\ devices[d].owner_boot \in Nat
    /\ \/ d = gpu0 /\ devices[d].generation = seeded(devices[d].owner_boot, 1)
       \/ d = gpu1 /\ devices[d].generation = seeded(devices[d].owner_boot, 2)

\* A link's generation is its identity, and some connection has announced its boot.
LinksInv ==
  \A l \in DOMAIN links :
    /\ links[l].generation = l
    /\ \E c \in Conn : l = link_of(c) /\ hello[c] # None

FleetInv == CoordInv /\ ProcessesInv /\ AnnouncedInv /\ DevicesInv /\ LinksInv

-----------------------------------------------------------------------------
(* The invariant of a worker that was never registered with another *)

\* Boots that are registered together are different.
DistinctInv ==
  \A c \in registered, d \in registered :
    c # d /\ descriptor[c].worker = descriptor[d].worker
      => descriptor[c].boot # descriptor[d].boot

\* A registered worker that has shared the coordinator with nobody is alone.
AloneInv == \A c \in registered \ overlap : registered = {c}

\* A frame that c has yet to send or its thread has yet to serve.
pending(c, f) == f \in In(wire[c]) \cup In(todo[c])

\* The link of a registered worker is there only once its frame was served.
FreshLinkInv ==
  \A c \in registered : link_of(c) \in DOMAIN links =>
    pc[c] \notin Early /\ ~pending(c, the_link(c))

\* What such a worker has published and is not pending is there, and up.
ServedInv ==
  \A c \in Conn \ overlap : phase[c] = "serving" /\ pc[c] \in Publishing =>
    /\ pending(c, first_device(c)) \/ gpu0 \in DOMAIN devices
    /\ pending(c, second_device(c)) \/ gpu1 \in DOMAIN devices
    /\ pending(c, the_link(c)) \/ usable_link_of(c)

LoneInv == DistinctInv /\ AloneInv /\ FreshLinkInv /\ ServedInv

-----------------------------------------------------------------------------
(* Queues of frames *)

LEMMA AppendFrame ==
  ASSUME NEW c, NEW S, NEW q \in Seq(S), NEW x \in S
  PROVE  /\ Append(q, x) \in Seq(S) /\ Len(Append(q, x)) = Len(q) + 1
         /\ In(Append(q, x)) = In(q) \cup {x}
         /\ LinkLast(c, q) /\ (the_link(c) \in In(q) => x \notin Evidence(c))
              => LinkLast(c, Append(q, x))
<1>1. PICK a : a = Append(q, x)
  OBVIOUS
<1>2. PICK n \in Nat : n = Len(q) /\ DOMAIN q = 1..n
  BY LenProperties
<1>3. /\ a \in Seq(S) /\ Len(a) = n + 1 /\ \A i \in 1..n : a[i] = q[i]
      /\ a[n + 1] = x
  BY <1>1, <1>2, AppendProperties
<1>4. DOMAIN a = 1..(n + 1)
  BY <1>3, LenProperties
<1>5. \A i \in 1..(n + 1) : i \in 1..n \/ i = n + 1
  OBVIOUS
<1>6. In(a) = In(q) \cup {x}
  <2>1. n + 1 \in 1..(n + 1) /\ \A i \in 1..n : i \in 1..(n + 1)
    OBVIOUS
  <2> QED BY <1>2, <1>3, <1>4, <1>5, <2>1 DEF In
<1>7. ASSUME LinkLast(c, q), the_link(c) \in In(q) => x \notin Evidence(c)
      PROVE  LinkLast(c, a)
  <2> SUFFICES ASSUME NEW i \in 1..(n + 1), NEW j \in 1..(n + 1), i < j, a[i] = the_link(c)
               PROVE  a[j] \notin Evidence(c)
    BY <1>4 DEF LinkLast
  <2>1. i \in 1..n
    OBVIOUS
  <2>2. q[i] = the_link(c) /\ the_link(c) \in In(q)
    BY <1>2, <1>3, <2>1 DEF In
  <2>3. CASE j \in 1..n
    BY <1>2, <1>3, <1>7, <2>1, <2>2, <2>3 DEF LinkLast
  <2>4. CASE j = n + 1
    BY <1>3, <1>7, <2>2, <2>4
  <2> QED BY <1>5, <2>3, <2>4
<1> QED BY <1>1, <1>2, <1>3, <1>6, <1>7

LEMMA TailFrames ==
  ASSUME NEW c, NEW S, NEW q \in Seq(S), q # << >>
  PROVE  /\ Head(q) \in S /\ Tail(q) \in Seq(S)
         /\ Len(q) \in Nat /\ Len(q) > 0 /\ Len(Tail(q)) = Len(q) - 1
         /\ In(q) = {Head(q)} \cup In(Tail(q))
         /\ LinkLast(c, q) => /\ LinkLast(c, Tail(q))
                              /\ Head(q) = the_link(c) => In(Tail(q)) \cap Evidence(c) = {}
<1>1. PICK a, h : a = Tail(q) /\ h = Head(q)
  OBVIOUS
<1>2. PICK n \in Nat : n = Len(q) /\ DOMAIN q = 1..n /\ n # 0
  BY LenProperties, EmptySeq
<1>3. n - 1 \in Nat /\ n > 0
  BY <1>2
<1>4. h \in S /\ a \in Seq(S) /\ Len(a) = n - 1 /\ \A i \in 1..Len(a) : a[i] = q[i + 1]
  BY <1>1, <1>2, HeadTailProperties
<1>5. h = q[1]
  BY <1>1
<1>6. DOMAIN a = 1..(n - 1)
  BY <1>4, LenProperties
<1>7. /\ \A i \in 1..(n - 1) : a[i] = q[i + 1] /\ i + 1 \in 1..n /\ 1 < i + 1 /\ 1 \in 1..n
      /\ \A i \in 1..n : i = 1 \/ (i - 1 \in 1..(n - 1) /\ (i - 1) + 1 = i)
  BY <1>2, <1>3, <1>4
<1>8. In(q) = {h} \cup In(a)
  <2>1. 1 \in 1..n
    BY <1>3
  <2>2. ASSUME NEW x \in In(q)
        PROVE  x \in {h} \cup In(a)
    <3>1. PICK i \in 1..n : x = q[i]
      BY <1>2, <2>2 DEF In
    <3>2. CASE i = 1
      BY <1>5, <3>1, <3>2
    <3>3. CASE i # 1
      <4>1. i - 1 \in 1..(n - 1) /\ (i - 1) + 1 = i
        BY <1>7, <3>3
      <4>2. a[i - 1] = q[i]
        BY <1>7, <4>1
      <4> QED BY <1>6, <3>1, <4>1, <4>2 DEF In
    <3> QED BY <3>2, <3>3
  <2>3. ASSUME NEW x \in {h} \cup In(a)
        PROVE  x \in In(q)
    BY <1>2, <1>5, <1>6, <1>7, <2>1, <2>3 DEF In
  <2> QED BY <2>2, <2>3
<1>9. ASSUME LinkLast(c, q)
      PROVE  LinkLast(c, a)
  <2> SUFFICES ASSUME NEW i \in 1..(n - 1), NEW j \in 1..(n - 1), i < j, a[i] = the_link(c)
               PROVE  a[j] \notin Evidence(c)
    BY <1>6 DEF LinkLast
  <2>1. i + 1 \in 1..n /\ j + 1 \in 1..n /\ i + 1 < j + 1
    BY <1>3
  <2>2. q[i + 1] = the_link(c) /\ a[j] = q[j + 1]
    BY <1>7
  <2> QED BY <1>2, <1>9, <2>1, <2>2 DEF LinkLast
<1>10. ASSUME LinkLast(c, q), h = the_link(c)
       PROVE  In(a) \cap Evidence(c) = {}
  <2>1. \A i \in 1..(n - 1) : q[i + 1] \notin Evidence(c)
    BY <1>2, <1>5, <1>7, <1>10 DEF LinkLast
  <2> QED BY <1>6, <1>7, <2>1, SMTT(30) DEF In
<1> QED BY <1>1, <1>2, <1>3, <1>4, <1>8, <1>9, <1>10

LEMMA PrefixFrames ==
  ASSUME NEW c, NEW S, NEW q \in Seq(S), NEW n \in 0..Len(q)
  PROVE  /\ SubSeq(q, 1, n) \in Seq(S) /\ Len(SubSeq(q, 1, n)) <= Len(q)
         /\ In(SubSeq(q, 1, n)) \subseteq In(q)
         /\ LinkLast(c, q) => LinkLast(c, SubSeq(q, 1, n))
<1>1. PICK m \in Nat : m = Len(q) /\ DOMAIN q = 1..m
  BY LenProperties
<1>2. n \in Nat /\ n <= m /\ \A i \in 1..n : i \in 1..m
  BY <1>1
<1>3. \A i \in 1..n : q[i] \in S
  BY <1>1, <1>2, ElementOfSeq
<1>4. PICK a : a = SubSeq(q, 1, n)
  OBVIOUS
<1>5. a \in Seq(S) /\ Len(a) = n /\ \A i \in 1..n : a[i] = q[i]
  BY <1>2, <1>3, <1>4, SubSeqProperties
<1>6. DOMAIN a = 1..n
  BY <1>5, LenProperties
<1>7. In(a) \subseteq In(q)
  BY <1>1, <1>2, <1>5, <1>6 DEF In
<1>8. LinkLast(c, q) => LinkLast(c, a)
  BY <1>1, <1>2, <1>5, <1>6 DEF LinkLast
<1> QED BY <1>1, <1>2, <1>4, <1>5, <1>7, <1>8

\* What a worker publishes.
LEMMA PublishedFrames ==
  ASSUME NEW c \in Conn
  PROVE  /\ base(c) \in Nat
         /\ base(c) + 1 = seeded(descriptor[c].boot, 1)
         /\ base(c) + 2 = seeded(descriptor[c].boot, 2)
         /\ descriptor[c].boot \in Nat /\ descriptor[c].worker \in WorkerId
         /\ descriptor[c] \in Hellos
         /\ link_of(c) \in LinkId /\ link_of(c) = base(c) + 1 /\ link_of(c) \in Nat
         /\ gpu0 \in DeviceId /\ gpu1 \in DeviceId /\ gpu0 # gpu1
<1>1. descriptor[c] \in Hellos
  BY FleetAssumption
<1>2. descriptor[c].boot \in Nat /\ descriptor[c].worker \in WorkerId
  BY <1>1, CoordinatorAssumption
<1>3. PICK b \in Nat : b = descriptor[c].boot
  BY <1>2
<1>4. base(c) = b * 1000000
  BY <1>3 DEF base
<1>5. b * 1000000 \in Nat /\ b * 1000000 + 1 \in Nat
  OBVIOUS
<1>6. b * 1000000 + 1 \in LinkId
  BY <1>3, FleetAssumption, SMT
<1> QED BY <1>1, <1>2, <1>3, <1>4, <1>5, <1>6, FleetAssumption, SMT DEF link_of, seeded

LEMMA FrameFacts ==
  ASSUME NEW c \in Conn
  PROVE  /\ first_device(c).type = "PUBLISH_DEVICE" /\ first_device(c).id = gpu0
         /\ first_device(c).body \in DeviceRecord
         /\ first_device(c).body.generation = base(c) + 1
         /\ second_device(c).type = "PUBLISH_DEVICE" /\ second_device(c).id = gpu1
         /\ second_device(c).body \in DeviceRecord
         /\ second_device(c).body.generation = base(c) + 2
         /\ the_link(c).type = "PUBLISH_LINK" /\ the_link(c).id = link_of(c)
         /\ the_link(c).body \in LinkRecord
         /\ the_link(c).body.generation = link_of(c) /\ the_link(c).body.state = "UP"
         /\ the_link(c).body.source = gpu0 /\ the_link(c).body.target = gpu1
         /\ measurement_frame.type = "PUBLISH_MEASUREMENT"
         /\ measurement_frame.body \in MeasurementRecord
         /\ \A f \in Signals : f.type \in {"HELLO", "READY", "HEARTBEAT", "ROUTE"}
         /\ \A f \in Signals \cup {measurement_frame} : f \notin Evidence(c)
         /\ first_device(c) # second_device(c)
<1>1. PICK b \in Nat : b = base(c)
  BY PublishedFrames
<1>2. b + 1 \in Nat /\ b + 2 \in Nat /\ link_of(c) = b + 1
  BY <1>1, PublishedFrames
<1>3. /\ first_device(c).type = "PUBLISH_DEVICE" /\ first_device(c).id = gpu0
      /\ first_device(c).body \in DeviceRecord
      /\ first_device(c).body.generation = b + 1
  BY <1>1, <1>2 DEF first_device, device_frame, frame, DeviceRecord, DeviceHealthState
<1>4. /\ second_device(c).type = "PUBLISH_DEVICE" /\ second_device(c).id = gpu1
      /\ second_device(c).body \in DeviceRecord
      /\ second_device(c).body.generation = b + 2
  BY <1>1, <1>2 DEF second_device, device_frame, frame, DeviceRecord, DeviceHealthState
<1>5. /\ the_link(c).type = "PUBLISH_LINK" /\ the_link(c).id = b + 1
      /\ the_link(c).body \in LinkRecord
      /\ the_link(c).body.generation = b + 1 /\ the_link(c).body.state = "UP"
      /\ the_link(c).body.source = gpu0 /\ the_link(c).body.target = gpu1
  <2>1. PICK n \in Nat : n = b + 1
    BY <1>2
  <2>2. gpu0 \in DeviceId /\ gpu1 \in DeviceId
    BY PublishedFrames
  <2>3. PICK r : r = [source |-> gpu0, target |-> gpu1, directed |-> FALSE,
         technology |-> "NVLINK", interconnect |-> "UNKNOWN",
         nominal_bandwidth |-> 400, state |-> "UP", degraded |-> FALSE, generation |-> n,
         topology_generation |-> 0]
    OBVIOUS
  <2>4. /\ r \in LinkRecord /\ r.generation = n /\ r.state = "UP" /\ r.source = gpu0
        /\ r.target = gpu1
    BY <2>2, <2>3 DEF LinkRecord, LinkOperationalState, InterconnectTechnology
  <2>5. the_link(c) = frame("PUBLISH_LINK", n, r)
    BY <1>1, <2>1, <2>3, Zenon DEF the_link, link_frame
  <2> QED BY <2>1, <2>4, <2>5 DEF frame
<1>6. measurement_frame.type = "PUBLISH_MEASUREMENT" /\ measurement_frame.body \in MeasurementRecord
  BY PublishedFrames DEF measurement_frame, frame, MeasurementRecord
<1>7. \A f \in Signals : f.type \in {"HELLO", "READY", "HEARTBEAT", "ROUTE"}
  BY DEF Signals, signal, frame
<1>8. \A f \in Evidence(c) : f.type \in {"PUBLISH_DEVICE", "PUBLISH_LINK"}
  BY <1>3, <1>4, <1>5 DEF Evidence
<1>9. \A f \in Signals \cup {measurement_frame} : f \notin Evidence(c)
  BY <1>6, <1>7, <1>8
<1>10. first_device(c) # second_device(c)
  BY <1>3, <1>4, PublishedFrames
<1> QED BY <1>1, <1>2, <1>3, <1>4, <1>5, <1>6, <1>7, <1>9, <1>10

LEMMA PublishedInOrder ==
  ASSUME NEW c \in Conn
  PROVE  /\ published(c) \in Seq(FramesOf(c)) /\ published(c) # << >>
         /\ LinkLast(c, published(c)) /\ Evidence(c) \subseteq In(published(c))
<1>1. PICK x, y, z, m, s : /\ x = first_device(c) /\ y = second_device(c) /\ z = the_link(c)
                           /\ m = measurement_frame /\ s = signal("READY")
  OBVIOUS
<1>2. PICK q : q = <<x, y, z, m, s>>
  OBVIOUS
<1>3. published(c) = q
  BY <1>1, <1>2, Zenon DEF published, first_device, second_device, the_link
<1>4. {x, y, z, m, s} \subseteq FramesOf(c) /\ Evidence(c) = {x, y, z}
  BY <1>1 DEF FramesOf, Evidence, Signals
<1>5. m \notin Evidence(c) /\ s \notin Evidence(c) /\ x # z /\ y # z
  BY <1>1, FrameFacts DEF Signals
<1>6. /\ q \in Seq(FramesOf(c)) /\ q # << >> /\ DOMAIN q = 1..5
      /\ q[1] = x /\ q[2] = y /\ q[3] = z /\ q[4] = m /\ q[5] = s
  BY <1>2, <1>4
<1>7. \A i \in 1..5 : i = 1 \/ i = 2 \/ i = 3 \/ i = 4 \/ i = 5
  OBVIOUS
<1>8. LinkLast(c, q)
  <2> SUFFICES ASSUME NEW i \in 1..5, NEW j \in 1..5, i < j, q[i] = z
               PROVE  q[j] \notin Evidence(c)
    BY <1>1, <1>6 DEF LinkLast
  <2>1. i = 3 \/ i = 4 \/ i = 5
    BY <1>5, <1>6, <1>7
  <2>2. j = 4 \/ j = 5
    BY <1>7, <2>1
  <2> QED BY <1>5, <1>6, <2>2
<1>9. Evidence(c) \subseteq In(q)
  <2>1. 1 \in 1..5 /\ 2 \in 1..5 /\ 3 \in 1..5
    OBVIOUS
  <2> QED BY <1>4, <1>6, <2>1 DEF In
<1> QED BY <1>3, <1>6, <1>8, <1>9

-----------------------------------------------------------------------------
(* Steps of the processes and of the transport *)

\* A connection's evidence is only ever used up, but for the step in which the
\* process learns that it is admitted and gets all of it to publish.
Advances(c) ==
  /\ \A d \in Conn : d # c => pc'[d] = pc[d] /\ todo'[d] = todo[d] /\ wire'[d] = wire[d]
  /\ pc[c] \notin Early =>
       pc'[c] \notin Early /\ \A f \in Evidence(c) : pending(c, f)' => pending(c, f)
  /\ pc'[c] \in Publishing =>
       \/ pc[c] \in Publishing /\ \A f \in Evidence(c) : pending(c, f) => pending(c, f)'
       \/ \A f \in Evidence(c) : pending(c, f)'

\* One connection moves and the others stay.
LEMMA ConnectionMoves ==
  ASSUME ProcessesInv, NEW c \in Conn, NEW p, NEW t, NEW q, NEW r,
         pc' = [pc EXCEPT ![c] = p] \/ (pc' = pc /\ p = pc[c]),
         todo' = [todo EXCEPT ![c] = t] \/ (todo' = todo /\ t = todo[c]),
         wire' = [wire EXCEPT ![c] = q] \/ (wire' = wire /\ q = wire[c]),
         replies' = [replies EXCEPT ![c] = r] \/ (replies' = replies /\ r = replies[c]),
         backlog' \subseteq Conn, overlap' \subseteq Conn,
         \A d \in Conn : d # c => phase'[d] = phase[d],
         LocalOK(c, p, t, q, r, phase'[c])
  PROVE  /\ ProcessesInv' /\ pc'[c] = p /\ todo'[c] = t /\ wire'[c] = q
         /\ \A d \in Conn : d # c => pc'[d] = pc[d] /\ todo'[d] = todo[d] /\ wire'[d] = wire[d]
<1>1. /\ pc \in [Conn -> ProgramCounter] /\ DOMAIN todo = Conn /\ DOMAIN wire = Conn
      /\ replies \in [Conn -> {None, "READY", "GOODBYE", "ROUTE"}]
  BY DEF ProcessesInv
<1>2. p \in ProgramCounter /\ r \in {None, "READY", "GOODBYE", "ROUTE"}
  BY DEF LocalOK
<1>3. /\ pc' \in [Conn -> ProgramCounter] /\ pc'[c] = p
      /\ \A d \in Conn : d # c => pc'[d] = pc[d]
  BY <1>1, <1>2
<1>4. /\ replies' \in [Conn -> {None, "READY", "GOODBYE", "ROUTE"}] /\ replies'[c] = r
      /\ \A d \in Conn : d # c => replies'[d] = replies[d]
  BY <1>1, <1>2
<1>5. /\ DOMAIN todo' = Conn /\ todo'[c] = t /\ \A d \in Conn : d # c => todo'[d] = todo[d]
  BY <1>1
<1>6. /\ DOMAIN wire' = Conn /\ wire'[c] = q /\ \A d \in Conn : d # c => wire'[d] = wire[d]
  BY <1>1
<1>7. \A d \in Conn : LocalOK(d, pc'[d], todo'[d], wire'[d], replies'[d], phase'[d])
  BY <1>3, <1>4, <1>5, <1>6, Zenon DEF ProcessesInv
<1> QED BY <1>3, <1>4, <1>5, <1>6, <1>7, Zenon DEF ProcessesInv

\* ... and what it has yet to send or be served shrinks, or is all of its evidence.
LEMMA ConnectionAdvances ==
  ASSUME ProcessesInv, NEW c \in Conn, NEW p, NEW t, NEW q, NEW r,
         pc' = [pc EXCEPT ![c] = p] \/ (pc' = pc /\ p = pc[c]),
         todo' = [todo EXCEPT ![c] = t] \/ (todo' = todo /\ t = todo[c]),
         wire' = [wire EXCEPT ![c] = q] \/ (wire' = wire /\ q = wire[c]),
         replies' = [replies EXCEPT ![c] = r] \/ (replies' = replies /\ r = replies[c]),
         backlog' \subseteq Conn, overlap' \subseteq Conn,
         \A d \in Conn : d # c => phase'[d] = phase[d],
         LocalOK(c, p, t, q, r, phase'[c]),
         pc[c] \notin Early =>
           /\ p \notin Early
           /\ \A f \in Evidence(c) : f \in In(q) \cup In(t) => f \in In(wire[c]) \cup In(todo[c]),
         p \in Publishing =>
           \/ /\ pc[c] \in Publishing
              /\ \A f \in Evidence(c) : f \in In(wire[c]) \cup In(todo[c]) => f \in In(q) \cup In(t)
           \/ \A f \in Evidence(c) : f \in In(q) \cup In(t)
  PROVE  ProcessesInv' /\ Advances(c)
<1>1. /\ ProcessesInv' /\ pc'[c] = p /\ todo'[c] = t /\ wire'[c] = q
      /\ \A d \in Conn : d # c => pc'[d] = pc[d] /\ todo'[d] = todo[d] /\ wire'[d] = wire[d]
  BY ConnectionMoves, Zenon
<1> QED BY <1>1, Zenon DEF Advances, pending

\* The coordinator's state stays, and with it what the registry promises.
LEMMA CoordinatorStays ==
  ASSUME CoordInv, UNCHANGED coordinator_vars
  PROVE  /\ CoordInv' /\ UNCHANGED <<devices, links, phase, hello, epoch>>
<1>1. /\ UNCHANGED <<vars, phase, hello, last_boot, live_count, epoch>>
      /\ UNCHANGED <<peer, running, listener, acceptor, stopper>>
  BY DEF coordinator_vars, conn_vars, stop_vars
<1>2. CoordInv'
  BY <1>1, IdleStep DEF CoordInv, CoordinatorTypeOK
<1> QED BY <1>1, <1>2 DEF vars

LEMMA EmptyQueue ==
  ASSUME NEW c, NEW S
  PROVE  << >> \in Seq(S) /\ Len(<< >>) = 0 /\ In(<< >>) = {} /\ LinkLast(c, << >>)
BY DEF In, LinkLast

LEMMA LocalFacts ==
  ASSUME ProcessesInv, NEW c \in Conn
  PROVE  /\ LocalOK(c, pc[c], todo[c], wire[c], replies[c], phase[c])
         /\ backlog \subseteq Conn /\ overlap \subseteq Conn
BY Zenon DEF ProcessesInv

\* spawn_worker, connect_refused, disconnect: nothing is sent or received.
LEMMA QuietStep ==
  ASSUME ProcessesInv, NEW c \in Conn, UNCHANGED coordinator_vars,
         spawn_worker(c) \/ connect_refused(c) \/ disconnect(c)
  PROVE  ProcessesInv' /\ Advances(c)
<1>1. PICK p, t, q, r : /\ p = (IF spawn_worker(c) THEN "connecting" ELSE "exited")
                        /\ t = todo[c] /\ q = wire[c] /\ r = replies[c]
  OBVIOUS
<1>2. /\ pc' = [pc EXCEPT ![c] = p] /\ UNCHANGED <<todo, wire, replies, backlog, overlap>>
      /\ p \in {"connecting", "exited"} /\ (p = "connecting" => pc[c] = "unspawned")
      /\ UNCHANGED phase
  BY <1>1 DEF spawn_worker, connect_refused, disconnect, goto_pc, coordinator_vars, conn_vars
<1>3. /\ LocalOK(c, pc[c], t, q, r, phase[c]) /\ backlog \subseteq Conn /\ overlap \subseteq Conn
  BY <1>1, LocalFacts, Zenon
<1>4. /\ p \in ProgramCounter /\ p \notin Publishing /\ p # "publishing"
      /\ p \notin {"beating", "routing"}
      /\ (p \in Early => pc[c] \in Early)
  BY <1>2 DEF ProgramCounter, Publishing, Early
<1>5. LocalOK(c, p, t, q, r, phase'[c])
  BY <1>2, <1>3, <1>4, Zenon DEF LocalOK
<1> QED BY <1>1, <1>2, <1>3, <1>4, <1>5, ConnectionAdvances, Zenon

\* HELLO is sent as the connection is established.
LEMMA ConnectStep ==
  ASSUME ProcessesInv, NEW c \in Conn, UNCHANGED coordinator_vars, connect(c)
  PROVE  ProcessesInv' /\ Advances(c)
<1>1. PICK t, q, r : t = todo[c] /\ r = replies[c] /\ q = Append(wire[c], signal("HELLO"))
  OBVIOUS
<1>2. /\ pc[c] = "connecting" /\ pc' = [pc EXCEPT ![c] = "handshake"]
      /\ wire' = [wire EXCEPT ![c] = q] /\ Len(wire[c]) < socket_buffer
      /\ UNCHANGED <<todo, replies, overlap, phase>> /\ backlog' = backlog \cup {c}
  BY <1>1 DEF connect, send, goto_pc, coordinator_vars, conn_vars
<1>3. /\ LocalOK(c, pc[c], t, wire[c], r, phase[c]) /\ backlog' \subseteq Conn /\ overlap \subseteq Conn
  BY <1>1, <1>2, LocalFacts
<1>4. /\ wire[c] \in Seq(FramesOf(c)) /\ LinkLast(c, wire[c]) /\ In(wire[c]) \cap Evidence(c) = {}
  BY <1>2, <1>3 DEF LocalOK, Early
<1>5. signal("HELLO") \in FramesOf(c) /\ signal("HELLO") \notin Evidence(c)
  BY FrameFacts DEF FramesOf, Signals
<1>6. /\ q \in Seq(FramesOf(c)) /\ Len(q) = Len(wire[c]) + 1 /\ LinkLast(c, q)
      /\ In(q) = In(wire[c]) \cup {signal("HELLO")}
  BY <1>1, <1>4, <1>5, AppendFrame
<1>7. In(q) \cap Evidence(c) = {} /\ the_link(c) \notin In(q)
  BY <1>4, <1>5, <1>6 DEF Evidence
<1>8. Len(q) <= socket_buffer
  BY <1>2, <1>4, <1>6, LenProperties, FleetAssumption
<1>9. /\ "handshake" \in ProgramCounter /\ "handshake" \notin Publishing
      /\ "handshake" # "publishing" /\ "handshake" \notin {"beating", "routing"}
      /\ pc[c] \in Early /\ pc[c] \notin Publishing
  BY <1>2 DEF ProgramCounter, Publishing, Early
<1>10. LocalOK(c, "handshake", t, q, r, phase'[c])
  BY <1>2, <1>3, <1>6, <1>7, <1>8, <1>9, Zenon DEF LocalOK
<1> QED BY <1>1, <1>2, <1>3, <1>9, <1>10, ConnectionAdvances, Zenon

\* READY lets the process publish, GOODBYE ends it.
LEMMA ReplyStep ==
  ASSUME ProcessesInv, NEW c \in Conn, UNCHANGED coordinator_vars, receive_reply(c)
  PROVE  ProcessesInv' /\ Advances(c)
<1>1. /\ pc[c] = "handshake" /\ replies[c] # None
      /\ replies' = [replies EXCEPT ![c] = None] /\ UNCHANGED <<wire, backlog, overlap, phase>>
  BY DEF receive_reply, coordinator_vars, conn_vars
<1>2. /\ LocalOK(c, pc[c], todo[c], wire[c], replies[c], phase[c])
      /\ backlog \subseteq Conn /\ overlap \subseteq Conn
  BY LocalFacts, Zenon
<1>3. phase[c] \in Answered
  BY <1>1, <1>2, Zenon DEF LocalOK
<1>4. In(wire[c]) \cap Evidence(c) = {} /\ the_link(c) \notin In(wire[c])
  <2>1. pc[c] \in Early
    BY <1>1 DEF Early
  <2>2. In(wire[c]) \cap Evidence(c) = {}
    BY <1>2, <2>1, Zenon DEF LocalOK
  <2> QED BY <2>2 DEF Evidence
<1>5. PICK p, t, q : /\ p = (IF replies[c] = "READY" THEN "publishing" ELSE "exited")
                     /\ t = (IF replies[c] = "READY" THEN published(c) ELSE todo[c])
                     /\ q = wire[c]
  OBVIOUS
<1>6. /\ pc' = [pc EXCEPT ![c] = p]
      /\ todo' = [todo EXCEPT ![c] = t] \/ (todo' = todo /\ t = todo[c])
  BY <1>5, Zenon DEF receive_reply, goto_pc
<1>7. CASE replies[c] = "READY"
  <2>1. p = "publishing" /\ t = published(c)
    BY <1>5, <1>7
  <2>2. /\ t \in Seq(FramesOf(c)) /\ t # << >> /\ LinkLast(c, t) /\ Evidence(c) \subseteq In(t)
    BY <2>1, PublishedInOrder
  <2>3. /\ p \in ProgramCounter /\ p \notin Early /\ p \notin {"beating", "routing"}
    BY <2>1 DEF ProgramCounter, Early
  <2>4. LocalOK(c, p, t, q, None, phase'[c])
    BY <1>1, <1>2, <1>3, <1>4, <1>5, <2>2, <2>3, Zenon DEF LocalOK
  <2>5. /\ pc[c] \in Early /\ \A f \in Evidence(c) : f \in In(q) \cup In(t)
    BY <1>1, <2>2 DEF Early
  <2> QED BY <1>1, <1>2, <1>5, <1>6, <2>4, <2>5, ConnectionAdvances, Zenon
<1>8. CASE replies[c] # "READY"
  <2>1. p = "exited" /\ t = todo[c]
    BY <1>5, <1>8
  <2>2. /\ p \in ProgramCounter /\ p \notin Early /\ p \notin {"beating", "routing"}
        /\ p # "publishing" /\ p \notin Publishing /\ pc[c] \in Early
    BY <1>1, <2>1 DEF ProgramCounter, Early, Publishing
  <2>3. LocalOK(c, p, t, q, None, phase'[c])
    BY <1>1, <1>2, <1>3, <1>4, <1>5, <2>1, <2>2, Zenon DEF LocalOK
  <2> QED BY <1>1, <1>2, <1>5, <1>6, <2>2, <2>3, ConnectionAdvances, Zenon
<1> QED BY <1>7, <1>8

\* The next frame goes out: it is pending before and after.
LEMMA PublishStep ==
  ASSUME ProcessesInv, NEW c \in Conn, UNCHANGED coordinator_vars, publish(c)
  PROVE  ProcessesInv' /\ Advances(c)
<1>1. PICK p, t, h, q, r : /\ p = (IF Len(todo[c]) = 1 THEN "beating" ELSE "publishing")
                           /\ t = Tail(todo[c]) /\ h = Head(todo[c]) /\ r = replies[c]
                           /\ q = Append(wire[c], Head(todo[c]))
  OBVIOUS
<1>2. /\ pc[c] = "publishing" /\ pc' = [pc EXCEPT ![c] = p]
      /\ wire' = [wire EXCEPT ![c] = q] /\ Len(wire[c]) < socket_buffer
      /\ todo' = [todo EXCEPT ![c] = t]
      /\ UNCHANGED <<replies, backlog, overlap, phase>>
  BY <1>1 DEF publish, send, goto_pc, coordinator_vars, conn_vars
<1>3. /\ LocalOK(c, pc[c], todo[c], wire[c], r, phase[c])
      /\ backlog \subseteq Conn /\ overlap \subseteq Conn
  BY <1>1, LocalFacts, Zenon
<1>4. /\ todo[c] \in Seq(FramesOf(c)) /\ todo[c] # << >> /\ LinkLast(c, todo[c])
      /\ wire[c] \in Seq(FramesOf(c)) /\ LinkLast(c, wire[c])
      /\ the_link(c) \in In(wire[c]) => In(todo[c]) \cap Evidence(c) = {}
      /\ phase[c] \in Answered
  <2>1. pc[c] \in Publishing
    BY <1>2 DEF Publishing
  <2> QED BY <1>2, <1>3, <2>1, Zenon DEF LocalOK
<1>5. /\ h \in FramesOf(c) /\ t \in Seq(FramesOf(c)) /\ Len(todo[c]) \in Nat
      /\ Len(t) = Len(todo[c]) - 1 /\ In(todo[c]) = {h} \cup In(t) /\ LinkLast(c, t)
      /\ h = the_link(c) => In(t) \cap Evidence(c) = {}
  BY <1>1, <1>4, TailFrames
<1>6. the_link(c) \in In(wire[c]) => h \notin Evidence(c)
  BY <1>4, <1>5
<1>7. /\ q \in Seq(FramesOf(c)) /\ Len(q) = Len(wire[c]) + 1 /\ In(q) = In(wire[c]) \cup {h}
      /\ LinkLast(c, q)
  BY <1>1, <1>4, <1>5, <1>6, AppendFrame
<1>8. Len(q) <= socket_buffer
  BY <1>2, <1>4, <1>7, LenProperties, FleetAssumption
<1>9. the_link(c) \in In(q) => In(t) \cap Evidence(c) = {}
  BY <1>4, <1>5, <1>7
<1>10. /\ p \in ProgramCounter /\ p \notin Early /\ p \in Publishing /\ p # "routing"
       /\ pc[c] \in Publishing
  BY <1>1, <1>2 DEF ProgramCounter, Early, Publishing
<1>11. /\ p = "publishing" => t # << >>
       /\ p \in {"beating", "routing"} => t = << >>
  <2>1. t = << >> <=> Len(t) = 0
    BY <1>5, EmptySeq
  <2>2. Len(t) = 0 <=> Len(todo[c]) = 1
    BY <1>5
  <2>3. p = "publishing" <=> Len(todo[c]) # 1
    BY <1>1
  <2> QED BY <1>10, <2>1, <2>2, <2>3
<1>12. LocalOK(c, p, t, q, r, phase'[c])
  BY <1>2, <1>3, <1>4, <1>5, <1>7, <1>8, <1>9, <1>10, <1>11, Zenon DEF LocalOK
<1>13. \A f \in Evidence(c) : f \in In(q) \cup In(t) <=> f \in In(wire[c]) \cup In(todo[c])
  BY <1>5, <1>7
<1> QED BY <1>1, <1>2, <1>3, <1>10, <1>12, <1>13, ConnectionAdvances, Zenon

\* heartbeat, request_route, receive_route: nothing but signals.
LEMMA SignalStep ==
  ASSUME ProcessesInv, NEW c \in Conn, UNCHANGED coordinator_vars,
         heartbeat(c) \/ request_route(c) \/ receive_route(c)
  PROVE  ProcessesInv' /\ Advances(c)
<1>1. /\ LocalOK(c, pc[c], todo[c], wire[c], replies[c], phase[c])
      /\ backlog \subseteq Conn /\ overlap \subseteq Conn
  BY LocalFacts, Zenon
<1>2. UNCHANGED phase /\ pc[c] \in {"beating", "routing"}
  BY DEF heartbeat, request_route, receive_route, coordinator_vars, conn_vars
<1>3. /\ todo[c] = << >> /\ wire[c] \in Seq(FramesOf(c)) /\ LinkLast(c, wire[c])
      /\ phase[c] \in Answered
  <2>1. pc[c] \in Publishing
    BY <1>2 DEF Publishing
  <2> QED BY <1>1, <1>2, <2>1, Zenon DEF LocalOK
<1>4. In(todo[c]) = {}
  BY <1>3, EmptyQueue
<1>5. \A p \in {"beating", "routing"} :
        p \in ProgramCounter /\ p \in Publishing /\ p \notin Early /\ p # "publishing"
  BY DEF ProgramCounter, Publishing, Early
<1>6. CASE heartbeat(c) \/ request_route(c)
  <2>1. PICK x, p : /\ x \in {signal("HEARTBEAT"), signal("ROUTE")} /\ p \in {"beating", "routing"}
                    /\ pc' = [pc EXCEPT ![c] = p] \/ (pc' = pc /\ p = pc[c])
                    /\ wire' = [wire EXCEPT ![c] = Append(wire[c], x)]
                    /\ Len(wire[c]) < socket_buffer
                    /\ UNCHANGED <<todo, replies, backlog, overlap>>
    <3>1. CASE heartbeat(c)
      <4>1. /\ pc' = pc /\ wire' = [wire EXCEPT ![c] = Append(wire[c], signal("HEARTBEAT"))]
            /\ Len(wire[c]) < socket_buffer /\ UNCHANGED <<todo, replies, backlog, overlap>>
        BY <3>1 DEF heartbeat, send
      <4> QED BY <1>2, <4>1
    <3>2. CASE request_route(c)
      <4>1. /\ pc' = [pc EXCEPT ![c] = "routing"]
            /\ wire' = [wire EXCEPT ![c] = Append(wire[c], signal("ROUTE"))]
            /\ Len(wire[c]) < socket_buffer /\ UNCHANGED <<todo, replies, backlog, overlap>>
        BY <3>2 DEF request_route, send, goto_pc
      <4> QED BY <4>1
    <3> QED BY <1>6, <3>1, <3>2
  <2>2. x \in FramesOf(c) /\ x \notin Evidence(c)
    BY <2>1, FrameFacts DEF FramesOf, Signals
  <2>3. PICK q, t, r : q = Append(wire[c], x) /\ t = todo[c] /\ r = replies[c]
    OBVIOUS
  <2>4. /\ q \in Seq(FramesOf(c)) /\ Len(q) = Len(wire[c]) + 1 /\ In(q) = In(wire[c]) \cup {x}
        /\ LinkLast(c, q)
    BY <1>3, <2>2, <2>3, AppendFrame
  <2>5. Len(q) <= socket_buffer
    BY <1>3, <2>1, <2>4, LenProperties, FleetAssumption
  <2>6. \A f \in Evidence(c) : f \in In(q) \cup In(t) <=> f \in In(wire[c]) \cup In(todo[c])
    BY <2>2, <2>3, <2>4
  <2>7. In(t) \cap Evidence(c) = {}
    BY <1>4, <2>3
  <2>8. LocalOK(c, p, t, q, r, phase'[c])
    BY <1>1, <1>2, <1>3, <1>5, <2>1, <2>3, <2>4, <2>5, <2>7, Zenon DEF LocalOK
  <2>9. wire' = [wire EXCEPT ![c] = q]
    BY <2>1, <2>3
  <2> QED BY <1>1, <1>2, <1>5, <2>1, <2>3, <2>6, <2>8, <2>9, ConnectionAdvances, Zenon
<1>7. CASE receive_route(c)
  <2>1. /\ pc' = [pc EXCEPT ![c] = "beating"] /\ replies' = [replies EXCEPT ![c] = None]
        /\ UNCHANGED <<todo, wire, backlog, overlap>>
    BY <1>7 DEF receive_route, goto_pc
  <2>2. PICK q, t : q = wire[c] /\ t = todo[c]
    OBVIOUS
  <2>3. LocalOK(c, "beating", t, q, None, phase'[c])
    BY <1>1, <1>2, <1>3, <1>5, <2>2, Zenon DEF LocalOK
  <2> QED BY <1>1, <1>2, <1>5, <2>1, <2>2, <2>3, ConnectionAdvances, Zenon
<1> QED BY <1>6, <1>7

\* The process dies, with any suffix of what it sent, or its connection is reset.
LEMMA KillStep ==
  ASSUME ProcessesInv, NEW c \in Conn, UNCHANGED coordinator_vars,
         kill_worker(c) \/ connection_reset(c)
  PROVE  ProcessesInv' /\ Advances(c)
<1>1. /\ LocalOK(c, pc[c], todo[c], wire[c], replies[c], phase[c])
      /\ backlog \subseteq Conn /\ overlap \subseteq Conn
  BY LocalFacts, Zenon
<1>2. /\ wire[c] \in Seq(FramesOf(c)) /\ LinkLast(c, wire[c]) /\ Len(wire[c]) <= socket_buffer
      /\ todo[c] \in Seq(FramesOf(c)) /\ LinkLast(c, todo[c]) /\ Len(wire[c]) \in Nat
  BY <1>1, LenProperties DEF LocalOK
<1>3. /\ UNCHANGED phase /\ pc' = [pc EXCEPT ![c] = "exited"]
      /\ backlog' \subseteq backlog /\ UNCHANGED overlap
  BY DEF kill_worker, connection_reset, goto_pc, coordinator_vars, conn_vars
<1>4. PICK q : /\ wire' = [wire EXCEPT ![c] = q] /\ q \in Seq(FramesOf(c))
               /\ Len(q) <= socket_buffer /\ In(q) \subseteq In(wire[c]) /\ LinkLast(c, q)
  <2>1. CASE kill_worker(c)
    <3>1. PICK n \in 0..Len(wire[c]) : wire' = [wire EXCEPT ![c] = SubSeq(wire[c], 1, n)]
      BY <2>1 DEF kill_worker
    <3>2. PICK q : q = SubSeq(wire[c], 1, n)
      OBVIOUS
    <3>3. q \in Seq(FramesOf(c)) /\ Len(q) <= Len(wire[c]) /\ In(q) \subseteq In(wire[c]) /\ LinkLast(c, q)
      BY <1>2, <3>2, PrefixFrames
    <3>4. Len(q) <= socket_buffer
      BY <1>2, <3>3, LenProperties, FleetAssumption
    <3> QED BY <3>1, <3>2, <3>3, <3>4
  <2>2. CASE connection_reset(c)
    <3>1. wire' = [wire EXCEPT ![c] = << >>]
      BY <2>2 DEF connection_reset
    <3>2. /\ << >> \in Seq(FramesOf(c)) /\ Len(<< >>) = 0 /\ In(<< >>) = {} /\ LinkLast(c, << >>)
      BY EmptyQueue
    <3>3. Len(<< >>) <= socket_buffer
      BY <3>2, FleetAssumption
    <3>4. In(<< >>) \subseteq In(wire[c])
      BY <3>2
    <3> QED BY <3>1, <3>2, <3>3, <3>4, Zenon
  <2> QED BY <2>1, <2>2
<1>5. PICK t, r : /\ todo' = [todo EXCEPT ![c] = t] \/ (todo' = todo /\ t = todo[c])
                  /\ replies' = [replies EXCEPT ![c] = r] \/ (replies' = replies /\ r = replies[c])
                  /\ t = << >> \/ t = todo[c]
                  /\ r = None \/ r = replies[c]
  <2>1. CASE kill_worker(c)
    BY <2>1, Zenon DEF kill_worker
  <2>2. CASE connection_reset(c)
    BY <2>2, Zenon DEF connection_reset
  <2> QED BY <2>1, <2>2
<1>6. t \in Seq(FramesOf(c)) /\ LinkLast(c, t) /\ In(t) \subseteq In(todo[c])
  <2>1. CASE t = << >>
    BY <2>1, EmptyQueue
  <2>2. CASE t = todo[c]
    BY <1>2, <2>2
  <2> QED BY <1>5, <2>1, <2>2
<1>7. the_link(c) \in In(q) => In(t) \cap Evidence(c) = {}
  <2>1. the_link(c) \in In(wire[c]) => In(todo[c]) \cap Evidence(c) = {}
    BY <1>1, Zenon DEF LocalOK
  <2> QED BY <1>4, <1>6, <2>1
<1>8. r \in {None, "READY", "GOODBYE", "ROUTE"} /\ (r # None => phase[c] \in Answered)
  <2>1. /\ replies[c] \in {None, "READY", "GOODBYE", "ROUTE"}
        /\ replies[c] # None => phase[c] \in Answered
    BY <1>1, Zenon DEF LocalOK
  <2> QED BY <1>5, <2>1
<1>9. /\ "exited" \in ProgramCounter /\ "exited" \notin Publishing /\ "exited" \notin Early
      /\ "exited" # "publishing" /\ "exited" \notin {"beating", "routing"}
  BY DEF ProgramCounter, Publishing, Early
<1>10. LocalOK(c, "exited", t, q, r, phase'[c])
  BY <1>3, <1>4, <1>6, <1>7, <1>8, <1>9, Zenon DEF LocalOK
<1>11. /\ backlog' \subseteq Conn /\ overlap' \subseteq Conn
       /\ \A f \in Evidence(c) : f \in In(q) \cup In(t) => f \in In(wire[c]) \cup In(todo[c])
  BY <1>1, <1>3, <1>4, <1>6
<1> QED BY <1>3, <1>4, <1>5, <1>9, <1>10, <1>11, ConnectionAdvances, Zenon

-----------------------------------------------------------------------------
(* Steps of the coordinator's threads, as the connection sees them *)

\* A thread takes the next frame off the connection, and may reply.
LEMMA ReceiveStep ==
  ASSUME ProcessesInv, NEW c \in Conn, wire[c] # << >>, received(c),
         UNCHANGED <<pc, todo, backlog>>, overlap' \subseteq Conn,
         NEW r \in {None, "READY", "GOODBYE", "ROUTE"},
         replies' = [replies EXCEPT ![c] = r] \/ (replies' = replies /\ r = replies[c]),
         \A d \in Conn : d # c => phase'[d] = phase[d],
         pc[c] \in Publishing \/ r # None => phase'[c] \in Answered
  PROVE  /\ ProcessesInv' /\ Head(wire[c]) \in FramesOf(c)
         /\ \A d \in Conn : d # c => wire'[d] = wire[d]
         /\ \A f : pending(c, f) <=> pending(c, f)' \/ f = Head(wire[c])
         /\ Head(wire[c]) = the_link(c) => \A f \in Evidence(c) : ~pending(c, f)'
         /\ pc[c] \notin Publishing \/ Head(wire[c]) \notin Evidence(c) => Advances(c)
<1>1. PICK p, t, q, h : p = pc[c] /\ t = todo[c] /\ q = Tail(wire[c]) /\ h = Head(wire[c])
  OBVIOUS
<1>2. /\ LocalOK(c, p, t, wire[c], replies[c], phase[c]) /\ backlog \subseteq Conn
  BY <1>1, LocalFacts, Zenon
<1>3. /\ wire[c] \in Seq(FramesOf(c)) /\ LinkLast(c, wire[c]) /\ Len(wire[c]) <= socket_buffer
      /\ p \in Early => In(wire[c]) \cap Evidence(c) = {}
      /\ the_link(c) \in In(wire[c]) => In(t) \cap Evidence(c) = {}
  BY <1>2, Zenon DEF LocalOK
<1>4. /\ h \in FramesOf(c) /\ q \in Seq(FramesOf(c)) /\ LinkLast(c, q)
      /\ Len(wire[c]) \in Nat /\ Len(wire[c]) > 0 /\ Len(q) = Len(wire[c]) - 1
      /\ In(wire[c]) = {h} \cup In(q)
      /\ h = the_link(c) => In(q) \cap Evidence(c) = {}
  BY <1>1, <1>3, TailFrames
<1>5. Len(q) <= socket_buffer
  BY <1>3, <1>4, FleetAssumption
<1>6. /\ p \in Early => In(q) \cap Evidence(c) = {}
      /\ the_link(c) \in In(q) => In(t) \cap Evidence(c) = {}
  BY <1>3, <1>4
<1>7. LocalOK(c, p, t, q, r, phase'[c])
  BY <1>1, <1>2, <1>4, <1>5, <1>6, Zenon DEF LocalOK
<1>8. wire' = [wire EXCEPT ![c] = q]
  BY <1>1 DEF received
<1>9. /\ ProcessesInv' /\ pc'[c] = p /\ todo'[c] = t /\ wire'[c] = q
      /\ \A d \in Conn : d # c => pc'[d] = pc[d] /\ todo'[d] = todo[d] /\ wire'[d] = wire[d]
  <2>1. /\ pc \in [Conn -> ProgramCounter] /\ DOMAIN todo = Conn /\ DOMAIN wire = Conn
        /\ replies \in [Conn -> {None, "READY", "GOODBYE", "ROUTE"}]
    BY DEF ProcessesInv
  <2>2. pc' = pc /\ todo' = todo /\ backlog' \subseteq Conn
    BY <1>2
  <2>3. /\ replies' \in [Conn -> {None, "READY", "GOODBYE", "ROUTE"}] /\ replies'[c] = r
        /\ \A d \in Conn : d # c => replies'[d] = replies[d]
    BY <2>1
  <2>4. DOMAIN wire' = Conn /\ wire'[c] = q /\ \A d \in Conn : d # c => wire'[d] = wire[d]
    BY <1>8, <2>1
  <2>5. pc'[c] = p /\ todo'[c] = t
    BY <1>1, <2>2
  <2>6. ASSUME NEW d \in Conn
        PROVE  LocalOK(d, pc'[d], todo'[d], wire'[d], replies'[d], phase'[d])
    <3>1. CASE d = c
      BY <1>7, <2>3, <2>4, <2>5, <3>1, Zenon
    <3>2. CASE d # c
      <4>1. LocalOK(d, pc[d], todo[d], wire[d], replies[d], phase[d])
        BY LocalFacts, Zenon
      <4>2. phase'[d] = phase[d] /\ replies'[d] = replies[d] /\ wire'[d] = wire[d]
        BY <2>3, <2>4, <3>2
      <4>3. pc'[d] = pc[d] /\ todo'[d] = todo[d]
        BY <2>2
      <4> QED BY <4>1, <4>2, <4>3, Zenon
    <3> QED BY <3>1, <3>2
  <2>7. ProcessesInv'
    BY <2>1, <2>2, <2>3, <2>4, <2>6, Zenon DEF ProcessesInv
  <2> QED BY <2>2, <2>4, <2>5, <2>7, Zenon
<1>10. \A f : pending(c, f) <=> pending(c, f)' \/ f = h
  BY <1>1, <1>4, <1>9 DEF pending
<1>11. h = the_link(c) => \A f \in Evidence(c) : ~pending(c, f)'
  <2> SUFFICES ASSUME h = the_link(c)
               PROVE  (In(q) \cup In(t)) \cap Evidence(c) = {}
    BY <1>9 DEF pending
  <2>1. the_link(c) \in In(wire[c])
    BY <1>4
  <2> QED BY <1>3, <1>4, <2>1
<1>12. ASSUME pc[c] \notin Publishing \/ h \notin Evidence(c)
       PROVE  Advances(c)
  <2>1. pc'[c] = pc[c]
    BY <1>1, <1>9
  <2> QED BY <1>9, <1>10, <1>12, <2>1, Zenon DEF Advances
<1> QED BY <1>1, <1>4, <1>9, <1>10, <1>11, <1>12, Zenon

\* A thread moves on without reading from the connection or writing to it.
LEMMA ThreadMoves ==
  ASSUME ProcessesInv, NEW c \in Conn, UNCHANGED <<worker_vars, overlap>>,
         backlog' \subseteq Conn,
         \A d \in Conn : d # c => phase'[d] = phase[d],
         phase[c] \in Answered => phase'[c] \in Answered
  PROVE  ProcessesInv' /\ Advances(c)
<1>1. UNCHANGED <<pc, todo, wire, replies>>
  BY DEF worker_vars
<1>2. PICK p, t, q, r : p = pc[c] /\ t = todo[c] /\ q = wire[c] /\ r = replies[c]
  OBVIOUS
<1>3. LocalOK(c, p, t, q, r, phase[c]) /\ overlap \subseteq Conn
  BY <1>2, LocalFacts, Zenon
<1>4. LocalOK(c, p, t, q, r, phase'[c])
  BY <1>3, Zenon DEF LocalOK
<1> QED BY <1>1, <1>2, <1>3, <1>4, ConnectionAdvances, Zenon

\* The reply to HELLO, which a process that has exited does not get.
LEMMA HelloReplyStep ==
  ASSUME ProcessesInv, phase \in [Conn -> Phase], NEW c \in Conn, reply_to_hello(c)
  PROVE  ProcessesInv' /\ Advances(c)
<1>1. /\ send_reply(c) /\ UNCHANGED <<pc, todo, wire, backlog, overlap>>
      /\ reply(c, IF phase[c] = "accepted" THEN "READY" ELSE "GOODBYE")
  BY DEF reply_to_hello
<1>2. PICK p, t, q, r : /\ p = pc[c] /\ t = todo[c] /\ q = wire[c]
                        /\ r \in {None, "READY", "GOODBYE"}
                        /\ replies' = [replies EXCEPT ![c] = r]
  BY <1>1 DEF reply
<1>3. /\ \A d \in Conn : d # c => phase'[d] = phase[d]
      /\ phase'[c] \in Answered
  BY <1>1 DEF send_reply, goto, Answered
<1>4. /\ LocalOK(c, p, t, q, replies[c], phase[c]) /\ overlap \subseteq Conn /\ backlog \subseteq Conn
  BY <1>2, LocalFacts, Zenon
<1>5. r \in {None, "READY", "GOODBYE", "ROUTE"}
  BY <1>2
<1>6. LocalOK(c, p, t, q, r, phase'[c])
  BY <1>3, <1>4, <1>5, Zenon DEF LocalOK
<1> QED BY <1>1, <1>2, <1>3, <1>4, <1>6, ConnectionAdvances, Zenon

-----------------------------------------------------------------------------
(* Steps of the coordinator's threads, as the registry sees them *)

\* What EvidenceNeverRegresses says of a step, and that nothing is removed.
EvidenceKept ==
  /\ \A d \in DOMAIN devices :
       d \in DOMAIN devices' /\ devices'[d].owner_boot >= devices[d].owner_boot
  /\ \A l \in DOMAIN links :
       l \in DOMAIN links' /\ links'[l].generation = links[l].generation

\* No link comes or goes or changes its state.
LinksStay ==
  /\ DOMAIN links' = DOMAIN links
  /\ \A l \in DOMAIN links : links'[l].state = links[l].state

RegistryInv == DevicesInv /\ LinksInv

LEMMA RegistryMaps ==
  ASSUME CoordInv
  PROVE  /\ IsMap(devices, DeviceId, DeviceRecord) /\ IsMap(links, LinkId, LinkRecord)
         /\ IsFiniteSet(DOMAIN devices) /\ IsFiniteSet(DOMAIN links) /\ topology_gen \in Nat
BY DEF CoordInv, IInv, TopologyInv, WellFormed

\* Steps that leave the topology alone; HELLO may be announced in them.
LEMMA RegistryStays ==
  ASSUME CoordInv, RegistryInv, UNCHANGED <<devices, links>>,
         \A c \in Conn : hello[c] # None => hello'[c] # None
  PROVE  RegistryInv' /\ EvidenceKept /\ LinksStay
<1>1. DevicesInv' /\ LinksInv'
  BY DEF RegistryInv, DevicesInv, LinksInv
<1>2. \A d \in DOMAIN devices : devices[d].owner_boot \in Nat
  BY DEF RegistryInv, DevicesInv
<1>3. EvidenceKept
  BY <1>2 DEF EvidenceKept
<1> QED BY <1>1, <1>3 DEF RegistryInv, LinksStay

\* The marking touches neither an owner nor a generation.
LEMMA RegistryMarked ==
  ASSUME CoordInv, RegistryInv, mark_dynamic_evidence_revalidation_required, UNCHANGED hello
  PROVE  RegistryInv' /\ EvidenceKept /\ DOMAIN links' = DOMAIN links
<1>1. /\ IsMap(devices, DeviceId, DeviceRecord) /\ IsMap(links, LinkId, LinkRecord)
      /\ topology_gen + 1 \in Nat
  BY RegistryMaps
<1>2. PICK ds, ls : /\ ds = [d \in DOMAIN devices |->
                               IF devices[d].owner_worker = None THEN devices[d]
                               ELSE [devices[d] EXCEPT !.health = "REVALIDATION_REQUIRED"]]
                    /\ ls = [l \in DOMAIN links |-> requires_revalidation(links[l])]
  OBVIOUS
<1>3. devices' = ds /\ links' = stamp(ls, topology_gen + 1)
  BY <1>2, Zenon DEF mark_dynamic_evidence_revalidation_required, publish_topology
<1>4. /\ DOMAIN devices' = DOMAIN devices
      /\ \A d \in DOMAIN devices : /\ devices'[d].owner_boot = devices[d].owner_boot
                                   /\ devices'[d].generation = devices[d].generation
  BY <1>1, <1>2, <1>3 DEF IsMap, DeviceRecord
<1>5. /\ IsMap(ls, LinkId, LinkRecord) /\ DOMAIN ls = DOMAIN links
      /\ \A l \in DOMAIN links : ls[l].generation = links[l].generation
  BY <1>1, <1>2, RevalidationMap, Zenon
<1>6. /\ DOMAIN links' = DOMAIN links
      /\ \A l \in DOMAIN links : links'[l].generation = links[l].generation
  <2>1. PICK gen \in Nat : gen = topology_gen + 1
    BY <1>1
  <2>2. /\ DOMAIN stamp(ls, gen) = DOMAIN ls
        /\ \A l \in DOMAIN ls : stamp(ls, gen)[l].generation = ls[l].generation
    BY <1>5, StampMap, Zenon
  <2> QED BY <1>3, <1>5, <2>1, <2>2, Zenon
<1>7. \A d \in DOMAIN devices : devices[d].owner_boot \in Nat
  BY DEF RegistryInv, DevicesInv
<1>8. EvidenceKept
  BY <1>4, <1>6, <1>7 DEF EvidenceKept
<1>9. DevicesInv'
  <2> SUFFICES ASSUME NEW d \in DOMAIN devices'
               PROVE  /\ devices'[d].owner_boot \in Nat
                      /\ \/ d = gpu0 /\ devices'[d].generation = seeded(devices'[d].owner_boot, 1)
                         \/ d = gpu1 /\ devices'[d].generation = seeded(devices'[d].owner_boot, 2)
    BY DEF DevicesInv
  <2>1. /\ d \in DOMAIN devices /\ devices'[d].owner_boot = devices[d].owner_boot
        /\ devices'[d].generation = devices[d].generation
    BY <1>4
  <2>2. /\ devices[d].owner_boot \in Nat
        /\ \/ d = gpu0 /\ devices[d].generation = seeded(devices[d].owner_boot, 1)
           \/ d = gpu1 /\ devices[d].generation = seeded(devices[d].owner_boot, 2)
    BY <2>1, Zenon DEF RegistryInv, DevicesInv
  <2> QED BY <2>1, <2>2, Zenon
<1>10. LinksInv'
  BY <1>6, Zenon DEF RegistryInv, LinksInv
<1> QED BY <1>6, <1>8, <1>9, <1>10 DEF RegistryInv

\* A device that is accepted has a later generation, and so a later boot, than
\* the one it replaces.
LEMMA DeviceServed ==
  ASSUME CoordInv, RegistryInv, AnnouncedInv, NEW c \in Conn,
         NEW id \in DeviceId, NEW d \in DeviceRecord, publish_device(c, id, d),
         \/ id = gpu0 /\ d.generation = base(c) + 1
         \/ id = gpu1 /\ d.generation = base(c) + 2
  PROVE  RegistryInv' /\ EvidenceKept /\ LinksStay /\ id \in DOMAIN devices'
<1>1. /\ IsMap(devices, DeviceId, DeviceRecord) /\ IsMap(links, LinkId, LinkRecord)
      /\ topology_gen + 1 \in Nat
  BY RegistryMaps
<1>2. PICK o : o = [d EXCEPT !.owner_worker = hello[c].worker, !.owner_boot = hello[c].boot]
  OBVIOUS
<1>3. /\ phase[c] = "serving" /\ upsert_device(id, o) /\ UNCHANGED hello
  BY <1>2, Zenon DEF publish_device, conn_vars
<1>4. hello[c] = descriptor[c]
  BY <1>3 DEF CoordInv, AdmittedInv, registered_phases, AnnouncedInv
<1>5. PICK b \in Nat : /\ b = descriptor[c].boot
                     /\ base(c) + 1 = seeded(b, 1) /\ base(c) + 2 = seeded(b, 2)
  BY PublishedFrames
<1>6. o.owner_boot = b /\ o.generation = d.generation /\ d.generation \in Nat
  BY <1>2, <1>4, <1>5 DEF DeviceRecord
<1>7. /\ devices' = put(devices, id, o) /\ links' = stamp(links, topology_gen + 1)
      /\ id \in DOMAIN devices => o.generation > devices[id].generation
  BY <1>3 DEF upsert_device, publish_topology, device_accepted
<1>8. /\ DOMAIN devices' = DOMAIN devices \cup {id} /\ devices'[id] = o
      /\ \A e \in DOMAIN devices : e # id => devices'[e] = devices[e]
  BY <1>7 DEF put
<1>9. /\ DOMAIN links' = DOMAIN links
      /\ \A l \in DOMAIN links : /\ links'[l].generation = links[l].generation
                                 /\ links'[l].state = links[l].state
  BY <1>1, <1>7, StampMap
<1>10. LinksInv' /\ LinksStay
  BY <1>3, <1>9, Zenon DEF RegistryInv, LinksInv, LinksStay
<1>11. \/ id = gpu0 /\ o.generation = seeded(b, 1)
       \/ id = gpu1 /\ o.generation = seeded(b, 2)
  BY <1>5, <1>6
<1>12. DevicesInv'
  <2> SUFFICES ASSUME NEW e \in DOMAIN devices'
               PROVE  /\ devices'[e].owner_boot \in Nat
                      /\ \/ e = gpu0 /\ devices'[e].generation = seeded(devices'[e].owner_boot, 1)
                         \/ e = gpu1 /\ devices'[e].generation = seeded(devices'[e].owner_boot, 2)
    BY DEF DevicesInv
  <2>1. CASE e = id
    BY <1>6, <1>8, <1>11, <2>1
  <2>2. CASE e # id
    <3>1. e \in DOMAIN devices /\ devices'[e] = devices[e]
      BY <1>8, <2>2
    <3> QED BY <3>1, Zenon DEF RegistryInv, DevicesInv
  <2> QED BY <2>1, <2>2
<1>13. ASSUME NEW e \in DOMAIN devices
       PROVE  e \in DOMAIN devices' /\ devices'[e].owner_boot >= devices[e].owner_boot
  <2>1. e \in DOMAIN devices'
    BY <1>8
  <2>2. PICK n \in Nat : /\ n = devices[e].owner_boot
                         /\ \/ e = gpu0 /\ devices[e].generation = seeded(n, 1)
                            \/ e = gpu1 /\ devices[e].generation = seeded(n, 2)
    BY DEF RegistryInv, DevicesInv
  <2>3. CASE e = id
    <3>1. o.generation > devices[e].generation
      BY <1>7, <2>3
    <3>2. b >= n
      <4>1. gpu0 # gpu1
        BY FleetAssumption
      <4> QED BY <1>11, <2>2, <2>3, <3>1, <4>1, SMT DEF seeded
    <3> QED BY <1>6, <1>8, <2>1, <2>2, <2>3, <3>2
  <2>4. CASE e # id
    BY <1>8, <2>1, <2>2, <2>4
  <2> QED BY <2>3, <2>4
<1>14. EvidenceKept
  BY <1>9, <1>13 DEF EvidenceKept
<1> QED BY <1>8, <1>10, <1>12, <1>14 DEF RegistryInv

\* A link that is accepted is a new one: its generation is its identity, so that
\* a record of a link that is there is never newer.
LEMMA LinkServed ==
  ASSUME CoordInv, RegistryInv, NEW c \in Conn,
         NEW r \in LinkRecord, r.generation = link_of(c), publish_link(c, link_of(c), r)
  PROVE  /\ RegistryInv' /\ EvidenceKept /\ UNCHANGED devices
         /\ link_of(c) \notin DOMAIN links /\ DOMAIN links' = DOMAIN links \cup {link_of(c)}
         /\ links'[link_of(c)].state = r.state
         /\ \A l \in DOMAIN links : links'[l].state = links[l].state
<1>1. /\ IsMap(links, LinkId, LinkRecord) /\ topology_gen + 1 \in Nat
  BY RegistryMaps
<1>2. PICK id \in LinkId : id = link_of(c) /\ id \in Nat
  BY PublishedFrames
<1>3. /\ phase[c] = "serving" /\ upsert_link(id, r) /\ UNCHANGED hello
  BY <1>2, Zenon DEF publish_link, conn_vars
<1>4. /\ devices' = devices /\ links' = stamp(put(links, id, r), topology_gen + 1)
      /\ id \in DOMAIN links => r.generation > links[id].generation
  BY <1>3 DEF upsert_link, publish_topology, link_accepted
<1>5. id \notin DOMAIN links
  <2>1. id \in DOMAIN links => links[id].generation = id
    BY DEF RegistryInv, LinksInv
  <2> QED BY <1>2, <1>4, <2>1
<1>6. PICK ls : ls = put(links, id, r)
  OBVIOUS
<1>7. /\ DOMAIN ls = DOMAIN links \cup {id} /\ ls[id] = r
      /\ \A l \in DOMAIN links : ls[l] = links[l]
  BY <1>5, <1>6 DEF put
<1>8. IsMap(ls, LinkId, LinkRecord)
  BY <1>1, <1>6 DEF IsMap, put
<1>9. /\ DOMAIN links' = DOMAIN ls
      /\ \A l \in DOMAIN ls : /\ links'[l].generation = ls[l].generation
                              /\ links'[l].state = ls[l].state
  BY <1>1, <1>4, <1>6, <1>8, StampMap, ZenonT(60)
<1>10. /\ links'[id].generation = id /\ links'[id].state = r.state
       /\ \A l \in DOMAIN links : /\ links'[l].generation = links[l].generation
                                  /\ links'[l].state = links[l].state
  BY <1>2, <1>7, <1>9
<1>11. DevicesInv'
  BY <1>4, Zenon DEF RegistryInv, DevicesInv
<1>12. LinksInv'
  <2> SUFFICES ASSUME NEW l \in DOMAIN links'
               PROVE  /\ links'[l].generation = l
                      /\ \E e \in Conn : l = link_of(e) /\ hello'[e] # None
    BY DEF LinksInv, link_of
  <2>1. CASE l = id
    <3>1. hello[c] # None
      BY <1>3 DEF CoordInv, AdmittedInv, registered_phases
    <3> QED BY <1>2, <1>3, <1>10, <2>1, <3>1, Zenon
  <2>2. CASE l # id
    <3>1. l \in DOMAIN links
      BY <1>7, <1>9, <2>2
    <3>2. links[l].generation = l /\ \E e \in Conn : l = link_of(e) /\ hello[e] # None
      BY <3>1, Zenon DEF RegistryInv, LinksInv
    <3> QED BY <1>3, <1>10, <3>1, <3>2, Zenon
  <2> QED BY <2>1, <2>2
<1>13. \A d \in DOMAIN devices : devices[d].owner_boot \in Nat
  BY DEF RegistryInv, DevicesInv
<1>14. EvidenceKept
  BY <1>4, <1>7, <1>9, <1>10, <1>13 DEF EvidenceKept
<1> QED BY <1>2, <1>4, <1>5, <1>7, <1>9, <1>10, <1>11, <1>12, <1>14, Zenon DEF RegistryInv

-----------------------------------------------------------------------------
(* The steps of the fleet *)

\* Steps of a process or of the transport alone.
process_step(c) ==
  \/ spawn_worker(c) \/ kill_worker(c) \/ request_route(c) \/ disconnect(c)
  \/ worker(c) \/ connection_reset(c)

LEMMA FleetFacts ==
  ASSUME FleetInv
  PROVE  /\ CoordInv /\ ProcessesInv /\ AnnouncedInv /\ RegistryInv
         /\ phase \in [Conn -> Phase] /\ hello \in [Conn -> Hellos \cup {None}]
BY DEF FleetInv, RegistryInv, CoordInv, CoordinatorTypeOK

LEMMA AnnouncedStays ==
  ASSUME AnnouncedInv, UNCHANGED <<hello, epoch>>
  PROVE  AnnouncedInv' /\ \A c \in Conn : hello[c] # None => hello'[c] # None
BY DEF AnnouncedInv

LEMMA ProcessStep ==
  ASSUME FleetInv, NEW c \in Conn, process_step(c)
  PROVE  /\ FleetInv' /\ EvidenceKept /\ LinksStay /\ Advances(c)
         /\ UNCHANGED <<phase, devices, links, overlap>>
<1>1. UNCHANGED coordinator_vars /\ UNCHANGED overlap
  BY Zenon DEF process_step, worker, spawn_worker, kill_worker, request_route, disconnect,
     connect, connect_refused, receive_reply, publish, heartbeat, receive_route, connection_reset
<1>2. ProcessesInv' /\ Advances(c)
  <2>1. ProcessesInv
    BY FleetFacts
  <2>2. CASE spawn_worker(c) \/ connect_refused(c) \/ disconnect(c)
    BY <1>1, <2>1, <2>2, QuietStep, Zenon
  <2>3. CASE kill_worker(c) \/ connection_reset(c)
    BY <1>1, <2>1, <2>3, KillStep, Zenon
  <2>4. CASE connect(c)
    BY <1>1, <2>1, <2>4, ConnectStep, Zenon
  <2>5. CASE receive_reply(c)
    BY <1>1, <2>1, <2>5, ReplyStep, Zenon
  <2>6. CASE publish(c)
    BY <1>1, <2>1, <2>6, PublishStep, Zenon
  <2>7. CASE heartbeat(c) \/ request_route(c) \/ receive_route(c)
    BY <1>1, <2>1, <2>7, SignalStep, Zenon
  <2> QED BY <2>2, <2>3, <2>4, <2>5, <2>6, <2>7, Zenon DEF process_step, worker
<1>3. CoordInv' /\ UNCHANGED <<devices, links, phase, hello, epoch>>
  BY <1>1, CoordinatorStays, FleetFacts, Zenon
<1>4. AnnouncedInv' /\ \A d \in Conn : hello[d] # None => hello'[d] # None
  BY <1>3, AnnouncedStays, FleetFacts, Zenon
<1>5. RegistryInv' /\ EvidenceKept /\ LinksStay
  BY <1>3, <1>4, RegistryStays, FleetFacts, Zenon
<1> QED BY <1>1, <1>2, <1>3, <1>4, <1>5, Zenon DEF FleetInv, RegistryInv

\* Steps of a thread that neither read from the connection nor write to it.
quiet_thread_step(c) == accept_worker(c) \/ stream_ends(c) \/ closes(c)

LEMMA QuietThreadStep ==
  ASSUME FleetInv, NEW c \in Conn, quiet_thread_step(c)
  PROVE  /\ FleetInv' /\ EvidenceKept /\ Advances(c) /\ UNCHANGED overlap
         /\ DOMAIN links' = DOMAIN links
         /\ \A d \in Conn : d # c => phase'[d] = phase[d]
         /\ phase'[c] \in registered_phases => phase[c] \in registered_phases
         /\ phase'[c] = "serving" => phase[c] = "serving"
         /\ phase[c] = "marking" \/ (UNCHANGED <<devices, links>> /\ LinksStay)
<1>1. /\ \/ accept(c) \/ worker_gone(c) \/ no_hello(c) \/ send_reply_fails(c)
         \/ connection_closed(c) \/ mark_evidence(c) \/ unregister(c)
      /\ UNCHANGED <<worker_vars, overlap>>
      /\ backlog' \subseteq backlog
  BY DEF quiet_thread_step, accept_worker, stream_ends, closes
<1>2. /\ CoordInv /\ ProcessesInv /\ AnnouncedInv /\ RegistryInv
      /\ phase \in [Conn -> Phase] /\ backlog \subseteq Conn
  BY FleetFacts DEF ProcessesInv
<1>3. UNCHANGED <<hello, epoch>>
  BY <1>1 DEF accept, worker_gone, no_hello, send_reply_fails, connection_closed,
     mark_evidence, unregister, stop_vars
<1>4. /\ \A d \in Conn : d # c => phase'[d] = phase[d]
      /\ phase'[c] \in registered_phases => phase[c] \in registered_phases
      /\ phase'[c] = "serving" => phase[c] = "serving"
      /\ phase[c] \in Answered => phase'[c] \in Answered
  BY <1>1, <1>2 DEF accept, worker_gone, no_hello, send_reply_fails, connection_closed,
     mark_evidence, unregister, goto, registered_phases, Answered
<1>5. CoordInv'
  BY <1>1, <1>2, ThreadStep, Zenon
<1>6. backlog' \subseteq Conn
  BY <1>1, <1>2
<1>7. ProcessesInv' /\ Advances(c)
  BY <1>1, <1>2, <1>4, <1>6, ThreadMoves, Zenon
<1>8. AnnouncedInv' /\ \A d \in Conn : hello[d] # None => hello'[d] # None
  BY <1>2, <1>3, AnnouncedStays, Zenon
<1>9. CASE mark_evidence(c)
  <2>1. phase[c] = "marking" /\ mark_dynamic_evidence_revalidation_required
    BY <1>9 DEF mark_evidence
  <2>2. RegistryInv' /\ EvidenceKept /\ DOMAIN links' = DOMAIN links
    BY <1>2, <1>3, <2>1, RegistryMarked, Zenon
  <2> QED BY <1>1, <1>4, <1>5, <1>7, <1>8, <2>1, <2>2, Zenon DEF FleetInv, RegistryInv
<1>10. CASE ~mark_evidence(c)
  <2>1. UNCHANGED <<devices, links>>
    BY <1>1, <1>10 DEF accept, worker_gone, no_hello, send_reply_fails, connection_closed,
       unregister, vars
  <2>2. RegistryInv' /\ EvidenceKept /\ LinksStay
    BY <1>2, <1>8, <2>1, RegistryStays, Zenon
  <2>3. DOMAIN links' = DOMAIN links
    BY <2>1
  <2> QED BY <1>1, <1>4, <1>5, <1>7, <1>8, <2>1, <2>2, <2>3, Zenon DEF FleetInv, RegistryInv
<1> QED BY <1>9, <1>10

LEMMA ReplyToHelloStep ==
  ASSUME FleetInv, NEW c \in Conn, reply_to_hello(c)
  PROVE  /\ FleetInv' /\ EvidenceKept /\ LinksStay /\ Advances(c)
         /\ UNCHANGED <<devices, links, overlap, pc>>
         /\ \A d \in Conn : d # c => phase'[d] = phase[d]
         /\ phase'[c] \in registered_phases <=> phase[c] \in registered_phases
         /\ phase[c] \in {"accepted", "rejected"} /\ phase'[c] # "marking"
<1>1. /\ CoordInv /\ ProcessesInv /\ AnnouncedInv /\ RegistryInv
      /\ phase \in [Conn -> Phase]
  BY FleetFacts
<1>2. send_reply(c) /\ UNCHANGED <<overlap, pc>>
  BY DEF reply_to_hello
<1>3. /\ UNCHANGED <<devices, links, hello, epoch>>
      /\ \A d \in Conn : d # c => phase'[d] = phase[d]
      /\ phase'[c] \in registered_phases <=> phase[c] \in registered_phases
      /\ phase[c] \in {"accepted", "rejected"} /\ phase'[c] # "marking"
  BY <1>1, <1>2 DEF send_reply, goto, vars, stop_vars, registered_phases
<1>4. ProcessesInv' /\ Advances(c)
  BY <1>1, HelloReplyStep, Zenon
<1>5. CoordInv'
  BY <1>1, <1>2, ThreadStep, Zenon
<1>6. AnnouncedInv' /\ \A d \in Conn : hello[d] # None => hello'[d] # None
  BY <1>1, <1>3, AnnouncedStays, Zenon
<1>7. RegistryInv' /\ EvidenceKept /\ LinksStay
  BY <1>1, <1>3, <1>6, RegistryStays, Zenon
<1> QED BY <1>2, <1>3, <1>4, <1>5, <1>6, <1>7, Zenon DEF FleetInv, RegistryInv

\* A process whose HELLO has not been read waits for the reply to it.
LEMMA BeforeHello ==
  ASSUME ProcessesInv, NEW c \in Conn, phase[c] \notin Answered
  PROVE  pc[c] \notin Publishing /\ replies[c] = None
<1>1. LocalOK(c, pc[c], todo[c], wire[c], replies[c], phase[c])
  BY LocalFacts, Zenon
<1> QED BY <1>1 DEF LocalOK

LEMMA ReadHelloStep ==
  ASSUME FleetInv, NEW c \in Conn, read_hello(c)
  PROVE  /\ FleetInv' /\ EvidenceKept /\ LinksStay /\ Advances(c)
         /\ UNCHANGED <<devices, links, pc>>
         /\ phase[c] = "hello"
         /\ \A d \in Conn : d # c => phase'[d] = phase[d]
         /\ phase'[c] = IF boot_accepted(descriptor[c]) THEN "accepted" ELSE "rejected"
         /\ overlap' = IF boot_accepted(descriptor[c]) /\ registered # {}
                         THEN overlap \cup registered \cup {c} ELSE overlap
<1>1. /\ CoordInv /\ ProcessesInv /\ AnnouncedInv /\ RegistryInv
      /\ phase \in [Conn -> Phase] /\ hello \in [Conn -> Hellos \cup {None}]
  BY FleetFacts
<1>2. /\ wire[c] # << >> /\ receive_hello(c, descriptor[c]) /\ received(c)
      /\ overlap' = (IF boot_accepted(descriptor[c]) /\ registered # {}
                       THEN overlap \cup registered \cup {c} ELSE overlap)
      /\ UNCHANGED <<pc, todo, replies, backlog>>
  BY DEF read_hello
<1>3. descriptor[c] \in Hellos
  BY PublishedFrames
<1>4. /\ phase[c] = "hello" /\ UNCHANGED <<devices, links, epoch>>
      /\ hello' = [hello EXCEPT ![c] = IF descriptor[c].epoch = epoch THEN descriptor[c] ELSE None]
      /\ \A d \in Conn : d # c => phase'[d] = phase[d]
      /\ phase'[c] = IF boot_accepted(descriptor[c]) THEN "accepted" ELSE "rejected"
  BY <1>1, <1>2 DEF receive_hello, goto, vars, stop_vars
<1>5. CoordInv'
  BY <1>1, <1>2, <1>3, HelloStep, Zenon
<1>6. phase[c] \notin Answered
  BY <1>4 DEF Answered
<1>7. pc[c] \notin Publishing /\ replies[c] = None
  BY <1>1, <1>6, BeforeHello, Zenon
<1>8. overlap' \subseteq Conn
  BY <1>1, <1>2 DEF ProcessesInv, registered
<1>9. None \in {None, "READY", "GOODBYE", "ROUTE"}
  OBVIOUS
<1>10. /\ ProcessesInv'
       /\ pc[c] \notin Publishing \/ Head(wire[c]) \notin Evidence(c) => Advances(c)
  BY <1>1, <1>2, <1>4, <1>7, <1>8, <1>9, ReceiveStep, Zenon
<1>11. Advances(c)
  BY <1>7, <1>10
<1>12. AnnouncedInv' /\ \A d \in Conn : hello[d] # None => hello'[d] # None
  <2>1. descriptor[c] # None
    BY <1>3, CoordinatorAssumption
  <2>2. hello[c] # None => descriptor[c].epoch = epoch
    BY <1>1 DEF AnnouncedInv
  <2> QED BY <1>1, <1>4, <2>1, <2>2 DEF AnnouncedInv
<1>13. RegistryInv' /\ EvidenceKept /\ LinksStay
  BY <1>1, <1>4, <1>12, RegistryStays, Zenon
<1>14. FleetInv'
  BY <1>5, <1>10, <1>12, <1>13 DEF FleetInv, RegistryInv
<1> QED BY <1>2, <1>4, <1>11, <1>13, <1>14

\* A signal is read, and ROUTE is answered.
LEMMA ServeQueryStep ==
  ASSUME FleetInv, NEW c \in Conn, serve_query(c)
  PROVE  /\ FleetInv' /\ EvidenceKept /\ LinksStay /\ Advances(c)
         /\ UNCHANGED <<devices, links, phase, overlap>>
<1>1. /\ CoordInv /\ ProcessesInv /\ AnnouncedInv /\ RegistryInv
  BY FleetFacts
<1>2. /\ phase[c] = "serving" /\ wire[c] # << >> /\ received(c)
      /\ Head(wire[c]).type \in {"ROUTE", "READY", "HEARTBEAT"}
      /\ reply(c, "ROUTE") \/ UNCHANGED replies
      /\ UNCHANGED coordinator_vars /\ UNCHANGED <<pc, todo, backlog, overlap>>
  BY DEF serve_query
<1>3. CoordInv' /\ UNCHANGED <<devices, links, phase, hello, epoch>>
  BY <1>1, <1>2, CoordinatorStays, Zenon
<1>4. PICK r \in {None, "READY", "GOODBYE", "ROUTE"} :
        replies' = [replies EXCEPT ![c] = r] \/ (replies' = replies /\ r = replies[c])
  <2>1. replies[c] \in {None, "READY", "GOODBYE", "ROUTE"}
    BY <1>1 DEF ProcessesInv
  <2> QED BY <1>2, <2>1 DEF reply
<1>5. phase'[c] \in Answered /\ \A d \in Conn : d # c => phase'[d] = phase[d]
  BY <1>2, <1>3 DEF Answered
<1>6. overlap' \subseteq Conn
  BY <1>1, <1>2 DEF ProcessesInv
<1>7. /\ ProcessesInv'
      /\ Head(wire[c]) \notin Evidence(c) => Advances(c)
  BY <1>1, <1>2, <1>4, <1>5, <1>6, ReceiveStep, Zenon
<1>8. Head(wire[c]) \notin Evidence(c)
  <2>1. \A f \in Evidence(c) : f.type \in {"PUBLISH_DEVICE", "PUBLISH_LINK"}
    BY FrameFacts DEF Evidence
  <2> QED BY <1>2, <2>1
<1>9. AnnouncedInv' /\ \A d \in Conn : hello[d] # None => hello'[d] # None
  BY <1>1, <1>3, AnnouncedStays, Zenon
<1>10. RegistryInv' /\ EvidenceKept /\ LinksStay
  BY <1>1, <1>3, <1>9, RegistryStays, Zenon
<1> QED BY <1>2, <1>3, <1>7, <1>8, <1>9, <1>10, Zenon DEF FleetInv, RegistryInv

\* What the registry makes of a publication f of c.
Effect(c, f) ==
  \/ f = measurement_frame /\ UNCHANGED <<devices, links>>
  \/ /\ f \in {first_device(c), second_device(c)} /\ LinksStay
     /\ \/ f.id \in DOMAIN devices'
        \/ UNCHANGED devices /\ ~device_accepted(f.id, f.body)
  \/ /\ f = the_link(c) /\ UNCHANGED devices
     /\ \/ /\ link_of(c) \notin DOMAIN links
           /\ DOMAIN links' = DOMAIN links \cup {link_of(c)}
           /\ links'[link_of(c)].state = "UP"
           /\ \A l \in DOMAIN links : links'[l].state = links[l].state
        \/ UNCHANGED links /\ ~link_accepted(link_of(c), f.body)

\* A device, accepted or not.
LEMMA ServeDeviceStep ==
  ASSUME FleetInv, NEW c \in Conn, NEW f \in {first_device(c), second_device(c)},
         IF device_accepted(f.id, f.body) THEN publish_device(c, f.id, f.body)
                                          ELSE UNCHANGED coordinator_vars
  PROVE  /\ CoordInv' /\ RegistryInv' /\ EvidenceKept /\ Effect(c, f)
         /\ UNCHANGED <<phase, hello, epoch>>
<1>1. CoordInv /\ AnnouncedInv /\ RegistryInv
  BY FleetFacts
<1>2. PICK id \in DeviceId, b \in DeviceRecord : id = f.id /\ b = f.body
  BY FrameFacts, FleetAssumption
<1>3. \/ id = gpu0 /\ b.generation = base(c) + 1
      \/ id = gpu1 /\ b.generation = base(c) + 2
  BY <1>2, FrameFacts
<1>4. CASE device_accepted(id, b)
  <2>1. publish_device(c, id, b)
    BY <1>2, <1>4, Zenon
  <2>2. CoordInv'
    BY <1>1, <2>1, PublishDeviceStep, Zenon
  <2>3. RegistryInv' /\ EvidenceKept /\ LinksStay /\ id \in DOMAIN devices'
    BY <1>1, <1>3, <2>1, DeviceServed, Zenon
  <2>4. UNCHANGED <<phase, hello, epoch>>
    BY <2>1 DEF publish_device, conn_vars, stop_vars
  <2>5. Effect(c, f)
    BY <1>2, <2>3, Zenon DEF Effect
  <2> QED BY <2>2, <2>3, <2>4, <2>5
<1>5. CASE ~device_accepted(id, b)
  <2>1. UNCHANGED coordinator_vars
    BY <1>2, <1>5, Zenon
  <2>2. CoordInv' /\ UNCHANGED <<devices, links, phase, hello, epoch>>
    BY <1>1, <2>1, CoordinatorStays, Zenon
  <2>3. \A d \in Conn : hello[d] # None => hello'[d] # None
    BY <2>2
  <2>4. RegistryInv' /\ EvidenceKept /\ LinksStay
    BY <1>1, <2>2, <2>3, RegistryStays, Zenon
  <2>5. Effect(c, f)
    BY <1>2, <1>5, <2>2, <2>4, Zenon DEF Effect
  <2> QED BY <2>2, <2>4, <2>5
<1> QED BY <1>4, <1>5

\* The link, accepted or not.
LEMMA ServeLinkStep ==
  ASSUME FleetInv, NEW c \in Conn,
         IF link_accepted(the_link(c).id, the_link(c).body)
           THEN publish_link(c, the_link(c).id, the_link(c).body)
           ELSE UNCHANGED coordinator_vars
  PROVE  /\ CoordInv' /\ RegistryInv' /\ EvidenceKept /\ Effect(c, the_link(c))
         /\ UNCHANGED <<phase, hello, epoch>>
<1>1. CoordInv /\ RegistryInv
  BY FleetFacts
<1>2. PICK b \in LinkRecord : b = the_link(c).body
  BY FrameFacts
<1>3. /\ b.generation = link_of(c) /\ b.state = "UP" /\ the_link(c).id = link_of(c)
      /\ link_of(c) \in LinkId
  BY <1>2, FrameFacts, PublishedFrames
<1>4. CASE link_accepted(link_of(c), b)
  <2>1. publish_link(c, link_of(c), b)
    BY <1>2, <1>3, <1>4, Zenon
  <2>2. CoordInv'
    BY <1>1, <1>3, <2>1, PublishLinkStep, Zenon
  <2>3. /\ RegistryInv' /\ EvidenceKept /\ UNCHANGED devices
        /\ link_of(c) \notin DOMAIN links /\ DOMAIN links' = DOMAIN links \cup {link_of(c)}
        /\ links'[link_of(c)].state = b.state
        /\ \A l \in DOMAIN links : links'[l].state = links[l].state
    BY <1>1, <1>3, <2>1, LinkServed, Zenon
  <2>4. UNCHANGED <<phase, hello, epoch>>
    BY <2>1 DEF publish_link, conn_vars, stop_vars
  <2>5. Effect(c, the_link(c))
    BY <1>3, <2>3, Zenon DEF Effect
  <2> QED BY <2>2, <2>3, <2>4, <2>5
<1>5. CASE ~link_accepted(link_of(c), b)
  <2>1. UNCHANGED coordinator_vars
    BY <1>2, <1>3, <1>5, Zenon
  <2>2. CoordInv' /\ UNCHANGED <<devices, links, phase, hello, epoch>>
    BY <1>1, <2>1, CoordinatorStays, Zenon
  <2>3. \A d \in Conn : hello[d] # None => hello'[d] # None
    BY <2>2
  <2>4. RegistryInv' /\ EvidenceKept /\ LinksStay
    BY <1>1, <2>2, <2>3, RegistryStays, Zenon
  <2>5. Effect(c, the_link(c))
    BY <1>2, <1>5, <2>2, Zenon DEF Effect
  <2> QED BY <2>2, <2>4, <2>5
<1> QED BY <1>4, <1>5

LEMMA ServeMeasurementFrame ==
  ASSUME FleetInv, NEW c \in Conn, serve_measurement(c, measurement_frame.body)
  PROVE  /\ CoordInv' /\ RegistryInv' /\ EvidenceKept /\ Effect(c, measurement_frame)
         /\ UNCHANGED <<phase, hello, epoch>>
<1>1. CoordInv /\ RegistryInv
  BY FleetFacts
<1>2. PICK m \in MeasurementRecord : m = measurement_frame.body
  BY FrameFacts
<1>3. serve_measurement(c, m)
  BY <1>2, Zenon
<1>4. CoordInv'
  BY <1>1, <1>3, ServeMeasurementStep, Zenon
<1>5. UNCHANGED <<devices, links, phase, hello, epoch>>
  BY <1>3 DEF serve_measurement, publish_measurement, conn_vars, stop_vars
<1>6. \A d \in Conn : hello[d] # None => hello'[d] # None
  BY <1>5
<1>7. RegistryInv' /\ EvidenceKept
  BY <1>1, <1>5, <1>6, RegistryStays, Zenon
<1> QED BY <1>4, <1>5, <1>7, Zenon DEF Effect

\* The next frame is a publication, and is applied.
LEMMA ServePublicationStep ==
  ASSUME FleetInv, NEW c \in Conn, serve_publication(c)
  PROVE  /\ FleetInv' /\ EvidenceKept /\ UNCHANGED <<phase, overlap, pc, todo>>
         /\ phase[c] = "serving"
         /\ \A d \in Conn : d # c => wire'[d] = wire[d]
         /\ \A f : pending(c, f) <=> pending(c, f)' \/ f = Head(wire[c])
         /\ Head(wire[c]) = the_link(c) => \A f \in Evidence(c) : ~pending(c, f)'
         /\ Effect(c, Head(wire[c]))
<1>1. /\ CoordInv /\ ProcessesInv /\ AnnouncedInv /\ RegistryInv
  BY FleetFacts
<1>2. /\ phase[c] = "serving" /\ wire[c] # << >> /\ received(c)
      /\ apply_publication(c, Head(wire[c]))
      /\ UNCHANGED <<pc, todo, replies, backlog, overlap>>
  BY DEF serve_publication
<1>3. PICK f : f = Head(wire[c])
  OBVIOUS
<1>4. LocalOK(c, pc[c], todo[c], wire[c], replies[c], phase[c])
  BY <1>1, LocalFacts, Zenon
<1>5. f \in FramesOf(c)
  <2>1. wire[c] \in Seq(FramesOf(c))
    BY <1>4, Zenon DEF LocalOK
  <2> QED BY <1>2, <1>3, <2>1, TailFrames
<1>6. /\ f \in Signals => f.type \notin {"PUBLISH_DEVICE", "PUBLISH_LINK", "PUBLISH_MEASUREMENT"}
      /\ f = measurement_frame => f.type = "PUBLISH_MEASUREMENT"
      /\ f \in {first_device(c), second_device(c)} => f.type = "PUBLISH_DEVICE"
      /\ f = the_link(c) => f.type = "PUBLISH_LINK"
  BY FrameFacts
<1>7. /\ f \in Signals \/ f = measurement_frame \/ f \in {first_device(c), second_device(c)}
         \/ f = the_link(c)
  BY <1>5 DEF FramesOf, Evidence
<1>8. /\ CoordInv' /\ RegistryInv' /\ EvidenceKept /\ Effect(c, f)
      /\ UNCHANGED <<phase, hello, epoch>>
  <2>1. apply_publication(c, f)
    BY <1>2, <1>3
  <2>2. CASE f \in {first_device(c), second_device(c)}
    <3>1. IF device_accepted(f.id, f.body) THEN publish_device(c, f.id, f.body)
                                           ELSE UNCHANGED coordinator_vars
      BY <1>6, <2>1, <2>2 DEF apply_publication
    <3> QED BY <2>2, <3>1, ServeDeviceStep, Zenon
  <2>3. CASE f = the_link(c)
    <3>1. IF link_accepted(f.id, f.body) THEN publish_link(c, f.id, f.body)
                                         ELSE UNCHANGED coordinator_vars
      BY <1>6, <2>1, <2>3 DEF apply_publication
    <3> QED BY <2>3, <3>1, ServeLinkStep, Zenon
  <2>4. CASE f = measurement_frame
    <3>1. serve_measurement(c, f.body)
      BY <1>6, <2>1, <2>4 DEF apply_publication
    <3> QED BY <2>4, <3>1, ServeMeasurementFrame, Zenon
  <2>5. f \notin Signals
    BY <1>6, <2>1 DEF apply_publication
  <2> QED BY <1>7, <2>2, <2>3, <2>4, <2>5, Zenon
<1>9. PICK r \in {None, "READY", "GOODBYE", "ROUTE"} : r = replies[c]
  BY <1>1 DEF ProcessesInv
<1>10. phase'[c] \in Answered /\ \A d \in Conn : d # c => phase'[d] = phase[d]
  BY <1>2, <1>8 DEF Answered
<1>11. overlap' \subseteq Conn /\ replies' = replies
  BY <1>1, <1>2 DEF ProcessesInv
<1>12. /\ ProcessesInv' /\ \A d \in Conn : d # c => wire'[d] = wire[d]
       /\ \A g : pending(c, g) <=> pending(c, g)' \/ g = Head(wire[c])
       /\ Head(wire[c]) = the_link(c) => \A g \in Evidence(c) : ~pending(c, g)'
  BY <1>1, <1>2, <1>9, <1>10, <1>11, ReceiveStep, Zenon
<1>13. AnnouncedInv'
  BY <1>1, <1>8, AnnouncedStays, Zenon
<1>14. FleetInv'
  BY <1>8, <1>12, <1>13, Zenon DEF FleetInv, RegistryInv
<1> QED BY <1>2, <1>3, <1>8, <1>12, <1>14, Zenon

LEMMA StopFleetStep ==
  ASSUME FleetInv, begin_stop \/ finish_stop \/ UNCHANGED fleet_vars
  PROVE  /\ FleetInv' /\ EvidenceKept /\ LinksStay
         /\ UNCHANGED <<worker_vars, phase, devices, links, overlap>>
<1>1. /\ CoordInv /\ ProcessesInv /\ AnnouncedInv /\ RegistryInv
  BY FleetFacts
<1>2. /\ acceptor_exits \/ stop \/ UNCHANGED coordinator_vars
      /\ UNCHANGED <<worker_vars, backlog, overlap>>
  BY DEF begin_stop, finish_stop, stop, fleet_vars
<1>3. CoordInv' /\ UNCHANGED <<devices, links, phase, hello, epoch>>
  <2>1. CASE acceptor_exits \/ stop
    <3>1. UNCHANGED <<devices, links, phase, hello, epoch>>
      BY <2>1 DEF acceptor_exits, stop, stop_begins, stop_closes_listener, stop_returns,
         vars, conn_vars
    <3> QED BY <1>1, <2>1, <3>1, StopStep, Zenon
  <2>2. CASE UNCHANGED coordinator_vars
    BY <1>1, <2>2, CoordinatorStays, Zenon
  <2> QED BY <1>2, <2>1, <2>2
<1>4. ProcessesInv'
  BY <1>1, <1>2, <1>3, Zenon DEF ProcessesInv, worker_vars
<1>5. AnnouncedInv' /\ \A d \in Conn : hello[d] # None => hello'[d] # None
  BY <1>1, <1>3, AnnouncedStays, Zenon
<1>6. RegistryInv' /\ EvidenceKept /\ LinksStay
  BY <1>1, <1>3, <1>5, RegistryStays, Zenon
<1> QED BY <1>2, <1>3, <1>4, <1>5, <1>6, Zenon DEF FleetInv, RegistryInv

LEMMA FleetInitInv == FleetInit => FleetInv
<1> SUFFICES ASSUME FleetInit PROVE FleetInv
  OBVIOUS
<1>1. CoordInv
  BY CoordinatorInitInv DEF FleetInit
<1>2. /\ phase = [c \in Conn |-> "none"] /\ hello = [c \in Conn |-> None]
      /\ DOMAIN devices = {} /\ DOMAIN links = {}
  BY DEF FleetInit, CoordinatorInit, Init, empty_map
<1>3. AnnouncedInv /\ DevicesInv /\ LinksInv
  BY <1>2 DEF AnnouncedInv, DevicesInv, LinksInv
<1>4. /\ pc = [c \in Conn |-> "unspawned"] /\ todo = [c \in Conn |-> << >>]
      /\ wire = [c \in Conn |-> << >>] /\ replies = [c \in Conn |-> None]
      /\ backlog = {} /\ overlap = {}
  BY DEF FleetInit
<1>5. ASSUME NEW c \in Conn
      PROVE  LocalOK(c, "unspawned", << >>, << >>, None, "none")
  <2>1. /\ << >> \in Seq(FramesOf(c)) /\ Len(<< >>) = 0 /\ In(<< >>) = {} /\ LinkLast(c, << >>)
    BY EmptyQueue
  <2>2. Len(<< >>) <= socket_buffer
    BY <2>1, FleetAssumption
  <2>3. /\ "unspawned" \in ProgramCounter /\ "unspawned" \notin Publishing
        /\ "unspawned" \notin {"beating", "routing"} /\ "unspawned" # "publishing"
    BY DEF ProgramCounter, Publishing
  <2> QED BY <2>1, <2>2, <2>3 DEF LocalOK
<1>6. \A c \in Conn : /\ pc[c] = "unspawned" /\ todo[c] = << >> /\ wire[c] = << >>
                      /\ replies[c] = None /\ phase[c] = "none"
  BY <1>2, <1>4
<1>7. \A c \in Conn : LocalOK(c, pc[c], todo[c], wire[c], replies[c], phase[c])
  BY <1>5, <1>6, Zenon
<1>8. ProcessesInv
  BY <1>4, <1>7 DEF ProcessesInv, ProgramCounter
<1> QED BY <1>1, <1>3, <1>8 DEF FleetInv

LEMMA FleetNextInv ==
  ASSUME FleetInv, [FleetNext]_fleet_vars
  PROVE  FleetInv' /\ EvidenceKept
<1>1. ASSUME NEW c \in Conn, process_step(c) PROVE FleetInv' /\ EvidenceKept
  BY <1>1, ProcessStep, Zenon
<1>2. ASSUME NEW c \in Conn, quiet_thread_step(c) PROVE FleetInv' /\ EvidenceKept
  BY <1>2, QuietThreadStep, Zenon
<1>3. ASSUME NEW c \in Conn, reply_to_hello(c) PROVE FleetInv' /\ EvidenceKept
  BY <1>3, ReplyToHelloStep, Zenon
<1>4. ASSUME NEW c \in Conn, read_hello(c) PROVE FleetInv' /\ EvidenceKept
  BY <1>4, ReadHelloStep, Zenon
<1>5. ASSUME NEW c \in Conn, serve_query(c) PROVE FleetInv' /\ EvidenceKept
  BY <1>5, ServeQueryStep, Zenon
<1>6. ASSUME NEW c \in Conn, serve_publication(c) PROVE FleetInv' /\ EvidenceKept
  BY <1>6, ServePublicationStep, Zenon
<1>7. CASE begin_stop \/ finish_stop \/ UNCHANGED fleet_vars
  BY <1>7, StopFleetStep, Zenon
<1> QED BY <1>1, <1>2, <1>3, <1>4, <1>5, <1>6, <1>7, Zenon
        DEF FleetNext, process_step, quiet_thread_step, thread, transport

-----------------------------------------------------------------------------
(* The theorems *)

\* main() of nvlink_worker, the transport and the coordinator's threads keep the
\* types of the processes' state; in particular no more frames are under way than
\* the transport holds.
THEOREM FleetTypeCorrect == FleetSpec => []FleetTypeOK
<1>1. FleetInv => FleetTypeOK
  BY DEF FleetInv, ProcessesInv, LocalOK, FleetTypeOK
<1>2. FleetInv /\ [FleetNext]_fleet_vars => FleetInv'
  BY FleetNextInv
<1> QED BY <1>1, <1>2, FleetInitInv, PTL DEF FleetSpec

\* Numbers seeded from the boot keep incarnations apart: whatever the threads of
\* older and newer boots still serve, a device never passes back to an older boot,
\* and a link is never replaced by another incarnation's.
THEOREM EvidenceOrdered == FleetSpec => EvidenceNeverRegresses
<1>1. FleetInv /\ [FleetNext]_fleet_vars =>
        [/\ \A d \in DOMAIN devices : devices'[d].owner_boot >= devices[d].owner_boot
         /\ \A l \in DOMAIN links : links'[l].generation = links[l].generation]_fleet_vars
  BY FleetNextInv DEF EvidenceKept
<1>2. FleetInv /\ [FleetNext]_fleet_vars => FleetInv'
  BY FleetNextInv
<1> QED BY <1>1, <1>2, FleetInitInv, PTL DEF FleetSpec, EvidenceNeverRegresses

-----------------------------------------------------------------------------
(* A worker that was never registered with another *)

\* Whatever the steps of one connection are, unless they publish or admit.
LEMMA LoneMoves ==
  ASSUME FleetInv, LoneInv, NEW c \in Conn, Advances(c), EvidenceKept, UNCHANGED overlap,
         DOMAIN links' = DOMAIN links, LinksStay \/ phase[c] = "marking",
         \A d \in Conn : d # c => phase'[d] = phase[d],
         phase'[c] \in registered_phases => phase[c] \in registered_phases,
         phase'[c] = "serving" => phase[c] = "serving" \/ pc'[c] \notin Publishing
  PROVE  LoneInv'
<1>1. registered' \subseteq registered
  BY DEF registered, registered_phases
<1>2. DistinctInv'
  BY <1>1 DEF LoneInv, DistinctInv
<1>3. AloneInv'
  BY <1>1 DEF LoneInv, AloneInv
<1>4. ASSUME NEW x \in Conn, x # c
      PROVE  pc'[x] = pc[x] /\ \A f : pending(x, f)' <=> pending(x, f)
  <2>1. pc'[x] = pc[x] /\ todo'[x] = todo[x] /\ wire'[x] = wire[x]
    BY <1>4, Zenon DEF Advances
  <2> QED BY <2>1, Zenon DEF pending
<1>5. FreshLinkInv'
  <2> SUFFICES ASSUME NEW x \in registered', link_of(x) \in DOMAIN links'
               PROVE  pc'[x] \notin Early /\ ~pending(x, the_link(x))'
    BY DEF FreshLinkInv, link_of, the_link
  <2>1. x \in registered /\ x \in Conn
    BY <1>1 DEF registered
  <2>2. pc[x] \notin Early /\ ~pending(x, the_link(x))
    BY <2>1, Zenon DEF LoneInv, FreshLinkInv
  <2>3. CASE x # c
    BY <1>4, <2>1, <2>2, <2>3, Zenon
  <2>4. CASE x = c
    <3>1. the_link(c) \in Evidence(c)
      BY DEF Evidence
    <3> QED BY <2>2, <2>4, <3>1, Zenon DEF Advances
  <2> QED BY <2>3, <2>4
<1>6. ASSUME NEW x \in Conn \ overlap, phase'[x] = "serving", pc'[x] \in Publishing
      PROVE  /\ pending(x, first_device(x))' \/ gpu0 \in DOMAIN devices'
             /\ pending(x, second_device(x))' \/ gpu1 \in DOMAIN devices'
             /\ pending(x, the_link(x))' \/ usable_link_of(x)'
  <2>1. \/ \A f \in Evidence(x) : pending(x, f)'
        \/ /\ phase[x] = "serving" /\ pc[x] \in Publishing
           /\ \A f \in Evidence(x) : pending(x, f) => pending(x, f)'
    <3>1. CASE x # c
      BY <1>4, <1>6, <3>1, Zenon
    <3>2. CASE x = c
      BY <1>6, <3>2, Zenon DEF Advances
    <3> QED BY <3>1, <3>2
  <2>2. {first_device(x), second_device(x), the_link(x)} = Evidence(x)
    BY DEF Evidence
  <2>3. CASE \A f \in Evidence(x) : pending(x, f)'
    BY <2>2, <2>3
  <2>4. CASE /\ phase[x] = "serving" /\ pc[x] \in Publishing
             /\ \A f \in Evidence(x) : pending(x, f) => pending(x, f)'
    <3>1. /\ pending(x, first_device(x)) \/ gpu0 \in DOMAIN devices
          /\ pending(x, second_device(x)) \/ gpu1 \in DOMAIN devices
          /\ pending(x, the_link(x)) \/ usable_link_of(x)
      BY <1>6, <2>4, Zenon DEF LoneInv, ServedInv
    <3>2. \A d \in DOMAIN devices : d \in DOMAIN devices'
      BY DEF EvidenceKept
    <3>3. LinksStay
      <4>1. ASSUME phase[c] = "marking" PROVE FALSE
        <5>1. c \in registered /\ x \in registered \ overlap
          BY <1>6, <2>4, <4>1 DEF registered
        <5>2. registered = {x}
          BY <5>1, Zenon DEF LoneInv, AloneInv
        <5> QED BY <2>4, <4>1, <5>1, <5>2
      <4> QED BY <4>1
    <3>4. usable_link_of(x) => usable_link_of(x)'
      BY <3>3 DEF LinksStay, usable_link_of, link_of
    <3> QED BY <2>2, <2>4, <3>1, <3>2, <3>4
  <2> QED BY <2>1, <2>3, <2>4
<1>7. ServedInv'
  BY <1>6, Zenon DEF ServedInv, first_device, second_device, the_link
<1> QED BY <1>2, <1>3, <1>5, <1>7 DEF LoneInv

\* Links are named after boots: two connections with the same link have the same
\* boot.
LEMMA SameLinkSameBoot ==
  ASSUME NEW c \in Conn, NEW d \in Conn, link_of(c) = link_of(d)
  PROVE  descriptor[c].boot = descriptor[d].boot
<1>1. PICK m \in Nat, n \in Nat : m = descriptor[c].boot /\ n = descriptor[d].boot
  BY PublishedFrames
<1>2. seeded(m, 1) = seeded(n, 1)
  BY <1>1, PublishedFrames
<1>3. m = n
  BY <1>2, SMT DEF seeded
<1> QED BY <1>1, <1>3

\* The registry's bounds leave room for the evidence of every process that is
\* ever spawned.
RoomForAll ==
  /\ max_devices >= 2
  /\ max_links >= Cardinality(Conn) /\ max_parallel_links_per_pair >= Cardinality(Conn)

\* No two workers use the same boot number.
BootsNameWorkers ==
  \A c \in Conn, d \in Conn :
    descriptor[c].boot = descriptor[d].boot => descriptor[c].worker = descriptor[d].worker

\* A boot that is accepted is not one that has been announced before.
LEMMA AcceptedBootIsNew ==
  ASSUME FleetInv, NEW c \in Conn, boot_accepted(descriptor[c]),
         NEW d \in Conn, hello[d] # None, descriptor[c].worker = descriptor[d].worker
  PROVE  descriptor[c].boot # descriptor[d].boot
<1>1. hello[d] = descriptor[d] /\ hello[d].epoch = epoch
  BY DEF FleetInv, AnnouncedInv
<1>2. /\ descriptor[d].worker \in DOMAIN last_boot
      /\ descriptor[d].boot <= last_boot[descriptor[d].worker]
  BY <1>1 DEF FleetInv, CoordInv, BootInv
<1>3. PICK w0 : w0 = descriptor[d].worker
  OBVIOUS
<1>4. PICK m \in Nat, n \in Nat, k \in Nat :
        m = descriptor[c].boot /\ n = descriptor[d].boot /\ k = last_boot[w0]
  <2>1. last_boot[w0] \in Nat
    BY <1>2, <1>3 DEF FleetInv, CoordInv, CoordinatorTypeOK, IsMap
  <2> QED BY <2>1, PublishedFrames
<1>5. m > k /\ n <= k
  BY <1>2, <1>3, <1>4 DEF boot_accepted
<1> QED BY <1>4, <1>5

\* HELLO: an accepted worker's link is not there yet, and one that is accepted
\* next to another makes both overlap.
LEMMA LoneHello ==
  ASSUME FleetInv, LoneInv, BootsNameWorkers, NEW c \in Conn, read_hello(c)
  PROVE  LoneInv'
<1>1. /\ FleetInv' /\ EvidenceKept /\ LinksStay /\ Advances(c)
      /\ UNCHANGED <<devices, links, pc>> /\ phase[c] = "hello"
      /\ \A d \in Conn : d # c => phase'[d] = phase[d]
      /\ phase'[c] = IF boot_accepted(descriptor[c]) THEN "accepted" ELSE "rejected"
      /\ overlap' = IF boot_accepted(descriptor[c]) /\ registered # {}
                      THEN overlap \cup registered \cup {c} ELSE overlap
  BY ReadHelloStep
<1>2. CASE ~boot_accepted(descriptor[c])
  <2>1. phase'[c] = "rejected" /\ UNCHANGED overlap
    BY <1>1, <1>2
  <2>2. phase'[c] \notin registered_phases /\ phase'[c] # "serving"
    BY <2>1 DEF registered_phases
  <2>3. DOMAIN links' = DOMAIN links
    BY <1>1
  <2> QED BY <1>1, <2>1, <2>2, <2>3, LoneMoves, Zenon
<1>3. CASE boot_accepted(descriptor[c])
  <2>1. /\ phase'[c] = "accepted"
        /\ overlap' = IF registered # {} THEN overlap \cup registered \cup {c} ELSE overlap
    BY <1>1, <1>3
  <2>2. registered' = registered \cup {c} /\ registered \subseteq Conn
    BY <1>1, <2>1 DEF registered
  <2>3. \A d \in registered : hello[d] # None
    BY DEF FleetInv, CoordInv, AdmittedInv, registered, registered_phases
  <2>4. \A d \in registered : descriptor[c].worker = descriptor[d].worker =>
          descriptor[c].boot # descriptor[d].boot
    BY <1>3, <2>2, <2>3, AcceptedBootIsNew
  <2>5. DistinctInv'
    BY <2>2, <2>4 DEF LoneInv, DistinctInv
  <2>6. AloneInv'
    BY <2>1, <2>2 DEF AloneInv
  <2>7. link_of(c) \notin DOMAIN links
    <3> SUFFICES ASSUME link_of(c) \in DOMAIN links PROVE FALSE
      OBVIOUS
    <3>1. PICK e \in Conn : link_of(c) = link_of(e) /\ hello[e] # None
      BY DEF FleetInv, LinksInv
    <3>2. descriptor[c].boot = descriptor[e].boot
      BY <3>1, SameLinkSameBoot
    <3>3. descriptor[c].worker = descriptor[e].worker
      BY <3>2 DEF BootsNameWorkers
    <3> QED BY <1>3, <3>1, <3>2, <3>3, AcceptedBootIsNew
  <2>8. ASSUME NEW x \in Conn, x # c
        PROVE  pc'[x] = pc[x] /\ phase'[x] = phase[x] /\ \A f : pending(x, f)' <=> pending(x, f)
    <3>1. pc'[x] = pc[x] /\ todo'[x] = todo[x] /\ wire'[x] = wire[x]
      BY <1>1, <2>8, Zenon DEF Advances
    <3> QED BY <1>1, <2>8, <3>1, Zenon DEF pending
  <2>9. FreshLinkInv'
    <3> SUFFICES ASSUME NEW x \in registered', link_of(x) \in DOMAIN links'
                 PROVE  pc'[x] \notin Early /\ ~pending(x, the_link(x))'
      BY DEF FreshLinkInv, link_of, the_link
    <3>1. x # c /\ x \in registered /\ x \in Conn /\ link_of(x) \in DOMAIN links
      BY <1>1, <2>2, <2>7
    <3>2. pc[x] \notin Early /\ ~pending(x, the_link(x))
      BY <3>1, Zenon DEF LoneInv, FreshLinkInv
    <3> QED BY <2>8, <3>1, <3>2, Zenon
  <2>10. ASSUME NEW x \in Conn \ overlap', phase'[x] = "serving", pc'[x] \in Publishing
         PROVE  /\ pending(x, first_device(x))' \/ gpu0 \in DOMAIN devices'
                /\ pending(x, second_device(x))' \/ gpu1 \in DOMAIN devices'
                /\ pending(x, the_link(x))' \/ usable_link_of(x)'
    <3>1. x # c /\ x \in Conn \ overlap
      BY <2>1, <2>10
    <3>2. phase[x] = "serving" /\ pc[x] \in Publishing
      BY <2>8, <2>10, <3>1
    <3>3. /\ pending(x, first_device(x)) \/ gpu0 \in DOMAIN devices
          /\ pending(x, second_device(x)) \/ gpu1 \in DOMAIN devices
          /\ pending(x, the_link(x)) \/ usable_link_of(x)
      BY <3>1, <3>2, Zenon DEF LoneInv, ServedInv
    <3>4. usable_link_of(x) => usable_link_of(x)'
      BY <1>1 DEF usable_link_of, link_of
    <3> QED BY <1>1, <2>8, <3>1, <3>3, <3>4, Zenon
  <2>11. ServedInv'
    BY <2>10, Zenon DEF ServedInv, first_device, second_device, the_link
  <2> QED BY <2>5, <2>6, <2>9, <2>11 DEF LoneInv
<1> QED BY <1>2, <1>3

\* A device that was served is there: the two devices fit.
LEMMA DeviceFits ==
  ASSUME FleetInv, RoomForAll, NEW c \in Conn, NEW f \in {first_device(c), second_device(c)},
         Effect(c, f)
  PROVE  f.id \in DOMAIN devices'
<1>1. f # measurement_frame /\ f # the_link(c)
  <2>1. /\ f.type = "PUBLISH_DEVICE" /\ measurement_frame.type = "PUBLISH_MEASUREMENT"
        /\ the_link(c).type = "PUBLISH_LINK"
    BY FrameFacts
  <2> QED BY <2>1
<1>2. SUFFICES ASSUME UNCHANGED devices, ~device_accepted(f.id, f.body), f.id \notin DOMAIN devices
               PROVE  FALSE
  BY <1>1 DEF Effect
<1>3. PICK id \in {gpu0, gpu1}, g \in Nat : id = f.id /\ g = f.body.generation /\ g # 0
  <2>1. base(c) \in Nat
    BY PublishedFrames
  <2>2. \/ f.id = gpu0 /\ f.body.generation = base(c) + 1
        \/ f.id = gpu1 /\ f.body.generation = base(c) + 2
    BY FrameFacts
  <2> QED BY <2>1, <2>2
<1>4. id # None
  BY <1>3, FleetAssumption, IdentityAssumption
<1>5. ~(Cardinality(DOMAIN devices) < max_devices)
  BY <1>2, <1>3, <1>4 DEF device_accepted
<1>6. \E other : DOMAIN devices \subseteq {other}
  <2>1. DOMAIN devices \subseteq {gpu0, gpu1}
    BY DEF FleetInv, DevicesInv
  <2>2. CASE id = gpu0
    BY <1>2, <1>3, <2>1, <2>2
  <2>3. CASE id = gpu1
    BY <1>2, <1>3, <2>1, <2>3
  <2> QED BY <1>3, <2>2, <2>3
<1>7. PICK other : DOMAIN devices \subseteq {other}
  BY <1>6
<1>8. IsFiniteSet({other}) /\ Cardinality({other}) = 1
  BY FS_Singleton
<1>9. Cardinality(DOMAIN devices) \in Nat /\ Cardinality(DOMAIN devices) <= 1
  BY <1>7, <1>8, FS_Subset, FS_CardinalityType
<1> QED BY <1>5, <1>9, LimitsAssumption DEF RoomForAll

\* There are fewer links than processes while some process's link is missing.
LEMMA LinkCount ==
  ASSUME FleetInv, NEW c \in Conn, link_of(c) \notin DOMAIN links
  PROVE  /\ IsFiniteSet(DOMAIN links) /\ Cardinality(DOMAIN links) \in Nat
         /\ Cardinality(Conn) \in Nat /\ Cardinality(DOMAIN links) < Cardinality(Conn)
<1> DEFINE L == {link_of(e) : e \in Conn}
           name == [e \in Conn |-> link_of(e)]
<1>1. IsFiniteSet(Conn) /\ Cardinality(Conn) \in Nat
  BY CoordinatorAssumption, FS_CardinalityType
<1>2. name \in Surjection(Conn, L)
  BY DEF Surjection
<1>3. DOMAIN links \subseteq L \ {link_of(c)}
  BY DEF FleetInv, LinksInv
<1>4. link_of(c) \in L
  OBVIOUS
<1> HIDE DEF L, name
<1>5. IsFiniteSet(L) /\ Cardinality(L) <= Cardinality(Conn)
  BY <1>1, <1>2, FS_Surjection
<1>6. IsFiniteSet(L \ {link_of(c)}) /\ Cardinality(L \ {link_of(c)}) = Cardinality(L) - 1
  BY <1>4, <1>5, FS_RemoveElement
<1>7. /\ IsFiniteSet(DOMAIN links)
      /\ Cardinality(DOMAIN links) <= Cardinality(L \ {link_of(c)})
  BY <1>3, <1>6, FS_Subset
<1>8. Cardinality(DOMAIN links) \in Nat /\ Cardinality(L) \in Nat
  BY <1>5, <1>7, FS_CardinalityType
<1>9. PICK m \in Nat, n \in Nat, k \in Nat :
        m = Cardinality(DOMAIN links) /\ n = Cardinality(L) /\ k = Cardinality(Conn)
  BY <1>1, <1>8
<1>10. m <= n - 1 /\ n <= k
  BY <1>5, <1>6, <1>7, <1>9, Zenon
<1>11. m < k
  BY <1>10
<1> QED BY <1>7, <1>9, <1>11

\* A link that was served is up: it is new, its devices are there, and it fits.
LEMMA LinkFits ==
  ASSUME FleetInv, RoomForAll, NEW c \in Conn, Effect(c, the_link(c)),
         link_of(c) \notin DOMAIN links, gpu0 \in DOMAIN devices, gpu1 \in DOMAIN devices
  PROVE  usable_link_of(c)'
<1>1. PICK r : r = the_link(c).body
  OBVIOUS
<1>2. /\ r.generation = link_of(c) /\ r.source = gpu0 /\ r.target = gpu1
      /\ link_of(c) \in LinkId /\ link_of(c) = base(c) + 1 /\ base(c) \in Nat /\ gpu0 # gpu1
  BY <1>1, FrameFacts, PublishedFrames
<1>3. link_of(c) # None /\ r.generation # 0
  <2>1. link_of(c) # None
    BY <1>2, IdentityAssumption
  <2>2. base(c) + 1 # 0
    BY <1>2
  <2> QED BY <1>2, <2>1, <2>2
<1>4. /\ IsFiniteSet(DOMAIN links) /\ Cardinality(DOMAIN links) \in Nat
      /\ Cardinality(Conn) \in Nat /\ Cardinality(DOMAIN links) < Cardinality(Conn)
  BY LinkCount
<1>5. parallel(r) \in Nat /\ parallel(r) <= Cardinality(DOMAIN links)
  <2>1. {l \in DOMAIN links : same_unordered(links[l], r)} \subseteq DOMAIN links
    OBVIOUS
  <2> QED BY <1>4, <2>1, FS_Subset, FS_CardinalityType DEF parallel
<1>6. /\ Cardinality(DOMAIN links) < max_links
      /\ parallel(r) < max_parallel_links_per_pair
  BY <1>4, <1>5, LimitsAssumption DEF RoomForAll
<1>7. link_accepted(link_of(c), r)
  BY <1>2, <1>3, <1>6 DEF link_accepted
<1>8. the_link(c) # measurement_frame /\ the_link(c) \notin {first_device(c), second_device(c)}
  <2>1. /\ first_device(c).type = "PUBLISH_DEVICE" /\ second_device(c).type = "PUBLISH_DEVICE"
        /\ measurement_frame.type = "PUBLISH_MEASUREMENT" /\ the_link(c).type = "PUBLISH_LINK"
    BY FrameFacts
  <2> QED BY <2>1
<1>9. DOMAIN links' = DOMAIN links \cup {link_of(c)} /\ links'[link_of(c)].state = "UP"
  BY <1>1, <1>7, <1>8, Zenon DEF Effect
<1> QED BY <1>9 DEF usable_link_of, link_of

\* A publication of a lone worker takes effect.
LEMMA LonePublication ==
  ASSUME FleetInv, LoneInv, RoomForAll, BootsNameWorkers, NEW c \in Conn, serve_publication(c)
  PROVE  LoneInv'
<1>1. PICK f : f = Head(wire[c])
  OBVIOUS
<1>2. /\ FleetInv' /\ EvidenceKept /\ UNCHANGED <<phase, overlap, pc, todo>>
      /\ phase[c] = "serving"
      /\ \A d \in Conn : d # c => wire'[d] = wire[d]
      /\ \A g : pending(c, g) <=> pending(c, g)' \/ g = f
      /\ f = the_link(c) => \A g \in Evidence(c) : ~pending(c, g)'
      /\ Effect(c, f)
  BY <1>1, ServePublicationStep, Zenon
<1>3. registered' = registered /\ c \in registered /\ registered \subseteq Conn
  BY <1>2 DEF registered
<1>4. DistinctInv' /\ AloneInv'
  BY <1>2, <1>3, Zenon DEF LoneInv, DistinctInv, AloneInv
<1>5. ASSUME NEW x \in Conn, NEW g, pending(x, g)'
      PROVE  pending(x, g)
  <2>1. CASE x # c
    <3>1. wire'[x] = wire[x] /\ todo'[x] = todo[x]
      BY <1>2, <2>1
    <3> QED BY <1>5, <3>1, Zenon DEF pending
  <2>2. CASE x = c
    BY <1>2, <1>5, <2>2, Zenon
  <2> QED BY <2>1, <2>2
<1>6. f = the_link(c) => pc[c] \notin Early
  <2>1. LocalOK(c, pc[c], todo[c], wire[c], replies[c], phase[c])
    BY LocalFacts, FleetFacts, Zenon
  <2>2. wire[c] \in Seq(FramesOf(c)) /\ (pc[c] \in Early => In(wire[c]) \cap Evidence(c) = {})
    BY <2>1, Zenon DEF LocalOK
  <2>3. wire[c] # << >>
    BY DEF serve_publication
  <2>4. f \in In(wire[c])
    <3>1. In(wire[c]) = {Head(wire[c])} \cup In(Tail(wire[c]))
      BY <2>2, <2>3, TailFrames, Zenon
    <3> QED BY <1>1, <3>1
  <2>5. the_link(c) \in Evidence(c)
    BY DEF Evidence
  <2> QED BY <2>2, <2>4, <2>5
<1>7. DOMAIN links' \subseteq DOMAIN links \cup {link_of(c)}
      /\ (DOMAIN links' = DOMAIN links \/ f = the_link(c))
      /\ \A l \in DOMAIN links : l \in DOMAIN links' /\ links'[l].state = links[l].state
  BY <1>2 DEF Effect, LinksStay
<1>8. FreshLinkInv'
  <2> SUFFICES ASSUME NEW x \in registered', link_of(x) \in DOMAIN links'
               PROVE  pc'[x] \notin Early /\ ~pending(x, the_link(x))'
    BY DEF FreshLinkInv, link_of, the_link
  <2>1. x \in registered /\ x \in Conn /\ pc'[x] = pc[x]
    BY <1>2, <1>3
  <2>2. CASE link_of(x) \in DOMAIN links
    <3>1. pc[x] \notin Early /\ ~pending(x, the_link(x))
      BY <2>1, <2>2, Zenon DEF LoneInv, FreshLinkInv
    <3> QED BY <1>5, <2>1, <3>1, Zenon
  <2>3. CASE link_of(x) \notin DOMAIN links
    <3>1. f = the_link(c) /\ link_of(x) = link_of(c)
      BY <1>7, <2>3
    <3>2. descriptor[x].boot = descriptor[c].boot
      BY <2>1, <3>1, SameLinkSameBoot
    <3>3. x = c
      BY <1>3, <2>1, <3>2, Zenon DEF BootsNameWorkers, LoneInv, DistinctInv
    <3>4. the_link(c) \in Evidence(c)
      BY DEF Evidence
    <3> QED BY <1>2, <1>6, <2>1, <3>1, <3>3, <3>4, Zenon
  <2> QED BY <2>2, <2>3
<1>9. ASSUME NEW x \in Conn \ overlap', phase'[x] = "serving", pc'[x] \in Publishing
      PROVE  /\ pending(x, first_device(x))' \/ gpu0 \in DOMAIN devices'
             /\ pending(x, second_device(x))' \/ gpu1 \in DOMAIN devices'
             /\ pending(x, the_link(x))' \/ usable_link_of(x)'
  <2>1. x \in Conn \ overlap /\ phase[x] = "serving" /\ pc[x] \in Publishing
    BY <1>2, <1>9
  <2>2. x = c
    <3>1. x \in registered \ overlap
      BY <2>1 DEF registered
    <3>2. registered = {x}
      BY <3>1, Zenon DEF LoneInv, AloneInv
    <3> QED BY <1>3, <3>2
  <2>3. /\ pending(c, first_device(c)) \/ gpu0 \in DOMAIN devices
        /\ pending(c, second_device(c)) \/ gpu1 \in DOMAIN devices
        /\ pending(c, the_link(c)) \/ usable_link_of(c)
    BY <2>1, <2>2, Zenon DEF LoneInv, ServedInv
  <2>4. \A d \in DOMAIN devices : d \in DOMAIN devices'
    BY <1>2 DEF EvidenceKept
  <2>5. /\ f = first_device(c) => gpu0 \in DOMAIN devices'
        /\ f = second_device(c) => gpu1 \in DOMAIN devices'
    <3>1. first_device(c).id = gpu0 /\ second_device(c).id = gpu1
      BY FrameFacts
    <3>2. f \in {first_device(c), second_device(c)} => f.id \in DOMAIN devices'
      BY <1>2, DeviceFits
    <3> QED BY <3>1, <3>2
  <2>6. usable_link_of(c) => usable_link_of(c)'
    BY <1>7 DEF usable_link_of, link_of
  <2>7. f = the_link(c) => usable_link_of(c)'
    <3> SUFFICES ASSUME f = the_link(c) PROVE usable_link_of(c)'
      OBVIOUS
    <3>1. /\ ~pending(c, first_device(c))' /\ ~pending(c, second_device(c))'
          /\ pending(c, the_link(c))
      BY <1>2 DEF Evidence
    <3>2. f # first_device(c) /\ f # second_device(c)
      <4>1. /\ first_device(c).type = "PUBLISH_DEVICE" /\ second_device(c).type = "PUBLISH_DEVICE"
            /\ the_link(c).type = "PUBLISH_LINK"
        BY FrameFacts
      <4> QED BY <4>1
    <3>3. ~pending(c, first_device(c)) /\ ~pending(c, second_device(c))
      BY <1>2, <3>1, <3>2, Zenon
    <3>4. gpu0 \in DOMAIN devices /\ gpu1 \in DOMAIN devices
      BY <2>3, <3>3
    <3>5. link_of(c) \notin DOMAIN links
      BY <1>3, <3>1, Zenon DEF LoneInv, FreshLinkInv
    <3> QED BY <1>2, <3>4, <3>5, LinkFits, Zenon
  <2> QED BY <1>2, <2>2, <2>3, <2>4, <2>5, <2>6, <2>7, Zenon
<1>10. ServedInv'
  BY <1>9, Zenon DEF ServedInv, first_device, second_device, the_link
<1> QED BY <1>4, <1>8, <1>10 DEF LoneInv

LEMMA LoneInitInv == FleetInit => LoneInv
<1> SUFFICES ASSUME FleetInit PROVE LoneInv
  OBVIOUS
<1>1. \A c \in Conn : phase[c] = "none"
  BY DEF FleetInit, CoordinatorInit
<1>2. registered = {}
  BY <1>1 DEF registered
<1> QED BY <1>1, <1>2 DEF LoneInv, DistinctInv, AloneInv, FreshLinkInv, ServedInv

LEMMA LoneNextInv ==
  ASSUME FleetInv, LoneInv, RoomForAll, BootsNameWorkers, [FleetNext]_fleet_vars
  PROVE  LoneInv'
<1>1. ASSUME NEW c \in Conn, process_step(c) PROVE LoneInv'
  <2>1. /\ EvidenceKept /\ LinksStay /\ Advances(c) /\ UNCHANGED <<phase, devices, links, overlap>>
    BY <1>1, ProcessStep, Zenon
  <2> QED BY <2>1, LoneMoves, Zenon
<1>2. ASSUME NEW c \in Conn, quiet_thread_step(c) PROVE LoneInv'
  BY <1>2, QuietThreadStep, LoneMoves, Zenon
<1>3. ASSUME NEW c \in Conn, reply_to_hello(c) PROVE LoneInv'
  <2>1. /\ EvidenceKept /\ LinksStay /\ Advances(c) /\ UNCHANGED <<devices, links, overlap, pc>>
        /\ \A d \in Conn : d # c => phase'[d] = phase[d]
        /\ phase'[c] \in registered_phases <=> phase[c] \in registered_phases
        /\ phase[c] \in {"accepted", "rejected"}
    BY <1>3, ReplyToHelloStep, Zenon
  <2>2. phase[c] \notin Answered
    BY <2>1 DEF Answered
  <2>3. pc[c] \notin Publishing
    BY <2>2, BeforeHello, FleetFacts, Zenon
  <2> QED BY <2>1, <2>3, LoneMoves, Zenon
<1>4. ASSUME NEW c \in Conn, read_hello(c) PROVE LoneInv'
  BY <1>4, LoneHello, Zenon
<1>5. ASSUME NEW c \in Conn, serve_query(c) PROVE LoneInv'
  <2>1. /\ EvidenceKept /\ LinksStay /\ Advances(c) /\ UNCHANGED <<phase, devices, links, overlap>>
    BY <1>5, ServeQueryStep, Zenon
  <2> QED BY <2>1, LoneMoves, Zenon
<1>6. ASSUME NEW c \in Conn, serve_publication(c) PROVE LoneInv'
  BY <1>6, LonePublication, Zenon
<1>7. CASE begin_stop \/ finish_stop \/ UNCHANGED fleet_vars
  <2>1. UNCHANGED <<worker_vars, phase, devices, links, overlap>>
    BY <1>7, StopFleetStep, Zenon
  <2>2. UNCHANGED <<pc, todo, wire>> /\ registered' = registered
    BY <2>1 DEF worker_vars, registered
  <2> QED BY <2>1, <2>2 DEF LoneInv, DistinctInv, AloneInv, FreshLinkInv, ServedInv, pending,
          usable_link_of, link_of, the_link, first_device, second_device
<1> QED BY <1>1, <1>2, <1>3, <1>4, <1>5, <1>6, <1>7, Zenon
        DEF FleetNext, process_step, quiet_thread_step, thread, transport

\* "A new worker with a fresh boot may restore eligibility": however many
\* incarnations of whatever workers came and died before it, with whatever part of
\* their frames, a worker that is admitted alone and has published everything has
\* its link up, provided that the registry's bounds have room for a link of every
\* incarnation and that no two workers use the same boot number.
THEOREM LoneBootIsEligible ==
  ASSUME RoomForAll, BootsNameWorkers
  PROVE  FleetSpec => []LoneBootEligible
<1>1. FleetInv /\ LoneInv => LoneBootEligible
  <2> SUFFICES ASSUME FleetInv, LoneInv, NEW c \in Conn \ overlap, settled(c)
               PROVE  usable_link_of(c)
    BY DEF LoneBootEligible
  <2>1. /\ phase[c] = "serving" /\ pc[c] \in Publishing /\ pc[c] \in {"beating", "routing"}
        /\ \A i \in DOMAIN wire[c] : wire[c][i].type \in {"HEARTBEAT", "ROUTE"}
    BY DEF settled, Publishing
  <2>2. LocalOK(c, pc[c], todo[c], wire[c], replies[c], phase[c])
    BY LocalFacts, FleetFacts, Zenon
  <2>3. todo[c] = << >>
    BY <2>1, <2>2, Zenon DEF LocalOK
  <2>4. In(todo[c]) = {}
    BY <2>3, EmptyQueue
  <2>5. the_link(c).type = "PUBLISH_LINK"
    BY FrameFacts
  <2>6. the_link(c) \notin In(wire[c])
    BY <2>1, <2>5 DEF In
  <2>7. ~pending(c, the_link(c))
    BY <2>4, <2>6 DEF pending
  <2> QED BY <2>1, <2>7, Zenon DEF LoneInv, ServedInv
<1>2. FleetInv /\ LoneInv /\ [FleetNext]_fleet_vars => (FleetInv /\ LoneInv)'
  BY FleetNextInv, LoneNextInv
<1> QED BY <1>1, <1>2, FleetInitInv, LoneInitInv, PTL DEF FleetSpec
=============================================================================
