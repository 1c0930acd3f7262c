--------------------------- MODULE WireProtocolProofs ---------------------------
(***************************************************************************)
(* Theorems about WireProtocol, for any bound on frames and strings, any   *)
(* devices, any number of frames and any damage on the way.                *)
(***************************************************************************)
EXTENDS WireProtocol, SequenceTheorems, TLAPS

-----------------------------------------------------------------------------
(* Strings and records *)

\* A cell that holds a number, and one that holds a checksum of such cells.
Number == {<<v>> : v \in Nat}
Cell == Number \cup Seq(Number)

DeviceType == [id: Nat, name: Seq(Nat), generation: Nat, pci: Seq(Nat)]

\* What shortened keeps of a string.
LEMMA Shortened ==
  ASSUME NEW s \in Seq(Nat)
  PROVE  /\ shortened(s) \in Seq(Nat)
         /\ Len(shortened(s)) \in Nat /\ DOMAIN shortened(s) = 1..Len(shortened(s))
         /\ \A i \in 1..Len(shortened(s)) : shortened(s)[i] \in Nat
<1> DEFINE n == IF Len(s) <= max_string THEN Len(s) ELSE max_string
<1>1. Len(s) \in Nat /\ max_string \in Nat
  BY LenProperties, WireAssumption
<1>2. n \in Nat /\ \A i \in 1..n : s[i] \in Nat
  BY <1>1, ElementOfSeq
<1>3. shortened(s) = SubSeq(s, 1, n)
  BY DEF shortened
<1> HIDE DEF n
<1>4. shortened(s) \in Seq(Nat)
  BY <1>2, <1>3, SubSeqProperties
<1> QED BY <1>4, LenProperties, ElementOfSeq

\* A string travels as its length and its characters, shortened to what the
\* length field can say.
LEMMA PutStr ==
  ASSUME NEW s \in Seq(Nat)
  PROVE  /\ put_str(s) \in Seq(Number)
         /\ Len(put_str(s)) = 1 + Len(shortened(s))
         /\ put_str(s)[1] = <<Len(shortened(s))>>
         /\ \A i \in 1..Len(shortened(s)) : put_str(s)[1 + i] = <<shortened(s)[i]>>
<1> DEFINE n == IF Len(s) <= max_string THEN Len(s) ELSE max_string
           t == shortened(s)
<1>1. Len(s) \in Nat /\ max_string \in Nat
  BY LenProperties, WireAssumption
<1>2. /\ n \in Nat /\ \A i \in 1..n : s[i] \in Nat
      /\ t = SubSeq(s, 1, n) /\ put_str(s) = << <<n>> >> \o cells(t)
  BY <1>1, ElementOfSeq DEF put_str, shortened
<1> HIDE DEF n, t
<1>3. t \in Seq(Nat) /\ Len(t) = n
  BY <1>2, SubSeqProperties
<1>4. DOMAIN t = 1..n /\ \A i \in 1..n : t[i] \in Nat
  BY <1>3, LenProperties, ElementOfSeq
<1>5. cells(t) = [i \in 1..n |-> <<t[i]>>]
  BY <1>4 DEF cells
<1>6. cells(t) \in Seq(Number) /\ Len(cells(t)) = n
  <2>1. \A i \in 1..n : <<t[i]>> \in Number
    BY <1>4 DEF Number
  <2> QED BY <1>2, <1>5, <2>1, SeqDef, LenProperties
<1>7. << <<n>> >> \in Seq(Number) /\ Len(<< <<n>> >>) = 1
  BY <1>2 DEF Number
<1>8. /\ put_str(s) \in Seq(Number) /\ Len(put_str(s)) = 1 + n
      /\ \A i \in 1..(1 + n) :
           put_str(s)[i] = IF i <= 1 THEN << <<n>> >>[i] ELSE cells(t)[i - 1]
  BY <1>2, <1>6, <1>7, ConcatProperties
<1>9. \A i \in 1..n : put_str(s)[1 + i] = <<t[i]>>
  BY <1>2, <1>5, <1>8
<1> QED BY <1>2, <1>3, <1>8, <1>9 DEF t

\* The fields of a device record on the wire.
LEMMA EncDevice ==
  ASSUME NEW d \in DeviceType
  PROVE  LET a == Len(shortened(d.name))
             b == Len(shortened(d.pci))
             e == enc_device(d)
         IN  /\ e \in Seq(Number) /\ Len(e) = 4 + a + b
             /\ e[1] = <<d.id>> /\ e[2] = <<a>>
             /\ \A i \in 1..a : e[2 + i] = <<shortened(d.name)[i]>>
             /\ e[3 + a] = <<d.generation>> /\ e[4 + a] = <<b>>
             /\ \A i \in 1..b : e[4 + a + i] = <<shortened(d.pci)[i]>>
<1> DEFINE a == Len(shortened(d.name))
           b == Len(shortened(d.pci))
           A == << <<d.id>> >>
           B == put_str(d.name)
           C == << <<d.generation>> >>
           D == put_str(d.pci)
           AB == A \o B
           ABC == AB \o C
           e == ABC \o D
<1>1. /\ d.id \in Nat /\ d.generation \in Nat
      /\ d.name \in Seq(Nat) /\ d.pci \in Seq(Nat)
  BY DEF DeviceType
<1>2. a \in Nat /\ b \in Nat
  BY <1>1, Shortened
<1>3. /\ A \in Seq(Number) /\ Len(A) = 1 /\ A[1] = <<d.id>>
      /\ C \in Seq(Number) /\ Len(C) = 1 /\ C[1] = <<d.generation>>
  BY <1>1 DEF Number
<1>4. /\ B \in Seq(Number) /\ Len(B) = 1 + a /\ B[1] = <<a>>
      /\ \A i \in 1..a : B[1 + i] = <<shortened(d.name)[i]>>
  BY <1>1, PutStr
<1>5. /\ D \in Seq(Number) /\ Len(D) = 1 + b /\ D[1] = <<b>>
      /\ \A i \in 1..b : D[1 + i] = <<shortened(d.pci)[i]>>
  BY <1>1, PutStr
<1>6. enc_device(d) = e
  BY DEF enc_device
<1> HIDE DEF a, b, A, B, C, D
<1>7. /\ AB \in Seq(Number) /\ Len(AB) = 2 + a
      /\ AB[1] = A[1] /\ \A i \in 1..(1 + a) : AB[1 + i] = B[i]
  <2>1. /\ AB \in Seq(Number) /\ Len(AB) = Len(A) + Len(B)
        /\ \A i \in 1..Len(A) : AB[i] = A[i]
        /\ \A i \in 1..Len(B) : AB[Len(A) + i] = B[i]
    <3>1. A \in Seq(Number) /\ B \in Seq(Number) /\ AB = A \o B
      BY <1>3, <1>4
    <3> HIDE DEF AB
    <3> QED BY <3>1, ConcatProperties
  <2> HIDE DEF AB
  <2> QED BY <1>2, <1>3, <1>4, <2>1
<1> HIDE DEF AB
<1>8. /\ ABC \in Seq(Number) /\ Len(ABC) = 3 + a
      /\ \A i \in 1..(2 + a) : ABC[i] = AB[i]
      /\ ABC[3 + a] = C[1]
  <2>1. /\ ABC \in Seq(Number) /\ Len(ABC) = Len(AB) + Len(C)
        /\ \A i \in 1..Len(AB) : ABC[i] = AB[i]
        /\ \A i \in 1..Len(C) : ABC[Len(AB) + i] = C[i]
    <3>1. AB \in Seq(Number) /\ C \in Seq(Number) /\ ABC = AB \o C
      BY <1>3, <1>7
    <3> HIDE DEF ABC
    <3> QED BY <3>1, ConcatProperties
  <2> HIDE DEF ABC
  <2> QED BY <1>2, <1>3, <1>7, <2>1
<1> HIDE DEF ABC
<1>9. /\ e \in Seq(Number) /\ Len(e) = 4 + a + b
      /\ \A i \in 1..(3 + a) : e[i] = ABC[i]
      /\ \A i \in 1..(1 + b) : e[(3 + a) + i] = D[i]
  <2>1. /\ e \in Seq(Number) /\ Len(e) = Len(ABC) + Len(D)
        /\ \A i \in 1..Len(ABC) : e[i] = ABC[i]
        /\ \A i \in 1..Len(D) : e[Len(ABC) + i] = D[i]
    <3>1. ABC \in Seq(Number) /\ D \in Seq(Number) /\ e = ABC \o D
      BY <1>5, <1>8
    <3> HIDE DEF e
    <3> QED BY <3>1, ConcatProperties
  <2> HIDE DEF e
  <2> QED BY <1>2, <1>5, <1>8, <2>1
<1> HIDE DEF e
<1>10. e[1] = <<d.id>> /\ e[2] = <<a>>
  BY <1>2, <1>3, <1>4, <1>7, <1>8, <1>9
<1>11. \A i \in 1..a : e[2 + i] = <<shortened(d.name)[i]>>
  <2> TAKE i \in 1..a
  <2>1. e[2 + i] = AB[2 + i]
    BY <1>2, <1>8, <1>9
  <2>2. 1 + i \in 1..(1 + a) /\ 1 + (1 + i) = 2 + i
    BY <1>2
  <2>3. AB[2 + i] = B[1 + i]
    BY <1>7, <2>2
  <2> QED BY <1>4, <2>1, <2>3
<1>12. e[3 + a] = <<d.generation>>
  BY <1>2, <1>3, <1>8, <1>9
<1>13. e[4 + a] = <<b>>
  <2>1. 1 \in 1..(1 + b) /\ (3 + a) + 1 = 4 + a
    BY <1>2
  <2> QED BY <1>5, <1>9, <2>1
<1>14. \A i \in 1..b : e[4 + a + i] = <<shortened(d.pci)[i]>>
  <2> TAKE i \in 1..b
  <2>1. 1 + i \in 1..(1 + b) /\ (3 + a) + (1 + i) = 4 + a + i
    BY <1>2
  <2>2. e[4 + a + i] = D[1 + i]
    BY <1>9, <2>1
  <2> QED BY <1>5, <2>2
<1> QED BY <1>6, <1>9, <1>10, <1>11, <1>12, <1>13, <1>14 DEF a, b

\* The payload reader stays in step with the writer, whatever the lengths.
LEMMA DecDevice ==
  ASSUME NEW d \in DeviceType
  PROVE  dec_device(enc_device(d))
           = [d EXCEPT !.name = shortened(@), !.pci = shortened(@)]
<1> DEFINE x == shortened(d.name)
           y == shortened(d.pci)
           a == Len(x)
           b == Len(y)
           e == enc_device(d)
<1>1. /\ d.id \in Nat /\ d.generation \in Nat
      /\ d.name \in Seq(Nat) /\ d.pci \in Seq(Nat)
      /\ d = [id |-> d.id, name |-> d.name, generation |-> d.generation, pci |-> d.pci]
  BY DEF DeviceType
<1>2. /\ x \in Seq(Nat) /\ a \in Nat /\ DOMAIN x = 1..a
      /\ y \in Seq(Nat) /\ b \in Nat /\ DOMAIN y = 1..b
  BY <1>1, Shortened
<1>3. /\ e \in Seq(Number) /\ Len(e) = 4 + a + b
      /\ e[1] = <<d.id>> /\ e[2] = <<a>>
      /\ \A i \in 1..a : e[2 + i] = <<x[i]>>
      /\ e[3 + a] = <<d.generation>> /\ e[4 + a] = <<b>>
      /\ \A i \in 1..b : e[4 + a + i] = <<y[i]>>
  BY EncDevice
<1> HIDE DEF e, x, y
<1>4. DOMAIN e = 1..(4 + a + b)
  BY <1>3, LenProperties
<1>5. /\ number_at(e, 1) = d.id /\ number_at(e, 2) = a
      /\ number_at(e, 3 + a) = d.generation /\ number_at(e, 4 + a) = b
  BY <1>2, <1>3, <1>4 DEF number_at
<1>6. string_at(e, 2) = x
  <2>1. string_at(e, 2) = [k \in 1..a |-> e[2 + k][1]]
    <3>1. 2 + a <= Len(e)
      BY <1>2, <1>3
    <3> QED BY <1>5, <3>1, Zenon DEF string_at
  <2>2. \A k \in 1..a : e[2 + k][1] = x[k]
    BY <1>2, <1>3
  <2>3. x = [k \in 1..a |-> x[k]]
    BY <1>2
  <2> QED BY <2>1, <2>2, <2>3
<1>7. string_at(e, 4 + a) = y
  <2>1. string_at(e, 4 + a) = [k \in 1..b |-> e[4 + a + k][1]]
    <3>1. (4 + a) + b <= Len(e)
      BY <1>2, <1>3
    <3> QED BY <1>5, <3>1, Zenon DEF string_at
  <2>2. \A k \in 1..b : e[4 + a + k][1] = y[k]
    BY <1>2, <1>3
  <2>3. y = [k \in 1..b |-> y[k]]
    BY <1>2
  <2> QED BY <2>1, <2>2, <2>3
<1>8. (3 + a) + 1 = 4 + a
  BY <1>2
<1>9. dec_device(e) = [id |-> d.id, name |-> x, generation |-> d.generation, pci |-> y]
  BY <1>5, <1>6, <1>7, <1>8, Zenon DEF dec_device
<1>10. [d EXCEPT !.name = x, !.pci = y]
         = [id |-> d.id, name |-> x, generation |-> d.generation, pci |-> y]
  <2> DEFINE r == [d EXCEPT !.name = x]
  <2>1. r = [id |-> d.id, name |-> x, generation |-> d.generation, pci |-> d.pci]
    BY <1>1
  <2>2. [d EXCEPT !.name = x, !.pci = y] = [r EXCEPT !.pci = y]
    OBVIOUS
  <2> HIDE DEF r
  <2> QED BY <2>1, <2>2
<1> QED BY <1>9, <1>10, Zenon DEF e, x, y

-----------------------------------------------------------------------------
(* Frames *)

FrameType == [type: Nat, payload: Seq(Number)]

\* A frame on the wire: header, payload, and the checksum of both.
LEMMA EncodeFrame ==
  ASSUME NEW f \in FrameType
  PROVE  LET e == encode_frame(f)
             n == Len(f.payload)
         IN  /\ n \in Nat /\ e \in Seq(Cell) /\ Len(e) = n + 5
             /\ e[1] = <<kMagic>> /\ e[2] = <<kVersion>>
             /\ e[3] = <<f.type>> /\ e[4] = <<n>>
             /\ \A i \in 1..n : e[4 + i] = f.payload[i]
             /\ \A i \in 1..(n + 4) : e[i] \in Number
             /\ e[n + 5] = SubSeq(e, 1, n + 4)
<1> DEFINE n == Len(f.payload)
           H == << <<kMagic>>, <<kVersion>>, <<f.type>>, <<n>> >>
           body == H \o f.payload
           e == Append(body, body)
<1>1. f.type \in Nat /\ f.payload \in Seq(Number) /\ n \in Nat
  BY LenProperties DEF FrameType
<1>2. /\ H \in Seq(Number) /\ Len(H) = 4
      /\ H[1] = <<kMagic>> /\ H[2] = <<kVersion>> /\ H[3] = <<f.type>> /\ H[4] = <<n>>
  BY <1>1 DEF Number, kMagic, kVersion
<1>3. encode_frame(f) = e
  BY DEF encode_frame, crc32
<1> HIDE DEF H
<1>4. /\ body \in Seq(Number) /\ Len(body) = n + 4
      /\ \A i \in 1..4 : body[i] = H[i]
      /\ \A i \in 1..n : body[4 + i] = f.payload[i]
  <2>1. /\ body \in Seq(Number) /\ Len(body) = Len(H) + Len(f.payload)
        /\ \A i \in 1..Len(H) : body[i] = H[i]
        /\ \A i \in 1..Len(f.payload) : body[Len(H) + i] = f.payload[i]
    <3>1. H \in Seq(Number) /\ f.payload \in Seq(Number) /\ body = H \o f.payload
      BY <1>1, <1>2
    <3> HIDE DEF body
    <3> QED BY <3>1, ConcatProperties
  <2> HIDE DEF body
  <2> QED BY <1>1, <1>2, <2>1
<1> HIDE DEF body
<1>5. body \in Seq(Cell) /\ body \in Cell
  BY <1>4, SeqMonotonic DEF Cell
<1>6. /\ e \in Seq(Cell) /\ Len(e) = n + 5
      /\ \A i \in 1..(n + 4) : e[i] = body[i]
      /\ e[n + 5] = body
  BY <1>1, <1>4, <1>5, AppendProperties
<1> HIDE DEF e
<1>7. SubSeq(e, 1, n + 4) = body
  <2>1. \A i \in 1..(n + 4) : e[i] \in Number
    BY <1>4, <1>6, ElementOfSeq
  <2>2. /\ SubSeq(e, 1, n + 4) \in Seq(Number)
        /\ Len(SubSeq(e, 1, n + 4)) = n + 4
        /\ \A i \in 1..(n + 4) : SubSeq(e, 1, n + 4)[i] = e[i]
    BY <1>1, <2>1, SubSeqProperties
  <2> QED BY <1>4, <1>6, <2>2, SeqEqual
<1>8. \A i \in 1..(n + 4) : e[i] \in Number
  BY <1>4, <1>6, ElementOfSeq
<1>9. e[1] = <<kMagic>> /\ e[2] = <<kVersion>> /\ e[3] = <<f.type>> /\ e[4] = <<n>>
  <2>1. \A i \in 1..4 : i \in 1..(n + 4)
    BY <1>1
  <2>2. 1 \in 1..4 /\ 2 \in 1..4 /\ 3 \in 1..4 /\ 4 \in 1..4
    OBVIOUS
  <2> QED BY <1>2, <1>4, <1>6, <2>1, <2>2, Zenon
<1>10. \A i \in 1..n : e[4 + i] = f.payload[i]
  BY <1>1, <1>4, <1>6
<1> QED BY <1>1, <1>3, <1>6, <1>7, <1>8, <1>9, <1>10

\* decode_frame takes back what encode_frame made.
LEMMA DecodeFrame ==
  ASSUME NEW f \in FrameType, valid_type(f.type), encodable(f)
  PROVE  /\ well_formed(encode_frame(f))
         /\ decode_frame(encode_frame(f)) = f
<1> DEFINE e == encode_frame(f)
           n == Len(f.payload)
<1>1. /\ n \in Nat /\ e \in Seq(Cell) /\ Len(e) = n + 5
      /\ e[1] = <<kMagic>> /\ e[2] = <<kVersion>>
      /\ e[3] = <<f.type>> /\ e[4] = <<n>>
      /\ \A i \in 1..n : e[4 + i] = f.payload[i]
      /\ e[n + 5] = SubSeq(e, 1, n + 4)
  BY EncodeFrame
<1>2. /\ f.type \in Nat /\ f.payload \in Seq(Number)
      /\ f = [type |-> f.type, payload |-> f.payload]
  BY DEF FrameType
<1>3. e[3][1] = f.type /\ e[4][1] = n
  BY <1>1
<1>4. n + 4 + 1 <= max_bytes
  BY DEF encodable, kHeaderNoPayload, kCrcBytes
<1> HIDE DEF e
<1>5. Len(e) - 1 = n + 4 /\ 4 + n + 1 = n + 5
  BY <1>1
<1>6. well_formed(e)
  BY <1>1, <1>3, <1>4, <1>5 DEF well_formed, crc32, kHeaderNoPayload, kCrcBytes
<1>7. SubSeq(e, 5, n + 4) = f.payload
  <2>1. \A i \in 5..(n + 4) : e[i] \in Number
    <3> TAKE i \in 5..(n + 4)
    <3>1. i - 4 \in 1..n /\ 4 + (i - 4) = i
      BY <1>1
    <3>2. e[4 + (i - 4)] = f.payload[i - 4]
      BY <1>1, <3>1
    <3> QED BY <1>2, <3>1, <3>2, ElementOfSeq
  <2>2. /\ SubSeq(e, 5, n + 4) \in Seq(Number)
        /\ Len(SubSeq(e, 5, n + 4)) = IF 5 <= n + 4 THEN (n + 4) - 5 + 1 ELSE 0
        /\ \A i \in 1..((n + 4) - 5 + 1) : SubSeq(e, 5, n + 4)[i] = e[5 + i - 1]
    BY <1>1, <2>1, SubSeqProperties
  <2>3. Len(SubSeq(e, 5, n + 4)) = n
    BY <1>1, <2>2
  <2>4. \A i \in 1..n : SubSeq(e, 5, n + 4)[i] = f.payload[i]
    <3> TAKE i \in 1..n
    <3>1. i \in 1..((n + 4) - 5 + 1) /\ 5 + i - 1 = 4 + i
      BY <1>1
    <3> QED BY <1>1, <2>2, <3>1
  <2> QED BY <1>2, <2>2, <2>3, <2>4, SeqEqual
<1>8. decode_frame(e) = [type |-> f.type, payload |-> f.payload]
  <2>1. 4 + 1 = 5
    OBVIOUS
  <2> QED BY <1>3, <1>5, <1>7, <2>1, Zenon DEF decode_frame, kHeaderNoPayload, kCrcBytes
<1> QED BY <1>2, <1>6, <1>8 DEF e

-----------------------------------------------------------------------------
(* Messages *)

Message == [type: Nat, device: DeviceType]

\* The frame that carries what was recorded as sent.
frame_of(m) == IF m.type = PUBLISH_DEVICE THEN device_frame(m.device) ELSE heartbeat_frame

code(m) == encode_frame(frame_of(m))

\* What send_frame records: encode_frame accepted its frame, and the frame means
\* the record with its strings shortened.
Sound(m) ==
  /\ m \in Message /\ arrives_as(m) \in Message
  /\ frame_of(m) \in FrameType /\ valid_type(frame_of(m).type) /\ encodable(frame_of(m))
  /\ content(frame_of(m)) = arrives_as(m)

LEMMA ArrivesAs ==
  ASSUME NEW m \in Message
  PROVE  arrives_as(m) \in Message
<1> DEFINE d == m.device
           x == shortened(d.name)
           y == shortened(d.pci)
           r == [d EXCEPT !.name = x]
           q == [r EXCEPT !.pci = y]
<1>1. m.type \in Nat /\ d \in DeviceType
  BY DEF Message
<1>2. d.name \in Seq(Nat) /\ d.pci \in Seq(Nat)
  BY <1>1 DEF DeviceType
<1>3. x \in Seq(Nat) /\ y \in Seq(Nat)
  BY <1>2, Shortened
<1>4. arrives_as(m) = [type |-> m.type, device |-> q]
  BY DEF arrives_as
<1> HIDE DEF x, y, d
<1>5. r \in DeviceType
  BY <1>1, <1>3 DEF DeviceType
<1> HIDE DEF r
<1>6. q \in DeviceType
  BY <1>3, <1>5 DEF DeviceType
<1> HIDE DEF q
<1> QED BY <1>1, <1>4, <1>6 DEF Message

\* A device that is published, if its frame can be encoded.
LEMMA SoundDevice ==
  ASSUME NEW d \in Devices, encodable(device_frame(d)),
         NEW m, m = [type |-> PUBLISH_DEVICE, device |-> d]
  PROVE  Sound(m) /\ frame_of(m) = device_frame(d)
<1>1. d \in DeviceType
  BY WireAssumption DEF DeviceType
<1>2. m \in Message /\ m.type = PUBLISH_DEVICE /\ m.device = d
  BY <1>1 DEF Message, PUBLISH_DEVICE
<1>3. frame_of(m) = device_frame(d)
  BY <1>2 DEF frame_of
<1>4. enc_device(d) \in Seq(Number)
  BY <1>1, EncDevice
<1>5. /\ device_frame(d) \in FrameType /\ device_frame(d).type = PUBLISH_DEVICE
      /\ device_frame(d).payload = enc_device(d)
  BY <1>4 DEF device_frame, FrameType, PUBLISH_DEVICE
<1>6. valid_type(PUBLISH_DEVICE)
  BY DEF valid_type, PUBLISH_DEVICE
<1>7. content(device_frame(d)) = arrives_as(m)
  <2>1. content(device_frame(d)) = [type |-> PUBLISH_DEVICE, device |-> dec_device(enc_device(d))]
    BY <1>5, Zenon DEF content
  <2> QED BY <1>1, <1>2, <2>1, DecDevice, Zenon DEF arrives_as
<1> QED BY <1>2, <1>3, <1>5, <1>6, <1>7, ArrivesAs, Zenon DEF Sound

LEMMA SoundHeartbeat ==
  ASSUME encodable(heartbeat_frame), NEW m, m = [type |-> HEARTBEAT, device |-> no_device]
  PROVE  Sound(m) /\ frame_of(m) = heartbeat_frame
<1>1. << >> \in Seq(Nat) /\ << >> \in Seq(Number) /\ Len(<< >>) = 0
  OBVIOUS
<1>2. no_device \in DeviceType
  BY <1>1 DEF no_device, DeviceType
<1>3. m \in Message /\ m.type = HEARTBEAT /\ m.device = no_device
  BY <1>2 DEF Message, HEARTBEAT
<1>4. HEARTBEAT # PUBLISH_DEVICE /\ valid_type(HEARTBEAT)
  BY DEF HEARTBEAT, PUBLISH_DEVICE, valid_type
<1>5. frame_of(m) = heartbeat_frame
  BY <1>3, <1>4 DEF frame_of
<1>6. heartbeat_frame \in FrameType /\ heartbeat_frame.type = HEARTBEAT
  BY <1>1 DEF heartbeat_frame, FrameType, HEARTBEAT
<1>7. content(heartbeat_frame) = [type |-> HEARTBEAT, device |-> no_device]
  BY <1>4, <1>6, Zenon DEF content
<1>8. shortened(<< >>) = << >>
  <2>1. shortened(<< >>) = SubSeq(<< >>, 1, 0)
    BY <1>1, WireAssumption DEF shortened
  <2> QED BY <2>1
<1>9. arrives_as(m) = [type |-> HEARTBEAT, device |-> no_device]
  <2> DEFINE z == shortened(<< >>)
             r == [no_device EXCEPT !.name = z]
             q == [r EXCEPT !.pci = z]
  <2>1. no_device.name = << >> /\ no_device.pci = << >>
    BY DEF no_device
  <2>2. arrives_as(m) = [type |-> HEARTBEAT, device |-> q]
    BY <1>3, <2>1, Zenon DEF arrives_as
  <2>3. r = no_device
    BY <1>8 DEF no_device
  <2> HIDE DEF r
  <2>4. q = no_device
    BY <1>8, <2>3 DEF no_device
  <2> QED BY <2>2, <2>4, Zenon
<1> QED BY <1>3, <1>4, <1>5, <1>6, <1>7, <1>9, ArrivesAs, Zenon DEF Sound

\* The cells of a sent frame.  Only the last, the checksum, is longer than one
\* number, and it is as long as the cells it covers.
LEMMA CodeCells ==
  ASSUME NEW m, Sound(m), NEW c, c = code(m)
  PROVE  /\ c \in Seq(Cell) /\ Len(c) \in Nat /\ Len(c) >= 5 /\ Len(c) <= max_bytes
         /\ well_formed(c) /\ content(decode_frame(c)) = arrives_as(m)
         /\ \E v \in Nat : c[4] = <<v>> /\ v = Len(c) - 5
         /\ \A i \in 1..(Len(c) - 1) : c[i] \in Number
         /\ c[Len(c)] = SubSeq(c, 1, Len(c) - 1)
<1> DEFINE f == frame_of(m)
           n == Len(f.payload)
<1>1. f \in FrameType /\ valid_type(f.type) /\ encodable(f) /\ c = encode_frame(f)
  BY DEF Sound, code
<1> HIDE DEF f
<1>2. /\ n \in Nat /\ c \in Seq(Cell) /\ Len(c) = n + 5 /\ c[4] = <<n>>
      /\ \A i \in 1..(n + 4) : c[i] \in Number
      /\ c[n + 5] = SubSeq(c, 1, n + 4)
  BY <1>1, EncodeFrame
<1>3. well_formed(c) /\ decode_frame(c) = f
  BY <1>1, DecodeFrame
<1>4. content(decode_frame(c)) = arrives_as(m)
  BY <1>3 DEF Sound, f
<1>5. n + 5 <= max_bytes
  BY <1>1, <1>2, WireAssumption DEF encodable, kHeaderNoPayload, kCrcBytes
<1> HIDE DEF n
<1>6. Len(c) - 1 = n + 4 /\ n = Len(c) - 5 /\ Len(c) >= 5
  BY <1>2
<1> QED BY <1>2, <1>3, <1>4, <1>5, <1>6

-----------------------------------------------------------------------------
(* The stream *)

\* Frames n + 1 to N lie end to end: frame k of length len[k] fills the cells from
\* at[k] + 1 to at[k + 1].
Placed(at, len, n, N) ==
  /\ at \in [Nat -> Nat] /\ at[n + 1] = 0
  /\ \A k \in (n + 1)..N : len[k] \in Nat
  /\ \A k \in (n + 1)..N : at[k + 1] = at[k] + len[k]
  /\ \A j \in (n + 1)..(N + 1), k \in (n + 1)..(N + 1) : j < k => at[j] < at[k]
  /\ \A i \in 1..at[N + 1] : \E k \in (n + 1)..N : at[k] < i /\ i <= at[k + 1]

\* Every frame ends where the last one ends, or before.
LEMMA PlacedBefore ==
  ASSUME NEW n \in Nat, NEW N \in Nat, n <= N, NEW len, NEW at, Placed(at, len, n, N)
  PROVE  /\ \A k \in Nat : at[k] \in Nat
         /\ \A k \in (n + 1)..(N + 1) : at[k] <= at[N + 1]
<1>1. \A k \in Nat : at[k] \in Nat
  BY DEF Placed
<1>2. \A j \in (n + 1)..(N + 1), k \in (n + 1)..(N + 1) : j < k => at[j] < at[k]
  BY DEF Placed
<1>3. ASSUME NEW k \in (n + 1)..(N + 1)
      PROVE  at[k] <= at[N + 1]
  <2>1. k \in Nat /\ N + 1 \in Nat /\ N + 1 \in (n + 1)..(N + 1)
    OBVIOUS
  <2>2. at[k] \in Nat /\ at[N + 1] \in Nat
    BY <1>1, <2>1
  <2>3. CASE k = N + 1
    BY <2>2, <2>3
  <2>4. CASE k # N + 1
    <3>1. k < N + 1
      BY <2>4
    <3>2. at[k] < at[N + 1]
      BY <1>2, <2>1, <3>1, Zenon
    <3> QED BY <2>2, <3>2
  <2> QED BY <2>3, <2>4
<1> QED BY <1>1, <1>3

\* A frame is put behind the others.
LEMMA PlacedAppend ==
  ASSUME NEW n \in Nat, NEW N \in Nat, n <= N, NEW len, NEW at, Placed(at, len, n, N),
         NEW l \in Nat, l > 0, NEW longer, \A k \in (n + 1)..N : longer[k] = len[k],
         longer[N + 1] = l, NEW to \in [Nat -> Nat],
         \A k \in (n + 1)..(N + 1) : to[k] = at[k], to[N + 2] = at[N + 1] + l
  PROVE  Placed(to, longer, n, N + 1)
<1>1. at \in [Nat -> Nat] /\ at[n + 1] = 0
  BY DEF Placed
<1>2. \A k \in Nat : at[k] \in Nat
  BY <1>1
<1>3. \A k \in (n + 1)..N : at[k + 1] = at[k] + len[k]
  BY DEF Placed
<1>4. \A j \in (n + 1)..(N + 1), k \in (n + 1)..(N + 1) : j < k => at[j] < at[k]
  BY DEF Placed
<1>5. \A i \in 1..at[N + 1] : \E k \in (n + 1)..N : at[k] < i /\ i <= at[k + 1]
  BY DEF Placed
<1>6. at[N + 1] \in Nat /\ at[N + 1] + l \in Nat
  BY <1>2
<1>7. to \in [Nat -> Nat] /\ to[N + 2] = at[N + 1] + l
  OBVIOUS
<1>8. \A k \in (n + 1)..(N + 1) : to[k] = at[k]
  OBVIOUS
<1>9. \A k \in Nat : to[k] \in Nat
  BY <1>7
<1>10. to[n + 1] = 0
  <2>1. n + 1 \in (n + 1)..(N + 1)
    OBVIOUS
  <2> QED BY <1>1, <1>8, <2>1
<1>11. ASSUME NEW k \in (n + 1)..(N + 1)
       PROVE  to[k + 1] = to[k] + longer[k]
  <2>1. CASE k = N + 1
    <3>1. k + 1 = N + 2
      BY <2>1
    <3> QED BY <1>7, <1>8, <2>1, <3>1, Zenon
  <2>2. CASE k # N + 1
    <3>1. k \in (n + 1)..N /\ k + 1 \in (n + 1)..(N + 1)
      BY <2>2
    <3> QED BY <1>3, <1>8, <3>1, Zenon
  <2> QED BY <2>1, <2>2
<1>12. \A k \in (n + 1)..(N + 1) : at[k] <= at[N + 1]
  BY PlacedBefore
<1>13. ASSUME NEW j \in (n + 1)..(N + 2), NEW k \in (n + 1)..(N + 2), j < k
       PROVE  to[j] < to[k]
  <2>1. j \in (n + 1)..(N + 1) /\ j \in Nat
    BY <1>13
  <2>2. to[j] = at[j] /\ at[j] \in Nat
    BY <1>2, <1>8, <2>1
  <2>3. CASE k = N + 2
    <3>1. to[k] = at[N + 1] + l /\ at[j] <= at[N + 1]
      BY <1>7, <1>12, <2>1, <2>3, Zenon
    <3> QED BY <1>6, <2>2, <3>1
  <2>4. CASE k # N + 2
    <3>1. k \in (n + 1)..(N + 1)
      BY <2>4
    <3>2. at[j] < at[k] /\ to[k] = at[k]
      BY <1>4, <1>8, <1>13, <2>1, <3>1, Zenon
    <3> QED BY <2>2, <3>2, Zenon
  <2> QED BY <2>3, <2>4
<1>14. ASSUME NEW i \in 1..to[N + 2]
       PROVE  \E k \in (n + 1)..(N + 1) : to[k] < i /\ i <= to[k + 1]
  <2>1. N + 1 \in (n + 1)..(N + 1) /\ (N + 1) + 1 = N + 2
    OBVIOUS
  <2>2. i \in Nat /\ i >= 1 /\ i <= to[N + 2]
    BY <1>6, <1>7
  <2>3. CASE i <= at[N + 1]
    <3>1. i \in 1..at[N + 1]
      BY <1>6, <2>2, <2>3
    <3>2. PICK k \in (n + 1)..N : at[k] < i /\ i <= at[k + 1]
      BY <1>5, <3>1
    <3>3. k \in (n + 1)..(N + 1) /\ k + 1 \in (n + 1)..(N + 1)
      BY <3>2
    <3>4. to[k] = at[k] /\ to[k + 1] = at[k + 1]
      BY <1>8, <3>3
    <3> QED BY <3>2, <3>3, <3>4, Zenon
  <2>4. CASE ~(i <= at[N + 1])
    <3>1. at[N + 1] < i
      BY <1>6, <2>2, <2>4
    <3>2. to[N + 1] < i
      BY <1>8, <2>1, <3>1, Zenon
    <3>3. i <= to[(N + 1) + 1]
      BY <2>1, <2>2, Zenon
    <3> QED BY <2>1, <3>2, <3>3, Zenon
  <2> QED BY <2>3, <2>4
<1>15. (N + 1) + 1 = N + 2
  OBVIOUS
<1>16. \A k \in (n + 1)..(N + 1) : longer[k] \in Nat
  <2>1. \A k \in (n + 1)..(N + 1) : k = N + 1 \/ k \in (n + 1)..N
    OBVIOUS
  <2> QED BY <2>1, Zenon DEF Placed
<1>17. Placed(to, longer, n, N + 1)
  BY <1>16, <1>7, <1>10, <1>11, <1>13, <1>14, <1>15, Zenon DEF Placed
<1> QED BY <1>17

\* The first frame, of length l, is taken off.
LEMMA PlacedShift ==
  ASSUME NEW n \in Nat, NEW N \in Nat, n + 1 <= N, NEW len, NEW at, Placed(at, len, n, N),
         NEW l \in Nat, len[n + 1] = l,
         NEW to, to = [k \in Nat |-> IF at[k] >= l THEN at[k] - l ELSE 0]
  PROVE  /\ Placed(to, len, n + 1, N)
         /\ \A k \in (n + 2)..(N + 1) : at[k] = to[k] + l
<1>1. at \in [Nat -> Nat] /\ at[n + 1] = 0
  BY DEF Placed
<1>2. \A k \in Nat : at[k] \in Nat
  BY <1>1
<1>3. \A k \in (n + 1)..N : at[k + 1] = at[k] + len[k]
  BY DEF Placed
<1>4. \A j \in (n + 1)..(N + 1), k \in (n + 1)..(N + 1) : j < k => at[j] < at[k]
  BY DEF Placed
<1>5. \A i \in 1..at[N + 1] : \E k \in (n + 1)..N : at[k] < i /\ i <= at[k + 1]
  BY DEF Placed
<1>6. at[n + 2] = l
  <2>1. n + 1 \in (n + 1)..N /\ (n + 1) + 1 = n + 2
    OBVIOUS
  <2>2. at[n + 2] = at[n + 1] + len[n + 1]
    BY <1>3, <2>1
  <2> QED BY <1>1, <2>2
<1>7. ASSUME NEW k \in (n + 2)..(N + 1)
      PROVE  at[k] >= l
  <2>1. k \in Nat /\ k \in (n + 1)..(N + 1) /\ n + 2 \in (n + 1)..(N + 1)
    OBVIOUS
  <2>2. CASE k = n + 2
    BY <1>6, <2>2
  <2>3. CASE k # n + 2
    <3>1. n + 2 < k
      BY <2>3
    <3>2. at[n + 2] < at[k]
      BY <1>4, <2>1, <3>1, Zenon
    <3>3. at[k] \in Nat
      BY <1>2, <2>1
    <3> QED BY <1>6, <3>2, <3>3
  <2> QED BY <2>2, <2>3
<1>8. \A k \in Nat : to[k] \in Nat
  <2> TAKE k \in Nat
  <2>1. at[k] \in Nat
    BY <1>2
  <2>2. to[k] = IF at[k] >= l THEN at[k] - l ELSE 0
    OBVIOUS
  <2> QED BY <2>1, <2>2
<1>9. to \in [Nat -> Nat]
  BY <1>8
<1>10. ASSUME NEW k \in (n + 2)..(N + 1)
       PROVE  at[k] = to[k] + l
  <2>1. k \in Nat
    OBVIOUS
  <2>2. at[k] \in Nat /\ at[k] >= l
    BY <1>2, <1>7, <2>1
  <2>3. to[k] = at[k] - l
    BY <2>1, <2>2
  <2> QED BY <2>2, <2>3
<1>11. to[(n + 1) + 1] = 0
  <2>1. (n + 1) + 1 = n + 2 /\ n + 2 \in Nat /\ n + 2 \in (n + 2)..(N + 1)
    OBVIOUS
  <2>2. at[n + 2] = to[n + 2] + l /\ to[n + 2] \in Nat
    BY <1>8, <1>10, <2>1
  <2>3. to[n + 2] = 0
    BY <1>6, <2>2
  <2> QED BY <2>1, <2>3
<1>12. ASSUME NEW k \in ((n + 1) + 1)..N
       PROVE  to[k + 1] = to[k] + len[k]
  <2>1. /\ k \in (n + 2)..(N + 1) /\ k + 1 \in (n + 2)..(N + 1) /\ k \in (n + 1)..N
        /\ k \in Nat /\ k + 1 \in Nat
    OBVIOUS
  <2>2. at[k] = to[k] + l /\ at[k + 1] = to[k + 1] + l /\ at[k + 1] = at[k] + len[k]
    BY <1>3, <1>10, <2>1
  <2>3. to[k] \in Nat /\ to[k + 1] \in Nat
    BY <1>8, <2>1
  <2>4. len[k] \in Nat
    BY <2>1, Zenon DEF Placed
  <2> QED BY <2>2, <2>3, <2>4
<1>13. ASSUME NEW j \in ((n + 1) + 1)..(N + 1), NEW k \in ((n + 1) + 1)..(N + 1), j < k
       PROVE  to[j] < to[k]
  <2>1. /\ j \in (n + 2)..(N + 1) /\ k \in (n + 2)..(N + 1)
        /\ j \in (n + 1)..(N + 1) /\ k \in (n + 1)..(N + 1) /\ j \in Nat /\ k \in Nat
    OBVIOUS
  <2>2. at[j] < at[k]
    BY <1>4, <1>13, <2>1, Zenon
  <2>3. at[j] = to[j] + l /\ at[k] = to[k] + l
    BY <1>10, <2>1
  <2>4. to[j] \in Nat /\ to[k] \in Nat
    BY <1>8, <2>1
  <2> QED BY <2>2, <2>3, <2>4
<1>14. ASSUME NEW i \in 1..to[N + 1]
       PROVE  \E k \in ((n + 1) + 1)..N : to[k] < i /\ i <= to[k + 1]
  <2>1. N + 1 \in (n + 2)..(N + 1) /\ N + 1 \in Nat
    OBVIOUS
  <2>2. at[N + 1] = to[N + 1] + l /\ to[N + 1] \in Nat
    BY <1>8, <1>10, <2>1
  <2>3. i \in Nat /\ i + l \in 1..at[N + 1] /\ i >= 1
    BY <2>2
  <2>4. PICK k \in (n + 1)..N : at[k] < i + l /\ i + l <= at[k + 1]
    BY <1>5, <2>3
  <2>5. k # n + 1
    <3> SUFFICES ASSUME k = n + 1
                 PROVE  FALSE
      OBVIOUS
    <3>1. (n + 1) + 1 = n + 2
      OBVIOUS
    <3>2. i + l <= l
      BY <1>6, <2>4, <3>1
    <3> QED BY <2>3, <3>2
  <2>6. /\ k \in ((n + 1) + 1)..N /\ k \in (n + 2)..(N + 1) /\ k + 1 \in (n + 2)..(N + 1)
        /\ k \in Nat /\ k + 1 \in Nat
    BY <2>5
  <2>7. at[k] = to[k] + l /\ at[k + 1] = to[k + 1] + l
    BY <1>10, <2>6
  <2>8. to[k] \in Nat /\ to[k + 1] \in Nat
    BY <1>8, <2>6
  <2>9. to[k] < i /\ i <= to[k + 1]
    BY <2>3, <2>4, <2>7, <2>8
  <2> QED BY <2>6, <2>9
<1>15. \A k \in ((n + 1) + 1)..N : len[k] \in Nat
  <2>1. \A k \in ((n + 1) + 1)..N : k \in (n + 1)..N
    OBVIOUS
  <2> QED BY <2>1, Zenon DEF Placed
<1>16. Placed(to, len, n + 1, N)
  BY <1>9, <1>11, <1>12, <1>13, <1>14, <1>15, Zenon DEF Placed
<1> QED BY <1>10, <1>16

\* The frames sent and not yet delivered lie end to end on the stream, frame k
\* from the cell after at[k], and the stream holds them up to some cell: up to the
\* last, until it is cut.  A cell is what was sent or, once there was damage, a
\* number.
Framed(at) ==
  /\ Placed(at, [k \in 1..Len(sent) |-> Len(code(sent[k]))], Len(delivered), Len(sent))
  /\ Len(wire) <= at[Len(sent) + 1]
  /\ connection = "open" => Len(wire) = at[Len(sent) + 1]
  /\ \A k \in (Len(delivered) + 1)..Len(sent) : \A i \in 1..Len(code(sent[k])) :
       at[k] + i <= Len(wire) =>
         \/ wire[at[k] + i] = code(sent[k])[i]
         \/ corruptions > 0 /\ wire[at[k] + i] \in Number

WireTypeOK ==
  /\ wire \in Seq(Cell) /\ corruptions \in Nat /\ connection \in {"open", "cut"}
  /\ sent \in Seq(Message) /\ \A k \in 1..Len(sent) : Sound(sent[k])
  /\ delivered \in Seq(Message) /\ Len(delivered) <= Len(sent)

DeliveredInv == \A k \in 1..Len(delivered) : delivered[k] = arrives_as(sent[k])

StreamInv == \E at : Framed(at)

WireInv == WireTypeOK /\ DeliveredInv /\ StreamInv /\ NoGoodFrameRefused

\* The positions of the frames on their way.
LEMMA FramePositions ==
  ASSUME WireTypeOK, NEW at, Framed(at), NEW n, n = Len(delivered), NEW N, N = Len(sent)
  PROVE  /\ at \in [Nat -> Nat] /\ at[n + 1] = 0 /\ Len(wire) <= at[N + 1]
         /\ \A k \in (n + 1)..N : at[k + 1] = at[k] + Len(code(sent[k]))
         /\ \A j \in (n + 1)..(N + 1), k \in (n + 1)..(N + 1) : j < k => at[j] < at[k]
         /\ \A i \in 1..at[N + 1] : \E k \in (n + 1)..N : at[k] < i /\ i <= at[k + 1]
         /\ \A k \in (n + 1)..N : \A i \in 1..Len(code(sent[k])) :
              at[k] + i <= Len(wire) =>
                \/ wire[at[k] + i] = code(sent[k])[i]
                \/ corruptions > 0 /\ wire[at[k] + i] \in Number
<1> DEFINE len == [k \in 1..N |-> Len(code(sent[k]))]
<1>1. Placed(at, len, n, N) /\ Len(wire) <= at[N + 1]
  BY Zenon DEF Framed
<1>2. n \in Nat /\ N \in Nat
  BY LenProperties DEF WireTypeOK
<1>3. \A k \in (n + 1)..N : len[k] = Len(code(sent[k]))
  BY <1>2
<1> HIDE DEF len
<1>4. \A k \in (n + 1)..N : at[k + 1] = at[k] + len[k]
  BY <1>1, Zenon DEF Placed
<1>5. \A k \in (n + 1)..N : at[k + 1] = at[k] + Len(code(sent[k]))
  BY <1>3, <1>4, Zenon
<1>6. \A k \in (n + 1)..N : \A i \in 1..Len(code(sent[k])) :
        at[k] + i <= Len(wire) =>
          \/ wire[at[k] + i] = code(sent[k])[i]
          \/ corruptions > 0 /\ wire[at[k] + i] \in Number
  BY Zenon DEF Framed
<1> QED BY <1>1, <1>5, <1>6, Zenon DEF Placed

\* The reader looks at a header only when a frame is on its way, and then the
\* length it finds there is a number: of that frame, unless there was damage.
LEMMA HeaderCell ==
  ASSUME WireTypeOK, NEW at, Framed(at), Len(wire) >= 4
  PROVE  LET c == code(sent[Len(delivered) + 1])
         IN  /\ Len(delivered) + 1 \in 1..Len(sent)
             /\ Len(delivered) + 1 \in (Len(delivered) + 1)..Len(sent)
             /\ payload_len \in Nat
             /\ corruptions = 0 => payload_len = Len(c) - 5
<1> DEFINE n == Len(delivered)
           N == Len(sent)
           c == code(sent[n + 1])
<1>1. n \in Nat /\ N \in Nat /\ Len(wire) \in Nat /\ n <= N
  BY LenProperties DEF WireTypeOK
<1>2. /\ at \in [Nat -> Nat] /\ at[n + 1] = 0 /\ Len(wire) <= at[N + 1]
      /\ \A k \in (n + 1)..N : \A i \in 1..Len(code(sent[k])) :
           at[k] + i <= Len(wire) =>
             \/ wire[at[k] + i] = code(sent[k])[i]
             \/ corruptions > 0 /\ wire[at[k] + i] \in Number
  BY FramePositions, Zenon
<1>3. \A k \in 1..N : Sound(sent[k])
  BY DEF WireTypeOK
<1> HIDE DEF n, N
<1>4. n # N
  BY <1>1, <1>2
<1>5. n + 1 \in (n + 1)..N /\ n + 1 \in 1..N
  BY <1>1, <1>4
<1>6. Sound(sent[n + 1])
  BY <1>3, <1>5
<1>7. /\ Len(c) \in Nat /\ Len(c) >= 5
      /\ \E v \in Nat : c[4] = <<v>> /\ v = Len(c) - 5
  BY <1>6, CodeCells
<1> HIDE DEF c
<1>8. 4 \in 1..Len(c) /\ at[n + 1] + 4 = 4
  BY <1>2, <1>7
<1>9. wire[4] = c[4] \/ (corruptions > 0 /\ wire[4] \in Number)
  <2>1. \A i \in 1..Len(c) :
          at[n + 1] + i <= Len(wire) =>
             \/ wire[at[n + 1] + i] = c[i]
             \/ corruptions > 0 /\ wire[at[n + 1] + i] \in Number
    BY <1>2, <1>5, Zenon DEF c
  <2>2. \/ wire[at[n + 1] + 4] = c[4]
        \/ corruptions > 0 /\ wire[at[n + 1] + 4] \in Number
    BY <1>8, <2>1, Zenon
  <2> QED BY <1>8, <2>2
<1>10. payload_len \in Nat /\ (corruptions = 0 => payload_len = Len(c) - 5)
  <2>1. CASE wire[4] = c[4]
    BY <1>7, <2>1 DEF payload_len
  <2>2. CASE corruptions > 0 /\ wire[4] \in Number
    BY <2>2 DEF payload_len, Number
  <2> QED BY <1>9, <2>1, <2>2
<1> QED BY <1>5, <1>10 DEF n, N, c

\* A frame that passes decode_frame's checks is the frame that was sent next, even
\* on a damaged stream: its last cell is longer than one number, so it is the
\* undamaged checksum of a frame, and that checksum is as long as the frame.
LEMMA GoodFrameIsNext ==
  ASSUME WireTypeOK, NEW at, Framed(at), Len(wire) >= 4,
         NEW size, size = payload_len + 5, size <= Len(wire),
         NEW b, b = SubSeq(wire, 1, size), well_formed(b)
  PROVE  b = code(sent[Len(delivered) + 1])
<1> DEFINE n == Len(delivered)
           N == Len(sent)
<1>1. n \in Nat /\ N \in Nat /\ Len(wire) \in Nat /\ n <= N
  BY LenProperties DEF WireTypeOK
<1>2. /\ at \in [Nat -> Nat] /\ at[n + 1] = 0 /\ Len(wire) <= at[N + 1]
      /\ \A k \in (n + 1)..N : at[k + 1] = at[k] + Len(code(sent[k]))
      /\ \A j \in (n + 1)..(N + 1), k \in (n + 1)..(N + 1) : j < k => at[j] < at[k]
      /\ \A i \in 1..at[N + 1] : \E k \in (n + 1)..N : at[k] < i /\ i <= at[k + 1]
      /\ \A k \in (n + 1)..N : \A i \in 1..Len(code(sent[k])) :
           at[k] + i <= Len(wire) =>
             \/ wire[at[k] + i] = code(sent[k])[i]
             \/ corruptions > 0 /\ wire[at[k] + i] \in Number
  BY FramePositions, Zenon
<1>3. \A k \in 1..N : Sound(sent[k])
  BY DEF WireTypeOK
<1>4. payload_len \in Nat /\ n + 1 \in 1..N
  BY HeaderCell
<1> HIDE DEF n, N
<1>5. size \in Nat /\ size >= 5 /\ size \in 1..at[N + 1]
  BY <1>1, <1>2, <1>4, SMTT(30)
<1>6. /\ b \in Seq(Cell) /\ Len(b) = size /\ \A i \in 1..size : b[i] = wire[i]
  <2>1. wire \in Seq(Cell)
    BY DEF WireTypeOK
  <2>2. \A i \in 1..size : wire[i] \in Cell
    BY <1>1, <1>5, <2>1, ElementOfSeq
  <2> QED BY <1>5, <2>2, SubSeqProperties
<1>7. b[size] = SubSeq(b, 1, size - 1)
  BY <1>6 DEF well_formed, crc32, kCrcBytes
<1>8. Len(b[size]) = size - 1
  <2>1. \A i \in 1..(size - 1) : b[i] \in Cell
    BY <1>5, <1>6, ElementOfSeq
  <2>2. Len(SubSeq(b, 1, size - 1)) = size - 1
    BY <1>5, <2>1, SubSeqProperties
  <2> QED BY <1>7, <2>2
<1>9. b[size] \notin Number
  <2> SUFFICES ASSUME NEW v, b[size] = <<v>>
               PROVE  FALSE
    BY Zenon DEF Number
  <2>1. Len(<<v>>) = 1
    OBVIOUS
  <2>2. size - 1 = 1
    BY <1>8, <2>1, Zenon
  <2> QED BY <1>5, <2>2
<1>10. PICK k \in (n + 1)..N : at[k] < size /\ size <= at[k + 1]
  BY <1>2, <1>5
<1> DEFINE c == code(sent[k])
<1>11. /\ Len(c) \in Nat /\ Len(c) >= 5 /\ c \in Seq(Cell)
       /\ \A i \in 1..(Len(c) - 1) : c[i] \in Number
       /\ c[Len(c)] = SubSeq(c, 1, Len(c) - 1)
  <2>1. Sound(sent[k])
    BY <1>1, <1>3, <1>10
  <2> QED BY <2>1, CodeCells
<1>12. /\ at[k + 1] = at[k] + Len(c)
       /\ \A i \in 1..Len(c) :
            at[k] + i <= Len(wire) =>
              \/ wire[at[k] + i] = c[i]
              \/ corruptions > 0 /\ wire[at[k] + i] \in Number
  BY <1>2, <1>10, Zenon
<1> HIDE DEF c
<1>13. PICK i \in 1..Len(c) : at[k] + i = size
  <2>1. at[k] \in Nat /\ k \in Nat
    BY <1>1, <1>2, <1>10
  <2>2. size - at[k] \in 1..Len(c) /\ at[k] + (size - at[k]) = size
    BY <1>5, <1>10, <1>11, <1>12, <2>1, SMTT(30)
  <2> QED BY <2>2
<1>14. b[size] = c[i]
  <2>1. b[size] = wire[size]
    BY <1>5, <1>6
  <2> QED BY <1>9, <1>12, <1>13, <2>1
<1>15. i = Len(c)
  <2> SUFFICES ASSUME i # Len(c)
               PROVE  FALSE
    OBVIOUS
  <2>1. i \in 1..(Len(c) - 1)
    BY <1>11, <1>13
  <2> QED BY <1>9, <1>11, <1>14, <2>1, Zenon
<1>16. b[size] = SubSeq(c, 1, Len(c) - 1)
  BY <1>11, <1>14, <1>15
<1>17. Len(SubSeq(c, 1, Len(c) - 1)) = Len(c) - 1
  <2>1. \A j \in 1..(Len(c) - 1) : c[j] \in Cell
    BY <1>11, ElementOfSeq
  <2> QED BY <1>11, <2>1, SubSeqProperties
<1>18. size = Len(c) /\ at[k] = 0
  <2>1. size - 1 = Len(c) - 1
    BY <1>8, <1>16, <1>17, Zenon
  <2>2. at[k] \in Nat
    BY <1>1, <1>2, <1>10
  <2>3. at[k] + Len(c) = size
    BY <1>13, <1>15
  <2> QED BY <1>5, <1>11, <2>1, <2>2, <2>3
<1>19. k = n + 1
  <2> SUFFICES ASSUME k # n + 1
               PROVE  FALSE
    OBVIOUS
  <2>1. n + 1 \in (n + 1)..(N + 1) /\ k \in (n + 1)..(N + 1) /\ n + 1 < k
    BY <1>1, <1>10
  <2>2. at[n + 1] < at[k]
    BY <1>2, <2>1, Zenon
  <2> QED BY <1>2, <1>18, <2>2
<1>20. b = c
  <2>1. \A j \in 1..(size - 1) : b[j] = c[j]
    <3>1. SubSeq(b, 1, size - 1) = SubSeq(c, 1, size - 1)
      BY <1>7, <1>16, <1>18
    <3>2. \A j \in 1..(size - 1) : SubSeq(b, 1, size - 1)[j] = b[j]
      BY <1>5, <1>6, ElementOfSeq, SubSeqProperties
    <3>3. \A j \in 1..(size - 1) : SubSeq(c, 1, size - 1)[j] = c[j]
      BY <1>5, <1>11, <1>18, ElementOfSeq, SubSeqProperties
    <3> QED BY <3>1, <3>2, <3>3
  <2>2. \A j \in 1..size : b[j] = c[j]
    BY <1>5, <1>14, <1>15, <1>18, <2>1
  <2> QED BY <1>6, <1>11, <1>18, <2>2, SeqEqual
<1> QED BY <1>19, <1>20 DEF c, n

-----------------------------------------------------------------------------
(* The steps keep the invariant *)

LEMMA SendStep ==
  ASSUME WireInv, NEW f, NEW m, Sound(m), frame_of(m) = f, send_frame(f, m)
  PROVE  WireInv'
<1> DEFINE n == Len(delivered)
           N == Len(sent)
           c == code(m)
           L == Len(c)
<1>1. PICK at : Framed(at)
  BY DEF WireInv, StreamInv
<1>2. /\ wire \in Seq(Cell) /\ corruptions \in Nat
      /\ sent \in Seq(Message) /\ \A k \in 1..N : Sound(sent[k])
      /\ delivered \in Seq(Message) /\ n <= N
      /\ \A k \in 1..n : delivered[k] = arrives_as(sent[k])
  BY DEF WireInv, WireTypeOK, DeliveredInv
<1>3. n \in Nat /\ N \in Nat /\ Len(wire) \in Nat
  BY <1>2, LenProperties
<1>4. /\ connection = "open" /\ wire' = wire \o c /\ sent' = Append(sent, m)
      /\ UNCHANGED <<delivered, connection, reader, corruptions>>
  BY DEF send_frame, code
<1>5. c \in Seq(Cell) /\ L \in Nat /\ L >= 5
  BY CodeCells
<1> HIDE DEF c
<1>6. /\ wire' \in Seq(Cell) /\ Len(wire') = Len(wire) + L
      /\ \A i \in 1..Len(wire) : wire'[i] = wire[i]
      /\ \A i \in 1..L : wire'[Len(wire) + i] = c[i]
  BY <1>2, <1>4, <1>5, ConcatProperties
<1>7. /\ sent' \in Seq(Message) /\ Len(sent') = N + 1
      /\ \A k \in 1..N : sent'[k] = sent[k]
      /\ sent'[N + 1] = m
  <2>1. m \in Message
    BY DEF Sound
  <2> QED BY <1>2, <1>3, <1>4, <2>1, AppendProperties
<1>8. delivered' = delivered /\ Len(delivered') = n
  BY <1>4
<1>9. WireTypeOK'
  <2>1. \A k \in 1..(N + 1) : Sound(sent'[k])
    BY <1>2, <1>3, <1>7
  <2>2. n <= N + 1
    BY <1>2, <1>3
  <2> HIDE DEF n, N
  <2> QED BY <1>2, <1>4, <1>6, <1>7, <1>8, <2>1, <2>2, Zenon DEF WireTypeOK
<1>10. DeliveredInv'
  BY <1>2, <1>3, <1>7, <1>8 DEF DeliveredInv
<1>11. StreamInv'
  <2> DEFINE len == [k \in 1..N |-> Len(code(sent[k]))]
             longer == [k \in 1..Len(sent') |-> Len(code(sent'[k]))]
  <2>1. Placed(at, len, n, N) /\ Len(wire) = at[N + 1]
    BY <1>1, <1>4, Zenon DEF Framed
  <2>2. \A k \in (n + 1)..N : at[k + 1] = at[k] + Len(code(sent[k]))
    BY <1>1, FramePositions, Zenon DEF WireInv
  <2>3. \A k \in (n + 1)..N : \A i \in 1..Len(code(sent[k])) :
           at[k] + i <= Len(wire) =>
             \/ wire[at[k] + i] = code(sent[k])[i]
             \/ corruptions > 0 /\ wire[at[k] + i] \in Number
    BY <1>1, Zenon DEF Framed
  <2>4. PICK to : to = [at EXCEPT ![N + 2] = at[N + 1] + L]
    BY Zenon
  <2> HIDE DEF n, N, L
  <2>5. \A k \in (n + 1)..N : k \in 1..N /\ k \in 1..(N + 1)
    BY <1>3
  <2>6. \A k \in (n + 1)..N : longer[k] = len[k]
    BY <1>7, <2>5, Zenon
  <2>7. longer[N + 1] = L
    <3>1. N + 1 \in 1..(N + 1)
      BY <1>3
    <3> QED BY <1>7, <3>1, Zenon DEF L, c
  <2>8. L > 0
    BY <1>5
  <2> HIDE DEF len, longer
  <2>9. /\ Placed(to, longer, n, N + 1)
        /\ \A k \in (n + 1)..(N + 1) : to[k] = at[k]
        /\ to[N + 2] = at[N + 1] + L
    <3>1. n \in Nat /\ N \in Nat /\ n <= N /\ L \in Nat
      BY <1>2, <1>3, <1>5
    <3>2. Placed(at, len, n, N)
      BY <2>1
    <3>3. at \in [Nat -> Nat] /\ N + 2 \in Nat /\ N + 1 \in Nat
      BY <3>1, <3>2 DEF Placed
    <3>4. at[N + 1] + L \in Nat
      BY <3>1, <3>3
    <3>5. to \in [Nat -> Nat] /\ to[N + 2] = at[N + 1] + L
      BY <2>4, <3>3, <3>4, Zenon
    <3>6. \A k \in (n + 1)..(N + 1) : k \in Nat /\ k # N + 2
      BY <3>1
    <3>7. \A k \in (n + 1)..(N + 1) : to[k] = at[k]
      BY <2>4, <3>3, <3>6, Zenon
    <3>8. Placed(to, longer, n, N + 1)
      <4>1. PICK l \in Nat : l = L
        BY <3>1
      <4>2. PICK ln, lg : ln = len /\ lg = longer
        BY Zenon
      <4>3. Placed(at, ln, n, N) /\ l > 0 /\ lg[N + 1] = l /\ \A k \in (n + 1)..N : lg[k] = ln[k]
        BY <2>6, <2>7, <2>8, <3>2, <4>1, <4>2, Zenon
      <4>4. to[N + 2] = at[N + 1] + l
        BY <3>5, <4>1
      <4>5. to \in [Nat -> Nat] /\ \A k \in (n + 1)..(N + 1) : to[k] = at[k]
        BY <3>5, <3>7
      <4>6. Placed(to, lg, n, N + 1)
        BY <3>1, <4>3, <4>4, <4>5, PlacedAppend, ZenonT(60)
      <4> QED BY <4>2, <4>6, Zenon
    <3> QED BY <3>5, <3>7, <3>8
  <2>10. \A k \in Nat : at[k] \in Nat
    BY <1>2, <1>3, <2>1, PlacedBefore
  <2>11. \A k \in (n + 1)..(N + 1) : at[k] <= at[N + 1]
    BY <1>2, <1>3, <2>1, PlacedBefore
  <2>12. Len(wire') = to[N + 2] /\ to[N + 2] \in Nat
    <3>1. Len(wire') = Len(wire) + L
      BY <1>6 DEF L
    <3>2. Len(wire') = to[N + 2]
      BY <2>1, <2>9, <3>1, Zenon
    <3>3. Len(wire') \in Nat
      BY <1>3, <1>5, <3>1
    <3> QED BY <3>2, <3>3
  <2>13. ASSUME NEW k \in (n + 1)..(N + 1), NEW i \in 1..Len(code(sent'[k]))
         PROVE  \/ wire'[to[k] + i] = code(sent'[k])[i]
                \/ corruptions' > 0 /\ wire'[to[k] + i] \in Number
    <3>1. CASE k = N + 1
      <4>1. code(sent'[k]) = c
        BY <1>7, <3>1 DEF c
      <4>2. to[k] = Len(wire)
        BY <2>1, <2>9, <3>1, Zenon
      <4>3. i \in 1..L
        BY <4>1 DEF L
      <4> QED BY <1>6, <4>1, <4>2, <4>3, Zenon DEF L
    <3>2. CASE k # N + 1
      <4>1. /\ k \in (n + 1)..N /\ k \in 1..N /\ k \in Nat
            /\ k + 1 \in (n + 1)..(N + 1)
        BY <1>3, <3>2
      <4>2. to[k] = at[k] /\ sent'[k] = sent[k]
        BY <1>7, <2>9, <4>1, Zenon
      <4>3. i \in 1..Len(code(sent[k]))
        BY <4>2
      <4>4. at[k + 1] <= Len(wire) /\ at[k + 1] = at[k] + Len(code(sent[k]))
        BY <2>1, <2>2, <2>11, <4>1, Zenon
      <4>5. Len(code(sent[k])) \in Nat
        BY <1>2, <4>1, CodeCells
      <4>6. at[k] \in Nat
        BY <2>10, <4>1
      <4>7. at[k] + i \in 1..Len(wire) /\ at[k] + i <= Len(wire)
        BY <1>3, <4>3, <4>4, <4>5, <4>6
      <4>8. \/ wire[at[k] + i] = code(sent[k])[i]
            \/ corruptions > 0 /\ wire[at[k] + i] \in Number
        BY <2>3, <4>1, <4>3, <4>7, Zenon
      <4>9. wire'[at[k] + i] = wire[at[k] + i]
        BY <1>6, <4>7, Zenon
      <4> QED BY <1>4, <4>2, <4>8, <4>9, Zenon
    <3> QED BY <3>1, <3>2
  <2>14. (N + 1) + 1 = N + 2
    BY <1>3
  <2>15. Len(wire') <= to[N + 2]
    BY <2>12
  <2>16. Framed(to)'
    BY <1>7, <1>8, <2>9, <2>12, <2>13, <2>14, <2>15, Zenon DEF Framed, longer
  <2> QED BY <2>16 DEF StreamInv
<1>12. NoGoodFrameRefused'
  BY <1>4 DEF WireInv, NoGoodFrameRefused
<1> QED BY <1>9, <1>10, <1>11, <1>12 DEF WireInv

LEMMA CutStep ==
  ASSUME WireInv, cut
  PROVE  WireInv'
<1>1. PICK at : Framed(at)
  BY DEF WireInv, StreamInv
<1>2. wire \in Seq(Cell)
  BY DEF WireInv, WireTypeOK
<1>3. PICK n \in 0..Len(wire) : wire' = SubSeq(wire, 1, n)
  BY DEF cut
<1>4. connection' = "cut" /\ UNCHANGED <<sent, delivered, reader, corruptions>>
  BY DEF cut
<1>5. Len(wire) \in Nat /\ n \in Nat /\ n <= Len(wire)
  BY <1>2, <1>3, LenProperties
<1>6. wire' \in Seq(Cell) /\ Len(wire') = n /\ \A i \in 1..n : wire'[i] = wire[i]
  <2>1. \A i \in 1..n : wire[i] \in Cell
    BY <1>2, <1>5, ElementOfSeq
  <2> QED BY <1>3, <1>5, <2>1, SubSeqProperties
<1>7. WireTypeOK' /\ DeliveredInv' /\ NoGoodFrameRefused'
  <2>1. WireTypeOK'
    BY <1>4, <1>6, Zenon DEF WireInv, WireTypeOK
  <2>2. DeliveredInv'
    BY <1>4, Zenon DEF WireInv, DeliveredInv
  <2>3. NoGoodFrameRefused'
    BY <1>4 DEF NoGoodFrameRefused
  <2> QED BY <2>1, <2>2, <2>3
<1>8. Framed(at)'
  <2>1. /\ at \in [Nat -> Nat] /\ Len(wire) <= at[Len(sent) + 1]
        /\ Len(sent) \in Nat /\ Len(delivered) \in Nat
    <3>1. sent \in Seq(Message) /\ delivered \in Seq(Message)
      BY DEF WireInv, WireTypeOK
    <3> QED BY <1>1, <3>1, LenProperties DEF Framed, Placed
  <2>2. Len(wire') <= at[Len(sent) + 1]
    <3>1. at[Len(sent) + 1] \in Nat
      BY <2>1
    <3> QED BY <1>5, <1>6, <2>1, <3>1
  <2>3. ASSUME NEW k \in (Len(delivered) + 1)..Len(sent), NEW i \in 1..Len(code(sent[k])),
               at[k] + i <= Len(wire')
        PROVE  \/ wire'[at[k] + i] = code(sent[k])[i]
               \/ corruptions > 0 /\ wire'[at[k] + i] \in Number
    <3>1. k \in 1..Len(sent) /\ k \in Nat
      BY <2>1
    <3>2. Sound(sent[k])
      BY <3>1 DEF WireInv, WireTypeOK
    <3>3. Len(code(sent[k])) \in Nat
      BY <3>2, CodeCells
    <3>4. at[k] \in Nat /\ i \in Nat /\ i >= 1
      BY <2>1, <3>1, <3>3
    <3>5. at[k] + i \in 1..n /\ at[k] + i <= Len(wire)
      BY <1>5, <1>6, <2>3, <3>4
    <3>6. \/ wire[at[k] + i] = code(sent[k])[i]
          \/ corruptions > 0 /\ wire[at[k] + i] \in Number
      BY <1>1, <2>3, <3>5, Zenon DEF Framed
    <3> QED BY <1>6, <3>5, <3>6, Zenon
  <2>4. Placed(at, [k \in 1..Len(sent) |-> Len(code(sent[k]))], Len(delivered), Len(sent))
    BY <1>1, Zenon DEF Framed
  <2>5. connection' # "open"
    BY <1>4
  <2> QED BY <1>4, <2>2, <2>3, <2>4, <2>5, Zenon DEF Framed
<1> QED BY <1>7, <1>8 DEF WireInv, StreamInv

LEMMA CorruptStep ==
  ASSUME WireInv, corrupt
  PROVE  WireInv'
<1>1. PICK at : Framed(at)
  BY DEF WireInv, StreamInv
<1>2. wire \in Seq(Cell) /\ corruptions \in Nat
  BY DEF WireInv, WireTypeOK
<1>3. PICK j \in DOMAIN wire, v \in Damage : wire' = [wire EXCEPT ![j] = <<v>>]
  BY DEF corrupt
<1>4. corruptions' = corruptions + 1 /\ UNCHANGED <<sent, delivered, connection, reader>>
  BY DEF corrupt
<1>5. <<v>> \in Number /\ <<v>> \in Cell
  BY <1>3, WireAssumption DEF Number, Cell
<1>6. /\ wire' \in Seq(Cell) /\ Len(wire') = Len(wire)
      /\ \A i \in 1..Len(wire) : wire'[i] = wire[i] \/ wire'[i] = <<v>>
  <2>1. Len(wire) \in Nat /\ DOMAIN wire = 1..Len(wire) /\ wire \in [1..Len(wire) -> Cell]
    BY <1>2, LenProperties
  <2>2. PICK c : c = <<v>>
    OBVIOUS
  <2>3. c \in Cell /\ wire' = [wire EXCEPT ![j] = c]
    BY <1>3, <1>5, <2>2
  <2>4. wire' \in [1..Len(wire) -> Cell]
    BY <2>1, <2>3
  <2>5. wire' \in Seq(Cell) /\ Len(wire') = Len(wire)
    BY <2>1, <2>4, SeqDef, LenProperties
  <2>6. \A i \in 1..Len(wire) : wire'[i] = wire[i] \/ wire'[i] = c
    BY <2>1, <2>3
  <2> QED BY <2>2, <2>5, <2>6
<1>7. corruptions' \in Nat /\ corruptions' > 0
  BY <1>2, <1>4
<1>8. WireTypeOK' /\ DeliveredInv' /\ NoGoodFrameRefused'
  <2>1. WireTypeOK'
    BY <1>4, <1>6, <1>7, Zenon DEF WireInv, WireTypeOK
  <2>2. DeliveredInv'
    BY <1>4, Zenon DEF WireInv, DeliveredInv
  <2>3. NoGoodFrameRefused'
    BY <1>7 DEF NoGoodFrameRefused
  <2> QED BY <2>1, <2>2, <2>3
<1>9. Framed(at)'
  <2>1. ASSUME NEW k \in (Len(delivered) + 1)..Len(sent), NEW i \in 1..Len(code(sent[k])),
               at[k] + i <= Len(wire)
        PROVE  \/ wire'[at[k] + i] = code(sent[k])[i]
               \/ corruptions' > 0 /\ wire'[at[k] + i] \in Number
    <3>1. at \in [Nat -> Nat] /\ Len(sent) \in Nat /\ Len(delivered) \in Nat /\ Len(wire) \in Nat
      <4>1. sent \in Seq(Message) /\ delivered \in Seq(Message)
        BY DEF WireInv, WireTypeOK
      <4> QED BY <1>1, <1>2, <4>1, LenProperties DEF Framed, Placed
    <3>2. k \in 1..Len(sent) /\ k \in Nat
      BY <3>1
    <3>3. Sound(sent[k])
      BY <3>2 DEF WireInv, WireTypeOK
    <3>4. Len(code(sent[k])) \in Nat
      BY <3>3, CodeCells
    <3>5. at[k] \in Nat /\ i \in Nat /\ i >= 1
      BY <3>1, <3>2, <3>4
    <3>6. Len(wire) \in Nat
      BY <3>1
    <3>7. at[k] + i \in 1..Len(wire)
      BY <2>1, <3>5, <3>6
    <3>8. \/ wire[at[k] + i] = code(sent[k])[i]
          \/ corruptions > 0 /\ wire[at[k] + i] \in Number
      BY <1>1, <2>1, Zenon DEF Framed
    <3>9. wire'[at[k] + i] = wire[at[k] + i] \/ wire'[at[k] + i] \in Number
      BY <1>5, <1>6, <3>7
    <3>10. CASE wire'[at[k] + i] = wire[at[k] + i]
      <4>1. PICK x, y : x = wire'[at[k] + i] /\ y = wire[at[k] + i]
        OBVIOUS
      <4> QED BY <1>7, <3>8, <3>10, <4>1, Zenon
    <3>11. CASE wire'[at[k] + i] \in Number
      BY <1>7, <3>11
    <3> QED BY <3>9, <3>10, <3>11, Zenon
  <2>2. /\ Placed(at, [k \in 1..Len(sent) |-> Len(code(sent[k]))], Len(delivered), Len(sent))
        /\ Len(wire) <= at[Len(sent) + 1]
        /\ connection = "open" => Len(wire) = at[Len(sent) + 1]
    BY <1>1, Zenon DEF Framed
  <2> QED BY <1>4, <1>6, <2>1, <2>2, Zenon DEF Framed
<1> QED BY <1>8, <1>9 DEF WireInv, StreamInv

\* On a whole stream the frame that the reader has before it is the next one sent.
LEMMA WholeStream ==
  ASSUME WireTypeOK, NEW at, Framed(at), connection = "open", corruptions = 0,
         Len(wire) >= 4, NEW c, c = code(sent[Len(delivered) + 1])
  PROVE  /\ payload_len = Len(c) - 5 /\ Len(c) \in Nat /\ Len(c) <= Len(wire)
         /\ Len(c) <= max_bytes /\ well_formed(c) /\ SubSeq(wire, 1, Len(c)) = c
<1> DEFINE n == Len(delivered)
           N == Len(sent)
<1>1. n \in Nat /\ N \in Nat /\ Len(wire) \in Nat /\ n <= N
  BY LenProperties DEF WireTypeOK
<1>2. /\ n + 1 \in 1..N /\ n + 1 \in (n + 1)..N
      /\ payload_len = Len(c) - 5
  BY HeaderCell
<1>3. Sound(sent[n + 1])
  BY <1>2 DEF WireTypeOK
<1>4. c \in Seq(Cell) /\ Len(c) \in Nat /\ Len(c) >= 5 /\ Len(c) <= max_bytes /\ well_formed(c)
  BY <1>3, CodeCells
<1>5. /\ at \in [Nat -> Nat] /\ at[n + 1] = 0
      /\ at[(n + 1) + 1] = at[n + 1] + Len(c)
      /\ \A i \in 1..Len(c) :
           at[n + 1] + i <= Len(wire) =>
             \/ wire[at[n + 1] + i] = c[i]
             \/ corruptions > 0 /\ wire[at[n + 1] + i] \in Number
  BY <1>2, FramePositions, Zenon
<1>6. Len(wire) = at[N + 1]
  BY DEF Framed
<1>7. Placed(at, [k \in 1..N |-> Len(code(sent[k]))], n, N)
  BY Zenon DEF Framed
<1> HIDE DEF n, N
<1>8. at[(n + 1) + 1] <= at[N + 1]
  <2>1. \A k \in (n + 1)..(N + 1) : at[k] <= at[N + 1]
    BY <1>1, <1>7, PlacedBefore
  <2>2. (n + 1) + 1 \in (n + 1)..(N + 1)
    BY <1>1, <1>2
  <2> QED BY <2>1, <2>2, Zenon
<1>9. Len(c) <= Len(wire)
  <2>1. at[(n + 1) + 1] = Len(c)
    BY <1>4, <1>5
  <2> QED BY <1>6, <1>8, <2>1, Zenon
<1>10. \A i \in 1..Len(c) : wire[i] = c[i]
  <2> TAKE i \in 1..Len(c)
  <2>1. at[n + 1] + i = i /\ i <= Len(wire)
    BY <1>1, <1>4, <1>5, <1>9
  <2>2. ~(corruptions > 0)
    OBVIOUS
  <2>3. at[n + 1] + i <= Len(wire)
    BY <2>1
  <2>4. wire[at[n + 1] + i] = c[i]
    BY <1>5, <2>2, <2>3, Zenon
  <2> QED BY <2>1, <2>4
<1>11. SubSeq(wire, 1, Len(c)) = c
  <2>1. \A i \in 1..Len(c) : wire[i] \in Cell
    BY <1>4, <1>10, ElementOfSeq
  <2>2. /\ SubSeq(wire, 1, Len(c)) \in Seq(Cell) /\ Len(SubSeq(wire, 1, Len(c))) = Len(c)
        /\ \A i \in 1..Len(c) : SubSeq(wire, 1, Len(c))[i] = wire[i]
    BY <1>4, <2>1, SubSeqProperties
  <2> QED BY <1>4, <1>10, <2>2, SeqEqual
<1> QED BY <1>2, <1>4, <1>9, <1>11

\* recv_frame returns an error.
LEMMA FailStep ==
  ASSUME WireInv, recv_fails, connection = "cut" \/ corruptions > 0
  PROVE  WireInv'
<1>1. reader' = "failed" /\ UNCHANGED <<wire, sent, delivered, connection, corruptions>>
  BY DEF recv_fails
<1>2. WireTypeOK' /\ DeliveredInv'
  BY <1>1, Zenon DEF WireInv, WireTypeOK, DeliveredInv
<1>3. PICK at : Framed(at)
  BY DEF WireInv, StreamInv
<1>4. Framed(at)'
  BY <1>1, <1>3, Zenon DEF Framed
<1>5. NoGoodFrameRefused'
  BY <1>1 DEF NoGoodFrameRefused
<1> QED BY <1>2, <1>4, <1>5 DEF WireInv, StreamInv

\* recv_frame returns a frame.
LEMMA DeliverStep ==
  ASSUME WireInv, Len(wire) >= 4, NEW size, size = payload_len + 5, size <= Len(wire),
         NEW b, b = SubSeq(wire, 1, size), well_formed(b),
         delivered' = Append(delivered, content(decode_frame(b))),
         wire' = SubSeq(wire, size + 1, Len(wire)),
         UNCHANGED <<sent, connection, reader, corruptions>>
  PROVE  WireInv'
<1> DEFINE n == Len(delivered)
           N == Len(sent)
           c == code(sent[n + 1])
           L == Len(c)
           W == Len(wire)
<1>1. PICK at : Framed(at)
  BY DEF WireInv, StreamInv
<1>2. WireTypeOK
  BY DEF WireInv
<1>3. /\ wire \in Seq(Cell) /\ corruptions \in Nat
      /\ sent \in Seq(Message) /\ \A k \in 1..N : Sound(sent[k])
      /\ delivered \in Seq(Message) /\ n <= N
  BY DEF WireInv, WireTypeOK
<1>4. n \in Nat /\ N \in Nat /\ W \in Nat
  BY <1>3, LenProperties
<1>5. n + 1 \in 1..N /\ payload_len \in Nat
  BY <1>1, <1>2, HeaderCell
<1>6. b = c
  BY <1>1, <1>2, GoodFrameIsNext
<1>7. Sound(sent[n + 1])
  BY <1>3, <1>5
<1>8. c \in Seq(Cell) /\ L \in Nat /\ L >= 5 /\ content(decode_frame(c)) = arrives_as(sent[n + 1])
  BY <1>7, CodeCells
<1>9. size = L /\ size \in Nat
  <2>1. size \in Nat
    BY <1>5
  <2>2. \A i \in 1..size : wire[i] \in Cell
    BY <1>3, <1>4, <2>1, ElementOfSeq
  <2>3. Len(b) = size
    BY <2>1, <2>2, SubSeqProperties
  <2> QED BY <1>6, <2>1, <2>3
<1>10. /\ delivered' \in Seq(Message) /\ Len(delivered') = n + 1
       /\ \A k \in 1..n : delivered'[k] = delivered[k]
       /\ delivered'[n + 1] = arrives_as(sent[n + 1])
  <2>1. delivered' = Append(delivered, arrives_as(sent[n + 1]))
    BY <1>6, <1>8, Zenon
  <2>2. arrives_as(sent[n + 1]) \in Message
    BY <1>7 DEF Sound
  <2> QED BY <1>3, <1>4, <2>1, <2>2, AppendProperties
<1> HIDE DEF c
<1>11. /\ wire' \in Seq(Cell) /\ Len(wire') = W - L
       /\ \A i \in 1..(W - L) : wire'[i] = wire[L + i]
  <2>1. wire' = SubSeq(wire, L + 1, W) /\ L <= W
    BY <1>9
  <2>2. \A i \in (L + 1)..W : wire[i] \in Cell
    BY <1>3, <1>4, <1>8, ElementOfSeq
  <2> HIDE DEF L, W
  <2>3. /\ SubSeq(wire, L + 1, W) \in Seq(Cell)
        /\ Len(SubSeq(wire, L + 1, W)) = IF L + 1 <= W THEN W - (L + 1) + 1 ELSE 0
        /\ \A i \in 1..(W - (L + 1) + 1) : SubSeq(wire, L + 1, W)[i] = wire[(L + 1) + i - 1]
    BY <1>4, <1>8, <2>2, SubSeqProperties
  <2>4. L \in Nat /\ W \in Nat /\ L <= W
    BY <1>4, <1>8, <2>1
  <2>5. Len(wire') = IF L + 1 <= W THEN W - (L + 1) + 1 ELSE 0
    BY <2>1, <2>3, Zenon
  <2>6. Len(wire') = W - L
    BY <2>4, <2>5
  <2>7. ASSUME NEW i \in 1..(W - L)
        PROVE  wire'[i] = wire[L + i]
    <3>1. i \in 1..(W - (L + 1) + 1) /\ (L + 1) + i - 1 = L + i
      BY <1>4, <1>8
    <3> QED BY <2>1, <2>3, <3>1
  <2> QED BY <2>1, <2>3, <2>6, <2>7
<1> HIDE DEF L, W
<1>12. n + 1 <= N
  BY <1>4, <1>5
<1>13. sent' = sent /\ connection' = connection /\ corruptions' = corruptions
  OBVIOUS
<1>14. connection \in {"open", "cut"}
  BY <1>2 DEF WireTypeOK
<1>15. WireTypeOK'
  BY <1>3, <1>10, <1>11, <1>12, <1>13, <1>14, Zenon DEF WireTypeOK
<1>16. DeliveredInv'
  <2>1. \A k \in 1..n : delivered[k] = arrives_as(sent[k])
    BY DEF WireInv, DeliveredInv
  <2>2. \A k \in 1..(n + 1) : k \in 1..n \/ k = n + 1
    BY <1>4
  <2>3. \A k \in 1..(n + 1) : delivered'[k] = arrives_as(sent[k])
    BY <1>10, <2>1, <2>2, Zenon
  <2> QED BY <1>10, <2>3, Zenon DEF DeliveredInv
<1>17. StreamInv'
  <2> DEFINE len == [k \in 1..N |-> Len(code(sent[k]))]
  <2>1. PICK to : to = [k \in Nat |-> IF at[k] >= L THEN at[k] - L ELSE 0]
    BY Zenon
  <2>2. Placed(at, len, n, N)
    BY <1>1, Zenon DEF Framed
  <2>3. len[n + 1] = L
    BY <1>5 DEF L, c
  <2>4. \A k \in (n + 1)..N : \A i \in 1..Len(code(sent[k])) :
          at[k] + i <= W =>
            \/ wire[at[k] + i] = code(sent[k])[i]
            \/ corruptions > 0 /\ wire[at[k] + i] \in Number
    BY <1>1, Zenon DEF Framed, W
  <2>5. W <= at[N + 1] /\ (connection = "open" => W = at[N + 1])
    BY <1>1, Zenon DEF Framed, W
  <2> HIDE DEF len, n, N
  <2>6. /\ Placed(to, len, n + 1, N)
        /\ \A k \in (n + 2)..(N + 1) : at[k] = to[k] + L
    BY <1>4, <1>8, <1>12, <2>1, <2>2, <2>3, PlacedShift, SMTT(30)
  <2>7. \A k \in Nat : to[k] \in Nat
    BY <2>6 DEF Placed
  <2>8. N + 1 \in (n + 2)..(N + 1) /\ N + 1 \in Nat
    BY <1>4, <1>12
  <2>9. at[N + 1] = to[N + 1] + L /\ to[N + 1] \in Nat
    BY <2>6, <2>7, <2>8
  <2>10. W \in Nat /\ L \in Nat
    BY <1>4, <1>8
  <2>11. W <= to[N + 1] + L /\ (connection = "open" => W = to[N + 1] + L)
    BY <2>5, <2>9, Zenon
  <2>12. PICK end \in Nat : end = to[N + 1]
    BY <2>9
  <2>13. W <= end + L /\ (connection = "open" => W = end + L)
    BY <2>11, <2>12, Zenon
  <2>14. W - L <= end /\ (connection = "open" => W - L = end)
    BY <2>10, <2>13
  <2>15. W - L <= to[N + 1] /\ (connection = "open" => W - L = to[N + 1])
    BY <2>12, <2>14, Zenon
  <2>16. ASSUME NEW k \in ((n + 1) + 1)..N, NEW i \in 1..Len(code(sent[k])),
                to[k] + i <= W - L
         PROVE  \/ wire'[to[k] + i] = code(sent[k])[i]
                \/ corruptions > 0 /\ wire'[to[k] + i] \in Number
    <3>1. k \in (n + 1)..N /\ k \in 1..N /\ k \in Nat /\ k \in (n + 2)..(N + 1)
      BY <1>4
    <3>2. Len(code(sent[k])) \in Nat
      BY <1>3, <3>1, CodeCells DEF N
    <3>3. to[k] \in Nat /\ at[k] = to[k] + L /\ i \in Nat /\ i >= 1
      BY <2>6, <2>7, <3>1, <3>2
    <3>4. to[k] + i \in 1..(W - L) /\ at[k] + i = L + (to[k] + i) /\ at[k] + i <= W
      <4>1. PICK e \in Nat : e = to[k]
        BY <3>3
      <4>2. at[k] = e + L /\ e + i <= W - L
        BY <2>16, <3>3, <4>1, Zenon
      <4>3. i \in Nat /\ i >= 1
        BY <3>3
      <4>4. PICK a \in Nat : a = at[k]
        BY <2>10, <4>2
      <4>5. a = e + L
        BY <4>2, <4>4, Zenon
      <4>6. e + i \in 1..(W - L) /\ a + i = L + (e + i) /\ a + i <= W
        BY <2>10, <4>2, <4>3, <4>5
      <4>7. e + i \in 1..(W - L) /\ at[k] + i = L + (e + i) /\ at[k] + i <= W
        BY <4>4, <4>6, Zenon
      <4> QED BY <4>1, <4>7, Zenon
    <3>5. wire'[to[k] + i] = wire[L + (to[k] + i)]
      BY <1>11, <3>4, Zenon
    <3>6. wire'[to[k] + i] = wire[at[k] + i]
      BY <3>4, <3>5
    <3>7. \/ wire[at[k] + i] = code(sent[k])[i]
          \/ corruptions > 0 /\ wire[at[k] + i] \in Number
      BY <2>4, <2>16, <3>1, <3>4, Zenon
    <3> QED BY <3>6, <3>7, Zenon
  <2>17. Placed(to, [k \in 1..Len(sent') |-> Len(code(sent'[k]))], Len(delivered'), Len(sent'))
    BY <1>10, <1>13, <2>6, Zenon DEF len, N
  <2>18. Framed(to)'
    <3>1. Len(wire') <= to[Len(sent') + 1]
      BY <1>11, <1>13, <2>15, Zenon DEF N
    <3>2. connection' = "open" => Len(wire') = to[Len(sent') + 1]
      BY <1>11, <1>13, <2>15, Zenon DEF N
    <3>3. ASSUME NEW k \in (Len(delivered') + 1)..Len(sent'), NEW i \in 1..Len(code(sent'[k])),
                 to[k] + i <= Len(wire')
          PROVE  \/ wire'[to[k] + i] = code(sent'[k])[i]
                 \/ corruptions' > 0 /\ wire'[to[k] + i] \in Number
      <4>1. k \in ((n + 1) + 1)..N /\ i \in 1..Len(code(sent[k])) /\ to[k] + i <= W - L
        BY <1>10, <1>11, <1>13, <3>3, Zenon DEF N
      <4> QED BY <1>13, <2>16, <4>1, Zenon
    <3> QED BY <2>17, <3>1, <3>2, <3>3, Zenon DEF Framed
  <2> QED BY <2>18 DEF StreamInv
<1>18. NoGoodFrameRefused'
  BY DEF WireInv, NoGoodFrameRefused
<1> QED BY <1>15, <1>16, <1>17, <1>18 DEF WireInv

LEMMA RecvStep ==
  ASSUME WireInv, recv_frame
  PROVE  WireInv'
<1> DEFINE size == payload_len + 5
           b == SubSeq(wire, 1, size)
           c == code(sent[Len(delivered) + 1])
<1>1. PICK at : Framed(at)
  BY DEF WireInv, StreamInv
<1>2. WireTypeOK /\ corruptions \in Nat /\ max_bytes \in Nat
  BY WireAssumption DEF WireInv, WireTypeOK
<1>3. connection = "open" \/ connection = "cut"
  BY <1>2 DEF WireTypeOK
<1>4. CASE oversized /\ recv_fails
  <2>1. Len(wire) >= 4 /\ payload_len > max_bytes - 4 - 1
    BY <1>4 DEF oversized, kHeaderNoPayload, kCrcBytes
  <2>2. ASSUME connection = "open", corruptions = 0
        PROVE  FALSE
    <3>1. payload_len = Len(c) - 5 /\ Len(c) \in Nat /\ Len(c) <= max_bytes
      BY <1>1, <1>2, <2>1, <2>2, WholeStream
    <3> QED BY <1>2, <2>1, <3>1
  <2>3. connection = "cut" \/ corruptions > 0
    BY <1>2, <1>3, <2>2
  <2> QED BY <1>4, <2>3, FailStep
<1>5. CASE connection = "cut" /\ recv_fails
  BY <1>5, FailStep
<1>6. CASE frame_ready /\ well_formed(b)
           /\ delivered' = Append(delivered, content(decode_frame(b)))
           /\ wire' = SubSeq(wire, size + 1, Len(wire))
           /\ UNCHANGED <<sent, connection, reader, corruptions>>
  <2>1. Len(wire) >= 4 /\ Len(wire) >= 4 + payload_len + 1
    BY <1>6 DEF frame_ready, kHeaderNoPayload, kCrcBytes
  <2>2. payload_len \in Nat /\ Len(wire) \in Nat
    <3>1. wire \in Seq(Cell)
      BY <1>2 DEF WireTypeOK
    <3> QED BY <1>1, <1>2, <2>1, <3>1, HeaderCell, LenProperties
  <2>3. size <= Len(wire)
    BY <2>1, <2>2
  <2> HIDE DEF size, b
  <2>4. PICK z, y : z = size /\ y = b
    BY Zenon
  <2>5. z = payload_len + 5 /\ y = SubSeq(wire, 1, z) /\ z <= Len(wire) /\ well_formed(y)
    BY <1>6, <2>3, <2>4, Zenon DEF size, b
  <2>6. /\ delivered' = Append(delivered, content(decode_frame(y)))
        /\ wire' = SubSeq(wire, z + 1, Len(wire))
        /\ UNCHANGED <<sent, connection, reader, corruptions>>
    BY <1>6, <2>4, Zenon
  <2> QED BY <2>1, <2>5, <2>6, DeliverStep
<1>7. CASE frame_ready /\ ~well_formed(b) /\ recv_fails
  <2>1. Len(wire) >= 4
    BY <1>7 DEF frame_ready, kHeaderNoPayload
  <2>2. ASSUME connection = "open", corruptions = 0
        PROVE  FALSE
    <3>1. /\ payload_len = Len(c) - 5 /\ Len(c) \in Nat
          /\ well_formed(c) /\ SubSeq(wire, 1, Len(c)) = c
      BY <1>1, <1>2, <2>1, <2>2, WholeStream
    <3>2. size = Len(c)
      BY <3>1
    <3> QED BY <1>7, <3>1, <3>2, Zenon
  <2>3. connection = "cut" \/ corruptions > 0
    BY <1>2, <1>3, <2>2
  <2> QED BY <1>7, <2>3, FailStep
<1>8. frame_ready => 4 + payload_len + 1 = size
  <2> SUFFICES ASSUME frame_ready
               PROVE  4 + payload_len + 1 = size
    OBVIOUS
  <2>1. Len(wire) >= 4
    BY DEF frame_ready, kHeaderNoPayload
  <2>2. payload_len \in Nat
    BY <1>1, <1>2, <2>1, HeaderCell
  <2> QED BY <2>2
<1> QED BY <1>4, <1>5, <1>6, <1>7, <1>8, Zenon DEF recv_frame, kHeaderNoPayload, kCrcBytes

LEMMA WireInvInit == WireInit => WireInv
<1> SUFFICES ASSUME WireInit
             PROVE  WireInv
  OBVIOUS
<1>1. /\ wire = << >> /\ sent = << >> /\ delivered = << >> /\ connection = "open"
      /\ reader = "reading" /\ corruptions = 0
  BY DEF WireInit
<1>2. Len(wire) = 0 /\ Len(sent) = 0 /\ Len(delivered) = 0
  BY <1>1
<1>3. wire \in Seq(Cell) /\ sent \in Seq(Message) /\ delivered \in Seq(Message)
  BY <1>1
<1>4. WireTypeOK
  BY <1>1, <1>2, <1>3 DEF WireTypeOK
<1>5. DeliveredInv
  BY <1>2 DEF DeliveredInv
<1>6. PICK at : at = [k \in Nat |-> 0]
  OBVIOUS
<1>7. at \in [Nat -> Nat] /\ at[1] = 0
  BY <1>6
<1>8. 0 + 1 = 1 /\ \A k \in 1..0 : FALSE
  OBVIOUS
<1>9. \A j \in 1..1, k \in 1..1 : ~(j < k)
  OBVIOUS
<1>10. \A len : Placed(at, len, 0, 0)
  BY <1>7, <1>8, <1>9, Zenon DEF Placed
<1>11. Len(wire) <= at[1] /\ Len(wire) = at[1]
  BY <1>2, <1>7
<1>12. Framed(at)
  BY <1>2, <1>8, <1>10, <1>11, Zenon DEF Framed
<1>13. NoGoodFrameRefused
  BY <1>1 DEF NoGoodFrameRefused
<1> QED BY <1>4, <1>5, <1>12, <1>13 DEF WireInv, StreamInv

LEMMA WireInvNext == WireInv /\ [WireNext]_wire_vars => WireInv'
<1> SUFFICES ASSUME WireInv, [WireNext]_wire_vars
             PROVE  WireInv'
  OBVIOUS
<1>1. ASSUME NEW d \in Devices,
             send_frame(device_frame(d), [type |-> PUBLISH_DEVICE, device |-> d])
      PROVE  WireInv'
  <2>1. encodable(device_frame(d))
    BY <1>1 DEF send_frame
  <2>2. PICK m : m = [type |-> PUBLISH_DEVICE, device |-> d]
    OBVIOUS
  <2>3. Sound(m) /\ frame_of(m) = device_frame(d)
    BY <2>1, <2>2, SoundDevice
  <2>4. send_frame(device_frame(d), m)
    BY <1>1, <2>2, Zenon
  <2> QED BY <2>3, <2>4, SendStep
<1>2. ASSUME send_frame(heartbeat_frame, [type |-> HEARTBEAT, device |-> no_device])
      PROVE  WireInv'
  <2>1. encodable(heartbeat_frame)
    BY <1>2 DEF send_frame
  <2>2. PICK m : m = [type |-> HEARTBEAT, device |-> no_device]
    OBVIOUS
  <2>3. Sound(m) /\ frame_of(m) = heartbeat_frame
    BY <2>1, <2>2, SoundHeartbeat
  <2>4. send_frame(heartbeat_frame, m)
    BY <1>2, <2>2, Zenon
  <2> QED BY <2>3, <2>4, SendStep
<1>3. CASE UNCHANGED wire_vars
  <2>1. UNCHANGED <<wire, sent, delivered, connection, reader, corruptions>>
    BY <1>3 DEF wire_vars
  <2>2. PICK at : Framed(at)
    BY DEF WireInv, StreamInv
  <2>3. Framed(at)'
    BY <2>1, <2>2, Zenon DEF Framed
  <2>4. WireTypeOK' /\ DeliveredInv' /\ NoGoodFrameRefused'
    BY <2>1, Zenon DEF WireInv, WireTypeOK, DeliveredInv, NoGoodFrameRefused
  <2> QED BY <2>3, <2>4 DEF WireInv, StreamInv
<1> QED BY <1>1, <1>2, <1>3, RecvStep, CutStep, CorruptStep, Zenon DEF WireNext

-----------------------------------------------------------------------------
(* The results *)

LEMMA InvPrefix == WireInv => DeliveredIsPrefixOfSent
<1> SUFFICES ASSUME WireInv
             PROVE  DeliveredIsPrefixOfSent
  OBVIOUS
<1> DEFINE n == Len(delivered)
           N == Len(sent)
           t == [i \in DOMAIN sent |-> arrives_as(sent[i])]
<1>1. /\ sent \in Seq(Message) /\ delivered \in Seq(Message) /\ n <= N
      /\ \A k \in 1..N : Sound(sent[k])
      /\ \A k \in 1..n : delivered[k] = arrives_as(sent[k])
  BY DEF WireInv, WireTypeOK, DeliveredInv
<1>2. n \in Nat /\ N \in Nat /\ DOMAIN sent = 1..N
  BY <1>1, LenProperties
<1>3. \A k \in 1..N : arrives_as(sent[k]) \in Message
  BY <1>1 DEF Sound
<1>4. t \in Seq(Message) /\ Len(t) = N
  <2>1. t \in [1..N -> Message]
    BY <1>2, <1>3
  <2> QED BY <1>2, <2>1, SeqDef, LenProperties
<1>5. \A k \in 1..n : t[k] = delivered[k]
  BY <1>1, <1>2
<1> HIDE DEF t
<1>6. SubSeq(delivered, 1, n) = SubSeq(t, 1, n)
  <2>1. \A k \in 1..n : delivered[k] \in Message /\ t[k] \in Message
    BY <1>1, <1>5, ElementOfSeq
  <2>2. /\ SubSeq(delivered, 1, n) \in Seq(Message) /\ Len(SubSeq(delivered, 1, n)) = n
        /\ \A k \in 1..n : SubSeq(delivered, 1, n)[k] = delivered[k]
    BY <1>2, <2>1, SubSeqProperties
  <2>3. /\ SubSeq(t, 1, n) \in Seq(Message) /\ Len(SubSeq(t, 1, n)) = n
        /\ \A k \in 1..n : SubSeq(t, 1, n)[k] = t[k]
    BY <1>2, <2>1, SubSeqProperties
  <2> QED BY <1>5, <2>2, <2>3, SeqEqual
<1> QED BY <1>1, <1>4, <1>6, Zenon DEF DeliveredIsPrefixOfSent, IsPrefix, t

\* What recv_frame hands to the coordinator is always a prefix of what send_frame
\* put on the wire, record for record, whatever the bounds on frames and strings,
\* wherever the stream is cut and however many of its cells are damaged.
THEOREM StreamStaysInStep == WireSpec => []DeliveredIsPrefixOfSent
<1>1. WireInit => WireInv
  BY WireInvInit
<1>2. WireInv /\ [WireNext]_wire_vars => WireInv'
  BY WireInvNext
<1>3. WireInv => DeliveredIsPrefixOfSent
  BY InvPrefix
<1> QED BY <1>1, <1>2, <1>3, PTL DEF WireSpec

\* recv_frame never refuses, as too large or as malformed, a frame that
\* encode_frame accepted, unless the stream was cut or damaged.
THEOREM GoodFramesAccepted == WireSpec => []NoGoodFrameRefused
<1>1. WireInit => WireInv
  BY WireInvInit
<1>2. WireInv /\ [WireNext]_wire_vars => WireInv'
  BY WireInvNext
<1>3. WireInv => NoGoodFrameRefused
  BY DEF WireInv
<1> QED BY <1>1, <1>2, <1>3, PTL DEF WireSpec
=============================================================================
