----------------------------- MODULE WireProtocol -----------------------------
(***************************************************************************)
(* The framed protocol between worker and coordinator: encode_frame and    *)
(* decode_frame, the payload codec (src/core/protocol.cpp), and send_frame *)
(* and recv_frame on a socket (src/core/runtime.cpp), in one direction of  *)
(* a connection.                                                           *)
(*                                                                         *)
(* The stream is a sequence of cells.  A cell is one field of the header,  *)
(* one field or one character of the payload, or the checksum, so that     *)
(* the sizes below count cells where the code counts bytes; a stream cut   *)
(* inside a field is, to a reader that waits for whole fields, cut before  *)
(* it.  A cell is a tuple: <<n>> for a number, and the cells it covers for *)
(* a checksum, which therefore never matches anything else.                *)
(***************************************************************************)
EXTENDS Naturals, SequencesExt

CONSTANTS
  max_bytes,       \* the bound on a frame, the same on both sides
  max_string,      \* the longest string that a length field of 16 bits admits
  Devices,         \* the [id, name, generation, pci] that are published
  MaxSent,         \* bound: frames sent
  MaxCorruptions,  \* bound: cells damaged on the way
  Damage           \* the numbers that a damaged cell can hold

ASSUME WireAssumption ==
  /\ max_bytes \in Nat /\ max_string \in Nat
  /\ MaxSent \in Nat /\ MaxCorruptions \in Nat /\ Damage \subseteq Nat
  /\ \A d \in Devices : d \in [id: Nat, name: Seq(Nat), generation: Nat, pci: Seq(Nat)]

kMagic == 70
kVersion == 1
kHeaderNoPayload == 4
kCrcBytes == 1
PUBLISH_DEVICE == 3
HEARTBEAT == 10

VARIABLES
  wire,         \* cells sent and not read
  sent,         \* frames' contents that send_frame accepted, in order
  delivered,    \* what the reader decoded, in order
  connection,   \* "open", or "cut" when no more cells will arrive
  reader,       \* "reading", or "failed" once recv_frame has returned an error
  corruptions   \* number of cells damaged

wire_vars == <<wire, sent, delivered, connection, reader, corruptions>>

-----------------------------------------------------------------------------
(* Payloads *)

cells(s) == [i \in DOMAIN s |-> <<s[i]>>]

\* Mutant of put_str: the length is cut to its field, the characters are not.
put_str_wrapping(s) == << <<Len(s) % (max_string + 1)>> >> \o cells(s)

\* A string that is too long is cut to what its length field can say.
put_str(s) ==
  LET n == IF Len(s) <= max_string THEN Len(s) ELSE max_string
  IN  << <<n>> >> \o cells(SubSeq(s, 1, n))

\* PayloadReader: a number past the end reads as zero, a string as empty.
number_at(b, i) == IF i \in DOMAIN b THEN b[i][1] ELSE 0

string_at(b, i) ==
  LET n == number_at(b, i)
  IN  IF i + n <= Len(b) THEN [k \in 1..n |-> b[i + k][1]] ELSE << >>

enc_device(d) ==
  << <<d.id>> >> \o put_str(d.name) \o << <<d.generation>> >> \o put_str(d.pci)

\* The reader's position moves past every field it reads.
dec_device(b) ==
  LET name == string_at(b, 2)
      i == 3 + Len(name)
  IN  [id |-> number_at(b, 1), name |-> name, generation |-> number_at(b, i),
       pci |-> string_at(b, i + 1)]

-----------------------------------------------------------------------------
(* Frames *)

crc32(cs) == cs

valid_type(t) == t \in 1..11

encode_frame(f) ==
  LET body == << <<kMagic>>, <<kVersion>>, <<f.type>>, <<Len(f.payload)>> >> \o f.payload
  IN  Append(body, crc32(body))

\* encode_frame's only error.
encodable(f) == Len(f.payload) + kHeaderNoPayload + kCrcBytes <= max_bytes

\* Mutant of well_formed: the checksum is not compared.
well_formed_unchecked(b) ==
  /\ Len(b) >= kHeaderNoPayload + kCrcBytes
  /\ b[1] = <<kMagic>> /\ b[2] = <<kVersion>> /\ valid_type(b[3][1])
  /\ kHeaderNoPayload + b[4][1] + kCrcBytes <= max_bytes
  /\ Len(b) = kHeaderNoPayload + b[4][1] + kCrcBytes

\* What decode_frame demands of the cells of one frame.
well_formed(b) ==
  /\ Len(b) >= kHeaderNoPayload + kCrcBytes
  /\ b[1] = <<kMagic>> /\ b[2] = <<kVersion>> /\ valid_type(b[3][1])
  /\ kHeaderNoPayload + b[4][1] + kCrcBytes <= max_bytes
  /\ Len(b) = kHeaderNoPayload + b[4][1] + kCrcBytes
  /\ b[Len(b)] = crc32(SubSeq(b, 1, Len(b) - kCrcBytes))

decode_frame(b) ==
  [type |-> b[3][1],
   payload |-> SubSeq(b, kHeaderNoPayload + 1, Len(b) - kCrcBytes)]

-----------------------------------------------------------------------------
(* Sending and receiving *)

device_frame(d) == [type |-> PUBLISH_DEVICE, payload |-> enc_device(d)]

heartbeat_frame == [type |-> HEARTBEAT, payload |-> << >>]

no_device == [id |-> 0, name |-> << >>, generation |-> 0, pci |-> << >>]

\* What a frame means to the handler that receives it: a heartbeat's payload is
\* not looked at.
content(f) ==
  [type |-> f.type,
   device |-> IF f.type = PUBLISH_DEVICE THEN dec_device(f.payload) ELSE no_device]

\* A frame that cannot be encoded is not sent at all, and not recorded.
send_frame(f, meaning) ==
  /\ connection = "open" /\ Len(sent) < MaxSent
  /\ encodable(f)
  /\ wire' = wire \o encode_frame(f)
  /\ sent' = Append(sent, meaning)
  /\ UNCHANGED <<delivered, connection, reader, corruptions>>

payload_len == wire[4][1]

\* Mutants of oversized and frame_ready: the bound excludes the largest frame;
\* the reader asks for one cell more than the frame has.
oversized_strictly ==
  Len(wire) >= kHeaderNoPayload
    /\ payload_len >= max_bytes - kHeaderNoPayload - kCrcBytes

frame_ready_late ==
  /\ Len(wire) >= kHeaderNoPayload
  /\ Len(wire) > kHeaderNoPayload + payload_len + kCrcBytes

\* The header has arrived and announces more than the bound.
oversized ==
  Len(wire) >= kHeaderNoPayload
    /\ payload_len > max_bytes - kHeaderNoPayload - kCrcBytes

\* Everything that the header announces has arrived.
frame_ready ==
  /\ Len(wire) >= kHeaderNoPayload
  /\ Len(wire) >= kHeaderNoPayload + payload_len + kCrcBytes

recv_fails ==
  /\ reader' = "failed"
  /\ UNCHANGED <<wire, sent, delivered, connection, corruptions>>

recv_frame ==
  /\ reader = "reading"
  /\ \/ oversized /\ recv_fails
     \/ /\ ~oversized /\ ~frame_ready /\ connection = "cut"
        /\ recv_fails
     \/ /\ ~oversized /\ frame_ready
        /\ LET size == kHeaderNoPayload + payload_len + kCrcBytes
               b == SubSeq(wire, 1, size)
           IN  IF well_formed(b)
                 THEN /\ delivered' = Append(delivered, content(decode_frame(b)))
                      /\ wire' = SubSeq(wire, size + 1, Len(wire))
                      /\ UNCHANGED <<sent, connection, reader, corruptions>>
                 ELSE recv_fails

\* The sender dies or closes its end, in the middle of a frame or not, and what
\* was not read may be lost from some cell on.
cut ==
  /\ connection = "open"
  /\ connection' = "cut"
  /\ \E n \in 0..Len(wire) : wire' = SubSeq(wire, 1, n)
  /\ UNCHANGED <<sent, delivered, reader, corruptions>>

\* A cell arrives other than it was sent.
corrupt ==
  /\ corruptions < MaxCorruptions
  /\ corruptions' = corruptions + 1
  /\ \E i \in DOMAIN wire, v \in Damage :
       wire[i] # <<v>> /\ wire' = [wire EXCEPT ![i] = <<v>>]
  /\ UNCHANGED <<sent, delivered, connection, reader>>

WireInit ==
  /\ wire = << >> /\ sent = << >> /\ delivered = << >>
  /\ connection = "open" /\ reader = "reading" /\ corruptions = 0

WireNext ==
  \/ \E d \in Devices : send_frame(device_frame(d), [type |-> PUBLISH_DEVICE, device |-> d])
  \/ send_frame(heartbeat_frame, [type |-> HEARTBEAT, device |-> no_device])
  \/ recv_frame \/ cut \/ corrupt

\* The reader's thread is scheduled.
WireSpec == WireInit /\ [][WireNext]_wire_vars /\ WF_wire_vars(recv_frame)

-----------------------------------------------------------------------------
(* Properties *)

\* A string arrives as long as its length field allows.
shortened(s) == SubSeq(s, 1, IF Len(s) <= max_string THEN Len(s) ELSE max_string)

arrives_as(m) ==
  [type |-> m.type,
   device |-> [m.device EXCEPT !.name = shortened(@), !.pci = shortened(@)]]

\* What the coordinator acts on is a prefix of what the worker sent, each record
\* field for field with overlong strings shortened, wherever the stream was cut
\* and whatever cell was damaged: no frame is skipped, split, merged with the
\* next or read out of step.
DeliveredIsPrefixOfSent ==
  IsPrefix(delivered, [i \in DOMAIN sent |-> arrives_as(sent[i])])

\* The bounds of the two sides agree: the reader gives a connection up only when
\* the stream was cut or damaged, never on a frame that encode_frame let pass.
NoGoodFrameRefused ==
  reader = "failed" => connection = "cut" \/ corruptions > 0

\* On a connection that stays whole every frame arrives, whatever follows it or
\* fails to follow it.
SentFramesArrive ==
  \A n \in 1..MaxSent :
    (Len(sent) >= n) ~> (Len(delivered) >= n \/ connection = "cut" \/ corruptions > 0)

=============================================================================
