------------------------------- MODULE Messages -------------------------------
(***************************************************************************)
(* The layouts of msgs.h and of the Connect packet (swiftrobot_packet.h):  *)
(* what serialize() writes at which place, how many bytes getSize()        *)
(* announces, and what deserialize() reads again out of data_buffer, which *)
(* still holds the end of earlier, longer packets.  Messages come one      *)
(* after the other, written as the serialize() of their type writes them:  *)
(* this library does that for Connect only, since dispatchMessage() slices *)
(* the messages it is to send; the others come from an end that does not.  *)
(*                                                                         *)
(* A byte is <<m, f, k>>: byte k of field f of the m-th message.  Numbers  *)
(* matter only where a length is read, and are then those of the message   *)
(* whose bytes are found there.                                            *)
(***************************************************************************)
EXTENDS Integers, Sequences

CONSTANT Streams   \* the sequences of messages that may come

\* sizeof() of the elements of the array types, and of the types without arrays.
Width == [UInt8Array |-> 1, UInt16Array |-> 2, UInt32Array |-> 4, Int8Array |-> 1,
          Int16Array |-> 2, Int32Array |-> 4, FloatArray |-> 4]
Fixed == [IMU |-> 36, Drive |-> 13, Odometry |-> 24]

Arrays == DOMAIN Width

\* What didReceiveMessage() has a case for, and the Connect packet.  There is none
\* for UpdateMsg.
Handled == Arrays \cup DOMAIN Fixed \cup {"Image", "Connect"}
Types   == Handled \cup {"UpdateMsg"}

\* count: the elements of an array, the pixels, or the characters of the name;
\* channels: the list of a Connect packet, whose subscribers is its length.
ASSUME StreamAssumption ==
  Streams \subseteq Seq([type : Types, count : Nat, channels : Nat])

VARIABLES msgs,    \* the messages
          turn,    \* the one that is on its way
          stage,   \* what has been done with it
          packet,  \* what serialize() has left in its buffer
          buffer,  \* data_buffer
          got      \* the bytes of each field of what deserialize() has returned

vars == <<msgs, turn, stage, packet, buffer, got>>

Unset   == <<0, "none", 0>>
Nothing == [none |-> <<>>]
Fields  == {"none", "header", "size", "data", "head", "body",
            "name", "subscribers", "channels", "status"}

\* What the code writes and reads are bytes of the fields of the messages, never
\* bytes in front of a field or of a message that has not come yet.
TypeOK ==
  /\ msgs \in Streams
  /\ turn \in 1..(Len(msgs) + 1)
  /\ stage \in {"new", "written", "arrived", "crashed"}
  /\ \A bytes \in {packet, buffer} : \A p \in DOMAIN bytes :
       bytes[p] \in (0..turn) \X Fields \X Nat
  /\ DOMAIN got \subseteq Fields

Init ==
  /\ msgs \in Streams
  /\ turn = 1 /\ stage = "new"
  /\ packet = <<>> /\ buffer = [p \in {} |-> Unset] /\ got = Nothing

-----------------------------------------------------------------------------
(* serialize() and getSize() *)

Span(first, length) == [at |-> first, length |-> length]
Ends(span) == span.at + span.length - 1

\* What serialize() of each type copies to which place.
ArrayLayout(m)   == [size |-> Span(0, 4), data |-> Span(4, m.count * Width[m.type])]
ImageLayout(m)   == [head |-> Span(0, 8), size |-> Span(8, 4), data |-> Span(12, m.count)]
FixedLayout(m)   == [body |-> Span(0, Fixed[m.type])]
UpdateLayout(m)  == [name |-> Span(0, m.count + 1), status |-> Span(1, 1)]
ConnectLayout(m) == [name        |-> Span(0, m.count + 1),
                     subscribers |-> Span(m.count + 1, 2),
                     channels    |-> Span(m.count + 3, 2 * m.channels)]

Layout(m) ==
  CASE m.type \in Arrays       -> ArrayLayout(m)
    [] m.type = "Image"        -> ImageLayout(m)
    [] m.type \in DOMAIN Fixed -> FixedLayout(m)
    [] m.type = "Connect"      -> ConnectLayout(m)
    [] m.type = "UpdateMsg"    -> UpdateLayout(m)

\* Faulty: without the NUL behind a name.
GetSizeShort(m) ==
  CASE m.type \in Arrays       -> 4 + m.count * Width[m.type]
    [] m.type = "Image"        -> 8 + 4 + m.count
    [] m.type \in DOMAIN Fixed -> Fixed[m.type]
    [] m.type = "Connect"      -> m.count + 2 + 2 * m.channels
    [] m.type = "UpdateMsg"    -> m.count + 1

GetSize(m) ==
  CASE m.type \in Arrays       -> 4 + m.count * Width[m.type]
    [] m.type = "Image"        -> 8 + 4 + m.count
    [] m.type \in DOMAIN Fixed -> Fixed[m.type]
    [] m.type = "Connect"      -> m.count + 1 + 2 + 2 * m.channels
    [] m.type = "UpdateMsg"    -> m.count + 1 + 1

\* Faulty: every copy takes in the byte in front of it.
CoveringEarly(m, p) ==
  {f \in DOMAIN Layout(m) : p \in (Layout(m)[f].at - 1)..Ends(Layout(m)[f])}

\* The fields that are copied to a place.
Covering(m, p) == {f \in DOMAIN Layout(m) : p \in Layout(m)[f].at..Ends(Layout(m)[f])}

\* The status is copied after the name, and stays where both are.
Serialize ==
  LET m == msgs[turn] IN
  /\ stage = "new" /\ turn <= Len(msgs)
  /\ packet' = [p \in 0..(GetSize(m) - 1) |->
       IF Covering(m, p) = {} THEN Unset
       ELSE LET f == IF "status" \in Covering(m, p) THEN "status"
                     ELSE CHOOSE g \in Covering(m, p) : TRUE
            IN  <<turn, f, p - Layout(m)[f].at>>]
  /\ stage' = "written"
  /\ UNCHANGED <<msgs, turn, buffer, got>>

-----------------------------------------------------------------------------
(* The packet arrives *)

\* The header in front of a message, which Connect does not have.
Front(m) == IF m.type = "Connect" THEN 0 ELSE 8

Arriving ==
  [p \in 0..(GetSize(msgs[turn]) + Front(msgs[turn]) - 1) |->
     IF p < Front(msgs[turn]) THEN <<turn, "header", p>> ELSE packet[p - Front(msgs[turn])]]

\* The packet over what is in data_buffer.
Over ==
  [p \in DOMAIN buffer |-> IF p \in DOMAIN Arriving THEN Arriving[p] ELSE buffer[p]]

\* Faulty: the first packet decides how large data_buffer is.
ReceiveInto ==
  /\ stage = "written" /\ stage' = "arrived"
  /\ buffer' = IF buffer # [p \in {} |-> Unset]
               THEN Over ELSE Arriving
  /\ UNCHANGED <<msgs, turn, packet, got>>

\* listenLoop() reads the packet over the earlier ones; a longer one gets a new
\* data_buffer that is no larger than the packet.
Receive ==
  /\ stage = "written" /\ stage' = "arrived"
  /\ buffer' = IF DOMAIN Arriving \subseteq DOMAIN buffer
               THEN Over ELSE Arriving
  /\ UNCHANGED <<msgs, turn, packet, got>>

-----------------------------------------------------------------------------
(* deserialize() *)

\* A byte behind the header.
At(p) == LET q == Front(msgs[turn]) + p IN IF q \in DOMAIN buffer THEN buffer[q] ELSE Unset

\* The number whose first byte is there; 0 for bytes that are not one.
Number(p) ==
  LET b == At(p) IN
  IF b[3] # 0 \/ b[1] = 0 THEN 0
  ELSE IF b[2] = "size" THEN Layout(msgs[b[1]]).data.length
  ELSE IF b[2] = "subscribers" THEN msgs[b[1]].channels
  ELSE 0

\* Where the string at the front ends: at the first byte that is the NUL of a name.
NamesEnd ==
  LET ends == {p \in DOMAIN buffer : At(p)[2] = "name" /\ At(p)[3] = msgs[At(p)[1]].count}
  IN  IF ends = {} THEN 0 ELSE CHOOSE p \in ends : \A q \in ends : p <= q

\* Faulty: the vector has as many elements as there are bytes in all, in words.
RoomInWords(type, size) == IF type = "UInt8Array" THEN size ELSE size \div 4

\* The bytes for which there is room in the vector that deserialize() makes: that
\* of UInt8Array is made from the bytes, the others have size / sizeof(uint32_t)
\* elements.
Room(type, size) ==
  IF type = "UInt8Array" THEN size ELSE (size \div 4) * Width[type]

\* What deserialize() of each type copies from which place.
ReadArray(type)   == [size |-> Span(0, 4), data |-> Span(4, Number(0))]
ReadFixed(type)   == [body |-> Span(0, Fixed[type])]
ReadConnect(type) == [name        |-> Span(0, NamesEnd + 1),
                      subscribers |-> Span(NamesEnd + 1, 2),
                      channels    |-> Span(NamesEnd + 3, 2 * Number(NamesEnd + 1))]

\* Faulty: the pixels are read as if nothing were in front of them.
ReadImageShifted(type) ==
  [head |-> Span(0, 8), size |-> Span(8, 4), data |-> Span(4, Number(8))]

ReadImage(type) == [head |-> Span(0, 8), size |-> Span(8, 4), data |-> Span(12, Number(8))]

Reading(type) ==
  CASE type \in Arrays       -> ReadArray(type)
    [] type = "Image"        -> ReadImage(type)
    [] type \in DOMAIN Fixed -> ReadFixed(type)
    [] type = "Connect"      -> ReadConnect(type)

\* What the object has of a field: no more than its vector has room for.
Kept(type, f) ==
  LET length == Reading(type)[f].length
  IN  IF type \in Arrays /\ f = "data" THEN Room(type, length) ELSE length

Overruns(type) == \E f \in DOMAIN Reading(type) : Kept(type, f) < Reading(type)[f].length

\* memcpy() copies all the bytes, past the end of a vector that is too short: what
\* is behind it may or may not be missed.
Deserialize ==
  LET type == msgs[turn].type IN
  /\ stage = "arrived"
  /\ IF type \in Handled
     THEN /\ got' = [f \in DOMAIN Reading(type) |->
                       [k \in 0..(Kept(type, f) - 1) |-> At(Reading(type)[f].at + k)]]
          /\ stage' \in {"new"} \cup (IF Overruns(type) THEN {"crashed"} ELSE {})
     ELSE got' = Nothing /\ stage' = "new"
  /\ turn' = turn + 1
  /\ UNCHANGED <<msgs, packet, buffer>>

Next == Serialize \/ Receive \/ Deserialize

Spec == Init /\ [][Next]_vars

-----------------------------------------------------------------------------
(* Properties *)

\* getSize() counts what serialize() writes: every byte of the packet is a byte of a
\* field, and every byte of every field is in it.  Not so UpdateMsg, whose status is
\* copied over the second character of the name.
PacketFilled ==
  stage = "written" /\ msgs[turn].type # "UpdateMsg" =>
    LET m == msgs[turn] IN
    /\ \A p \in DOMAIN packet : packet[p] # Unset
    /\ \A f \in DOMAIN Layout(m) : \A p \in Layout(m)[f].at..Ends(Layout(m)[f]) :
         p \in DOMAIN packet /\ packet[p] = <<turn, f, p - Layout(m)[f].at>>

\* What deserialize() returns are the bytes of the message that has arrived, each in
\* the field and at the place it had, and none of the earlier packets whose bytes
\* data_buffer still holds.
AsSent ==
  stage = "new" /\ turn > 1 /\ msgs[turn - 1].type \in Handled =>
    \A f \in DOMAIN got : \A k \in DOMAIN got[f] : got[f][k] = <<turn - 1, f, k>>

\* Nothing is lost and no memory but the vector's is written: of Connect, of the
\* types without arrays, and of the arrays of four-byte elements and of UInt8Array.
\* The other three get room for half or a quarter of their elements.
Complete ==
  turn > 1 /\ msgs[turn - 1].type \in Handled \ {"UInt16Array", "Int8Array", "Int16Array"} =>
    LET layout == Layout(msgs[turn - 1]) IN
    /\ stage # "crashed"
    /\ stage = "new" => \A f \in DOMAIN layout :
         f \in DOMAIN got /\ DOMAIN got[f] = 0..(layout[f].length - 1)
=============================================================================
