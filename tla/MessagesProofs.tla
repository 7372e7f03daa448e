---------------------------- MODULE MessagesProofs ----------------------------
(***************************************************************************)
(* For any messages of any length: getSize() counts what serialize()       *)
(* writes, and deserialize() finds every field of the message that has     *)
(* arrived where serialize() has put it, whatever longer packets have left *)
(* in data_buffer.                                                         *)
(***************************************************************************)
EXTENDS Messages, TLAPS

Message == [type : Types, count : Nat, channels : Nat]

-----------------------------------------------------------------------------
(* The layouts *)

LEMMA TypeNames ==
  /\ Arrays = {"UInt8Array", "UInt16Array", "UInt32Array", "Int8Array", "Int16Array",
               "Int32Array", "FloatArray"}
  /\ DOMAIN Fixed = {"IMU", "Drive", "Odometry"}
BY DEF Arrays, Width, Fixed

LEMMA WidthIs ==
  ASSUME NEW t \in Arrays
  PROVE  /\ Width[t] \in {1, 2, 4}
         /\ Width[t] # 4 => t \in {"UInt8Array", "UInt16Array", "Int8Array", "Int16Array"}
BY TypeNames DEF Width

LEMMA FixedIs ==
  ASSUME NEW t \in DOMAIN Fixed
  PROVE  Fixed[t] \in {36, 13, 24}
BY TypeNames DEF Fixed

\* The bytes of an array, and those for which deserialize() makes room.
LEMMA ArrayBytes ==
  ASSUME NEW t \in Arrays, NEW n \in Nat
  PROVE  /\ n * Width[t] \in Nat
         /\ Room(t, n * Width[t]) \in 0..(n * Width[t])
         /\ t \notin {"UInt16Array", "Int8Array", "Int16Array"} =>
              Room(t, n * Width[t]) = n * Width[t]
<1> DEFINE w == Width[t]
           Fits(size) == /\ size \in Nat /\ Room(t, size) \in 0..size
                         /\ t \notin {"UInt16Array", "Int8Array", "Int16Array"} =>
                              Room(t, size) = size
<1>1. w \in {1, 2, 4} /\ (w # 4 => t \in {"UInt8Array", "UInt16Array", "Int8Array", "Int16Array"})
  BY WidthIs
<1>2. \A size : Room(t, size) = IF t = "UInt8Array" THEN size ELSE (size \div 4) * w
  BY DEF Room
<1> HIDE DEF w
<1>3. ASSUME w = 1 PROVE Fits(n)
  <2>1. n \div 4 \in 0..n /\ (n \div 4) * 1 = n \div 4
    BY SMTT(20)
  <2>2. Room(t, n) = IF t = "UInt8Array" THEN n ELSE n \div 4
    BY <1>2, <1>3, <2>1
  <2>. QED  BY <1>1, <1>3, <2>1, <2>2
<1>4. ASSUME w = 2 PROVE Fits(n * 2)
  <2>1. n * 2 \in Nat /\ ((n * 2) \div 4) * 2 \in 0..(n * 2)
    BY SMTT(20)
  <2>2. Room(t, n * 2) = IF t = "UInt8Array" THEN n * 2 ELSE ((n * 2) \div 4) * 2
    BY <1>2, <1>4
  <2>. QED  BY <1>1, <1>4, <2>1, <2>2
<1>5. ASSUME w = 4 PROVE Fits(n * 4)
  <2>1. n * 4 \in Nat /\ (n * 4) \div 4 = n
    BY SMTT(20)
  <2>2. Room(t, n * 4) = n * 4
    BY <1>2, <1>5, <2>1
  <2>. QED  BY <2>1, <2>2
<1>6. CASE w = 1
  <2>1. n * w = n
    BY <1>6
  <2>2. Fits(n * w)
    BY <1>3, <1>6, <2>1
  <2>. QED  BY <2>2 DEF w
<1>7. CASE w = 2
  <2>1. Fits(n * w)
    BY <1>4, <1>7
  <2>. QED  BY <2>1 DEF w
<1>8. CASE w = 4
  <2>1. Fits(n * w)
    BY <1>5, <1>8
  <2>. QED  BY <2>1 DEF w
<1>. QED  BY <1>1, <1>6, <1>7, <1>8

LEMMA LayoutOfArray ==
  ASSUME NEW m \in Message, m.type \in Arrays
  PROVE  /\ Layout(m) = ArrayLayout(m) /\ GetSize(m) = 4 + m.count * Width[m.type]
         /\ m.count * Width[m.type] \in Nat
<1>1. m.count * Width[m.type] \in Nat
  BY ArrayBytes DEF Message
<1>2. m.type \notin DOMAIN Fixed \cup {"Image", "Connect", "UpdateMsg"}
  BY TypeNames
<1>3. Layout(m) = ArrayLayout(m)
  BY <1>2 DEF Layout
<1>4. GetSize(m) = 4 + m.count * Width[m.type]
  BY <1>2 DEF GetSize
<1>. QED  BY <1>1, <1>3, <1>4

LEMMA LayoutOfImage ==
  ASSUME NEW m \in Message, m.type = "Image"
  PROVE  Layout(m) = ImageLayout(m) /\ GetSize(m) = 12 + m.count
BY TypeNames DEF Layout, GetSize, Message

LEMMA LayoutOfFixed ==
  ASSUME NEW m \in Message, m.type \in DOMAIN Fixed
  PROVE  Layout(m) = FixedLayout(m) /\ GetSize(m) = Fixed[m.type] /\ Fixed[m.type] \in Nat
BY TypeNames, FixedIs DEF Layout, GetSize

LEMMA LayoutOfConnect ==
  ASSUME NEW m \in Message, m.type = "Connect"
  PROVE  Layout(m) = ConnectLayout(m) /\ GetSize(m) = m.count + 3 + 2 * m.channels
<1>1. m.type \notin Arrays /\ m.type # "Image" /\ m.type \notin DOMAIN Fixed
  BY TypeNames
<1>2. m.count \in Nat /\ m.channels \in Nat
  BY DEF Message
<1>. QED  BY <1>1, <1>2 DEF Layout, GetSize

LEMMA LayoutOfUpdate ==
  ASSUME NEW m \in Message, m.type = "UpdateMsg"
  PROVE  Layout(m) = UpdateLayout(m) /\ GetSize(m) = m.count + 2
<1>1. m.type \notin Arrays /\ m.type # "Image" /\ m.type \notin DOMAIN Fixed
  BY TypeNames
<1>2. m.count \in Nat
  BY DEF Message
<1>. QED  BY <1>1, <1>2 DEF Layout, GetSize

\* The fields of a message other than UpdateMsg lie one behind the other: none
\* overlaps another, and together they are the packet.
LEMMA FieldsFill ==
  ASSUME NEW m \in Message, m.type \in Handled
  PROVE  /\ GetSize(m) \in Nat
         /\ \A p \in 0..(GetSize(m) - 1) : Covering(m, p) # {}
         /\ \A f \in DOMAIN Layout(m) :
              /\ f \in Fields \ {"status"}
              /\ Layout(m)[f].at \in Nat /\ Layout(m)[f].length \in Nat
              /\ Layout(m)[f].at + Layout(m)[f].length <= GetSize(m)
              /\ \A p \in Layout(m)[f].at..Ends(Layout(m)[f]) : Covering(m, p) = {f}
<1> DEFINE n == m.count
           c == m.channels
<1>1. n \in Nat /\ c \in Nat
  BY DEF Message
<1>2. CASE m.type \in Arrays
  <2> DEFINE size == n * Width[m.type]
  <2>1. Layout(m) = ArrayLayout(m) /\ GetSize(m) = 4 + size /\ size \in Nat
    BY <1>2, LayoutOfArray
  <2>2. Layout(m) = [size |-> Span(0, 4), data |-> Span(4, size)]
    BY <2>1 DEF ArrayLayout
  <2> HIDE DEF size
  <2>3. DOMAIN Layout(m) = {"size", "data"}
        /\ Layout(m)["size"] = [at |-> 0, length |-> 4]
        /\ Layout(m)["data"] = [at |-> 4, length |-> size]
    BY <2>2 DEF Span
  <2>4. \A p \in Int : /\ "size" \in Covering(m, p) <=> p \in 0..3
                       /\ "data" \in Covering(m, p) <=> p \in 4..(4 + size - 1)
                       /\ Covering(m, p) \subseteq {"size", "data"}
    BY <2>1, <2>3 DEF Covering, Ends
  <2> HIDE DEF Ends
  <2>5. Ends(Layout(m)["size"]) = 3 /\ Ends(Layout(m)["data"]) = 4 + size - 1
    BY <2>3 DEF Ends
  <2>. QED  BY <2>1, <2>3, <2>4, <2>5 DEF Fields
<1>3. CASE m.type = "Image"
  <2>1. Layout(m) = ImageLayout(m) /\ GetSize(m) = 12 + n
    BY <1>3, LayoutOfImage
  <2>2. DOMAIN Layout(m) = {"head", "size", "data"}
        /\ Layout(m)["head"] = [at |-> 0, length |-> 8]
        /\ Layout(m)["size"] = [at |-> 8, length |-> 4]
        /\ Layout(m)["data"] = [at |-> 12, length |-> n]
    BY <2>1 DEF Span, ImageLayout
  <2> HIDE DEF n
  <2>3. \A p \in Int : /\ "head" \in Covering(m, p) <=> p \in 0..7
                       /\ "size" \in Covering(m, p) <=> p \in 8..11
                       /\ "data" \in Covering(m, p) <=> p \in 12..(12 + n - 1)
                       /\ Covering(m, p) \subseteq {"head", "size", "data"}
    BY <1>1, <2>2 DEF Covering, Ends
  <2>4. Ends(Layout(m)["head"]) = 7 /\ Ends(Layout(m)["size"]) = 11
        /\ Ends(Layout(m)["data"]) = 12 + n - 1
    BY <1>1, <2>2 DEF Ends
  <2>. QED  BY <1>1, <2>1, <2>2, <2>3, <2>4 DEF Fields
<1>4. CASE m.type \in DOMAIN Fixed
  <2> DEFINE size == Fixed[m.type]
  <2>1. Layout(m) = FixedLayout(m) /\ GetSize(m) = size /\ size \in Nat
    BY <1>4, LayoutOfFixed
  <2>2. DOMAIN Layout(m) = {"body"} /\ Layout(m)["body"] = [at |-> 0, length |-> size]
    BY <2>1 DEF Span, FixedLayout
  <2> HIDE DEF size
  <2>3. \A p \in Int : /\ "body" \in Covering(m, p) <=> p \in 0..(0 + size - 1)
                       /\ Covering(m, p) \subseteq {"body"}
    BY <2>1, <2>2 DEF Covering, Ends
  <2>4. Ends(Layout(m)["body"]) = 0 + size - 1
    BY <2>2 DEF Ends
  <2>. QED  BY <2>1, <2>2, <2>3, <2>4 DEF Fields
<1>5. CASE m.type = "Connect"
  <2>1. Layout(m) = ConnectLayout(m) /\ GetSize(m) = n + 3 + 2 * c
    BY <1>5, LayoutOfConnect
  <2>2. DOMAIN Layout(m) = {"name", "subscribers", "channels"}
        /\ Layout(m)["name"] = [at |-> 0, length |-> n + 1]
        /\ Layout(m)["subscribers"] = [at |-> n + 1, length |-> 2]
        /\ Layout(m)["channels"] = [at |-> n + 3, length |-> 2 * c]
    BY <2>1 DEF Span, ConnectLayout
  <2> HIDE DEF n, c
  <2>3. \A p \in Int : /\ "name" \in Covering(m, p) <=> p \in 0..n
                       /\ "subscribers" \in Covering(m, p) <=> p \in (n + 1)..(n + 2)
                       /\ "channels" \in Covering(m, p) <=> p \in (n + 3)..(n + 3 + 2 * c - 1)
                       /\ Covering(m, p) \subseteq {"name", "subscribers", "channels"}
    BY <1>1, <2>2 DEF Covering, Ends
  <2>4. Ends(Layout(m)["name"]) = n /\ Ends(Layout(m)["subscribers"]) = n + 2
        /\ Ends(Layout(m)["channels"]) = n + 3 + 2 * c - 1
    BY <1>1, <2>2 DEF Ends
  <2>. QED  BY <1>1, <2>1, <2>2, <2>3, <2>4 DEF Fields
<1>. QED  BY <1>2, <1>3, <1>4, <1>5 DEF Handled

-----------------------------------------------------------------------------
(* The state *)

\* While a message is on its way, packet is what serialize() makes of it.
Written ==
  stage \in {"written", "arrived"} =>
    /\ turn <= Len(msgs)
    /\ DOMAIN packet = 0..(GetSize(msgs[turn]) - 1)
    /\ msgs[turn].type \in Handled =>
         LET layout == Layout(msgs[turn])
         IN  \A f \in DOMAIN layout : \A p \in layout[f].at..Ends(layout[f]) :
               packet[p] = <<turn, f, p - layout[f].at>>

\* data_buffer begins with the packet that has arrived.
Arrived ==
  /\ DOMAIN buffer \subseteq Nat
  /\ stage = "arrived" =>
       \A p \in 0..(GetSize(msgs[turn]) - 1) :
         /\ Front(msgs[turn]) + p \in DOMAIN buffer
         /\ buffer[Front(msgs[turn]) + p] = packet[p]

LEMMA Current ==
  ASSUME TypeOK
  PROVE  /\ Len(msgs) \in Nat /\ turn \in Nat \ {0}
         /\ turn <= Len(msgs) => msgs[turn] \in Message
<1>1. msgs \in Seq(Message)
  BY StreamAssumption DEF TypeOK, Message
<1>2. Len(msgs) \in Nat /\ turn \in 1..(Len(msgs) + 1)
  BY <1>1 DEF TypeOK
<1>. QED  BY <1>1, <1>2

LEMMA SizeType ==
  ASSUME NEW m \in Message
  PROVE  GetSize(m) \in Nat
<1>1. CASE m.type \in Handled
  BY <1>1, FieldsFill
<1>2. CASE m.type = "UpdateMsg"
  <2>1. GetSize(m) = m.count + 2 /\ m.count \in Nat
    BY <1>2, LayoutOfUpdate DEF Message
  <2>. QED  BY <2>1
<1>. QED  BY <1>1, <1>2 DEF Message, Types

\* What covers a byte is a field that begins at it or before.
LEMMA CoversFrom ==
  ASSUME NEW m \in Message, NEW p \in Nat, NEW f \in Covering(m, p)
  PROVE  f \in Fields /\ p - Layout(m)[f].at \in Nat
<1>1. f \in DOMAIN Layout(m) /\ p \in Layout(m)[f].at..Ends(Layout(m)[f])
  BY DEF Covering
<1>2. CASE m.type \in Handled
  <2>1. f \in Fields /\ Layout(m)[f].at \in Nat
    BY <1>1, <1>2, FieldsFill
  <2>2. Layout(m)[f].length \in Nat
    BY <1>1, <1>2, FieldsFill
  <2>. QED  BY <1>1, <2>1, <2>2 DEF Ends
<1>3. CASE m.type = "UpdateMsg"
  <2>1. Layout(m) = UpdateLayout(m) /\ m.count \in Nat
    BY <1>3, LayoutOfUpdate DEF Message
  <2>2. f \in {"name", "status"} /\ Layout(m)[f].at \in {0, 1} /\ Layout(m)[f].length \in Nat
    BY <1>1, <2>1 DEF UpdateLayout, Span
  <2>. QED  BY <1>1, <2>2 DEF Ends, Fields
<1>. QED  BY <1>2, <1>3 DEF Message, Types

Bytes(n) == (0..n) \X Fields \X Nat

LEMMA UnsetByte ==
  ASSUME NEW n \in Nat
  PROVE  Unset \in Bytes(n)
BY DEF Unset, Bytes, Fields

LEMMA SerializeStep ==
  ASSUME TypeOK, Serialize
  PROVE  TypeOK' /\ Written'
<1> DEFINE m == msgs[turn]
           byte(p) == IF Covering(m, p) = {} THEN Unset
                      ELSE LET f == IF "status" \in Covering(m, p) THEN "status"
                                    ELSE CHOOSE g \in Covering(m, p) : TRUE
                           IN  <<turn, f, p - Layout(m)[f].at>>
<1>1. m \in Message /\ turn \in Nat \ {0}
  BY Current DEF Serialize
<1>2. /\ packet' = [p \in 0..(GetSize(m) - 1) |-> byte(p)]
      /\ stage' = "written" /\ turn <= Len(msgs) /\ UNCHANGED <<msgs, turn, buffer, got>>
  BY DEF Serialize
<1>3. GetSize(m) \in Nat
  BY <1>1, SizeType
<1>4. ASSUME NEW p \in 0..(GetSize(m) - 1)
      PROVE  byte(p) \in Bytes(turn)
  <2>1. CASE Covering(m, p) = {}
    BY <1>1, <2>1, UnsetByte
  <2>2. CASE Covering(m, p) # {}
    <3>1. PICK f \in Covering(m, p) : byte(p) = <<turn, f, p - Layout(m)[f].at>>
      BY <2>2
    <3>2. f \in Fields /\ p - Layout(m)[f].at \in Nat
      BY <1>1, <1>3, <3>1, CoversFrom
    <3> HIDE DEF m, byte
    <3>. QED  BY <1>1, <3>1, <3>2 DEF Bytes
  <2>. QED  BY <2>1, <2>2
<1>5. ASSUME m.type \in Handled, NEW f \in DOMAIN Layout(m),
             NEW p \in Layout(m)[f].at..Ends(Layout(m)[f])
      PROVE  p \in 0..(GetSize(m) - 1) /\ byte(p) = <<turn, f, p - Layout(m)[f].at>>
  <2>1. /\ Layout(m)[f].at \in Nat /\ Layout(m)[f].length \in Nat
        /\ Layout(m)[f].at + Layout(m)[f].length <= GetSize(m)
    BY <1>1, <1>5, FieldsFill
  <2>2. p \in 0..(GetSize(m) - 1)
    BY <1>3, <1>5, <2>1 DEF Ends
  <2>3. Covering(m, p) = {f} /\ f # "status"
    BY <1>1, <1>5, FieldsFill
  <2> HIDE DEF m
  <2>. QED  BY <2>2, <2>3
<1> HIDE DEF byte
<1>6. TypeOK'
  <2>1. \A p \in DOMAIN packet' : packet'[p] \in Bytes(turn)
    BY <1>2, <1>4
  <2>. QED  BY <1>2, <2>1 DEF TypeOK, Bytes
<1>7. Written'
  <2>1. DOMAIN packet' = 0..(GetSize(m) - 1)
    BY <1>2
  <2>2. ASSUME m.type \in Handled
        PROVE  \A f \in DOMAIN Layout(m) : \A p \in Layout(m)[f].at..Ends(Layout(m)[f]) :
                 packet'[p] = <<turn, f, p - Layout(m)[f].at>>
    BY <1>2, <1>5, <2>2
  <2>3. m' = m /\ turn' = turn /\ msgs' = msgs
    BY <1>2
  <2>. QED  BY <1>2, <2>1, <2>2, <2>3 DEF Written
<1>. QED  BY <1>6, <1>7

LEMMA FrontIs ==
  ASSUME NEW m
  PROVE  Front(m) \in {0, 8}
BY DEF Front

\* The packet and its header come to lie at the front of data_buffer.
LEMMA ReceiveStep ==
  ASSUME TypeOK, Written, Arrived, Receive
  PROVE  TypeOK' /\ Written' /\ Arrived'
<1> DEFINE m == msgs[turn]
           size == GetSize(m)
           front == Front(m)
<1>1. m \in Message /\ turn \in Nat \ {0} /\ stage = "written"
  BY Current DEF Receive, Written
<1>2. size \in Nat /\ front \in {0, 8}
  BY <1>1, SizeType, FrontIs
<1>3. stage' = "arrived" /\ UNCHANGED <<msgs, turn, packet, got>>
  BY DEF Receive
<1>4. DOMAIN packet = 0..(size - 1)
  BY <1>1 DEF Written
<1>5. Arriving = [p \in 0..(size + front - 1) |->
                    IF p < front THEN <<turn, "header", p>> ELSE packet[p - front]]
  BY DEF Arriving
<1> HIDE DEF size, front
<1>6. ASSUME NEW p \in DOMAIN Arriving
      PROVE  Arriving[p] \in Bytes(turn)
  <2>1. p \in 0..(size + front - 1)
    BY <1>5
  <2>2. CASE p < front
    <3>1. Arriving[p] = <<turn, "header", p>> /\ p \in Nat
      BY <1>2, <1>5, <2>1, <2>2
    <3>. QED  BY <1>1, <3>1 DEF Bytes, Fields
  <2>3. CASE ~(p < front)
    <3>1. Arriving[p] = packet[p - front] /\ p - front \in DOMAIN packet
      BY <1>2, <1>4, <1>5, <2>1, <2>3
    <3>. QED  BY <3>1 DEF TypeOK, Bytes
  <2>. QED  BY <2>2, <2>3
<1>7. buffer' = Arriving \/ (buffer' = Over /\ DOMAIN Arriving \subseteq DOMAIN buffer)
  BY DEF Receive
<1>8. DOMAIN Arriving \subseteq DOMAIN buffer' /\ \A p \in DOMAIN Arriving : buffer'[p] = Arriving[p]
  BY <1>7 DEF Over
<1>9. DOMAIN buffer' \subseteq Nat
  <2>1. DOMAIN Arriving \subseteq Nat
    BY <1>2, <1>5
  <2>. QED  BY <1>7, <2>1 DEF Over, Arrived
<1>10. TypeOK'
  <2>1. ASSUME NEW p \in DOMAIN buffer'
        PROVE  buffer'[p] \in Bytes(turn)
    <3>1. CASE p \in DOMAIN Arriving
      BY <1>6, <1>8, <3>1
    <3>2. CASE p \notin DOMAIN Arriving
      <4>1. p \in DOMAIN buffer /\ buffer'[p] = buffer[p]
        BY <1>7, <2>1, <3>2 DEF Over
      <4>. QED  BY <4>1 DEF TypeOK, Bytes
    <3>. QED  BY <3>1, <3>2
  <2>. QED  BY <1>3, <2>1 DEF TypeOK, Bytes
<1>11. Written'
  BY <1>1, <1>3 DEF Written
<1>12. Arrived'
  <2>1. ASSUME NEW p \in 0..(size - 1)
        PROVE  front + p \in DOMAIN buffer' /\ buffer'[front + p] = packet[p]
    <3>1. front + p \in 0..(size + front - 1) /\ ~(front + p < front) /\ (front + p) - front = p
      BY <1>2
    <3>2. front + p \in DOMAIN Arriving /\ Arriving[front + p] = packet[p]
      BY <1>5, <3>1
    <3>. QED  BY <1>8, <3>2
  <2>. QED  BY <1>3, <1>9, <2>1 DEF Arrived, size, front
<1>. QED  BY <1>10, <1>11, <1>12

-----------------------------------------------------------------------------
(* deserialize() *)

\* Behind the header is the field that serialize() has put there.
LEMMA ByteThere ==
  ASSUME TypeOK, Written, Arrived, stage = "arrived", msgs[turn].type \in Handled,
         NEW f \in DOMAIN Layout(msgs[turn]),
         NEW k \in 0..(Layout(msgs[turn])[f].length - 1)
  PROVE  At(Layout(msgs[turn])[f].at + k) = <<turn, f, k>>
<1> DEFINE m == msgs[turn]
           at == Layout(m)[f].at
           length == Layout(m)[f].length
<1>1. m \in Message
  BY Current DEF Written
<1>2. /\ at \in Nat /\ length \in Nat /\ at + length <= GetSize(m)
      /\ GetSize(m) \in Nat
  BY <1>1, FieldsFill
<1>3. Ends(Layout(m)[f]) = at + length - 1
  BY DEF Ends
<1> DEFINE size == GetSize(m)
           front == Front(m)
<1>4. \A p \in at..(at + length - 1) : packet[p] = <<turn, f, p - at>>
  BY <1>3 DEF Written
<1>5. \A p \in 0..(size - 1) : front + p \in DOMAIN buffer /\ buffer[front + p] = packet[p]
  BY DEF Arrived
<1>6. At(at + k) = LET q == front + (at + k) IN IF q \in DOMAIN buffer THEN buffer[q] ELSE Unset
  BY DEF At
<1>7. k \in 0..(length - 1)
  OBVIOUS
<1> HIDE DEF at, length, size, front
<1>8. at + k \in at..(at + length - 1) /\ at + k \in 0..(size - 1) /\ (at + k) - at = k
  BY <1>2, <1>7 DEF size
<1>9. At(at + k) = <<turn, f, k>>
  BY <1>4, <1>5, <1>6, <1>8
<1>. QED  BY <1>9 DEF at

\* A length is read where it has been written, and is then the message's own.
LEMMA ReadsLayout ==
  ASSUME TypeOK, Written, Arrived, stage = "arrived", msgs[turn].type \in Handled
  PROVE  Reading(msgs[turn].type) = Layout(msgs[turn])
<1> DEFINE m == msgs[turn]
<1>1. m \in Message /\ turn \in Nat \ {0} /\ m.count \in Nat /\ m.channels \in Nat
  BY Current DEF Written, Message
<1>2. CASE m.type \in Arrays
  <2>1. Layout(m) = ArrayLayout(m)
    BY <1>1, <1>2, LayoutOfArray
  <2>2. /\ "size" \in DOMAIN Layout(m) /\ Layout(m)["size"].at = 0
        /\ Layout(m)["size"].length = 4 /\ Layout(m).data.length = m.count * Width[m.type]
    BY <2>1 DEF ArrayLayout, Span
  <2>3. At(0) = <<turn, "size", 0>>
    <3>1. At(Layout(m)["size"].at + 0) = <<turn, "size", 0>>
      BY <2>2, ByteThere
    <3>. QED  BY <2>2, <3>1
  <2>4. Number(0) = m.count * Width[m.type]
    BY <1>1, <2>2, <2>3 DEF Number
  <2>5. m.type \notin DOMAIN Fixed \cup {"Image", "Connect"}
    BY <1>2, TypeNames
  <2>6. Reading(m.type) = ReadArray(m.type)
    BY <1>2, <2>5 DEF Reading
  <2>. QED  BY <2>1, <2>4, <2>6 DEF ReadArray, ArrayLayout
<1>3. CASE m.type = "Image"
  <2>1. Layout(m) = ImageLayout(m)
    BY <1>1, <1>3, LayoutOfImage
  <2>2. /\ "size" \in DOMAIN Layout(m) /\ Layout(m)["size"].at = 8
        /\ Layout(m)["size"].length = 4 /\ Layout(m).data.length = m.count
    BY <2>1 DEF ImageLayout, Span
  <2>3. At(8) = <<turn, "size", 0>>
    <3>1. At(Layout(m)["size"].at + 0) = <<turn, "size", 0>>
      BY <2>2, ByteThere
    <3>. QED  BY <2>2, <3>1
  <2>4. Number(8) = m.count
    BY <1>1, <2>2, <2>3 DEF Number
  <2>5. m.type \notin Arrays \cup DOMAIN Fixed \cup {"Connect"}
    BY <1>3, TypeNames
  <2>6. Reading(m.type) = ReadImage(m.type)
    BY <1>3, <2>5 DEF Reading
  <2>. QED  BY <2>1, <2>4, <2>6 DEF ReadImage, ImageLayout
<1>4. CASE m.type \in DOMAIN Fixed
  <2>1. Layout(m) = FixedLayout(m)
    BY <1>1, <1>4, LayoutOfFixed
  <2>2. m.type \notin Arrays \cup {"Image", "Connect"}
    BY <1>4, TypeNames
  <2>3. Reading(m.type) = ReadFixed(m.type)
    BY <1>4, <2>2 DEF Reading
  <2>. QED  BY <2>1, <2>3 DEF ReadFixed, FixedLayout
<1>5. CASE m.type = "Connect"
  <2> DEFINE n == m.count
             ends == {p \in DOMAIN buffer : At(p)[2] = "name" /\ At(p)[3] = msgs[At(p)[1]].count}
  <2>1. Layout(m) = ConnectLayout(m) /\ GetSize(m) = n + 3 + 2 * m.channels
    BY <1>1, <1>5, LayoutOfConnect
  <2>2. /\ {"name", "subscribers"} \subseteq DOMAIN Layout(m)
        /\ Layout(m)["name"].at = 0 /\ Layout(m)["name"].length = n + 1
        /\ Layout(m)["subscribers"].at = n + 1 /\ Layout(m)["subscribers"].length = 2
    BY <2>1 DEF ConnectLayout, Span
  <2>3. \A p \in 0..n : At(p) = <<turn, "name", p>>
    <3> SUFFICES ASSUME NEW p \in 0..n PROVE At(p) = <<turn, "name", p>>
      OBVIOUS
    <3>1. p \in 0..(Layout(m)["name"].length - 1) /\ Layout(m)["name"].at + p = p
      BY <1>1, <2>2
    <3>2. At(Layout(m)["name"].at + p) = <<turn, "name", p>>
      BY <2>2, <3>1, ByteThere
    <3>. QED  BY <3>1, <3>2
  <2>4. Front(m) + n \in DOMAIN buffer /\ Front(m) = 0
    <3>1. n \in 0..(GetSize(m) - 1)
      BY <1>1, <2>1
    <3>. QED  BY <1>5, <3>1 DEF Arrived, Front
  <2>5. n \in ends
    <3>1. At(n)[1] = turn /\ At(n)[2] = "name" /\ At(n)[3] = n
      BY <1>1, <2>3
    <3>. QED  BY <1>1, <2>4, <3>1
  <2>6. \A q \in ends : n <= q
    <3> SUFFICES ASSUME NEW q \in ends, q < n PROVE FALSE
      BY <1>1 DEF Arrived
    <3>1. q \in 0..n
      BY <1>1 DEF Arrived
    <3>2. At(q)[1] = turn /\ At(q)[3] = q
      BY <2>3, <3>1
    <3>3. At(q)[3] = msgs[At(q)[1]].count
      OBVIOUS
    <3>. QED  BY <1>1, <3>1, <3>2, <3>3
  <2>7. NamesEnd = n
    <3>1. NamesEnd = CHOOSE p \in ends : \A q \in ends : p <= q
      BY <2>5 DEF NamesEnd
    <3>2. ends \subseteq Nat
      BY DEF Arrived
    <3> HIDE DEF ends, n
    <3>3. NamesEnd \in ends /\ \A q \in ends : NamesEnd <= q
      BY <2>5, <2>6, <3>1
    <3>. QED  BY <2>5, <2>6, <3>2, <3>3
  <2>8. At(n + 1) = <<turn, "subscribers", 0>>
    <3>1. 0 \in 0..(Layout(m)["subscribers"].length - 1)
      BY <2>2
    <3>2. At(Layout(m)["subscribers"].at + 0) = <<turn, "subscribers", 0>>
      BY <2>2, <3>1, ByteThere
    <3>3. Layout(m)["subscribers"].at + 0 = n + 1
      BY <1>1, <2>2
    <3>. QED  BY <3>2, <3>3
  <2>9. Number(n + 1) = m.channels
    BY <1>1, <2>8 DEF Number
  <2>10. m.type \notin Arrays \cup DOMAIN Fixed \cup {"Image"}
    BY <1>5, TypeNames
  <2>11. Reading(m.type) = ReadConnect(m.type)
    BY <1>5, <2>10 DEF Reading
  <2>. QED  BY <2>1, <2>7, <2>9, <2>11 DEF ReadConnect, ConnectLayout
<1>. QED  BY <1>2, <1>3, <1>4, <1>5 DEF Handled

\* The vector has room for no more than the bytes that were sent, and for all of
\* them unless its elements are narrower than four bytes.
LEMMA KeptBounds ==
  ASSUME NEW m \in Message, m.type \in Handled, Reading(m.type) = Layout(m),
         NEW f \in DOMAIN Layout(m)
  PROVE  /\ Kept(m.type, f) \in 0..Layout(m)[f].length
         /\ m.type \notin {"UInt16Array", "Int8Array", "Int16Array"} =>
              Kept(m.type, f) = Layout(m)[f].length
<1>1. Layout(m)[f].length \in Nat
  BY FieldsFill
<1>2. CASE m.type \in Arrays /\ f = "data"
  <2>1. Layout(m)[f].length = m.count * Width[m.type]
    BY <1>2, LayoutOfArray DEF ArrayLayout, Span
  <2>2. Kept(m.type, f) = Room(m.type, m.count * Width[m.type])
    BY <1>2, <2>1 DEF Kept
  <2>3. m.count \in Nat
    BY DEF Message
  <2>. QED  BY <1>2, <2>1, <2>2, <2>3, ArrayBytes
<1>3. CASE ~(m.type \in Arrays /\ f = "data")
  BY <1>1, <1>3 DEF Kept
<1>. QED  BY <1>2, <1>3

\* What is returned is what serialize() wrote, field by field and byte by byte.
LEMMA DeserializeStep ==
  ASSUME TypeOK, Written, Arrived, Deserialize
  PROVE  TypeOK' /\ AsSent' /\ Complete'
<1> DEFINE m == msgs[turn]
<1>1. m \in Message /\ turn \in Nat \ {0} /\ turn <= Len(msgs) /\ Len(msgs) \in Nat
  BY Current DEF Deserialize, Written
<1>2. stage = "arrived" /\ turn' = turn + 1 /\ UNCHANGED <<msgs, packet, buffer>>
  BY DEF Deserialize
<1>3. stage' \in {"new", "crashed"}
  BY DEF Deserialize
<1>4. msgs'[turn' - 1] = m /\ turn' > 1 /\ turn' - 1 = turn
  BY <1>1, <1>2
<1>5. ASSUME m.type \in Handled
      PROVE  /\ DOMAIN got' = DOMAIN Layout(m)
             /\ \A f \in DOMAIN Layout(m) :
                  /\ DOMAIN got'[f] = 0..(Kept(m.type, f) - 1)
                  /\ \A k \in DOMAIN got'[f] : got'[f][k] = <<turn, f, k>>
  <2>1. Reading(m.type) = Layout(m)
    BY <1>2, <1>5, ReadsLayout
  <2>2. got' = [f \in DOMAIN Layout(m) |->
                  [k \in 0..(Kept(m.type, f) - 1) |-> At(Layout(m)[f].at + k)]]
    BY <1>5, <2>1 DEF Deserialize
  <2>3. ASSUME NEW f \in DOMAIN Layout(m), NEW k \in 0..(Kept(m.type, f) - 1)
        PROVE  At(Layout(m)[f].at + k) = <<turn, f, k>>
    <3>1. Kept(m.type, f) \in 0..Layout(m)[f].length /\ Layout(m)[f].length \in Nat
      BY <1>1, <1>5, <2>1, KeptBounds, FieldsFill
    <3>2. k \in 0..(Layout(m)[f].length - 1)
      BY <3>1
    <3>. QED  BY <1>2, <1>5, <3>2, ByteThere
  <2>. QED  BY <2>2, <2>3
<1>6. TypeOK'
  <2>1. DOMAIN got' \subseteq Fields
    <3>1. CASE m.type \in Handled
      BY <1>1, <1>5, <3>1, FieldsFill
    <3>2. CASE m.type \notin Handled
      BY <3>2 DEF Deserialize, Nothing, Fields
    <3>. QED  BY <3>1, <3>2
  <2>2. turn' \in 1..(Len(msgs') + 1)
    BY <1>1, <1>2
  <2>3. ASSUME NEW bytes \in {packet, buffer}, NEW p \in DOMAIN bytes
        PROVE  bytes[p] \in Bytes(turn')
    <3>1. bytes[p] \in Bytes(turn)
      BY DEF TypeOK, Bytes
    <3>2. 0..turn \subseteq 0..turn'
      BY <1>1, <1>2
    <3>. QED  BY <3>1, <3>2 DEF Bytes
  <2>. QED  BY <1>2, <1>3, <2>1, <2>2, <2>3 DEF TypeOK, Bytes
<1>7. AsSent'
  BY <1>4, <1>5 DEF AsSent
<1>8. Complete'
  <2> SUFFICES ASSUME m.type \in Handled \ {"UInt16Array", "Int8Array", "Int16Array"}
               PROVE  /\ stage' = "new"
                      /\ \A f \in DOMAIN Layout(m) :
                           f \in DOMAIN got' /\ DOMAIN got'[f] = 0..(Layout(m)[f].length - 1)
    BY <1>3, <1>4 DEF Complete
  <2>1. Reading(m.type) = Layout(m)
    BY <1>2, ReadsLayout
  <2>2. \A f \in DOMAIN Layout(m) : Kept(m.type, f) = Layout(m)[f].length
    BY <1>1, <2>1, KeptBounds
  <2>3. \A f \in DOMAIN Layout(m) : Layout(m)[f].length \in Nat
    BY <1>1, FieldsFill
  <2>4. ~Overruns(m.type)
    BY <2>1, <2>2, <2>3 DEF Overruns
  <2>5. stage' = "new"
    BY <2>4 DEF Deserialize
  <2>. QED  BY <1>5, <2>2, <2>5
<1>. QED  BY <1>6, <1>7, <1>8

-----------------------------------------------------------------------------
(* Theorems *)

Inv == TypeOK /\ Written /\ Arrived /\ AsSent /\ Complete

LEMMA Invariance == Spec => []Inv
<1>1. Init => Inv
  <2> SUFFICES ASSUME Init PROVE Inv
    OBVIOUS
  <2>1. TypeOK
    <3>1. msgs \in Seq(Message)
      BY StreamAssumption DEF Init, Message
    <3>2. Len(msgs) \in Nat
      BY <3>1
    <3>3. DOMAIN packet = {} /\ DOMAIN buffer = {} /\ DOMAIN got = {"none"}
      BY DEF Init, Nothing
    <3>. QED  BY <3>2, <3>3 DEF Init, TypeOK, Fields
  <2>2. Written /\ Arrived /\ AsSent /\ Complete
    BY DEF Init, Written, Arrived, AsSent, Complete
  <2>. QED  BY <2>1, <2>2 DEF Inv
<1>2. Inv /\ [Next]_vars => Inv'
  <2> SUFFICES ASSUME Inv, [Next]_vars PROVE Inv'
    OBVIOUS
  <2>1. CASE Serialize
    <3>1. TypeOK' /\ Written'
      BY <2>1, SerializeStep DEF Inv
    <3>2. Arrived' /\ AsSent' /\ Complete'
      BY <2>1 DEF Inv, Serialize, Arrived, AsSent, Complete
    <3>. QED  BY <3>1, <3>2 DEF Inv
  <2>2. CASE Receive
    <3>1. TypeOK' /\ Written' /\ Arrived'
      BY <2>2, ReceiveStep DEF Inv
    <3>2. AsSent' /\ Complete'
      BY <2>2 DEF Inv, Receive, AsSent, Complete
    <3>. QED  BY <3>1, <3>2 DEF Inv
  <2>3. CASE Deserialize
    <3>1. TypeOK' /\ AsSent' /\ Complete'
      BY <2>3, DeserializeStep DEF Inv
    <3>2. Written' /\ Arrived'
      BY <2>3 DEF Inv, Deserialize, Written, Arrived
    <3>. QED  BY <3>1, <3>2 DEF Inv
  <2>4. CASE UNCHANGED vars
    BY <2>4 DEF Inv, vars, TypeOK, Written, Arrived, AsSent, Complete
  <2>. QED  BY <2>1, <2>2, <2>3, <2>4 DEF Next
<1>. QED  BY <1>1, <1>2, PTL DEF Spec

(***************************************************************************)
(* Whatever the messages and their lengths, only bytes of their fields are *)
(* written and read (msgs.h, swiftrobot_packet.h:117-192).                 *)
(***************************************************************************)
THEOREM TypeCorrect == Spec => []TypeOK
<1>1. Inv => TypeOK
  BY DEF Inv
<1>. QED  BY <1>1, Invariance, PTL

(***************************************************************************)
(* getSize() counts the bytes serialize() writes, for any length: none of  *)
(* the packet is left unset and no field is cut off (msgs.h).              *)
(***************************************************************************)
THEOREM SizeIsWritten == Spec => []PacketFilled
<1>1. ASSUME Inv PROVE PacketFilled
  <2> SUFFICES ASSUME stage = "written", msgs[turn].type # "UpdateMsg"
               PROVE  PacketFilled!2
    BY DEF PacketFilled
  <2> DEFINE m == msgs[turn]
  <2>1. m \in Message /\ turn \in Nat \ {0}
    BY <1>1, Current DEF Inv, Written
  <2>2. m.type \in Handled
    BY <2>1 DEF Message, Types
  <2>3. /\ DOMAIN packet = 0..(GetSize(m) - 1)
        /\ \A f \in DOMAIN Layout(m) : \A p \in Layout(m)[f].at..Ends(Layout(m)[f]) :
             packet[p] = <<turn, f, p - Layout(m)[f].at>>
    BY <1>1, <2>2 DEF Inv, Written
  <2>4. ASSUME NEW f \in DOMAIN Layout(m), NEW p \in Layout(m)[f].at..Ends(Layout(m)[f])
        PROVE  p \in DOMAIN packet
    <3>1. /\ Layout(m)[f].at \in Nat /\ Layout(m)[f].length \in Nat
          /\ Layout(m)[f].at + Layout(m)[f].length <= GetSize(m) /\ GetSize(m) \in Nat
      BY <2>1, <2>2, FieldsFill
    <3>. QED  BY <2>3, <2>4, <3>1 DEF Ends
  <2>5. ASSUME NEW p \in DOMAIN packet PROVE packet[p] # Unset
    <3>1. PICK f \in Covering(m, p) : TRUE
      BY <2>1, <2>2, <2>3, FieldsFill
    <3>2. packet[p][1] = turn
      BY <2>3, <3>1 DEF Covering
    <3>. QED  BY <2>1, <3>2 DEF Unset
  <2>. QED  BY <2>3, <2>4, <2>5
<1>. QED  BY <1>1, Invariance, PTL

(***************************************************************************)
(* deserialize() returns bytes of the message that has arrived, each in    *)
(* its field and at its place, never what a longer packet has left in      *)
(* data_buffer (socket_client.cpp:185-200, msgs.h).                        *)
(***************************************************************************)
THEOREM ReadAsSent == Spec => []AsSent
<1>1. Inv => AsSent
  BY DEF Inv
<1>. QED  BY <1>1, Invariance, PTL

(***************************************************************************)
(* Of the types whose elements have four bytes, of UInt8Array and of those *)
(* without arrays, all is returned and nothing else is written, however    *)
(* long the array is (msgs.h:75, swiftrobot_packet.h:117-192).             *)
(***************************************************************************)
THEOREM ReadWhole == Spec => []Complete
<1>1. Inv => Complete
  BY DEF Inv
<1>. QED  BY <1>1, Invariance, PTL
=============================================================================
