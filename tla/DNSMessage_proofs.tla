--------------------------- MODULE DNSMessage_proofs ---------------------------
(***************************************************************************)
(* Proofs about the parser of DNS packets: for packets of any length and   *)
(* any bytes, and any number of rounds for a name.                         *)
(***************************************************************************)
EXTENDS DNSMessage, Folding_proofs, SequenceTheorems

\* A packet is a sequence of bytes.
PacketType == packet \in Seq(0..255)

LEMMA PacketTypeCorrect == Spec => []PacketType
<1>1. Init => PacketType
  BY DNSMessageAssumption DEF Init, PacketType
<1>2. PacketType /\ [Grow]_packet => PacketType'
  <2> SUFFICES ASSUME PacketType, [Grow]_packet PROVE PacketType'
    OBVIOUS
  <2>1. CASE Grow
    <3>1. PICK byte \in Bytes : packet' = Append(packet, byte)
      BY <2>1 DEF Grow
    <3>2. byte \in 0..255
      BY DNSMessageAssumption
    <3> QED
      BY <3>1, <3>2 DEF PacketType
  <2>2. CASE packet' = packet
    BY <2>2 DEF PacketType
  <2> QED
    BY <2>1, <2>2
<1> QED
  BY <1>1, <1>2, PTL DEF Spec

-----------------------------------------------------------------------------
(* Frames. *)

\* A length is its two bytes.
LEMMA TwoBytes ==
    ASSUME NEW n \in Nat
    PROVE  n \div 256 \in Nat /\ n % 256 \in Nat /\ 256 * (n \div 256) + (n % 256) = n
  OBVIOUS

\* A number at the beginning.
LEMMA FirstNumber ==
    ASSUME NEW bytes
    PROVE  Uint16(bytes, 0) = 256 * bytes[1] + bytes[2]
  BY DEF Uint16, At

\* A frame begins with the length of its message.
LEMMA FrameLength ==
    ASSUME NEW p \in Seq(Nat), NEW more \in Seq(Nat)
    PROVE  /\ Framed(p) \in Seq(Nat) /\ Len(Framed(p)) = Len(p) + 2
           /\ Framed(p) \o more \in Seq(Nat)
           /\ Len(Framed(p) \o more) = Len(p) + 2 + Len(more)
           /\ Uint16(Framed(p), 0) = Len(p) /\ Uint16(Framed(p) \o more, 0) = Len(p)
           /\ \A i \in 1..Len(p) : (Framed(p) \o more)[i + 2] = p[i]
<1> DEFINE high == Len(p) \div 256
           low  == Len(p) % 256
           size == <<high, low>>
<1>1. Len(p) \in Nat /\ Len(more) \in Nat
  BY LenProperties
<1>2. high \in Nat /\ low \in Nat /\ 256 * high + low = Len(p)
  BY <1>1, TwoBytes
<1>3. Framed(p) = size \o p
  BY DEF Framed
<1> HIDE DEF high, low
<1>4. size \in Seq(Nat) /\ Len(size) = 2 /\ size[1] = high /\ size[2] = low
  BY <1>2
<1> HIDE DEF size
<1>5. /\ size \o p \in Seq(Nat) /\ Len(size \o p) = Len(p) + 2
      /\ \A i \in 1..(Len(p) + 2) : (size \o p)[i] = IF i <= 2 THEN size[i] ELSE p[i - 2]
  <2>1. /\ size \o p \in Seq(Nat) /\ Len(size \o p) = Len(size) + Len(p)
        /\ \A i \in 1..(Len(size) + Len(p)) : (size \o p)[i] = IF i <= Len(size) THEN size[i] ELSE p[i - Len(size)]
    BY <1>4, ConcatProperties
  <2>2. Len(size) + Len(p) = Len(p) + 2
    BY <1>1, <1>4
  <2> QED
    BY <1>4, <2>1, <2>2
<1>6. /\ Framed(p) \o more \in Seq(Nat) /\ Len(Framed(p) \o more) = Len(p) + 2 + Len(more)
      /\ \A i \in 1..(Len(p) + 2) : (Framed(p) \o more)[i] = (size \o p)[i]
  <2> DEFINE framed == size \o p
  <2>1. framed \in Seq(Nat) /\ Len(framed) = Len(p) + 2
    BY <1>5
  <2> HIDE DEF framed
  <2>2. /\ framed \o more \in Seq(Nat) /\ Len(framed \o more) = Len(framed) + Len(more)
        /\ \A i \in 1..(Len(framed) + Len(more)) :
             (framed \o more)[i] = IF i <= Len(framed) THEN framed[i] ELSE more[i - Len(framed)]
    BY <2>1, ConcatProperties
  <2>3. \A i \in 1..(Len(p) + 2) : i \in 1..(Len(framed) + Len(more)) /\ i <= Len(framed)
    BY <1>1, <2>1
  <2> QED
    BY <1>3, <2>1, <2>2, <2>3 DEF framed
<1>7. \A i \in 1..Len(p) : (size \o p)[i + 2] = p[i]
  <2> SUFFICES ASSUME NEW i \in 1..Len(p) PROVE (size \o p)[i + 2] = p[i]
    OBVIOUS
  <2>1. i + 2 \in 1..(Len(p) + 2) /\ ~(i + 2 <= 2) /\ (i + 2) - 2 = i
    BY <1>1
  <2> QED
    BY <1>5, <2>1
<1>8. 1 \in 1..(Len(p) + 2) /\ 2 \in 1..(Len(p) + 2)
  BY <1>1
<1>9. (size \o p)[1] = high /\ (size \o p)[2] = low
  BY ONLY <1>4, <1>5, <1>8
<1>10. Uint16(Framed(p), 0) = Len(p)
  <2>1. PICK bytes : bytes = size \o p
    OBVIOUS
  <2>2. Uint16(bytes, 0) = 256 * bytes[1] + bytes[2]
    BY ONLY FirstNumber
  <2>3. bytes[1] = high /\ bytes[2] = low
    BY ONLY <1>9, <2>1
  <2> QED
    BY ONLY <1>2, <1>3, <2>1, <2>2, <2>3
<1>11. (Framed(p) \o more)[1] = high /\ (Framed(p) \o more)[2] = low
  BY ONLY <1>6, <1>8, <1>9
<1>12. Uint16(Framed(p) \o more, 0) = Len(p)
  <2>1. PICK bytes : bytes = Framed(p) \o more
    OBVIOUS
  <2>2. Uint16(bytes, 0) = 256 * bytes[1] + bytes[2]
    BY ONLY FirstNumber
  <2>3. bytes[1] = high /\ bytes[2] = low
    BY ONLY <1>11, <2>1
  <2> QED
    BY ONLY <1>2, <2>1, <2>2, <2>3
<1>13. \A i \in 1..Len(p) : (Framed(p) \o more)[i + 2] = p[i]
  <2>1. \A i \in 1..Len(p) : i + 2 \in 1..(Len(p) + 2)
    BY <1>1
  <2> QED
    BY ONLY <1>6, <1>7, <2>1
<1> QED
  BY <1>3, <1>5, <1>6, <1>10, <1>12, <1>13

\* A whole frame is read as the message in it.
LEMMA WholeFrame ==
    ASSUME NEW p \in Seq(Nat), NEW more \in Seq(Nat)
    PROVE  parseDNSMessage(Framed(p) \o more, TRUE) = parseDNSMessage(p, FALSE)
<1> DEFINE frame == Framed(p) \o more
<1>1. /\ frame \in Seq(Nat) /\ Len(frame) = Len(p) + 2 + Len(more) /\ Uint16(frame, 0) = Len(p)
      /\ \A i \in 1..Len(p) : frame[i + 2] = p[i] /\ Len(p) \in Nat /\ Len(more) \in Nat
  BY FrameLength, LenProperties
<1> HIDE DEF frame
<1>2. Len(p) \in Nat /\ Len(more) \in Nat
  BY LenProperties
<1>3. Slice(frame, 2, 2 + Len(p)) = p
  <2> DEFINE body == SubSeq(frame, 3, Len(p) + 2)
  <2>1. \A i \in 3..(Len(p) + 2) : frame[i] \in Nat
    BY <1>1, <1>2, ElementOfSeq
  <2>2. body \in Seq(Nat) /\ Len(body) = Len(p) /\ \A i \in 1..Len(p) : body[i] = frame[i + 2]
    BY <1>2, <2>1, SubSeqProperties
  <2>3. \A i \in 1..Len(p) : body[i] = p[i]
    BY <1>1, <2>2
  <2> HIDE DEF body
  <2>4. body = p
    BY <2>2, <2>3, SeqEqual
  <2> QED
    BY <1>2, <2>4 DEF Slice, body
<1>4. ~(Len(frame) < 2 \/ Uint16(frame, 0) > Len(frame) - 2)
  BY <1>1, <1>2
<1> QED
  BY <1>1, <1>3, <1>4 DEF parseDNSMessage, frame

\* A part of a frame is not read.
LEMMA PartOfFrame ==
    ASSUME NEW p \in Seq(Nat), NEW n \in 0..(Len(Framed(p)) - 1)
    PROVE  parseDNSMessage(SubSeq(Framed(p), 1, n), TRUE) = Nil
<1> DEFINE frame == Framed(p)
           part  == SubSeq(frame, 1, n)
<1>1. frame \in Seq(Nat) /\ Len(frame) = Len(p) + 2 /\ Uint16(frame, 0) = Len(p) /\ Len(p) \in Nat
  <2>1. <<>> \in Seq(Nat)
    BY EmptySeq
  <2> QED
    BY <2>1, FrameLength, LenProperties
<1> HIDE DEF frame
<1>2. n \in Nat /\ n < Len(p) + 2
  BY <1>1 DEF frame
<1>3. \A i \in 1..n : frame[i] \in Nat
  BY <1>1, <1>2, ElementOfSeq
<1>4. Len(part) = n /\ \A i \in 1..n : part[i] = frame[i]
  BY <1>2, <1>3, SubSeqProperties
<1> HIDE DEF part
<1>5. n >= 2 => Uint16(part, 0) = Len(p)
  BY <1>1, <1>2, <1>4 DEF Uint16, At
<1>6. Len(part) < 2 \/ Uint16(part, 0) > Len(part) - 2
  BY <1>1, <1>2, <1>4, <1>5
<1> QED
  BY <1>6 DEF parseDNSMessage, part, frame

\* The bytes of a packet are numbers.
LEMMA PacketOfNumbers == PacketType => packet \in Seq(Nat)
<1>1. 0..255 \subseteq Nat
  OBVIOUS
<1> QED
  BY <1>1, SeqMonotonic DEF PacketType

\* A frame in one piece is read as the message in it, whatever comes behind it,
\* and no part of a frame is read (parseDNSMessage, main.go:281-293).
THEOREM FramesAreRead == Spec => []FramesReadAsTheirMessages
<1>1. PacketType => FramesReadAsTheirMessages
  <2> SUFFICES ASSUME PacketType PROVE FramesReadAsTheirMessages
    OBVIOUS
  <2>1. packet \in Seq(Nat) /\ \A more \in {<<>>, <<0>>, packet} : more \in Seq(Nat)
    <3>1. <<>> \in Seq(Nat) /\ <<0>> \in Seq(Nat)
      OBVIOUS
    <3> QED
      BY <3>1, PacketOfNumbers
  <2>2. \A more \in {<<>>, <<0>>, packet} :
          parseDNSMessage(Framed(packet) \o more, TRUE) = parseDNSMessage(packet, FALSE)
    BY <2>1, WholeFrame
  <2>3. \A n \in 0..(Len(Framed(packet)) - 1) : parseDNSMessage(SubSeq(Framed(packet), 1, n), TRUE) = Nil
    BY <2>1, PartOfFrame
  <2> QED
    BY <2>2, <2>3 DEF FramesReadAsTheirMessages
<1> QED
  BY <1>1, PacketTypeCorrect, PTL

\* A message is a response when the highest bit of its flags says so.
LEMMA FlagsSay ==
    ASSUME NEW bytes, ParsedMessage(bytes) # Nil
    PROVE  ~(Len(bytes) < 12) /\ (Uint16(bytes, 2) < 32768 /\ Uint16(bytes, 2) \in Nat => ~ParsedMessage(bytes).response)
<1> DEFINE says == Uint16(bytes, 2) >= 32768
<1>1. ~(Len(bytes) < 12) /\ ParsedMessage(bytes).response = says
  BY SMT DEF ParsedMessage
<1>2. Uint16(bytes, 2) < 32768 /\ Uint16(bytes, 2) \in Nat => ~says
  OBVIOUS
<1> HIDE DEF says
<1> QED
  BY <1>1, <1>2

\* The body of a framed message with one question is never counted as a response
\* (recordResponse, main.go:201-205).
THEOREM BodiesAreNotCounted == Spec => []BodiesAreNoResponses
<1>1. PacketType => BodiesAreNoResponses
  <2> SUFFICES ASSUME PacketType, Len(packet) >= 12, Uint16(packet, 4) = 1,
                      parseDNSMessage(packet, TRUE) # Nil
               PROVE  ~parseDNSMessage(packet, TRUE).response
    BY DEF BodiesAreNoResponses
  <2> DEFINE length == Uint16(packet, 0)
             body   == Slice(packet, 2, 2 + length)
  <2>1. packet \in Seq(Nat) /\ Len(packet) \in Nat /\ length \in Nat
    <3>1. packet \in Seq(Nat) /\ Len(packet) \in Nat
      BY PacketOfNumbers, LenProperties
    <3>2. packet[1] \in Nat /\ packet[2] \in Nat
      BY <3>1, ElementOfSeq
    <3> QED
      BY <3>1, <3>2 DEF Uint16, At
  <2>2. length <= Len(packet) - 2 /\ parseDNSMessage(packet, TRUE) = ParsedMessage(body)
    BY <2>1 DEF parseDNSMessage
  <2> HIDE DEF length
  <2>3. Len(body) = length /\ \A i \in 1..length : body[i] = packet[i + 2]
    <3> DEFINE part == SubSeq(packet, 3, 2 + length)
    <3>1. \A i \in 3..(2 + length) : packet[i] \in Nat
      BY <2>1, <2>2, ElementOfSeq
    <3>2. Len(part) = length /\ \A i \in 1..length : part[i] = packet[3 + i - 1]
      <4>1. 3 \in Int /\ 2 + length \in Int
        BY <2>1
      <4>2. /\ Len(part) = IF 3 <= 2 + length THEN (2 + length) - 3 + 1 ELSE 0
            /\ \A i \in 1..((2 + length) - 3 + 1) : part[i] = packet[3 + i - 1]
        BY <3>1, <4>1, SubSeqProperties
      <4> HIDE DEF part
      <4> QED
        BY <2>1, <4>2
    <3>3. body = part
      BY DEF Slice
    <3> HIDE DEF part, body
    <3>4. \A i \in 1..length : 3 + i - 1 = i + 2
      BY <2>1
    <3> QED
      BY ONLY <3>2, <3>3, <3>4
  <2> HIDE DEF body
  <2>4. ParsedMessage(body) # Nil
    BY <2>2
  <2>5. Uint16(body, 2) = Uint16(packet, 4)
    <3>1. ~(Len(body) < 12)
      BY <2>4, FlagsSay
    <3>2. 3 \in 1..length /\ 4 \in 1..length
      BY <2>1, <2>3, <3>1
    <3>3. body[3] = packet[5] /\ body[4] = packet[6]
      BY <2>3, <3>2
    <3> QED
      BY ONLY <3>3 DEF Uint16, At
  <2>6. ~ParsedMessage(body).response
    BY <2>4, <2>5, FlagsSay
  <2> QED
    BY <2>2, <2>6
<1> QED
  BY <1>1, PacketTypeCorrect, PTL

-----------------------------------------------------------------------------
(* Names.  The loop of decodeDNSName is a fold over its rounds. *)

Rounds == 1..NameSteps

\* Where the loop is, and where it begins.
Walks == [offset : Nat, next : Nat, jumped : BOOLEAN, labels : Seq(Seq(Nat)), at : {"name", "end", "error"}]

Begin(start) == [offset |-> start, next |-> start, jumped |-> FALSE, labels |-> <<>>, at |-> "name"]

\* Where it ends.
Walked(bytes, start) ==
    FoldLeft(LAMBDA before, i : NameStep(bytes, before), Begin(start), [i \in 1..NameSteps |-> i])

\* A set of rounds has a last one.
LEMMA LastRound ==
    ASSUME NEW T \in SUBSET Rounds, T # {}
    PROVE  Max(T) \in T
<1>1. IsFiniteSet(Rounds)
  BY FS_Interval, DNSMessageAssumption DEF Rounds
<1>2. T \subseteq Int
  BY DNSMessageAssumption DEF Rounds
<1> DEFINE Above(x) == {y \in T : y > x}
           Family   == {Above(x) : x \in T}
<1>3. PICK A \in Family : \A U \in Family : U \subseteq A => U = A
  <2>1. Family \in SUBSET SUBSET Rounds /\ Family # {}
    OBVIOUS
  <2> HIDE DEF Family
  <2> QED
    BY <1>1, <2>1, SmallestSubset
<1>4. PICK x \in T : A = Above(x)
  OBVIOUS
<1>5. A = {}
  <2> SUFFICES ASSUME NEW y \in A PROVE FALSE
    OBVIOUS
  <2>1. y \in T /\ y > x
    BY <1>4
  <2>2. Above(y) \subseteq A
    <3>1. \A z \in T : z > y => z > x
      BY <1>2, <2>1
    <3> QED
      BY <1>4, <3>1
  <2>3. Above(y) = A
    BY <1>3, <2>1, <2>2
  <2> QED
    BY <1>2, <2>1, <2>3
<1>6. \A y \in T : x >= y
  BY <1>2, <1>4, <1>5
<1> QED
  BY <1>4, <1>6 DEF Max

\* One round goes from walk to walk.
LEMMA NameStepType ==
    ASSUME NEW bytes \in Seq(Nat), NEW walk \in Walks
    PROVE  NameStep(bytes, walk) \in Walks
<1> DEFINE offset  == walk.offset
           length  == At(bytes, offset)
           Past(n) == IF walk.jumped THEN walk.next ELSE n
<1>1. offset \in Nat /\ walk.next \in Nat /\ walk.labels \in Seq(Seq(Nat)) /\ Len(bytes) \in Nat
  BY LenProperties DEF Walks
<1>2. [walk EXCEPT !.at = "error"] \in Walks
  BY Zenon DEF Walks
<1>3. CASE walk.at # "name"
  BY <1>3 DEF NameStep
<1>4. CASE walk.at = "name" /\ offset >= Len(bytes)
  BY <1>2, <1>4 DEF NameStep, Failed
<1>5. CASE walk.at = "name" /\ ~(offset >= Len(bytes))
  <2>1. length \in Nat
    <3>1. offset + 1 \in 1..Len(bytes)
      BY <1>1, <1>5
    <3> QED
      BY <3>1, ElementOfSeq DEF At
  <2>2. Past(offset + 1) \in Nat /\ Past(offset + 2) \in Nat /\ Past(offset + 1 + length) \in Nat
        /\ offset + 1 + length \in Nat
    <3> HIDE DEF offset, length
    <3> QED
      BY <1>1, <2>1
  <2> HIDE DEF Past
  <2>3. CASE length = 0
    <3>1. NameStep(bytes, walk) = [walk EXCEPT !.at = "end", !.next = Past(offset + 1)]
      BY <1>5, <2>3 DEF NameStep, Past
    <3> QED
      BY <2>2, <3>1, Zenon DEF Walks
  <2>4. CASE length >= 192 /\ offset + 1 < Len(bytes)
    <3>1. NameStep(bytes, walk) = [walk EXCEPT !.offset = Pointer(bytes, offset), !.next = Past(offset + 2), !.jumped = TRUE]
      <4>1. ~(length = 0)
        BY <2>1, <2>4
      <4>2. ~(length \in 1..63)
        <5> HIDE DEF length
        <5> QED
          BY <2>1, <2>4
      <4> QED
        BY ONLY <1>5, <2>4, <4>1, <4>2, Zenon DEF NameStep, Past
    <3>2. Pointer(bytes, offset) \in Nat
      <4>1. (offset + 1) + 1 \in 1..Len(bytes)
        BY <1>1, <2>4
      <4>2. At(bytes, offset + 1) \in Nat
        BY <4>1, ElementOfSeq DEF At
      <4>3. length % 64 \in Nat
        BY <2>1
      <4> HIDE DEF length
      <4> QED
        BY <4>2, <4>3 DEF Pointer, length
    <3> QED
      BY <2>2, <3>1, <3>2, Zenon DEF Walks
  <2>5. CASE length \in 1..63 /\ offset + 1 + length <= Len(bytes) /\ ~(length >= 192 /\ offset + 1 < Len(bytes))
    <3> DEFINE label == Slice(bytes, offset + 1, offset + 1 + length)
    <3>1. NameStep(bytes, walk) = [walk EXCEPT !.labels = Append(@, label), !.offset = offset + 1 + length,
                                               !.next = Past(offset + 1 + length)]
      <4>1. ~(length = 0)
        <5> HIDE DEF length
        <5> QED
          BY <2>5
      <4> QED
        BY ONLY <1>5, <2>5, <4>1, Zenon DEF NameStep, Past
    <3>2. label \in Seq(Nat)
      <4>1. /\ (offset + 1) + 1 \in Int /\ offset + 1 + length \in Int
            /\ \A i \in ((offset + 1) + 1)..(offset + 1 + length) : i \in 1..Len(bytes)
        BY <1>1, <2>1, <2>5
      <4>2. \A i \in ((offset + 1) + 1)..(offset + 1 + length) : bytes[i] \in Nat
        BY <4>1, ElementOfSeq
      <4> QED
        BY <4>1, <4>2, SubSeqProperties DEF Slice
    <3> HIDE DEF label
    <3>3. Append(walk.labels, label) \in Seq(Seq(Nat))
      BY <1>1, <3>2, AppendProperties
    <3> QED
      BY <2>2, <3>1, <3>3, Zenon DEF Walks
  <2>6. CASE ~(length = 0) /\ ~(length >= 192 /\ offset + 1 < Len(bytes))
             /\ ~(length \in 1..63 /\ offset + 1 + length <= Len(bytes))
    BY <1>2, <1>5, <2>6 DEF NameStep, Failed
  <2> QED
    BY <2>3, <2>4, <2>5, <2>6
<1> QED
  BY <1>3, <1>4, <1>5

\* What a loop does round by round.
LoopOf(g, bytes, start) ==
    /\ g \in [SUBSET Rounds -> Walks]
    /\ g[{}] = Begin(start)
    /\ \A T \in SUBSET Rounds : T # {} => g[T] = NameStep(bytes, g[T \ {Max(T)}])

\* There is such a loop.
LEMMA LoopExists ==
    ASSUME NEW bytes \in Seq(Nat), NEW start \in Nat
    PROVE  \E g : LoopOf(g, bytes, start)
<1> DEFINE choice == [T \in SUBSET Rounds |-> Max(T)]
           step   == [c \in (SUBSET Rounds) \X Walks |-> NameStep(bytes, c[2])]
<1>1. IsFiniteSet(Rounds)
  BY FS_Interval, DNSMessageAssumption DEF Rounds
<1>2. \A T \in SUBSET Rounds : T # {} => choice[T] \in T
  BY LastRound
<1>3. step \in [(SUBSET Rounds) \X Walks -> Walks]
  BY NameStepType
<1>4. Begin(start) \in Walks
  BY DEF Begin, Walks
<1>5. PICK g \in FoldsIn(Rounds, Walks, Begin(start), choice, step) : TRUE
  <2> HIDE DEF choice, step
  <2> QED
    BY <1>1, <1>2, <1>3, <1>4, FoldExists
<1>6. \A T \in SUBSET Rounds : T # {} => g[T] = NameStep(bytes, g[T \ {Max(T)}])
  <2> SUFFICES ASSUME NEW T \in SUBSET Rounds, T # {} PROVE g[T] = NameStep(bytes, g[T \ {Max(T)}])
    OBVIOUS
  <2>1. g[T] = step[<<T, g[T \ {choice[T]}]>>] /\ T \ {choice[T]} \in SUBSET Rounds /\ g \in [SUBSET Rounds -> Walks]
    BY DEF FoldsIn, FoldsOver
  <2> QED
    BY <2>1
<1> QED
  BY <1>5, <1>6 DEF FoldsIn, FoldsOver, LoopOf

\* The fold ends where such a loop does.
LEMMA WalkedIsLoop ==
    ASSUME NEW bytes \in Seq(Nat), NEW start \in Nat, NEW g, LoopOf(g, bytes, start)
    PROVE  Walked(bytes, start) = g[Rounds]
<1> DEFINE Body(f) == [s \in SUBSET Rounds |-> IF s = {} THEN Begin(start) ELSE NameStep(bytes, f[s \ {Max(s)}])]
           iter    == CHOOSE f : f = Body(f)
<1>1. Walked(bytes, start) = iter[Rounds]
  BY DEF Walked, FoldLeft, MapThenFoldSet, Rounds
<1>2. g = Body(g)
  BY DEF LoopOf
<1>3. iter = Body(iter)
  <2> HIDE DEF Body
  <2> QED
    BY <1>2
<1> HIDE DEF iter
<1>4. /\ iter[{}] = Begin(start)
      /\ \A T \in SUBSET Rounds : T # {} => iter[T] = NameStep(bytes, iter[T \ {Max(T)}])
  BY <1>3
<1> DEFINE Differ == {T \in SUBSET Rounds : iter[T] # g[T]}
<1>5. ASSUME Differ # {} PROVE FALSE
  <2>1. PICK T \in Differ : \A U \in Differ : U \subseteq T => U = T
    <3>1. Differ \in SUBSET SUBSET Rounds /\ IsFiniteSet(Rounds)
      BY FS_Interval, DNSMessageAssumption DEF Rounds
    <3> HIDE DEF Differ
    <3> QED
      BY <1>5, <3>1, SmallestSubset
  <2>2. T # {}
    BY <1>4, <2>1 DEF LoopOf
  <2>3. T \ {Max(T)} \in SUBSET Rounds /\ T \ {Max(T)} \notin Differ
    <3>1. Max(T) \in T
      BY <2>2, LastRound
    <3> QED
      BY <2>1, <3>1
  <2> QED
    BY <1>4, <2>1, <2>2, <2>3 DEF LoopOf
<1> QED
  BY <1>1, <1>5

\* A byte more changes nothing before it.
LEMMA SameBefore ==
    ASSUME NEW bytes \in Seq(Nat), NEW byte \in Nat
    PROVE  LET more == Append(bytes, byte)
           IN /\ more \in Seq(Nat) /\ Len(more) = Len(bytes) + 1 /\ Len(bytes) \in Nat
              /\ \A offset \in Nat : offset < Len(bytes) => At(more, offset) = At(bytes, offset) /\ At(bytes, offset) \in Nat
              /\ \A from, end \in Nat : end <= Len(bytes) => Slice(more, from, end) = Slice(bytes, from, end)
<1> DEFINE more == Append(bytes, byte)
<1>1. /\ more \in Seq(Nat) /\ Len(more) = Len(bytes) + 1 /\ Len(bytes) \in Nat
      /\ \A i \in 1..Len(bytes) : more[i] = bytes[i]
  BY AppendProperties, LenProperties
<1> HIDE DEF more
<1>2. \A i \in 1..Len(bytes) : more[i] = bytes[i] /\ bytes[i] \in Nat
  BY <1>1, ElementOfSeq
<1>3. ASSUME NEW offset \in Nat, offset < Len(bytes)
      PROVE  At(more, offset) = At(bytes, offset) /\ At(bytes, offset) \in Nat
  <2>1. offset + 1 \in 1..Len(bytes)
    BY <1>1, <1>3
  <2> QED
    BY <1>2, <2>1 DEF At
<1>4. ASSUME NEW from \in Nat, NEW end \in Nat, end <= Len(bytes)
      PROVE  Slice(more, from, end) = Slice(bytes, from, end)
  <2> DEFINE x == SubSeq(more, from + 1, end)
             y == SubSeq(bytes, from + 1, end)
             n == end - (from + 1) + 1
  <2>1. from + 1 \in Int /\ end \in Int /\ n \in Int
    OBVIOUS
  <2>2. \A i \in (from + 1)..end : i \in 1..Len(bytes)
    BY <1>1, <1>4
  <2>3. \A i \in (from + 1)..end : more[i] \in Nat /\ bytes[i] \in Nat /\ more[i] = bytes[i]
    BY <1>2, <2>2
  <2>4. /\ x \in Seq(Nat) /\ Len(x) = (IF from + 1 <= end THEN n ELSE 0)
        /\ \A i \in 1..n : x[i] = more[(from + 1) + i - 1]
    BY <2>1, <2>3, SubSeqProperties
  <2>5. /\ y \in Seq(Nat) /\ Len(y) = (IF from + 1 <= end THEN n ELSE 0)
        /\ \A i \in 1..n : y[i] = bytes[(from + 1) + i - 1]
    BY <2>1, <2>3, SubSeqProperties
  <2>6. \A i \in 1..n : (from + 1) + i - 1 \in (from + 1)..end
    OBVIOUS
  <2> HIDE DEF x, y
  <2>7. \A i \in 1..n : x[i] = y[i]
    BY ONLY <2>3, <2>4, <2>5, <2>6
  <2>8. Len(x) = Len(y) /\ \A i \in 1..Len(x) : i \in 1..n
    BY <2>4, <2>5
  <2>9. x = y
    BY ONLY <2>4, <2>5, <2>7, <2>8, SeqEqual
  <2> QED
    BY <2>9 DEF Slice, x, y
<1> QED
  BY <1>1, <1>3, <1>4 DEF more

\* A round that meets no error does with a byte more what it did without it.
LEMMA SameStep ==
    ASSUME NEW bytes \in Seq(Nat), NEW byte \in Nat, NEW walk \in Walks, NameStep(bytes, walk).at # "error"
    PROVE  NameStep(Append(bytes, byte), walk) = NameStep(bytes, walk)
<1> DEFINE more   == Append(bytes, byte)
           offset == walk.offset
           length == At(bytes, offset)
<1>1. /\ Len(more) = Len(bytes) + 1 /\ Len(bytes) \in Nat
      /\ \A o \in Nat : o < Len(bytes) => At(more, o) = At(bytes, o) /\ At(bytes, o) \in Nat
      /\ \A from, end \in Nat : end <= Len(bytes) => Slice(more, from, end) = Slice(bytes, from, end)
  BY SameBefore
<1> HIDE DEF more
<1>2. offset \in Nat /\ [walk EXCEPT !.at = "error"].at = "error"
  BY DEF Walks
<1>3. CASE walk.at # "name"
  BY <1>3 DEF NameStep, more
<1>4. CASE walk.at = "name"
  <2>1. offset < Len(bytes)
    <3>1. CASE offset >= Len(bytes)
      <4>1. NameStep(bytes, walk) = Failed(walk)
        BY <1>4, <3>1 DEF NameStep
      <4> QED
        BY <1>2, <4>1 DEF Failed
    <3> QED
      BY <1>1, <1>2, <3>1
  <2>2. At(more, offset) = length /\ length \in Nat /\ ~(offset >= Len(more)) /\ ~(offset >= Len(bytes))
    BY <1>1, <1>2, <2>1
  <2>3. CASE length = 0
    BY <1>4, <2>2, <2>3 DEF NameStep, more
  <2>4. CASE length >= 192 /\ offset + 1 < Len(bytes)
    <3>1. Pointer(more, offset) = Pointer(bytes, offset)
      <4>1. offset + 1 \in Nat
        BY <1>2
      <4>2. At(more, offset + 1) = At(bytes, offset + 1) /\ At(more, offset) = At(bytes, offset)
        BY <1>1, <2>2, <2>4, <4>1
      <4> QED
        BY <4>2 DEF Pointer
    <3>2. offset + 1 < Len(more) /\ ~(length = 0) /\ ~(length \in 1..63)
      <4>1. offset \in Nat /\ length \in Nat /\ Len(more) = Len(bytes) + 1 /\ Len(bytes) \in Nat
        BY <1>1, <1>2, <2>2
      <4> HIDE DEF offset, length
      <4> QED
        BY ONLY <2>4, <4>1
    <3> QED
      BY ONLY <1>4, <2>2, <2>4, <3>1, <3>2, Zenon DEF NameStep, more
  <2>5. CASE length \in 1..63 /\ offset + 1 + length <= Len(bytes)
    <3>1. Slice(more, offset + 1, offset + 1 + length) = Slice(bytes, offset + 1, offset + 1 + length)
      <4>1. offset + 1 \in Nat /\ offset + 1 + length \in Nat
        BY <1>2, <2>2
      <4> QED
        BY <1>1, <2>5, <4>1
    <3>2. offset + 1 + length <= Len(more) /\ ~(length = 0) /\ ~(length >= 192)
      <4>1. offset \in Nat /\ length \in Nat /\ Len(more) = Len(bytes) + 1 /\ Len(bytes) \in Nat
        BY <1>1, <1>2, <2>2
      <4> HIDE DEF offset, length
      <4> QED
        BY ONLY <2>5, <4>1
    <3> QED
      BY ONLY <1>4, <2>2, <2>5, <3>1, <3>2, Zenon DEF NameStep, more
  <2>6. CASE ~(length = 0) /\ ~(length >= 192 /\ offset + 1 < Len(bytes))
             /\ ~(length \in 1..63 /\ offset + 1 + length <= Len(bytes))
    <3>1. NameStep(bytes, walk) = Failed(walk)
      BY <1>4, <2>2, <2>6 DEF NameStep
    <3> QED
      BY <1>2, <3>1 DEF Failed
  <2> QED
    BY <2>3, <2>4, <2>5, <2>6
<1> QED
  BY <1>3, <1>4

\* What is read of a name when the loop has ended.
Reading(walk) == [name |-> Joined(walk.labels), next |-> walk.next, ok |-> walk.at = "end"]

LEMMA NameIsReading == \A bytes, start : decodeDNSName(bytes, start) = Reading(Walked(bytes, start))
  BY DEF decodeDNSName, Reading, Walked, Begin

\* It is a name if the loop met its end.
LEMMA ReadingIsName ==
    ASSUME NEW walk, Reading(walk).ok
    PROVE  walk.at = "end" /\ Reading(walk).next = walk.next
<1> DEFINE ended == walk.at = "end"
<1>1. Reading(walk).ok = ended /\ Reading(walk).next = walk.next
  BY SMT DEF Reading
<1> HIDE DEF ended
<1>2. ended
  BY <1>1
<1> QED
  BY <1>1, <1>2 DEF ended

\* A name that was read stays the same with a byte more.
LEMMA SameName ==
    ASSUME NEW bytes \in Seq(Nat), NEW byte \in Nat, NEW start \in Nat, decodeDNSName(bytes, start).ok
    PROVE  /\ decodeDNSName(Append(bytes, byte), start) = decodeDNSName(bytes, start)
           /\ decodeDNSName(bytes, start).next \in Nat
<1> DEFINE more == Append(bytes, byte)
<1>1. more \in Seq(Nat)
  BY AppendProperties
<1> HIDE DEF more
<1>2. PICK g : LoopOf(g, bytes, start)
  BY LoopExists
<1>3. PICK h : LoopOf(h, more, start)
  BY <1>1, LoopExists
<1>4. Walked(bytes, start) = g[Rounds] /\ Walked(more, start) = h[Rounds]
  BY <1>1, <1>2, <1>3, WalkedIsLoop
<1>5. decodeDNSName(bytes, start) = Reading(g[Rounds]) /\ decodeDNSName(more, start) = Reading(h[Rounds])
  BY <1>4, NameIsReading
<1>6. g[Rounds].at = "end" /\ g[Rounds].next \in Nat /\ Reading(g[Rounds]).next = g[Rounds].next
  <2>1. g[Rounds] \in Walks
    BY <1>2 DEF LoopOf
  <2> QED
    BY <1>5, <2>1, ReadingIsName DEF Walks
<1> DEFINE Differ == {T \in SUBSET Rounds : g[T].at # "error" /\ h[T] # g[T]}
<1>7. ASSUME Differ # {} PROVE FALSE
  <2>1. PICK T \in Differ : \A U \in Differ : U \subseteq T => U = T
    <3>1. Differ \in SUBSET SUBSET Rounds /\ IsFiniteSet(Rounds)
      BY FS_Interval, DNSMessageAssumption DEF Rounds
    <3> HIDE DEF Differ
    <3> QED
      BY <1>7, <3>1, SmallestSubset
  <2>2. T # {}
    BY <1>2, <1>3, <2>1 DEF LoopOf
  <2> DEFINE before == T \ {Max(T)}
  <2>3. before \in SUBSET Rounds /\ before \notin Differ
    <3>1. Max(T) \in T
      BY <2>2, LastRound
    <3> QED
      BY <2>1, <3>1
  <2>4. /\ g[T] = NameStep(bytes, g[before]) /\ h[T] = NameStep(more, h[before])
        /\ g[before] \in Walks
    BY <1>2, <1>3, <2>1, <2>2, <2>3 DEF LoopOf
  <2>5. CASE g[before].at = "error"
    <3>1. NameStep(bytes, g[before]) = g[before]
      BY <2>5 DEF NameStep
    <3> QED
      BY <2>1, <2>4, <2>5, <3>1
  <2>6. CASE h[before] = g[before]
    <3>1. NameStep(bytes, g[before]).at # "error"
      BY <2>1, <2>4
    <3>2. NameStep(more, g[before]) = NameStep(bytes, g[before])
      BY <2>4, <3>1, SameStep DEF more
    <3> QED
      BY <2>1, <2>4, <2>6, <3>2
  <2> QED
    BY <2>3, <2>5, <2>6
<1>8. h[Rounds] = g[Rounds]
  BY <1>6, <1>7
<1> QED
  BY <1>5, <1>6, <1>8 DEF more

\* What is made of a question, the flags and the number of the type.
Message(question, flags, number) ==
    [name |-> question.name, qtype |-> dnsTypeName(number),
     response |-> flags >= 32768, rcode |-> dnsRCodeName(flags % 16)]

\* When there is a message, and which.
LEMMA MessageParts ==
    ASSUME NEW bytes, ~(Len(bytes) < 12 \/ Uint16(bytes, 4) = 0),
           ~(~decodeDNSName(bytes, 12).ok \/ decodeDNSName(bytes, 12).next + 4 > Len(bytes))
    PROVE  ParsedMessage(bytes)
             = Message(decodeDNSName(bytes, 12), Uint16(bytes, 2), Uint16(bytes, decodeDNSName(bytes, 12).next))
  BY DEF ParsedMessage, Message

\* So does a question that was read.
LEMMA SameQuestion ==
    ASSUME NEW bytes \in Seq(Nat), NEW byte \in Nat, ParsedMessage(bytes) # Nil
    PROVE  ParsedMessage(Append(bytes, byte)) = ParsedMessage(bytes)
<1> DEFINE more     == Append(bytes, byte)
           question == decodeDNSName(bytes, 12)
<1>1. ~(Len(bytes) < 12 \/ Uint16(bytes, 4) = 0) /\ ~(~question.ok \/ question.next + 4 > Len(bytes))
  BY DEF ParsedMessage
<1>2. /\ Len(more) = Len(bytes) + 1 /\ Len(bytes) \in Nat
      /\ \A o \in Nat : o < Len(bytes) => At(more, o) = At(bytes, o)
  BY SameBefore
<1>3. decodeDNSName(more, 12) = question /\ question.next \in Nat
  BY <1>1, SameName
<1> HIDE DEF more, question
<1>4. \A o \in Nat : o + 1 < Len(bytes) => Uint16(more, o) = Uint16(bytes, o)
  <2> SUFFICES ASSUME NEW o \in Nat, o + 1 < Len(bytes) PROVE Uint16(more, o) = Uint16(bytes, o)
    OBVIOUS
  <2>1. At(more, o) = At(bytes, o) /\ At(more, o + 1) = At(bytes, o + 1)
    BY <1>2
  <2> QED
    BY <2>1 DEF Uint16
<1>5. /\ Uint16(more, 2) = Uint16(bytes, 2) /\ Uint16(more, 4) = Uint16(bytes, 4)
      /\ Uint16(more, question.next) = Uint16(bytes, question.next)
  BY <1>1, <1>2, <1>3, <1>4
<1>6. ~(Len(more) < 12 \/ Uint16(more, 4) = 0) /\ ~(~question.ok \/ question.next + 4 > Len(more))
  BY <1>1, <1>2, <1>3, <1>5
<1>7. ParsedMessage(bytes) = Message(question, Uint16(bytes, 2), Uint16(bytes, question.next))
  BY <1>1, MessageParts DEF question
<1>8. ParsedMessage(more) = Message(question, Uint16(more, 2), Uint16(more, question.next))
  BY <1>3, <1>6, MessageParts
<1> QED
  BY <1>5, <1>7, <1>8 DEF more

\* A question that was read is not changed by the bytes that come behind it: no
\* field is taken from where the packet was cut (parseDNSMessage, main.go:281-307).
THEOREM LaterBytesAreIgnored == Spec => LaterBytesChangeNothing
<1>1. PacketType /\ [Grow]_packet
        => [parseDNSMessage(packet, FALSE) # Nil
              => parseDNSMessage(packet', FALSE) = parseDNSMessage(packet, FALSE)]_packet
  <2> SUFFICES ASSUME PacketType, Grow, parseDNSMessage(packet, FALSE) # Nil
               PROVE  parseDNSMessage(packet', FALSE) = parseDNSMessage(packet, FALSE)
    OBVIOUS
  <2>1. PICK byte \in Bytes : packet' = Append(packet, byte)
    BY DEF Grow
  <2>2. byte \in Nat /\ packet \in Seq(Nat)
    BY DNSMessageAssumption, PacketOfNumbers
  <2>3. \A bytes : parseDNSMessage(bytes, FALSE) = ParsedMessage(bytes)
    BY DEF parseDNSMessage
  <2> QED
    BY <2>1, <2>2, <2>3, SameQuestion
<1> QED
  BY <1>1, PacketTypeCorrect, PTL DEF Spec, LaterBytesChangeNothing

-----------------------------------------------------------------------------
(* strings.Join. *)

Strings == Seq(Nat)

\* f[i] is what the first i of the strings make together.
Flattens(f, seqs) == f = [i \in 1..Len(seqs) |-> IF i = 1 THEN seqs[i] ELSE f[i - 1] \o seqs[i]]

LEMMA FlattenExists ==
    ASSUME NEW seqs \in Seq(Strings), seqs # <<>>
    PROVE  \E f \in [1..Len(seqs) -> Strings] : Flattens(f, seqs)
<1> DEFINE Upto(n, f) == /\ f \in [1..n -> Strings]
                         /\ \A i \in 1..n : f[i] = IF i = 1 THEN seqs[i] ELSE f[i - 1] \o seqs[i]
           Done == {n \in Nat : n + 1 <= Len(seqs) => \E f : Upto(n + 1, f)}
<1>1. Len(seqs) \in Nat /\ Len(seqs) # 0 /\ \A i \in 1..Len(seqs) : seqs[i] \in Strings
  BY LenProperties, EmptySeq, ElementOfSeq
<1>2. 0 \in Done
  <2> SUFFICES ASSUME 1 <= Len(seqs) PROVE \E f : Upto(1, f)
    OBVIOUS
  <2>1. Upto(1, [i \in 1..1 |-> seqs[i]])
    BY <1>1
  <2> QED
    BY <2>1
<1>3. ASSUME NEW n \in Done PROVE n + 1 \in Done
  <2> SUFFICES ASSUME n + 2 <= Len(seqs) PROVE \E f : Upto(n + 2, f)
    <3>1. n \in Nat /\ (n + 1) + 1 = n + 2
      OBVIOUS
    <3> QED
      BY <3>1
  <2>1. n \in Nat /\ n + 1 <= Len(seqs) /\ n + 1 \in 1..(n + 1) /\ n + 2 \in 1..Len(seqs)
    BY <1>1
  <2>2. PICK f : Upto(n + 1, f)
    BY <2>1
  <2> DEFINE g == [i \in 1..(n + 2) |-> IF i = n + 2 THEN f[n + 1] \o seqs[n + 2] ELSE f[i]]
  <2>3. f[n + 1] \in Strings /\ f[n + 1] \o seqs[n + 2] \in Strings
    BY <1>1, <2>1, <2>2, ConcatProperties DEF Strings
  <2>4. \A i \in 1..(n + 2) : i # n + 2 => i \in 1..(n + 1)
    BY <2>1
  <2>5. g \in [1..(n + 2) -> Strings]
    BY <2>2, <2>3, <2>4
  <2>6. ASSUME NEW i \in 1..(n + 2) PROVE g[i] = IF i = 1 THEN seqs[i] ELSE g[i - 1] \o seqs[i]
    <3>1. CASE i = n + 2
      <4>1. i - 1 = n + 1 /\ i # 1 /\ i - 1 \in 1..(n + 2) /\ i - 1 # n + 2
        BY <2>1, <3>1
      <4>2. g[i] = f[n + 1] \o seqs[n + 2] /\ g[i - 1] = f[n + 1]
        BY <3>1, <4>1
      <4> QED
        BY <3>1, <4>1, <4>2
    <3>2. CASE i # n + 2
      <4>1. g[i] = f[i] /\ f[i] = IF i = 1 THEN seqs[i] ELSE f[i - 1] \o seqs[i]
        BY <2>2, <2>4, <3>2
      <4>2. i # 1 => i - 1 \in 1..(n + 2) /\ i - 1 # n + 2
        BY <2>1
      <4>3. i # 1 => g[i - 1] = f[i - 1]
        BY <4>2
      <4> QED
        BY <4>1, <4>3
    <3> QED
      BY <3>1, <3>2
  <2>7. Upto(n + 2, g)
    BY <2>5, <2>6
  <2> QED
    BY <2>7
<1>4. Done = Nat
  <2> HIDE DEF Done
  <2> QED
    BY <1>2, <1>3, AllNaturals DEF Done
<1>5. PICK f : Upto(Len(seqs), f)
  <2>1. Len(seqs) - 1 \in Done /\ (Len(seqs) - 1) + 1 = Len(seqs)
    <3> HIDE DEF Done
    <3> QED
      BY <1>1, <1>4
  <2> QED
    BY <1>1, <2>1
<1>6. f = [i \in 1..Len(seqs) |-> IF i = 1 THEN seqs[i] ELSE f[i - 1] \o seqs[i]]
  BY <1>5
<1> QED
  BY <1>5, <1>6 DEF Flattens

\* There is one such function at most.
LEMMA FlattenUnique ==
    ASSUME NEW seqs \in Seq(Strings), NEW f, NEW g, Flattens(f, seqs), Flattens(g, seqs)
    PROVE  \A i \in 1..Len(seqs) : f[i] = g[i]
<1> DEFINE Same == {n \in Nat : n + 1 \in 1..Len(seqs) => f[n + 1] = g[n + 1]}
<1>1. Len(seqs) \in Nat
  BY LenProperties
<1>2. \A i \in 1..Len(seqs) : /\ f[i] = IF i = 1 THEN seqs[i] ELSE f[i - 1] \o seqs[i]
                              /\ g[i] = IF i = 1 THEN seqs[i] ELSE g[i - 1] \o seqs[i]
  BY DEF Flattens
<1>3. 0 \in Same
  BY <1>2
<1>4. ASSUME NEW n \in Same PROVE n + 1 \in Same
  <2> SUFFICES ASSUME (n + 1) + 1 \in 1..Len(seqs) PROVE f[(n + 1) + 1] = g[(n + 1) + 1]
    OBVIOUS
  <2>1. n \in Nat /\ n + 1 \in 1..Len(seqs) /\ (n + 1) + 1 # 1 /\ ((n + 1) + 1) - 1 = n + 1
    BY <1>1
  <2>2. f[n + 1] = g[n + 1]
    BY <2>1
  <2> QED
    BY <1>2, <2>1, <2>2
<1>5. Same = Nat
  <2> HIDE DEF Same
  <2> QED
    BY <1>3, <1>4, AllNaturals DEF Same
<1> SUFFICES ASSUME NEW i \in 1..Len(seqs) PROVE f[i] = g[i]
  OBVIOUS
<1>6. i - 1 \in Nat /\ (i - 1) + 1 = i
  BY <1>1
<1> QED
  BY <1>5, <1>6

\* What FlattenSeq computes.
LEMMA FlattenIs ==
    ASSUME NEW seqs \in Seq(Strings), seqs # <<>>
    PROVE  \E f \in [1..Len(seqs) -> Strings] : Flattens(f, seqs) /\ FlattenSeq(seqs) = f[Len(seqs)]
<1> DEFINE chosen == CHOOSE f : Flattens(f, seqs)
<1>1. Len(seqs) \in Nat /\ Len(seqs) # 0
  BY LenProperties, EmptySeq
<1>2. PICK f \in [1..Len(seqs) -> Strings] : Flattens(f, seqs)
  BY FlattenExists
<1>3. Flattens(chosen, seqs)
  BY <1>2
<1>4. FlattenSeq(seqs) = chosen[Len(seqs)]
  BY <1>1 DEF FlattenSeq, Flattens
<1> HIDE DEF chosen
<1>5. chosen[Len(seqs)] = f[Len(seqs)]
  BY <1>1, <1>2, <1>3, FlattenUnique
<1> QED
  BY <1>2, <1>4, <1>5

\* Strings are concatenated in any order.
LEMMA StringsAssociate ==
    ASSUME NEW x \in Strings, NEW y \in Strings, NEW z \in Strings
    PROVE  (x \o y) \o z = x \o (y \o z)
<1>1. PICK S : S = Nat
  OBVIOUS
<1>2. x \in Seq(S) /\ y \in Seq(S) /\ z \in Seq(S)
  BY <1>1 DEF Strings
<1> QED
  BY <1>2, ConcatAssociative

\* The first string comes first.
LEMMA FlattenFirst ==
    ASSUME NEW first \in Strings, NEW rest \in Seq(Strings), rest # <<>>
    PROVE  FlattenSeq(<<first>> \o rest) = first \o FlattenSeq(rest) /\ FlattenSeq(rest) \in Strings
<1> DEFINE all == <<first>> \o rest
           n   == Len(rest)
<1>1. n \in Nat /\ n # 0 /\ \A i \in 1..n : rest[i] \in Strings
  BY LenProperties, EmptySeq, ElementOfSeq
<1>2. PICK T : T = Strings
  OBVIOUS
<1>3. <<first>> \in Seq(T) /\ Len(<<first>>) = 1 /\ <<first>>[1] = first /\ rest \in Seq(T)
  BY <1>2
<1>4. /\ all \in Seq(T) /\ Len(all) = 1 + n
      /\ \A i \in 1..(1 + n) : all[i] = IF i <= 1 THEN <<first>>[i] ELSE rest[i - 1]
  BY ONLY <1>3, ConcatProperties
<1> HIDE DEF all
<1>5. all \in Seq(Strings) /\ all # <<>> /\ all[1] = first /\ \A i \in 1..n : all[i + 1] = rest[i]
  <2>1. all # <<>>
    BY <1>1, <1>4
  <2>2. 1 \in 1..(1 + n) /\ \A i \in 1..n : i + 1 \in 1..(1 + n) /\ ~(i + 1 <= 1) /\ (i + 1) - 1 = i
    BY <1>1
  <2> QED
    BY <1>2, <1>3, <1>4, <2>1, <2>2
<1>6. PICK f \in [1..Len(all) -> Strings] : Flattens(f, all) /\ FlattenSeq(all) = f[Len(all)]
  BY <1>5, FlattenIs
<1>7. PICK g \in [1..n -> Strings] : Flattens(g, rest) /\ FlattenSeq(rest) = g[n]
  BY FlattenIs
<1>8. \A i \in 1..(1 + n) : f[i] = IF i = 1 THEN all[i] ELSE f[i - 1] \o all[i]
  BY <1>4, <1>6 DEF Flattens
<1>9. \A i \in 1..n : g[i] = IF i = 1 THEN rest[i] ELSE g[i - 1] \o rest[i]
  BY <1>7 DEF Flattens
<1> DEFINE Same == {m \in Nat : m + 1 \in 1..n => f[m + 2] = first \o g[m + 1]}
<1>10. 0 \in Same
  <2>1. 1 \in 1..n /\ 1 \in 1..(1 + n) /\ 2 \in 1..(1 + n) /\ 2 - 1 = 1 /\ 1 + 1 = 2
    BY <1>1
  <2>2. f[1] = first /\ f[2] = f[1] \o all[2] /\ all[2] = rest[1] /\ g[1] = rest[1]
    <3>1. f[1] = first
      BY <1>5, <1>8, <2>1
    <3>2. f[2] = f[1] \o all[2]
      <4>1. PICK i \in 1..(1 + n) : i = 2 /\ i # 1 /\ i - 1 = 1
        BY <2>1
      <4>2. f[i] = f[i - 1] \o all[i]
        BY <1>8, <4>1
      <4> QED
        BY <4>1, <4>2
    <3>3. all[1 + 1] = rest[1] /\ g[1] = rest[1]
      BY <1>5, <1>9, <2>1
    <3> QED
      BY <2>1, <3>1, <3>2, <3>3
  <2> QED
    BY <2>2
<1>11. ASSUME NEW m \in Same PROVE m + 1 \in Same
  <2> SUFFICES ASSUME (m + 1) + 1 \in 1..n PROVE f[(m + 1) + 2] = first \o g[(m + 1) + 1]
    OBVIOUS
  <2>1. /\ m \in Nat /\ m + 1 \in 1..n /\ (m + 1) + 1 # 1 /\ ((m + 1) + 1) - 1 = m + 1
        /\ (m + 1) + 2 \in 1..(1 + n) /\ (m + 1) + 2 # 1 /\ ((m + 1) + 2) - 1 = m + 2
        /\ ((m + 1) + 1) + 1 = (m + 1) + 2
    BY <1>1
  <2>2. f[m + 2] = first \o g[m + 1]
    BY <2>1
  <2>3. f[(m + 1) + 2] = f[m + 2] \o all[(m + 1) + 2]
    BY <1>8, <2>1
  <2>4. g[(m + 1) + 1] = g[m + 1] \o rest[(m + 1) + 1]
    BY <1>9, <2>1
  <2>5. all[(m + 1) + 2] = rest[(m + 1) + 1]
    BY <1>5, <2>1
  <2>6. g[m + 1] \in Strings /\ rest[(m + 1) + 1] \in Strings
    BY <1>1, <1>7, <2>1
  <2>7. (first \o g[m + 1]) \o rest[(m + 1) + 1] = first \o (g[m + 1] \o rest[(m + 1) + 1])
    BY <2>6, StringsAssociate
  <2> QED
    BY <2>2, <2>3, <2>4, <2>5, <2>7
<1>12. Same = Nat
  <2> HIDE DEF Same
  <2> QED
    BY <1>10, <1>11, AllNaturals DEF Same
<1>13. f[1 + n] = first \o g[n]
  <2>1. n - 1 \in Nat /\ (n - 1) + 1 = n /\ n \in 1..n /\ (n - 1) + 2 = 1 + n
    BY <1>1
  <2>2. n - 1 \in Same
    <3> HIDE DEF Same
    <3> QED
      BY <1>12, <2>1
  <2> QED
    BY <2>1, <2>2
<1>14. g[n] \in Strings
  BY <1>1, <1>7
<1> QED
  BY <1>4, <1>6, <1>7, <1>13, <1>14 DEF all

\* One string is what it makes.
LEMMA FlattenOne ==
    ASSUME NEW one \in Strings
    PROVE  FlattenSeq(<<one>>) = one
<1>1. <<one>> \in Seq(Strings) /\ <<one>> # <<>> /\ Len(<<one>>) = 1 /\ <<one>>[1] = one
  BY EmptySeq
<1>2. PICK f : Flattens(f, <<one>>) /\ FlattenSeq(<<one>>) = f[Len(<<one>>)]
  BY <1>1, FlattenIs
<1>3. f[1] = one
  BY <1>1, <1>2 DEF Flattens
<1> QED
  BY <1>1, <1>2, <1>3

\* The labels with the dots behind them.
Dotted(labels) == [i \in DOMAIN labels |-> Append(labels[i], 46)]

LEMMA DottedType ==
    ASSUME NEW labels \in Seq(Strings)
    PROVE  Dotted(labels) \in Seq(Strings) /\ Len(Dotted(labels)) = Len(labels)
<1>1. Len(labels) \in Nat /\ DOMAIN labels = 1..Len(labels) /\ \A i \in 1..Len(labels) : labels[i] \in Strings
  BY LenProperties, ElementOfSeq
<1>2. \A i \in 1..Len(labels) : Append(labels[i], 46) \in Strings
  BY <1>1, AppendProperties DEF Strings
<1> QED
  BY <1>1, <1>2 DEF Dotted

\* The name of a label and those behind it.
LEMMA JoinedFirst ==
    ASSUME NEW label \in Strings, NEW rest \in Seq(Strings)
    PROVE  /\ Joined(<<label>> \o rest) = label \o <<46>> \o (IF rest = <<>> THEN <<>> ELSE Joined(rest))
           /\ Joined(rest) \in Strings
<1> DEFINE first == Append(label, 46)
<1>1. first \in Strings /\ first = label \o <<46>> /\ <<46>> \in Strings /\ label \o <<46>> \in Strings
  BY AppendProperties, AppendIsConcat, ConcatProperties DEF Strings
<1>2. PICK T : T = Strings
  OBVIOUS
<1>3. <<label>> \in Seq(T) /\ Len(<<label>>) = 1 /\ <<label>>[1] = label /\ rest \in Seq(T)
  BY <1>2
<1> DEFINE all == <<label>> \o rest
<1>4. /\ all \in Seq(T) /\ Len(all) = 1 + Len(rest) /\ Len(rest) \in Nat
      /\ \A i \in 1..(1 + Len(rest)) : all[i] = IF i <= 1 THEN <<label>>[i] ELSE rest[i - 1]
  <2>1. Len(rest) \in Nat
    BY LenProperties
  <2> QED
    BY ONLY <1>3, <2>1, ConcatProperties
<1>5. CASE rest = <<>>
  <2>1. all = <<label>>
    BY ONLY <1>3, <1>5, ConcatEmptySeq
  <2>2. Dotted(<<label>>) = <<first>> /\ <<label>> # <<>>
    BY DEF Dotted
  <2>3. FlattenSeq(<<first>>) = first
    BY <1>1, FlattenOne
  <2>4. Joined(all) = first
    BY <2>1, <2>2, <2>3 DEF Joined, Dotted
  <2>5. (label \o <<46>>) \o <<>> = label \o <<46>>
    BY <1>1, ConcatEmptySeq DEF Strings
  <2>6. Joined(rest) = <<46>>
    BY <1>5 DEF Joined
  <2> QED
    BY <1>1, <1>5, <2>4, <2>5, <2>6
<1>6. CASE rest # <<>>
  <2>1. Dotted(rest) \in Seq(Strings) /\ Len(Dotted(rest)) = Len(rest) /\ Dotted(rest) # <<>>
    <3>1. Len(rest) # 0
      BY <1>6, EmptySeq
    <3> QED
      BY <3>1, DottedType
  <2>2. Dotted(all) = <<first>> \o Dotted(rest)
    <3>1. Dotted(all) \in Seq(T) /\ Len(Dotted(all)) = 1 + Len(rest)
      BY <1>2, <1>4, DottedType
    <3>2. <<first>> \in Seq(T) /\ Len(<<first>>) = 1 /\ <<first>>[1] = first /\ Dotted(rest) \in Seq(T)
      BY <1>1, <1>2, <2>1
    <3>3. /\ <<first>> \o Dotted(rest) \in Seq(T) /\ Len(<<first>> \o Dotted(rest)) = 1 + Len(rest)
          /\ \A i \in 1..(1 + Len(rest)) :
               (<<first>> \o Dotted(rest))[i] = IF i <= 1 THEN <<first>>[i] ELSE Dotted(rest)[i - 1]
      BY ONLY <2>1, <3>2, ConcatProperties
    <3>4. ASSUME NEW i \in 1..(1 + Len(rest)) PROVE Dotted(all)[i] = (<<first>> \o Dotted(rest))[i]
      <4>1. DOMAIN all = 1..(1 + Len(rest)) /\ DOMAIN rest = 1..Len(rest)
        BY <1>4, LenProperties
      <4>2. Dotted(all)[i] = Append(all[i], 46)
        BY <4>1 DEF Dotted
      <4>3. CASE i = 1
        <5>1. (<<first>> \o Dotted(rest))[1] = first
          BY <3>2, <3>3, <4>3
        <5> QED
          BY <1>3, <1>4, <4>2, <4>3, <5>1
      <4>4. CASE i # 1
        <5>1. ~(i <= 1) /\ i - 1 \in 1..Len(rest)
          BY <1>4, <4>4
        <5>2. Dotted(rest)[i - 1] = Append(rest[i - 1], 46)
          BY <4>1, <5>1 DEF Dotted
        <5> QED
          BY <1>4, <3>3, <4>2, <5>1, <5>2
      <4> QED
        BY <4>3, <4>4
    <3> HIDE DEF all, first
    <3> QED
      BY ONLY <3>1, <3>3, <3>4, SeqEqual
  <2>3. FlattenSeq(<<first>> \o Dotted(rest)) = first \o FlattenSeq(Dotted(rest)) /\ FlattenSeq(Dotted(rest)) \in Strings
    BY <1>1, <2>1, FlattenFirst
  <2>4. all # <<>>
    BY <1>4
  <2>5. Joined(all) = FlattenSeq(Dotted(all)) /\ Joined(rest) = FlattenSeq(Dotted(rest))
    BY <1>6, <2>4 DEF Joined, Dotted
  <2> QED
    BY <1>1, <1>6, <2>2, <2>3, <2>5
<1> QED
  BY <1>5, <1>6

\* A name of one dot has no labels, if no label is empty.
LEMMA OneDot ==
    ASSUME NEW labels \in Seq(Strings), \A i \in 1..Len(labels) : labels[i] # <<>>
    PROVE  Joined(labels) = <<46>> <=> labels = <<>>
<1>1. CASE labels = <<>>
  BY <1>1 DEF Joined
<1>2. CASE labels # <<>>
  <2>1. Len(labels) \in Nat /\ Len(labels) # 0 /\ \A i \in 1..Len(labels) : labels[i] \in Strings
    BY <1>2, LenProperties, EmptySeq, ElementOfSeq
  <2> DEFINE label == labels[1]
             rest  == Tail(labels)
  <2>2. label \in Strings /\ label # <<>> /\ rest \in Seq(Strings) /\ labels = <<label>> \o rest
    <3>1. PICK T : T = Strings
      OBVIOUS
    <3>2. labels \in Seq(T) /\ label \in T /\ 1 \in 1..Len(labels) /\ label # <<>>
      BY <2>1, <3>1
    <3>3. rest \in Seq(T) /\ Len(rest) = Len(labels) - 1 /\ \A i \in 1..Len(rest) : rest[i] = labels[i + 1]
      BY ONLY <1>2, <3>2, HeadTailProperties
    <3>4. <<label>> \in Seq(T) /\ Len(<<label>>) = 1 /\ <<label>>[1] = label
      BY <3>2
    <3> HIDE DEF label, rest
    <3>5. /\ <<label>> \o rest \in Seq(T) /\ Len(<<label>> \o rest) = 1 + Len(rest)
          /\ \A i \in 1..(1 + Len(rest)) : (<<label>> \o rest)[i] = IF i <= 1 THEN <<label>>[i] ELSE rest[i - 1]
      BY ONLY <3>3, <3>4, ConcatProperties
    <3>6. ASSUME NEW i \in 1..Len(labels) PROVE labels[i] = (<<label>> \o rest)[i]
      <4>1. CASE i = 1
        <5>1. 1 \in 1..(1 + Len(rest)) /\ 1 <= 1
          BY <2>1, <3>3
        <5> QED
          BY <3>4, <3>5, <4>1, <5>1 DEF label
      <4>2. CASE i # 1
        <5>1. i \in 1..(1 + Len(rest)) /\ ~(i <= 1) /\ i - 1 \in 1..Len(rest) /\ (i - 1) + 1 = i
          BY <2>1, <3>3, <4>2
        <5> QED
          BY <3>3, <3>5, <5>1
      <4> QED
        BY <4>1, <4>2
    <3>7. Len(labels) = Len(<<label>> \o rest)
      BY <2>1, <3>3, <3>5
    <3>8. labels = <<label>> \o rest
      BY ONLY <3>2, <3>5, <3>6, <3>7, SeqEqual
    <3> QED
      BY <3>1, <3>2, <3>3, <3>8
  <2> HIDE DEF label, rest
  <2> DEFINE more == IF rest = <<>> THEN <<>> ELSE Joined(rest)
  <2>3. Joined(labels) = label \o <<46>> \o more /\ more \in Strings
    BY <2>2, JoinedFirst, EmptySeq DEF Strings
  <2> HIDE DEF more
  <2>4. Len(label) \in Nat /\ Len(label) # 0 /\ Len(more) \in Nat
    BY <2>2, <2>3, LenProperties, EmptySeq DEF Strings
  <2>5. <<46>> \in Seq(Nat) /\ Len(<<46>>) = 1
    OBVIOUS
  <2>6. label \o <<46>> \in Seq(Nat) /\ Len(label \o <<46>>) = Len(label) + 1
    BY <2>2, <2>5, ConcatProperties DEF Strings
  <2>7. Len((label \o <<46>>) \o more) = Len(label) + 1 + Len(more)
    BY <2>3, <2>6, ConcatProperties DEF Strings
  <2>8. Len(Joined(labels)) # 1
    BY <2>3, <2>4, <2>7
  <2> QED
    BY <1>2, <2>5, <2>8
<1> QED
  BY <1>1, <1>2

-----------------------------------------------------------------------------
(* The rounds of decodeDNSName one by one. *)

\* The loop is at v[k] after k rounds.
RoundsOf(v, bytes, start) ==
    /\ v \in [0..NameSteps -> Walks]
    /\ v[0] = Begin(start)
    /\ \A k \in 1..NameSteps : v[k] = NameStep(bytes, v[k - 1])

\* There are such rounds, and the name is read when they are over.
LEMMA RoundsExist ==
    ASSUME NEW bytes \in Seq(Nat), NEW start \in Nat
    PROVE  \E v : RoundsOf(v, bytes, start) /\ decodeDNSName(bytes, start) = Reading(v[NameSteps])
<1>1. PICK g : LoopOf(g, bytes, start)
  BY LoopExists
<1>2. decodeDNSName(bytes, start) = Reading(g[Rounds])
  BY <1>1, WalkedIsLoop, NameIsReading
<1> DEFINE v == [k \in 0..NameSteps |-> g[1..k]]
<1>3. \A k \in 0..NameSteps : 1..k \in SUBSET Rounds /\ v[k] = g[1..k]
  BY DNSMessageAssumption DEF Rounds
<1>4. v \in [0..NameSteps -> Walks]
  BY <1>1, <1>3 DEF LoopOf
<1>5. v[0] = Begin(start)
  <2>1. 1..0 = {} /\ 0 \in 0..NameSteps
    BY DNSMessageAssumption
  <2> QED
    BY <1>1, <1>3, <2>1 DEF LoopOf
<1>6. ASSUME NEW k \in 1..NameSteps PROVE v[k] = NameStep(bytes, v[k - 1])
  <2>1. k \in 0..NameSteps /\ k - 1 \in 0..NameSteps /\ k \in 1..k
    BY DNSMessageAssumption
  <2>2. Max(1..k) = k
    <3>1. Max(1..k) \in 1..k
      BY <1>3, <2>1, LastRound
    <3>2. \E x \in 1..k : \A y \in 1..k : x >= y
      BY <2>1
    <3>3. \A y \in 1..k : Max(1..k) >= y
      BY <3>2 DEF Max
    <3> QED
      BY <2>1, <3>1, <3>3
  <2>3. (1..k) \ {k} = 1..(k - 1)
    BY <2>1
  <2>4. g[1..k] = NameStep(bytes, g[(1..k) \ {Max(1..k)}])
    BY <1>1, <1>3, <2>1 DEF LoopOf
  <2> QED
    BY <1>3, <2>1, <2>2, <2>3, <2>4
<1>7. v[NameSteps] = g[Rounds]
  BY DNSMessageAssumption, <1>3 DEF Rounds
<1> QED
  BY <1>2, <1>4, <1>5, <1>6, <1>7 DEF RoundsOf

\* A round after the last one does nothing.
LEMMA EndedStays ==
    ASSUME NEW bytes, NEW walk, walk.at # "name"
    PROVE  NameStep(bytes, walk) = walk
  BY DEF NameStep

-----------------------------------------------------------------------------
(* What a round does. *)

\* The byte a walk looks at.
Length(bytes, walk) == At(bytes, walk.offset)

\* Behind the first pointer, or else behind what was read.
PastOf(walk, n) == IF walk.jumped THEN walk.next ELSE n

\* What a walk may meet: the end, a pointer, a label, or what cannot be.
Inside(bytes, walk)  == walk.offset < Len(bytes)
MeetsEnd(bytes, walk) == Inside(bytes, walk) /\ Length(bytes, walk) = 0
MeetsPointer(bytes, walk) == walk.offset + 1 < Len(bytes) /\ Length(bytes, walk) >= 192
MeetsLabel(bytes, walk) ==
    /\ Inside(bytes, walk) /\ Length(bytes, walk) \in 1..63
    /\ walk.offset + 1 + Length(bytes, walk) <= Len(bytes)

Label(bytes, walk) == Slice(bytes, walk.offset + 1, walk.offset + 1 + Length(bytes, walk))

LEMMA ByteType ==
    ASSUME NEW bytes \in Seq(Nat), NEW walk \in Walks, Inside(bytes, walk)
    PROVE  Length(bytes, walk) \in Nat
<1>1. walk.offset + 1 \in 1..Len(bytes)
  BY LenProperties DEF Inside, Walks
<1> QED
  BY <1>1, ElementOfSeq DEF Length, At

LEMMA RoundEnds ==
    ASSUME NEW bytes \in Seq(Nat), NEW walk \in Walks, walk.at = "name", MeetsEnd(bytes, walk)
    PROVE  LET next == NameStep(bytes, walk)
           IN /\ next.at = "end" /\ next.offset = walk.offset /\ next.jumped = walk.jumped
              /\ next.labels = walk.labels /\ next.next = PastOf(walk, walk.offset + 1)
<1>1. walk.offset \in Nat /\ Len(bytes) \in Nat /\ ~(walk.offset >= Len(bytes)) /\ At(bytes, walk.offset) = 0
  BY LenProperties DEF MeetsEnd, Inside, Length, Walks
<1>2. NameStep(bytes, walk) = [walk EXCEPT !.at = "end", !.next = PastOf(walk, walk.offset + 1)]
  BY <1>1 DEF NameStep, PastOf
<1> QED
  BY <1>2 DEF Walks

LEMMA RoundJumps ==
    ASSUME NEW bytes \in Seq(Nat), NEW walk \in Walks, walk.at = "name", MeetsPointer(bytes, walk)
    PROVE  LET next == NameStep(bytes, walk)
           IN /\ next.at = "name" /\ next.offset = Pointer(bytes, walk.offset) /\ next.jumped = TRUE
              /\ next.labels = walk.labels /\ next.next = PastOf(walk, walk.offset + 2)
<1>1. walk.offset \in Nat /\ Len(bytes) \in Nat /\ ~(walk.offset >= Len(bytes)) /\ Inside(bytes, walk)
  BY LenProperties DEF MeetsPointer, Inside, Walks
<1>2. Length(bytes, walk) \in Nat /\ Length(bytes, walk) >= 192
  BY <1>1, ByteType DEF MeetsPointer
<1>3. ~(Length(bytes, walk) = 0) /\ ~(Length(bytes, walk) \in 1..63)
  <2>1. \A n \in Nat : n >= 192 => ~(n = 0) /\ ~(n \in 1..63)
    OBVIOUS
  <2> QED
    BY <1>2, <2>1
<1>4. NameStep(bytes, walk) = [walk EXCEPT !.offset = Pointer(bytes, walk.offset), !.next = PastOf(walk, walk.offset + 2),
                                           !.jumped = TRUE]
  BY ONLY walk.at = "name", MeetsPointer(bytes, walk), <1>1, <1>3, Zenon DEF NameStep, PastOf, Length, MeetsPointer
<1> QED
  BY <1>4 DEF Walks

LEMMA RoundReads ==
    ASSUME NEW bytes \in Seq(Nat), NEW walk \in Walks, walk.at = "name", MeetsLabel(bytes, walk)
    PROVE  LET next   == NameStep(bytes, walk)
               behind == walk.offset + 1 + Length(bytes, walk)
           IN /\ next.at = "name" /\ next.offset = behind /\ next.jumped = walk.jumped
              /\ next.labels = Append(walk.labels, Label(bytes, walk)) /\ next.next = PastOf(walk, behind)
<1>1. walk.offset \in Nat /\ Len(bytes) \in Nat /\ ~(walk.offset >= Len(bytes))
  BY LenProperties DEF MeetsLabel, Inside, Walks
<1>2. Length(bytes, walk) \in Nat /\ Length(bytes, walk) \in 1..63 /\ walk.offset + 1 + Length(bytes, walk) <= Len(bytes)
  BY <1>1, ByteType DEF MeetsLabel
<1>3. ~(Length(bytes, walk) = 0) /\ ~(Length(bytes, walk) >= 192)
  <2>1. \A n \in Nat : n \in 1..63 => ~(n = 0) /\ ~(n >= 192)
    OBVIOUS
  <2> QED
    BY <1>2, <2>1
<1>4. NameStep(bytes, walk)
        = [walk EXCEPT !.labels = Append(@, Label(bytes, walk)), !.offset = walk.offset + 1 + Length(bytes, walk),
                       !.next = PastOf(walk, walk.offset + 1 + Length(bytes, walk))]
  BY ONLY walk.at = "name", <1>1, <1>2, <1>3, Zenon DEF NameStep, PastOf, Length, Label
<1> QED
  BY <1>4 DEF Walks

LEMMA RoundFails ==
    ASSUME NEW bytes \in Seq(Nat), NEW walk \in Walks, walk.at = "name",
           ~MeetsEnd(bytes, walk), ~MeetsPointer(bytes, walk), ~MeetsLabel(bytes, walk)
    PROVE  LET next == NameStep(bytes, walk)
           IN /\ next.at = "error" /\ next.offset = walk.offset /\ next.jumped = walk.jumped
              /\ next.labels = walk.labels /\ next.next = walk.next
<1>1. walk.offset \in Nat /\ Len(bytes) \in Nat
  BY LenProperties DEF Walks
<1>2. NameStep(bytes, walk) = Failed(walk)
  <2>1. CASE walk.offset >= Len(bytes)
    BY <2>1 DEF NameStep
  <2>2. CASE ~(walk.offset >= Len(bytes))
    <3>1. /\ ~(Length(bytes, walk) = 0) /\ ~(Length(bytes, walk) >= 192 /\ walk.offset + 1 < Len(bytes))
          /\ ~(Length(bytes, walk) \in 1..63 /\ walk.offset + 1 + Length(bytes, walk) <= Len(bytes))
      BY <1>1, <2>2 DEF MeetsEnd, MeetsPointer, MeetsLabel, Inside
    <3> QED
      BY ONLY walk.at = "name", <2>2, <3>1, Zenon DEF NameStep, Length
  <2> QED
    BY <2>1, <2>2
<1> QED
  BY <1>2 DEF Failed, Walks

\* A label is a string of its length.
LEMMA LabelType ==
    ASSUME NEW bytes \in Seq(Nat), NEW walk \in Walks, MeetsLabel(bytes, walk)
    PROVE  Label(bytes, walk) \in Seq(Nat) /\ Label(bytes, walk) # <<>>
<1> DEFINE n     == Length(bytes, walk)
           from  == walk.offset + 1
<1>1. walk.offset \in Nat /\ Len(bytes) \in Nat /\ n \in Nat /\ n \in 1..63 /\ from + n <= Len(bytes)
  BY ByteType, LenProperties DEF MeetsLabel, Walks
<1>0. from \in Nat
  BY <1>1
<1> HIDE DEF n, from
<1>2. from + 1 \in Int /\ from + n \in Int /\ \A i \in (from + 1)..(from + n) : i \in 1..Len(bytes)
  BY <1>0, <1>1
<1>3. \A i \in (from + 1)..(from + n) : bytes[i] \in Nat
  BY <1>2, ElementOfSeq
<1>4. PICK lo \in Int, hi \in Int : lo = from + 1 /\ hi = from + n
  BY <1>2
<1>5. \A i \in lo..hi : bytes[i] \in Nat
  BY <1>3, <1>4
<1>6. lo <= hi /\ hi - lo + 1 # 0
  BY <1>0, <1>1, <1>4
<1>7. SubSeq(bytes, lo, hi) \in Seq(Nat) /\ Len(SubSeq(bytes, lo, hi)) = hi - lo + 1
  <2>1. SubSeq(bytes, lo, hi) \in Seq(Nat) /\ Len(SubSeq(bytes, lo, hi)) = IF lo <= hi THEN hi - lo + 1 ELSE 0
    BY ONLY lo \in Int, hi \in Int, <1>5, SubSeqProperties
  <2> QED
    BY <1>6, <2>1
<1>8. SubSeq(bytes, lo, hi) # <<>>
  BY <1>6, <1>7, EmptySeq
<1> QED
  BY <1>4, <1>7, <1>8 DEF Label, Slice, n, from

\* Append and \o associate.
LEMMA LabelBehind ==
    ASSUME NEW first \in Seq(Seq(Nat)), NEW rest \in Seq(Seq(Nat)), NEW label \in Seq(Nat)
    PROVE  Append(first \o rest, label) = first \o Append(rest, label)
<1>1. PICK S : S = Seq(Nat)
  OBVIOUS
<1>2. first \in Seq(S) /\ rest \in Seq(S) /\ label \in S
  BY <1>1
<1>3. <<label>> \in Seq(S) /\ first \o rest \in Seq(S)
  BY <1>2, ConcatProperties
<1>4. Append(first \o rest, label) = (first \o rest) \o <<label>> /\ Append(rest, label) = rest \o <<label>>
  BY <1>2, <1>3, AppendIsConcat
<1> QED
  BY <1>2, <1>3, <1>4, ConcatAssociative

\* Two walks at one place go on together; what either had before, it keeps.
LEMMA TogetherNext ==
    ASSUME NEW bytes \in Seq(Nat), NEW x \in Walks, NEW y \in Walks, x.offset = y.offset, x.at = y.at
    PROVE  LET p == NameStep(bytes, x)
               q == NameStep(bytes, y)
           IN /\ p.offset = q.offset /\ p.at = q.at
              /\ \A first \in Seq(Seq(Nat)) : x.labels = first \o y.labels => p.labels = first \o q.labels
              /\ x.jumped = y.jumped /\ x.next = y.next => p.jumped = q.jumped /\ p.next = q.next
              /\ x.jumped => p.jumped /\ p.next = x.next
<1> DEFINE p == NameStep(bytes, x)
           q == NameStep(bytes, y)
<1>1. CASE x.at # "name"
  BY <1>1, EndedStays
<1>2. CASE x.at = "name"
  <2>1. Length(bytes, x) = Length(bytes, y) /\ Label(bytes, x) = Label(bytes, y)
    BY DEF Length, Label
  <2>2. /\ MeetsEnd(bytes, x) <=> MeetsEnd(bytes, y)
        /\ MeetsPointer(bytes, x) <=> MeetsPointer(bytes, y)
        /\ MeetsLabel(bytes, x) <=> MeetsLabel(bytes, y)
    BY <2>1 DEF MeetsEnd, MeetsPointer, MeetsLabel, Inside
  <2>3. CASE MeetsEnd(bytes, x)
    <3>1. /\ p.offset = q.offset /\ p.at = q.at
          /\ x.jumped = y.jumped /\ x.next = y.next => p.jumped = q.jumped /\ p.next = q.next
          /\ x.jumped => p.jumped /\ p.next = x.next
      <4>1. y.at = "name" /\ MeetsEnd(bytes, y)
        BY <1>2, <2>2, <2>3
      <4>2. p.at = "end" /\ p.offset = x.offset /\ p.jumped = x.jumped /\ p.next = PastOf(x, x.offset + 1)
        BY <1>2, <2>3, RoundEnds, Zenon
      <4>3. q.at = "end" /\ q.offset = y.offset /\ q.jumped = y.jumped /\ q.next = PastOf(y, y.offset + 1)
        BY <4>1, RoundEnds, Zenon
      <4> HIDE DEF p, q
      <4>4. x.jumped = y.jumped /\ x.next = y.next => PastOf(x, x.offset + 1) = PastOf(y, y.offset + 1)
        BY DEF PastOf
      <4>5. x.jumped => PastOf(x, x.offset + 1) = x.next
        BY DEF PastOf
      <4> QED
        BY <4>2, <4>3, <4>4, <4>5, Zenon
    <3>2. p.labels = x.labels /\ q.labels = y.labels
      BY <1>2, <2>2, <2>3, RoundEnds
    <3> QED
      BY <3>1, <3>2
  <2>4. CASE MeetsPointer(bytes, x)
    <3>1. /\ p.offset = q.offset /\ p.at = q.at
          /\ x.jumped = y.jumped /\ x.next = y.next => p.jumped = q.jumped /\ p.next = q.next
          /\ x.jumped => p.jumped /\ p.next = x.next
      <4>1. /\ p.at = "name" /\ p.offset = Pointer(bytes, x.offset) /\ p.jumped = TRUE /\ p.next = PastOf(x, x.offset + 2)
            /\ q.at = "name" /\ q.offset = Pointer(bytes, y.offset) /\ q.jumped = TRUE /\ q.next = PastOf(y, y.offset + 2)
        <5>1. y.at = "name" /\ MeetsPointer(bytes, y)
          BY <1>2, <2>2, <2>4
        <5>2. p.at = "name" /\ p.offset = Pointer(bytes, x.offset) /\ p.jumped = TRUE /\ p.next = PastOf(x, x.offset + 2)
          BY <1>2, <2>4, RoundJumps, Zenon
        <5>3. q.at = "name" /\ q.offset = Pointer(bytes, y.offset) /\ q.jumped = TRUE /\ q.next = PastOf(y, y.offset + 2)
          BY <5>1, RoundJumps, Zenon
        <5> QED
          BY <5>2, <5>3
      <4> HIDE DEF p, q
      <4>2. x.jumped = y.jumped /\ x.next = y.next => p.next = q.next
        BY <4>1 DEF PastOf
      <4>3. x.jumped => p.next = x.next
        BY <4>1 DEF PastOf
      <4> QED
        BY <4>1, <4>2, <4>3, Zenon
    <3>2. p.labels = x.labels /\ q.labels = y.labels
      BY <1>2, <2>2, <2>4, RoundJumps
    <3> QED
      BY <3>1, <3>2
  <2>5. CASE MeetsLabel(bytes, x)
    <3>1. /\ p.offset = q.offset /\ p.at = q.at
          /\ x.jumped = y.jumped /\ x.next = y.next => p.jumped = q.jumped /\ p.next = q.next
          /\ x.jumped => p.jumped /\ p.next = x.next
      <4> DEFINE behind == x.offset + 1 + Length(bytes, x)
      <4>1. y.at = "name" /\ MeetsLabel(bytes, y) /\ y.offset + 1 + Length(bytes, y) = behind
        BY <1>2, <2>1, <2>2, <2>5
      <4>2. p.at = "name" /\ p.offset = behind /\ p.jumped = x.jumped /\ p.next = PastOf(x, behind)
        BY <1>2, <2>5, RoundReads, Zenon
      <4>3. q.at = "name" /\ q.offset = behind /\ q.jumped = y.jumped /\ q.next = PastOf(y, behind)
        <5>1. LET b == y.offset + 1 + Length(bytes, y)
              IN q.at = "name" /\ q.offset = b /\ q.jumped = y.jumped /\ q.next = PastOf(y, b)
          BY <4>1, RoundReads, Zenon
        <5> HIDE DEF behind, q
        <5> QED
          BY <4>1, <5>1
      <4> HIDE DEF p, q, behind
      <4>4. x.jumped = y.jumped /\ x.next = y.next => PastOf(x, behind) = PastOf(y, behind)
        BY DEF PastOf
      <4>5. x.jumped => PastOf(x, behind) = x.next
        BY DEF PastOf
      <4> QED
        BY <4>2, <4>3, <4>4, <4>5, Zenon
    <3>2. p.labels = Append(x.labels, Label(bytes, x)) /\ q.labels = Append(y.labels, Label(bytes, x))
      BY <1>2, <2>1, <2>2, <2>5, RoundReads
    <3>3. Label(bytes, x) \in Seq(Nat) /\ x.labels \in Seq(Seq(Nat)) /\ y.labels \in Seq(Seq(Nat))
      BY <2>5, LabelType DEF Walks
    <3>4. \A first \in Seq(Seq(Nat)) : x.labels = first \o y.labels => p.labels = first \o q.labels
      <4> DEFINE label == Label(bytes, x)
      <4> SUFFICES ASSUME NEW first \in Seq(Seq(Nat)), x.labels = first \o y.labels
                   PROVE  p.labels = first \o q.labels
        OBVIOUS
      <4> HIDE DEF p, q, label
      <4>1. Append(first \o y.labels, label) = first \o Append(y.labels, label)
        <5>1. label \in Seq(Nat) /\ first \in Seq(Seq(Nat)) /\ y.labels \in Seq(Seq(Nat))
          BY <3>3 DEF label
        <5> QED
          BY ONLY <5>1, LabelBehind
      <4> QED
        BY <3>2, <4>1 DEF label
    <3> QED
      BY <3>1, <3>4
  <2>6. CASE ~MeetsEnd(bytes, x) /\ ~MeetsPointer(bytes, x) /\ ~MeetsLabel(bytes, x)
    BY <1>2, <2>2, <2>6, RoundFails
  <2> QED
    BY <2>3, <2>4, <2>5, <2>6
<1> QED
  BY <1>1, <1>2

-----------------------------------------------------------------------------
(* What the rounds do together. *)

LEMMA RoundType ==
    ASSUME NEW bytes, NEW start, NEW v, RoundsOf(v, bytes, start)
    PROVE  \A k \in 0..NameSteps : v[k] \in Walks
  BY DEF RoundsOf

\* The round after round k.
LEMMA NextRound ==
    ASSUME NEW bytes, NEW start, NEW v, RoundsOf(v, bytes, start), NEW k \in Nat, k + 1 <= NameSteps
    PROVE  v[k + 1] = NameStep(bytes, v[k]) /\ v[k] \in Walks /\ v[k + 1] \in Walks
<1>1. k + 1 \in 1..NameSteps /\ (k + 1) - 1 = k /\ k \in 0..NameSteps /\ k + 1 \in 0..NameSteps
  BY DNSMessageAssumption
<1> QED
  BY <1>1 DEF RoundsOf

\* Where the walk ended it stays.
LEMMA EndedForGood ==
    ASSUME NEW bytes, NEW start, NEW v, RoundsOf(v, bytes, start),
           NEW k \in Nat, NEW j \in Nat, k <= j, j <= NameSteps, v[k].at # "name"
    PROVE  v[j] = v[k]
<1> DEFINE Stays == {m \in Nat : k + m <= NameSteps => v[k + m] = v[k]}
<1>1. 0 \in Stays
  OBVIOUS
<1>2. ASSUME NEW m \in Stays PROVE m + 1 \in Stays
  <2> SUFFICES ASSUME k + (m + 1) <= NameSteps PROVE v[k + (m + 1)] = v[k]
    OBVIOUS
  <2>1. m \in Nat /\ k + m \in Nat /\ (k + m) + 1 = k + (m + 1) /\ k + m <= NameSteps
    BY DNSMessageAssumption
  <2>2. v[k + m] = v[k]
    BY <2>1
  <2>3. v[(k + m) + 1] = NameStep(bytes, v[k + m])
    BY <2>1, NextRound
  <2> QED
    BY <2>1, <2>2, <2>3, EndedStays
<1>3. Stays = Nat
  <2> HIDE DEF Stays
  <2> QED
    BY <1>1, <1>2, AllNaturals DEF Stays
<1>4. j - k \in Nat /\ k + (j - k) = j
  OBVIOUS
<1>5. j - k \in Stays
  <2> HIDE DEF Stays
  <2> QED
    BY <1>3, <1>4
<1> QED
  BY <1>4, <1>5

\* What two walks have in common when they were at one place, x and y, before.
Common(p, q, x, y) ==
    /\ p.offset = q.offset /\ p.at = q.at
    /\ \A first \in Seq(Strings) : x.labels = first \o y.labels => p.labels = first \o q.labels
    /\ x.jumped = y.jumped /\ x.next = y.next => p.jumped = q.jumped /\ p.next = q.next
    /\ x.jumped => p.jumped /\ p.next = x.next

LEMMA CommonNext ==
    ASSUME NEW bytes \in Seq(Nat), NEW p \in Walks, NEW q \in Walks, NEW x, NEW y, Common(p, q, x, y)
    PROVE  Common(NameStep(bytes, p), NameStep(bytes, q), x, y)
<1> DEFINE pp == NameStep(bytes, p)
           qq == NameStep(bytes, q)
<1>1. /\ pp.offset = qq.offset /\ pp.at = qq.at
      /\ \A first \in Seq(Strings) : p.labels = first \o q.labels => pp.labels = first \o qq.labels
      /\ p.jumped = q.jumped /\ p.next = q.next => pp.jumped = qq.jumped /\ pp.next = qq.next
      /\ p.jumped => pp.jumped /\ pp.next = p.next
  BY TogetherNext DEF Common, Strings
<1> HIDE DEF pp, qq
<1>2. \A first \in Seq(Strings) : x.labels = first \o y.labels => pp.labels = first \o qq.labels
  BY <1>1 DEF Common
<1>3. x.jumped = y.jumped /\ x.next = y.next => pp.jumped = qq.jumped /\ pp.next = qq.next
  BY <1>1, Zenon DEF Common
<1>4. x.jumped => pp.jumped /\ pp.next = x.next
  BY <1>1, Zenon DEF Common
<1> QED
  BY <1>1, <1>2, <1>3, <1>4, Zenon DEF Common, pp, qq

LEMMA GoTogether ==
    ASSUME NEW bytes \in Seq(Nat), NEW start, NEW v, RoundsOf(v, bytes, start),
           NEW begin, NEW u, RoundsOf(u, bytes, begin), NEW i \in Nat, NEW j \in Nat, NEW m \in Nat,
           i + m <= NameSteps, j + m <= NameSteps, v[i].offset = u[j].offset, v[i].at = u[j].at
    PROVE  Common(v[i + m], u[j + m], v[i], u[j])
<1> DEFINE Along == {n \in Nat : i + n <= NameSteps /\ j + n <= NameSteps => Common(v[i + n], u[j + n], v[i], u[j])}
<1>1. 0 \in Along
  <2>1. i + 0 = i /\ j + 0 = j
    OBVIOUS
  <2>2. Common(v[i], u[j], v[i], u[j])
    BY Zenon DEF Common
  <2> QED
    BY <2>1, <2>2
<1>2. ASSUME NEW n \in Along PROVE n + 1 \in Along
  <2> SUFFICES ASSUME i + (n + 1) <= NameSteps, j + (n + 1) <= NameSteps
               PROVE  Common(v[i + (n + 1)], u[j + (n + 1)], v[i], u[j])
    OBVIOUS
  <2>1. /\ n \in Nat /\ i + n \in Nat /\ (i + n) + 1 = i + (n + 1) /\ i + n <= NameSteps
        /\ j + n \in Nat /\ (j + n) + 1 = j + (n + 1) /\ j + n <= NameSteps
    BY DNSMessageAssumption
  <2>2. Common(v[i + n], u[j + n], v[i], u[j])
    BY <2>1
  <2> HIDE DEF Along
  <2>3. v[(i + n) + 1] = NameStep(bytes, v[i + n]) /\ v[i + n] \in Walks
    BY <2>1, NextRound
  <2>4. u[(j + n) + 1] = NameStep(bytes, u[j + n]) /\ u[j + n] \in Walks
    BY <2>1, NextRound
  <2>5. Common(v[(i + n) + 1], u[(j + n) + 1], v[i], u[j])
    BY <2>2, <2>3, <2>4, CommonNext
  <2> QED
    BY <2>1, <2>5
<1>3. Along = Nat
  <2> HIDE DEF Along
  <2> QED
    BY <1>1, <1>2, AllNaturals DEF Along
<1>4. m \in Along
  <2> HIDE DEF Along
  <2> QED
    BY <1>3
<1> QED
  BY <1>4

\* A walk that ends in the last round was nowhere twice.
LEMMA NoReturn ==
    ASSUME NEW bytes \in Seq(Nat), NEW start, NEW v, RoundsOf(v, bytes, start), NameSteps # 0,
           v[NameSteps].at = "end", v[NameSteps - 1].at = "name",
           NEW i \in 0..NameSteps - 1, NEW j \in 0..NameSteps - 1, i < j
    PROVE  v[i].offset # v[j].offset
<1> SUFFICES ASSUME v[i].offset = v[j].offset PROVE FALSE
  OBVIOUS
<1> DEFINE last == NameSteps - 1
           m    == NameSteps - j
<1>1. /\ i \in Nat /\ j \in Nat /\ last \in Nat /\ m \in Nat /\ i <= last /\ j <= last /\ last <= NameSteps
      /\ i + m \in Nat /\ i + m <= last /\ i + m <= NameSteps /\ j + m = NameSteps /\ j + m <= NameSteps
  BY DNSMessageAssumption
<1> HIDE DEF last, m
<1>2. \A k \in Nat : k <= last => v[k].at = "name"
  <2> SUFFICES ASSUME NEW k \in Nat, k <= last, v[k].at # "name" PROVE FALSE
    OBVIOUS
  <2>1. last \in Nat /\ last <= NameSteps
    BY <1>1
  <2>2. v[last] = v[k]
    BY <2>1, EndedForGood
  <2> QED
    BY <2>2 DEF last
<1>3. v[i].at = v[j].at
  BY <1>1, <1>2
<1>4. Common(v[i + m], v[j + m], v[i], v[j])
  BY <1>1, <1>3, GoTogether
<1>5. v[i + m].at = "end"
  BY <1>1, <1>4 DEF Common
<1> QED
  BY <1>1, <1>2, <1>5

\* So a walk of a short packet ends before the last round, if it does.
LEMMA EndsEarlier ==
    ASSUME NEW bytes \in Seq(Nat), NEW start, NEW v, RoundsOf(v, bytes, start), Len(bytes) < NameSteps,
           v[NameSteps].at = "end"
    PROVE  v[NameSteps - 1] = v[NameSteps]
<1> DEFINE last == NameSteps - 1
<1>1. Len(bytes) \in Nat /\ NameSteps \in Nat /\ NameSteps # 0 /\ last \in Nat /\ last <= NameSteps
  BY LenProperties, DNSMessageAssumption
<1> HIDE DEF last
<1>2. CASE v[last].at # "name"
  BY <1>1, <1>2, EndedForGood DEF last
<1>3. CASE v[last].at = "name"
  <2>1. \A k \in 0..last : k \in Nat /\ k <= last /\ k + 1 <= NameSteps /\ k + 1 \in Nat
    BY <1>1 DEF last
  <2>2. ASSUME NEW k \in 0..last PROVE v[k].at = "name"
    <3>1. v[k].at # "name" => v[last] = v[k]
      BY <1>1, <2>1, EndedForGood
    <3> QED
      BY <1>3, <3>1
  <2>3. ASSUME NEW k \in 0..last PROVE v[k].offset \in 0..Len(bytes) - 1
    <3>1. v[k + 1] = NameStep(bytes, v[k]) /\ v[k] \in Walks
      BY <2>1, NextRound
    <3>2. v[k + 1].at # "error"
      <4>1. v[k + 1].at = "error" => v[NameSteps] = v[k + 1]
        BY <1>1, <2>1, EndedForGood
      <4> QED
        BY <4>1
    <3>3. MeetsEnd(bytes, v[k]) \/ MeetsPointer(bytes, v[k]) \/ MeetsLabel(bytes, v[k])
      BY <2>2, <3>1, <3>2, RoundFails
    <3>4. v[k].offset \in Nat
      BY <3>1 DEF Walks
    <3>5. v[k].offset < Len(bytes)
      BY <1>1, <3>3, <3>4 DEF MeetsEnd, MeetsPointer, MeetsLabel, Inside
    <3> QED
      BY <1>1, <3>4, <3>5
  <2> DEFINE f == [k \in 0..last |-> v[k].offset]
  <2>4. f \in [0..last -> 0..Len(bytes) - 1]
    BY <2>3
  <2>5. /\ IsFiniteSet(0..last) /\ Cardinality(0..last) = NameSteps
        /\ IsFiniteSet(0..Len(bytes) - 1) /\ Cardinality(0..Len(bytes) - 1) = Len(bytes)
    <3>1. 0 \in Int /\ last \in Int /\ Len(bytes) - 1 \in Int
      BY <1>1
    <3>2. Cardinality(0..last) = IF 0 > last THEN 0 ELSE last - 0 + 1
      BY <3>1, FS_Interval
    <3>3. Cardinality(0..Len(bytes) - 1) = IF 0 > Len(bytes) - 1 THEN 0 ELSE (Len(bytes) - 1) - 0 + 1
      BY <3>1, FS_Interval
    <3>4. IsFiniteSet(0..last) /\ IsFiniteSet(0..Len(bytes) - 1)
      BY <3>1, FS_Interval
    <3>5. Cardinality(0..last) = NameSteps
      BY <1>1, <3>2 DEF last
    <3>6. Cardinality(0..Len(bytes) - 1) = Len(bytes)
      BY <1>1, <3>3
    <3> QED
      BY <3>4, <3>5, <3>6
  <2> HIDE DEF f
  <2>6. PICK x \in 0..last, y \in 0..last : x # y /\ f[x] = f[y]
    <3>1. PICK S, T : S = 0..last /\ T = 0..Len(bytes) - 1
      OBVIOUS
    <3>2. IsFiniteSet(S) /\ IsFiniteSet(T) /\ Cardinality(T) < Cardinality(S) /\ f \in [S -> T]
      BY <2>4, <2>5, <3>1
    <3>3. \E x, y \in S : x # y /\ f[x] = f[y]
      BY ONLY <3>2, FS_PigeonHole
    <3> QED
      BY <3>1, <3>3
  <2>7. v[x].offset = v[y].offset
    BY <2>6 DEF f
  <2>8. \A i, j \in 0..last : i < j => v[i].offset # v[j].offset
    BY <1>1, <1>3, NoReturn DEF last
  <2>9. x < y \/ y < x
    BY <1>1, <2>6
  <2> QED
    BY <2>7, <2>8, <2>9
<1> QED
  BY <1>2, <1>3

-----------------------------------------------------------------------------
(* Names and the names in them. *)

\* No label is empty.
Full(walk) == \A i \in 1..Len(walk.labels) : walk.labels[i] # <<>>

LEMMA FullNext ==
    ASSUME NEW bytes \in Seq(Nat), NEW walk \in Walks, Full(walk)
    PROVE  Full(NameStep(bytes, walk))
<1> DEFINE next == NameStep(bytes, walk)
<1>1. CASE walk.at # "name"
  BY <1>1, EndedStays
<1>2. CASE walk.at = "name" /\ MeetsLabel(bytes, walk)
  <2> DEFINE label == Label(bytes, walk)
  <2>1. next.labels = Append(walk.labels, label)
    BY <1>2, RoundReads
  <2>2. label \in Seq(Nat) /\ label # <<>>
    BY <1>2, LabelType
  <2>3. PICK T : T = Seq(Nat)
    OBVIOUS
  <2>4. walk.labels \in Seq(T) /\ label \in T
    BY <2>2, <2>3 DEF Walks
  <2> HIDE DEF label, next
  <2>5. /\ Len(next.labels) = Len(walk.labels) + 1 /\ Len(walk.labels) \in Nat
        /\ \A i \in 1..Len(walk.labels) : next.labels[i] = walk.labels[i]
        /\ next.labels[Len(walk.labels) + 1] = label
    BY <2>1, <2>4, AppendProperties, LenProperties
  <2> SUFFICES ASSUME NEW i \in 1..Len(next.labels) PROVE next.labels[i] # <<>>
    BY DEF Full, next
  <2>6. i \in 1..Len(walk.labels) \/ i = Len(walk.labels) + 1
    BY <2>5
  <2> QED
    BY <2>2, <2>5, <2>6 DEF Full
<1>3. CASE walk.at = "name" /\ ~MeetsLabel(bytes, walk)
  <2>1. next.labels = walk.labels
    <3>1. CASE MeetsEnd(bytes, walk)
      BY <1>3, <3>1, RoundEnds
    <3>2. CASE MeetsPointer(bytes, walk)
      BY <1>3, <3>2, RoundJumps
    <3>3. CASE ~MeetsEnd(bytes, walk) /\ ~MeetsPointer(bytes, walk)
      BY <1>3, <3>3, RoundFails
    <3> QED
      BY <3>1, <3>2, <3>3
  <2> QED
    BY <2>1 DEF Full
<1> QED
  BY <1>1, <1>2, <1>3

LEMMA LabelsFull ==
    ASSUME NEW bytes \in Seq(Nat), NEW start, NEW v, RoundsOf(v, bytes, start)
    PROVE  Full(v[NameSteps])
<1> DEFINE Kept == {k \in Nat : k <= NameSteps => Full(v[k])}
<1>1. 0 \in Kept
  <2>1. v[0].labels = <<>>
    BY DEF RoundsOf, Begin
  <2>2. Full(v[0])
    BY <2>1 DEF Full
  <2> QED
    BY <2>2
<1>2. ASSUME NEW k \in Kept PROVE k + 1 \in Kept
  <2> SUFFICES ASSUME k + 1 <= NameSteps PROVE Full(v[k + 1])
    OBVIOUS
  <2>1. k \in Nat /\ k <= NameSteps
    BY DNSMessageAssumption
  <2>2. Full(v[k])
    BY <2>1
  <2> HIDE DEF Kept
  <2>3. v[k + 1] = NameStep(bytes, v[k]) /\ v[k] \in Walks
    BY <2>1, NextRound
  <2> QED
    BY <2>2, <2>3, FullNext
<1>3. Kept = Nat
  <2> HIDE DEF Kept
  <2> QED
    BY <1>1, <1>2, AllNaturals DEF Kept
<1>4. NameSteps \in Kept
  <2> HIDE DEF Kept
  <2> QED
    BY <1>3, DNSMessageAssumption
<1> QED
  BY <1>4, DNSMessageAssumption

\* A walk whose first round goes on to rest ends if the walk from there does.
LEMMA RestEnds ==
    ASSUME NEW bytes \in Seq(Nat), NEW start, NEW v, RoundsOf(v, bytes, start),
           NEW rest, NEW u, RoundsOf(u, bytes, rest), Len(bytes) < NameSteps,
           v[1].offset = rest, v[1].at = "name"
    PROVE  /\ v[NameSteps].at = "end" <=> u[NameSteps].at = "end"
           /\ v[NameSteps].at = "end" => Common(v[NameSteps], u[NameSteps], v[1], Begin(rest))
<1> DEFINE last == NameSteps - 1
<1>1. /\ NameSteps \in Nat /\ last \in Nat /\ last <= NameSteps /\ 1 + last = NameSteps /\ 0 + last = last
      /\ 1 + last <= NameSteps /\ 0 + last <= NameSteps
  BY LenProperties, DNSMessageAssumption
<1> HIDE DEF last
<1>2. u[0] = Begin(rest) /\ u[0].offset = rest /\ u[0].at = "name"
  BY DEF RoundsOf, Begin
<1>3. Common(v[1 + last], u[0 + last], v[1], u[0])
  <2>1. v[1].offset = u[0].offset /\ v[1].at = u[0].at
    BY <1>2
  <2> QED
    BY <1>1, <2>1, GoTogether
<1>4. Common(v[NameSteps], u[last], v[1], Begin(rest))
  BY <1>1, <1>2, <1>3
<1>5. v[NameSteps].at = u[last].at
  BY <1>4 DEF Common
<1>6. u[last].at = "end" => u[NameSteps] = u[last]
  BY <1>1, EndedForGood
<1>7. u[NameSteps].at = "end" => u[last] = u[NameSteps]
  BY EndsEarlier DEF last
<1> QED
  BY <1>4, <1>5, <1>6, <1>7

\* The first round begins at start, where nothing was read.
Begins(v, bytes, start) ==
    /\ Begin(start) \in Walks /\ v[1] = NameStep(bytes, Begin(start)) /\ v[1] \in Walks
    /\ 1 \in Nat /\ 1 <= NameSteps /\ NameSteps \in Nat /\ v[NameSteps] \in Walks
    /\ Begin(start).offset = start /\ Begin(start).next = start /\ Begin(start).jumped = FALSE
    /\ Begin(start).labels = <<>> /\ Begin(start).at = "name"

\* So it does.
LEMMA FirstRound ==
    ASSUME NEW bytes \in Seq(Nat), NEW start \in Nat, NEW v, RoundsOf(v, bytes, start), Len(bytes) < NameSteps
    PROVE  Begins(v, bytes, start)
<1>1. NameSteps \in Nat /\ 0 + 1 <= NameSteps /\ 0 \in Nat /\ 0 + 1 = 1 /\ NameSteps \in 0..NameSteps
  BY LenProperties, DNSMessageAssumption
<1>2. v[0 + 1] = NameStep(bytes, v[0]) /\ v[0] \in Walks /\ v[0 + 1] \in Walks
  BY <1>1, NextRound
<1>3. v[0] = Begin(start) /\ v[NameSteps] \in Walks
  BY <1>1 DEF RoundsOf
<1>4. /\ Begin(start).offset = start /\ Begin(start).next = start /\ Begin(start).jumped = FALSE
      /\ Begin(start).labels = <<>> /\ Begin(start).at = "name"
  BY DEF Begin
<1> QED
  BY <1>1, <1>2, <1>3, <1>4 DEF Begins

\* A zero byte is the root.
LEMMA RootName ==
    ASSUME NEW bytes \in Seq(Nat), NEW start \in Nat, start < Len(bytes), Len(bytes) < NameSteps, At(bytes, start) = 0
    PROVE  decodeDNSName(bytes, start) = [name |-> <<46>>, next |-> start + 1, ok |-> TRUE]
<1>1. PICK v : RoundsOf(v, bytes, start) /\ decodeDNSName(bytes, start) = Reading(v[NameSteps])
  BY RoundsExist
<1>2. /\ Begin(start) \in Walks /\ v[1] = NameStep(bytes, Begin(start)) /\ 1 <= NameSteps
      /\ Begin(start).offset = start /\ Begin(start).jumped = FALSE
      /\ Begin(start).labels = <<>> /\ Begin(start).at = "name" /\ NameSteps \in Nat
  <2>1. Begins(v, bytes, start)
    BY <1>1, FirstRound
  <2> QED
    BY <2>1 DEF Begins
<1>3. MeetsEnd(bytes, Begin(start))
  BY <1>2 DEF MeetsEnd, Inside, Length
<1>4. v[1].at = "end" /\ v[1].labels = <<>> /\ v[1].next = PastOf(Begin(start), start + 1)
  BY <1>2, <1>3, RoundEnds
<1>5. v[1].next = start + 1
  BY <1>2, <1>4 DEF PastOf
<1>6. v[NameSteps] = v[1]
  <2>1. v[1].at # "name" /\ 1 \in Nat
    BY <1>4
  <2> QED
    BY <1>1, <1>2, <2>1, EndedForGood
<1>7. Joined(<<>>) = <<46>>
  BY DEF Joined
<1> QED
  BY <1>1, <1>4, <1>5, <1>6, <1>7 DEF Reading

\* What is read when a walk is over.
LEMMA ReadingFields ==
    ASSUME NEW walk
    PROVE  /\ Reading(walk).name = Joined(walk.labels) /\ Reading(walk).next = walk.next
           /\ Reading(walk).ok <=> walk.at = "end"
           /\ walk.at = "end" => Reading(walk).ok = TRUE
           /\ walk.at # "end" => Reading(walk).ok = FALSE
<1> DEFINE ended == walk.at = "end"
<1>1. Reading(walk) = [name |-> Joined(walk.labels), next |-> walk.next, ok |-> ended]
  BY DEF Reading
<1>2. ended \in BOOLEAN
  OBVIOUS
<1> HIDE DEF ended
<1>3. Reading(walk).name = Joined(walk.labels) /\ Reading(walk).next = walk.next /\ Reading(walk).ok = ended
  BY <1>1
<1>4. (Reading(walk).ok <=> ended) /\ (ended => Reading(walk).ok = TRUE) /\ (~ended => Reading(walk).ok = FALSE)
  BY <1>2, <1>3, Zenon
<1> QED
  BY <1>3, <1>4 DEF ended

\* A label goes before the name behind it.
LEMMA LabelName ==
    ASSUME NEW bytes \in Seq(Nat), NEW start \in Nat, start < Len(bytes), Len(bytes) < NameSteps,
           NEW length \in 1..63, length = At(bytes, start), start + 1 + length <= Len(bytes)
    PROVE  LET here == decodeDNSName(bytes, start)
               rest == decodeDNSName(bytes, start + 1 + length)
           IN /\ here.ok = rest.ok
              /\ here.ok => /\ here.next = rest.next
                            /\ here.name = Slice(bytes, start + 1, start + 1 + length) \o <<46>> \o
                                             (IF rest.name = <<46>> THEN <<>> ELSE rest.name)
<1> DEFINE behind == start + 1 + length
           here   == decodeDNSName(bytes, start)
           rest   == decodeDNSName(bytes, behind)
           label  == Slice(bytes, start + 1, behind)
<1>0. behind \in Nat
  <2>1. \A m \in Nat, n \in 1..63 : m + 1 + n \in Nat
    OBVIOUS
  <2> QED
    BY <2>1
<1>1. PICK v : RoundsOf(v, bytes, start) /\ here = Reading(v[NameSteps])
  BY RoundsExist
<1>2. PICK u : RoundsOf(u, bytes, behind) /\ rest = Reading(u[NameSteps])
  <2> HIDE DEF behind
  <2> QED
    BY <1>0, RoundsExist
<1>3. /\ Begin(start) \in Walks /\ v[1] = NameStep(bytes, Begin(start))
      /\ Begin(start).offset = start /\ Begin(start).next = start /\ Begin(start).jumped = FALSE
      /\ Begin(start).labels = <<>> /\ Begin(start).at = "name" /\ v[NameSteps] \in Walks
  <2>1. Begins(v, bytes, start)
    BY <1>1, FirstRound
  <2> QED
    BY <2>1 DEF Begins
<1> HIDE DEF here, rest
<1>4. MeetsLabel(bytes, Begin(start)) /\ Length(bytes, Begin(start)) = length /\ Label(bytes, Begin(start)) = label
  BY <1>3 DEF MeetsLabel, Inside, Length, Label
<1>5. label \in Seq(Nat) /\ label # <<>>
  BY <1>3, <1>4, LabelType
<1>6. /\ v[1].at = "name" /\ v[1].offset = behind /\ v[1].jumped = FALSE
      /\ v[1].labels = Append(<<>>, label) /\ v[1].next = behind
  <2>1. /\ v[1].at = "name" /\ v[1].offset = Begin(start).offset + 1 + Length(bytes, Begin(start))
        /\ v[1].jumped = Begin(start).jumped
        /\ v[1].labels = Append(Begin(start).labels, Label(bytes, Begin(start)))
        /\ v[1].next = PastOf(Begin(start), Begin(start).offset + 1 + Length(bytes, Begin(start)))
    BY <1>3, <1>4, RoundReads, Zenon
  <2> QED
    BY <1>3, <1>4, <2>1 DEF PastOf
<1> HIDE DEF behind, label
<1>7. /\ v[NameSteps].at = "end" <=> u[NameSteps].at = "end"
      /\ v[NameSteps].at = "end" => Common(v[NameSteps], u[NameSteps], v[1], Begin(behind))
  BY <1>1, <1>2, <1>6, RestEnds
<1>8. here.ok = rest.ok
  <2>1. \E truth : here.ok = truth /\ rest.ok = truth
    BY <1>1, <1>2, <1>7, ReadingFields, Zenon
  <2> QED
    BY <2>1
<1>9. ASSUME here.ok PROVE here.next = rest.next /\ here.name = label \o <<46>> \o (IF rest.name = <<46>> THEN <<>> ELSE rest.name)
  <2>1. Common(v[NameSteps], u[NameSteps], v[1], Begin(behind))
    BY <1>1, <1>7, <1>9, ReadingFields
  <2>2. Begin(behind).next = behind /\ Begin(behind).jumped = FALSE /\ Begin(behind).labels = <<>>
    BY DEF Begin
  <2>3. v[NameSteps].next = u[NameSteps].next
    BY <1>6, <2>1, <2>2 DEF Common
  <2>4. PICK labels \in Seq(Strings) : labels = u[NameSteps].labels
    <3>1. u[NameSteps] \in Walks
      BY <1>0, <1>2, FirstRound DEF Begins
    <3> QED
      BY <3>1 DEF Walks, Strings
  <2>5. <<label>> \in Seq(Strings) /\ v[1].labels = <<label>> \o <<>>
    <3>1. PICK T : T = Strings
      OBVIOUS
    <3>2. <<label>> \in Seq(T)
      BY <1>5, <3>1 DEF Strings
    <3>3. <<label>> \o <<>> = <<label>>
      BY ONLY <3>2, ConcatEmptySeq
    <3> QED
      BY <1>6, <3>1, <3>2, <3>3
  <2>6. v[NameSteps].labels = <<label>> \o labels
    BY <2>1, <2>2, <2>4, <2>5 DEF Common
  <2>7. Joined(<<label>> \o labels) = label \o <<46>> \o (IF labels = <<>> THEN <<>> ELSE Joined(labels))
    BY <1>5, JoinedFirst DEF Strings
  <2>8. Joined(labels) = <<46>> <=> labels = <<>>
    <3>1. Full(u[NameSteps])
      BY <1>2, LabelsFull
    <3> QED
      BY <2>4, <3>1, OneDot DEF Full
  <2>9. here.next = v[NameSteps].next /\ here.name = Joined(v[NameSteps].labels)
        /\ rest.next = u[NameSteps].next /\ rest.name = Joined(labels)
    BY <1>1, <1>2, <2>4, ReadingFields
  <2> QED
    BY <2>3, <2>6, <2>7, <2>8, <2>9
<1> QED
  BY <1>8, <1>9 DEF here, rest, behind, label

\* A pointer stands for the name it points to.
LEMMA PointerName ==
    ASSUME NEW bytes \in Seq(Nat), NEW start \in Nat, start + 1 < Len(bytes), Len(bytes) < NameSteps,
           At(bytes, start) >= 192, Pointer(bytes, start) \in Nat
    PROVE  LET here   == decodeDNSName(bytes, start)
               target == decodeDNSName(bytes, Pointer(bytes, start))
           IN here.ok = target.ok /\ (here.ok => here.name = target.name /\ here.next = start + 2)
<1> DEFINE to     == Pointer(bytes, start)
           here   == decodeDNSName(bytes, start)
           target == decodeDNSName(bytes, to)
<1>1. PICK v : RoundsOf(v, bytes, start) /\ here = Reading(v[NameSteps])
  BY RoundsExist
<1>2. PICK u : RoundsOf(u, bytes, to) /\ target = Reading(u[NameSteps])
  <2> HIDE DEF to
  <2> QED
    BY RoundsExist DEF to
<1>3. /\ Begin(start) \in Walks /\ v[1] = NameStep(bytes, Begin(start))
      /\ Begin(start).offset = start /\ Begin(start).next = start /\ Begin(start).jumped = FALSE
      /\ Begin(start).labels = <<>> /\ Begin(start).at = "name"
  <2>1. start < Len(bytes)
    BY LenProperties
  <2>2. Begins(v, bytes, start)
    BY <1>1, <2>1, FirstRound
  <2> QED
    BY <2>2 DEF Begins
<1> HIDE DEF here, target
<1>4. MeetsPointer(bytes, Begin(start))
  BY <1>3 DEF MeetsPointer, Length
<1>5. v[1].at = "name" /\ v[1].offset = to /\ v[1].jumped = TRUE /\ v[1].labels = <<>> /\ v[1].next = start + 2
  <2>1. /\ v[1].at = "name" /\ v[1].offset = Pointer(bytes, Begin(start).offset) /\ v[1].jumped = TRUE
        /\ v[1].labels = Begin(start).labels /\ v[1].next = PastOf(Begin(start), Begin(start).offset + 2)
    <3> HIDE DEF to
    <3>1. PICK walk \in Walks : walk = Begin(start)
      BY <1>3
    <3>2. walk.at = "name" /\ MeetsPointer(bytes, walk) /\ v[1] = NameStep(bytes, walk)
      BY <1>3, <1>4, <3>1
    <3>3. PICK next : next = v[1]
      OBVIOUS
    <3>4. /\ next.at = "name" /\ next.offset = Pointer(bytes, walk.offset) /\ next.jumped = TRUE
          /\ next.labels = walk.labels /\ next.next = PastOf(walk, walk.offset + 2)
      <4>1. LET n == NameStep(bytes, walk)
            IN /\ n.at = "name" /\ n.offset = Pointer(bytes, walk.offset) /\ n.jumped = TRUE
               /\ n.labels = walk.labels /\ n.next = PastOf(walk, walk.offset + 2)
        BY <3>2, RoundJumps
      <4> QED
        BY ONLY <3>2, <3>3, <4>1
    <3> QED
      BY <3>1, <3>3, <3>4
  <2> QED
    BY <1>3, <2>1 DEF PastOf
<1> HIDE DEF to
<1>6. /\ v[NameSteps].at = "end" <=> u[NameSteps].at = "end"
      /\ v[NameSteps].at = "end" => Common(v[NameSteps], u[NameSteps], v[1], Begin(to))
  BY <1>1, <1>2, <1>5, RestEnds
<1>7. here.ok = target.ok
  <2>1. \E truth : here.ok = truth /\ target.ok = truth
    BY <1>1, <1>2, <1>6, ReadingFields, Zenon
  <2> QED
    BY <2>1
<1>8. ASSUME here.ok PROVE here.name = target.name /\ here.next = start + 2
  <2>1. Common(v[NameSteps], u[NameSteps], v[1], Begin(to))
    BY <1>1, <1>6, <1>8, ReadingFields
  <2>2. v[NameSteps].next = start + 2
    BY <1>5, <2>1, Zenon DEF Common
  <2>3. PICK labels \in Seq(Strings) : labels = u[NameSteps].labels
    <3>1. u[NameSteps] \in Walks
      BY <1>2, FirstRound DEF to, Begins
    <3> QED
      BY <3>1 DEF Walks, Strings
  <2>4. PICK none \in Seq(Strings) : none = <<>>
    BY EmptySeq
  <2>5. none \o labels = labels /\ none \o none = none
    <3>1. PICK T : T = Strings
      OBVIOUS
    <3>2. labels \in Seq(T) /\ none \in Seq(T)
      BY <2>3, <2>4, <3>1
    <3> QED
      BY ONLY <2>4, <3>2, ConcatEmptySeq
  <2>6. v[1].labels = none \o Begin(to).labels
    <3>1. Begin(to).labels = none
      BY <2>4 DEF Begin
    <3> QED
      BY <1>5, <2>4, <2>5, <3>1
  <2>7. v[NameSteps].labels = none \o u[NameSteps].labels
    BY <2>1, <2>6, Zenon DEF Common
  <2> QED
    BY <1>1, <1>2, <2>2, <2>3, <2>5, <2>7, ReadingFields
<1> QED
  BY <1>7, <1>8 DEF here, target, to

\* Everything else is no name.
LEMMA NoName ==
    ASSUME NEW bytes \in Seq(Nat), NEW start \in Nat, Len(bytes) < NameSteps, NEW length, length = At(bytes, start),
           length # 0, ~(length \in 1..63 /\ start + 1 + length <= Len(bytes)),
           ~(length >= 192 /\ start + 1 < Len(bytes))
    PROVE  ~decodeDNSName(bytes, start).ok
<1>1. PICK v : RoundsOf(v, bytes, start) /\ decodeDNSName(bytes, start) = Reading(v[NameSteps])
  BY RoundsExist
<1>2. /\ Begin(start) \in Walks /\ v[1] = NameStep(bytes, Begin(start)) /\ 1 <= NameSteps
      /\ Begin(start).offset = start /\ Begin(start).at = "name" /\ NameSteps \in Nat
  <2>1. Begins(v, bytes, start)
    BY <1>1, FirstRound
  <2> QED
    BY <2>1 DEF Begins
<1>3. /\ ~MeetsEnd(bytes, Begin(start)) /\ ~MeetsPointer(bytes, Begin(start))
      /\ ~MeetsLabel(bytes, Begin(start))
  BY <1>2, Zenon DEF MeetsEnd, MeetsPointer, MeetsLabel, Length
<1>4. v[1].at = "error"
  BY <1>2, <1>3, RoundFails
<1>5. v[NameSteps] = v[1]
  <2>1. v[1].at # "name" /\ 1 \in Nat
    BY <1>4
  <2> QED
    BY <1>1, <1>2, <2>1, EndedForGood
<1> QED
  BY <1>1, <1>4, <1>5, ReadingFields

\* The number in two bytes without its two highest bits.
LEMMA Masked ==
    ASSUME NEW high \in 0..255, NEW low \in 0..255
    PROVE  (256 * high + low) % 16384 = 256 * (high % 64) + low /\ 256 * (high % 64) + low \in Nat
  OBVIOUS

\* In a packet of fewer bytes than decodeDNSName has rounds, names are what RFC 1035
\* says: they solve its equations, loops of pointers are no names, and nothing else
\* is an error (decodeDNSName, main.go:309-346).
THEOREM NamesAreSolved == Spec => [](Len(packet) < NameSteps => NamesSolveTheirEquations)
<1>1. PacketType => (Len(packet) < NameSteps => NamesSolveTheirEquations)
  <2> SUFFICES ASSUME PacketType, Len(packet) < NameSteps, NEW offset \in 0..(Len(packet) - 1)
               PROVE  /\ At(packet, offset) = 0 => RootSolves(packet, offset)
                      /\ IsLabel(packet, offset) => LabelSolves(packet, offset)
                      /\ IsPointer(packet, offset) => PointerSolves(packet, offset)
                      /\ decodeDNSName(packet, offset).ok
                           => At(packet, offset) = 0 \/ IsLabel(packet, offset) \/ IsPointer(packet, offset)
    BY DEF NamesSolveTheirEquations
  <2> DEFINE length == At(packet, offset)
  <2>1. /\ packet \in Seq(Nat) /\ offset \in Nat /\ offset < Len(packet) /\ Len(packet) \in Nat
        /\ length \in 0..255 /\ (offset + 1 < Len(packet) => At(packet, offset + 1) \in 0..255)
    <3>1. packet \in Seq(Nat) /\ Len(packet) \in Nat
      BY PacketOfNumbers, LenProperties
    <3>2. offset + 1 \in 1..Len(packet) /\ (offset + 1 < Len(packet) => (offset + 1) + 1 \in 1..Len(packet))
      BY <3>1
    <3>3. \A i \in 1..Len(packet) : packet[i] \in 0..255
      BY ElementOfSeq DEF PacketType
    <3> QED
      BY <3>1, <3>2, <3>3 DEF At
  <2> HIDE DEF length
  <2>2. length = 0 => RootSolves(packet, offset)
    BY <2>1, RootName DEF length, RootSolves
  <2>3. ASSUME IsLabel(packet, offset) PROVE LabelSolves(packet, offset)
    <3>1. length \in 1..63 /\ offset + 1 + length <= Len(packet) /\ length = At(packet, offset)
      BY <2>3 DEF IsLabel, Behind, length
    <3>2. LET here == decodeDNSName(packet, offset)
              rest == decodeDNSName(packet, offset + 1 + length)
          IN /\ here.ok = rest.ok
             /\ here.ok => /\ here.next = rest.next
                           /\ here.name = Slice(packet, offset + 1, offset + 1 + length) \o <<46>> \o
                                            (IF rest.name = <<46>> THEN <<>> ELSE rest.name)
      BY <2>1, <3>1, LabelName
    <3>3. Behind(packet, offset) = offset + 1 + length
      BY DEF Behind, length
    <3> QED
      BY <3>2, <3>3, Zenon DEF LabelSolves
  <2>4. ASSUME IsPointer(packet, offset) PROVE PointerSolves(packet, offset)
    <3>1. Uint16(packet, offset) % 16384 = Pointer(packet, offset) /\ Pointer(packet, offset) \in Nat
      <4>1. Uint16(packet, offset) = 256 * length + At(packet, offset + 1)
            /\ Pointer(packet, offset) = 256 * (length % 64) + At(packet, offset + 1)
        BY DEF Uint16, Pointer, length
      <4>2. PICK high \in 0..255, low \in 0..255 : high = length /\ low = At(packet, offset + 1)
        BY <2>1, <2>4 DEF IsPointer
      <4>3. (256 * high + low) % 16384 = 256 * (high % 64) + low /\ 256 * (high % 64) + low \in Nat
        BY Masked
      <4>4. Uint16(packet, offset) = 256 * high + low /\ Pointer(packet, offset) = 256 * (high % 64) + low
        BY ONLY <4>1, <4>2, Zenon
      <4> QED
        BY <4>3, <4>4
    <3>2. LET here   == decodeDNSName(packet, offset)
              target == decodeDNSName(packet, Pointer(packet, offset))
          IN here.ok = target.ok /\ (here.ok => here.name = target.name /\ here.next = offset + 2)
      BY <2>1, <2>4, <3>1, PointerName DEF IsPointer
    <3>3. decodeDNSName(packet, Uint16(packet, offset) % 16384) = decodeDNSName(packet, Pointer(packet, offset))
      BY <3>1
    <3> QED
      BY <3>2, <3>3 DEF PointerSolves
  <2>5. ~(length = 0 \/ IsLabel(packet, offset) \/ IsPointer(packet, offset)) => ~decodeDNSName(packet, offset).ok
    BY <2>1, NoName DEF IsLabel, IsPointer, Behind, length
  <2> QED
    BY <2>2, <2>3, <2>4, <2>5 DEF length
<1> QED
  BY <1>1, PacketTypeCorrect, PTL

====
