------------------------------ MODULE DNSMessage ------------------------------
(***************************************************************************)
(* How the load generator reads the DNS packets it sees: the question of a *)
(* message, its name with compression pointers, and its flags.  A packet   *)
(* is a sequence of bytes; offsets count from 0, as in the code.           *)
(*                                                                         *)
(* The one variable is a packet that grows byte by byte, so that every     *)
(* packet over a small alphabet is read, whole and cut off anywhere.       *)
(***************************************************************************)
EXTENDS Naturals, Sequences, SequencesExt, TLC

CONSTANTS Nil,       \* no message
          NameSteps, \* labels and pointers decodeDNSName follows (128)
          Headers,   \* what packets start with
          Bytes,     \* what they go on with
          MaxLength  \* bound: the length of a packet

VARIABLE packet

ASSUME DNSMessageAssumption ==
    /\ Headers \subseteq Seq(0..255) /\ Bytes \subseteq 0..255
    /\ NameSteps \in Nat /\ MaxLength \in Nat

-----------------------------------------------------------------------------
At(bytes, offset)       == bytes[offset + 1]
Slice(bytes, from, end) == SubSeq(bytes, from + 1, end)
Uint16(bytes, offset)   == 256 * At(bytes, offset) + At(bytes, offset + 1)

\* strings.Join(labels, ".") + "."
Joined(labels) ==
    IF labels = <<>> THEN <<46>> ELSE FlattenSeq([i \in DOMAIN labels |-> Append(labels[i], 46)])

\* Where the pointer at offset leads; mutant: without the mask.
PointerUnmasked(bytes, offset) == Uint16(bytes, offset)
Pointer(bytes, offset) == 256 * (At(bytes, offset) % 64) + At(bytes, offset + 1)

\* The walk meets what cannot be; mutant: the name ends there.
FailedTakesTheRest(walk) == [walk EXCEPT !.at = "end"]
Failed(walk) == [walk EXCEPT !.at = "error"]

\* One round of the loop of decodeDNSName: the end, a pointer or a label.
NameStep(bytes, walk) ==
    LET offset  == walk.offset
        length  == At(bytes, offset)
        Past(n) == IF walk.jumped THEN walk.next ELSE n
    IN CASE walk.at # "name" -> walk
         [] walk.at = "name" /\ offset >= Len(bytes) -> Failed(walk)
         [] OTHER ->
            CASE length = 0 -> [walk EXCEPT !.at = "end", !.next = Past(offset + 1)]
              [] length >= 192 /\ offset + 1 < Len(bytes) ->
                   [walk EXCEPT !.offset = Pointer(bytes, offset), !.next = Past(offset + 2),
                                !.jumped = TRUE]
              [] length \in 1..63 /\ offset + 1 + length <= Len(bytes) ->
                   [walk EXCEPT !.labels = Append(@, Slice(bytes, offset + 1, offset + 1 + length)),
                                !.offset = offset + 1 + length, !.next = Past(offset + 1 + length)]
              [] OTHER -> Failed(walk)

\* The name at offset start and the offset behind it; ok is FALSE for an error.
decodeDNSName(bytes, start) ==
    LET begin == [offset |-> start, next |-> start, jumped |-> FALSE, labels |-> <<>>, at |-> "name"]
        walk  == FoldLeft(LAMBDA before, i : NameStep(bytes, before), begin, [i \in 1..NameSteps |-> i])
    IN [name |-> Joined(walk.labels), next |-> walk.next, ok |-> walk.at = "end"]

dnsTypeName(qtype) == CASE qtype = 1 -> "A" [] qtype = 28 -> "AAAA" [] OTHER -> ToString(qtype)

dnsRCodeName(rcode) ==
    CASE rcode = 0 -> "NOERROR" [] rcode = 1 -> "FORMERR" [] rcode = 2 -> "SERVFAIL"
      [] rcode = 3 -> "NXDOMAIN" [] rcode = 5 -> "REFUSED" [] OTHER -> ToString(rcode)

\* parseDNSMessage of a message that has no frame around it.
ParsedMessage(bytes) ==
    IF Len(bytes) < 12 \/ Uint16(bytes, 4) = 0 THEN Nil
    ELSE LET question == decodeDNSName(bytes, 12)
             flags    == Uint16(bytes, 2)
         IN IF ~question.ok \/ question.next + 4 > Len(bytes) THEN Nil
            ELSE [name |-> question.name, qtype |-> dnsTypeName(Uint16(bytes, question.next)),
                  response |-> flags >= 32768, rcode |-> dnsRCodeName(flags % 16)]

\* Mutant: what does not fit its frame is read without one.
parseDNSMessageUnframed(bytes, tcpFramed) ==
    IF ~tcpFramed \/ Len(bytes) < 2 \/ Uint16(bytes, 0) > Len(bytes) - 2 THEN ParsedMessage(bytes)
    ELSE ParsedMessage(Slice(bytes, 2, 2 + Uint16(bytes, 0)))

\* The message in the bytes of one Read or Write, Nil when there is none.
parseDNSMessage(bytes, tcpFramed) ==
    IF ~tcpFramed THEN ParsedMessage(bytes)
    ELSE IF Len(bytes) < 2 \/ Uint16(bytes, 0) > Len(bytes) - 2 THEN Nil
    ELSE ParsedMessage(Slice(bytes, 2, 2 + Uint16(bytes, 0)))

-----------------------------------------------------------------------------
Init == packet \in Headers

Grow == Len(packet) < MaxLength /\ \E byte \in Bytes : packet' = Append(packet, byte)

Spec == Init /\ [][Grow]_packet

-----------------------------------------------------------------------------
\* What may stand at offset: a label, or a pointer.
Behind(bytes, offset)    == offset + 1 + At(bytes, offset)
IsLabel(bytes, offset)   == At(bytes, offset) \in 1..63 /\ Behind(bytes, offset) <= Len(bytes)
IsPointer(bytes, offset) == At(bytes, offset) >= 192 /\ offset + 1 < Len(bytes)

\* A label goes before the name behind it, and the question goes on behind that.
LabelSolves(bytes, offset) ==
    LET here   == decodeDNSName(bytes, offset)
        behind == Behind(bytes, offset)
        rest   == decodeDNSName(bytes, behind)
    IN /\ here.ok = rest.ok
       /\ here.ok => /\ here.next = rest.next
                     /\ here.name = Slice(bytes, offset + 1, behind) \o <<46>> \o
                                    (IF rest.name = <<46>> THEN <<>> ELSE rest.name)

\* A pointer stands for the name it points to, and the question goes on behind it.
PointerSolves(bytes, offset) ==
    LET here   == decodeDNSName(bytes, offset)
        target == decodeDNSName(bytes, Uint16(bytes, offset) % 16384)
    IN here.ok = target.ok /\ (here.ok => here.name = target.name /\ here.next = offset + 2)

\* A zero byte is the root.
RootSolves(bytes, offset) ==
    decodeDNSName(bytes, offset) = [name |-> <<46>>, next |-> offset + 1, ok |-> TRUE]

\* decodeDNSName, main.go:309-346, solves the equations by which RFC 1035 defines
\* a compressed name, of the root, of labels and of pointers.  Everything else is
\* an error.
NamesSolveTheirEquations ==
    \A offset \in 0..(Len(packet) - 1) :
      /\ At(packet, offset) = 0 => RootSolves(packet, offset)
      /\ IsLabel(packet, offset) => LabelSolves(packet, offset)
      /\ IsPointer(packet, offset) => PointerSolves(packet, offset)
      /\ decodeDNSName(packet, offset).ok
           => At(packet, offset) = 0 \/ IsLabel(packet, offset) \/ IsPointer(packet, offset)

\* parseDNSMessage, main.go:281-307.  A question that was read is not changed by
\* bytes that come behind it: no field is taken from where the packet was cut.
LaterBytesChangeNothing ==
    [][parseDNSMessage(packet, FALSE) # Nil
         => parseDNSMessage(packet', FALSE) = parseDNSMessage(packet, FALSE)]_packet

Framed(bytes) == <<Len(bytes) \div 256, Len(bytes) % 256>> \o bytes

\* parseDNSMessage with tcpFramed, main.go:281-293.  A frame in one piece is read
\* as the message in it, whatever follows; a part of a frame is never read.
FramesReadAsTheirMessages ==
    LET frame == Framed(packet)
    IN /\ \A more \in {<<>>, <<0>>, packet} :
            parseDNSMessage(frame \o more, TRUE) = parseDNSMessage(packet, FALSE)
       /\ \A n \in 0..(Len(frame) - 1) : parseDNSMessage(SubSeq(frame, 1, n), TRUE) = Nil

\* recordResponse, main.go:201-205.  The body of a framed message, read apart from
\* its length, is not taken for some other response: its number of questions, 1,
\* stands where the flags would be.
BodiesAreNoResponses ==
    Len(packet) >= 12 /\ Uint16(packet, 4) = 1 =>
       parseDNSMessage(packet, TRUE) = Nil \/ ~parseDNSMessage(packet, TRUE).response
=============================================================================
