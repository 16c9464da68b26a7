------------------------------- MODULE Receive ------------------------------
(***************************************************************************)
(* recv_packet of SourceDatagramServer and SourceDatagramClient: one       *)
(* datagram after the other goes through handle_fragments and, when a      *)
(* packet is complete, through decode_packet.  Two things live longer than *)
(* a datagram: the cache of fragments and the bounds of the repeated       *)
(* fields, which belong to the message classes.                            *)
(***************************************************************************)
EXTENDS Codec, Reassembly

CONSTANTS
  Messages,     \* bound: messages this package encodes, with their values
  Responses,    \* bound: packets of the game server
  Large,        \* bound: packets that are sent in fragments
  Wire          \* bound: what may arrive, at any time and any number of times

\* What struct packs into four bytes, and text that is decoded as it was encoded:
\* a NUL would end it.
Longs == [1..4 -> Byte]
Texts == Seq(1..127)

\* The type of a request is never given; the challenge of the requests for info is
\* optional.
ASSUME MessagesAssumption ==
  \A m \in Messages :
    /\ m.class \in Range(request_message_classes) \union {"GetChallengeResponse"}
    /\ DOMAIN m.values \subseteq {f.name : f \in Range(Tail(Fields[m.class]))}
    /\ m.class \notin {"InfoRequest", "InfoRequestV2"} => "challenge" \in DOMAIN m.values
    /\ \A name \in DOMAIN m.values :
         m.values[name] \in IF name = "payload" THEN Texts ELSE Longs

VARIABLES
  classes,      \* those of the server's end or those of the client's
  minimum,      \* the attribute that value_of sets: repeated field -> bound
  result        \* what the last datagram made recv_packet do

receive_vars == <<classes, fragments, minimum, result>>

\* What is returned or raised, and the packet it is for; or the fragments that were
\* to be joined, when bz2 raised for one of them
Result(is, message, data) == [is |-> is, message |-> message, data |-> data, parts |-> <<>>]
Waits == Result("waits", <<>>, <<>>)
Refused(parts) == [is |-> "raises", message |-> <<>>, data |-> <<>>, parts |-> parts]

ReceiveInit ==
  /\ ReassemblyInit
  /\ classes \in {request_message_classes, response_message_classes}
  /\ minimum = <<>>
  /\ result = Waits

\* bz2 puts a mark at both ends of what it compresses and decompresses nothing
\* that lacks one.  (The real one also makes it shorter.)
Compress(b) == <<66>> \o b \o <<67>>
IsCompressed(b) == Len(b) >= 2 /\ b[1] = 66 /\ b[Len(b)] = 67
Decompress(b) == SubSeq(b, 2, Len(b) - 1)

-----------------------------------------------------------------------------
IsSplit(d) ==
  LET header == Read(Header, d) IN header.status = "ok" /\ header.values["split"] = SPLIT

\* The sign bit of message_id, which comes last
is_compressed(message_id) == message_id[4] >= 128

\* The header of a fragment, or of a compressed one
FragmentOf(d) ==
  LET body == Read(Header, d).rest
      plain == Read(Fragment, body)
  IN IF plain.status = "ok" /\ is_compressed(plain.values["message_id"])
     THEN Read(CompressedFragment, body) ELSE plain

IsBroken(d) ==
  \/ Read(Header, d).status # "ok"
  \/ IsSplit(d) /\ FragmentOf(d).status # "ok"

AsFragment(d) ==
  LET f == FragmentOf(d) IN
  [message_id |-> f.values["message_id"], fragment_count |-> f.values["fragment_count"],
   fragment_id |-> f.values["fragment_id"], content |-> f.rest]

\* What arrives, by what handle_fragments makes of its header
Broken == {d \in Wire : IsBroken(d)}
Fragmented == {d \in Wire \ Broken : IsSplit(d)}
Whole == Wire \ (Broken \union Fragmented)

\* Only the base class's recv_packet has a handler: it returns the datagram
\* undecoded.
ReceiveBroken(d) ==
  /\ result' = Result("none", <<>>, d)
  /\ UNCHANGED <<fragments, minimum>>

Decoded(data) ==
  LET r == decode_packet(data, classes, minimum) IN
  /\ result' = Result(r.is, r.message, data)
  /\ minimum' = r.minimum

ReceiveWhole(d) ==
  /\ Decoded(d)
  /\ UNCHANGED fragments

\* The packet, of which each fragment is decompressed by itself; none when bz2
\* raises for one of them
PacketOf(message_id, parts) ==
  IF ~is_compressed(message_id) THEN {FlattenSeq(parts)}
  ELSE IF \A i \in DOMAIN parts : IsCompressed(parts[i])
       THEN {FlattenSeq([i \in DOMAIN parts |-> Decompress(parts[i])])}
       ELSE {}

Packet(f) == PacketOf(f.message_id, Joined(f))

Pieces == {AsFragment(d) : d \in Fragmented}
SameId(f) == {g \in Pieces : g.message_id = f.message_id}
FragmentCount(f) == IF f.fragment_count = 0 THEN 1 ELSE f.fragment_count
PieceAt(f, i) == CHOOSE g \in SameId(f) : g.fragment_id = i

\* The fragments of one number are those of one packet, compressed or not, and
\* not more than the limit; some may never arrive.  (Numbers that are used twice
\* and packets of too many fragments: module Transfer.)
ASSUME FragmentsAssumption ==
  \A f \in Pieces :
    /\ f.fragment_count \in 0 .. MAX_FRAGMENTS_PER_PACKET
    /\ f.fragment_id \in 0 .. FragmentCount(f) - 1
    /\ \A g \in SameId(f) :
         /\ g.fragment_count = f.fragment_count
         /\ g.fragment_id = f.fragment_id => g = f
    /\ (\A i \in 0 .. FragmentCount(f) - 1 : \E g \in SameId(f) : g.fragment_id = i) =>
         PacketOf(f.message_id, [i \in 1 .. FragmentCount(f) |-> PieceAt(f, i - 1).content])
           \subseteq Wire \union Large

\* What arrives is made of bytes.
ASSUME PacketsAssumption == Wire \union Large \union Responses \subseteq Seq(Byte)

ReceiveFragment(d) ==
  LET f == AsFragment(d) IN
  /\ handle_fragments(f)
  /\ IF ~Completes(f) THEN result' = Waits /\ UNCHANGED minimum
     ELSE IF Packet(f) = {} THEN result' = Refused(Joined(f)) /\ UNCHANGED minimum
     ELSE \E data \in Packet(f) : Decoded(data)

ReceiveNext ==
  /\ \/ \E d \in Broken : ReceiveBroken(d)
     \/ \E d \in Whole : ReceiveWhole(d)
     \/ \E d \in Fragmented : ReceiveFragment(d)
  /\ UNCHANGED classes

ReceiveSpec == ReceiveInit /\ [][ReceiveNext]_receive_vars
-----------------------------------------------------------------------------
\* The first request of each round of _update_info is an InfoRequestV2 that has no
\* challenge yet.  Its bytes are those of an InfoRequest.
ReadAs(m) ==
  IF m.class = "InfoRequestV2" /\ "challenge" \notin DOMAIN m.values
  THEN "InfoRequest" ELSE m.class

\* A message of this package is read by the other end as what it is, with the
\* values it was made from: all classes of an end are tried on all packets, an
\* InfoRequestV2 is an InfoRequest with four bytes more, and what is left
\* out of the values is a default for one end and a value for the other
\* (tests/test_transport.py: the classes of the requests that arrive, among them
\* the InfoRequestV2 that arrives as InfoRequest).
OwnMessagesAreRead ==
  \A m \in Messages :
    (m.class \in Range(classes) /\ result.data = EncodePacket(Fields[m.class], m.values)) =>
      /\ result.is = "message"
      /\ result.message.class = ReadAs(m)
      /\ \A name \in DOMAIN m.values : result.message.values[name] = m.values[name]

\* What a packet is read as does not depend on the packets before it: it is read
\* as if the classes had decoded nothing before.
HistoryFree ==
  result.is \in {"message", "none"} =>
    \/ IsBroken(result.data)
    \/ LET r == decode_packet(result.data, classes, <<>>)
       IN result.is = r.is /\ result.message = r.message

\* Its bytes are joined as they were taken apart, compressed or not, whatever
\* fragments are in the cache; and a response that lost its end, as one that
\* send_packet splits may, is no message: never a list of fewer players or rules
\* than there were.  Only what no field reads may be missing, as behind the version
\* of an InfoResponse.
JoinedAsSent ==
  result.is \in {"message", "none"} => result.data \in Wire \union Large

NothingIsMissing(message, data, p) ==
  LET whole == Decode(message.class, Read(Header, p).rest, <<>>)
  IN /\ whole.status = "ok" /\ whole.values = message.values
     /\ Len(whole.rest) >= Len(p) - Len(data)

CutIsNotRead ==
  result.is = "message" /\ classes = response_message_classes =>
    \A p \in Responses :
      IsPrefix(result.data, p) => NothingIsMissing(result.message, result.data, p)

OnlyWholeIsRead == JoinedAsSent /\ CutIsNotRead

\* An exception leaves recv_packet, which restarts the task that called it, only
\* for a platform or server type that is not known, and for what fragments make
\* of it: a packet without a header, or none, as one of them is no bz2 data.
Raises(data) ==
  \/ Read(Header, data).status # "ok"
  \/ /\ classes = response_message_classes
     /\ Decode("InfoResponse", Read(Header, data).rest, <<>>).status = "raised"

OnlyTheseRaise ==
  result.is = "raises" =>
    IF result.parts = <<>> THEN Raises(result.data)
    ELSE \E i \in DOMAIN result.parts : ~IsCompressed(result.parts[i])
=============================================================================
