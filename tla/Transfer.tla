------------------------------ MODULE Transfer ------------------------------
(***************************************************************************)
(* Packets from senders' send_packet to the recv_packet at the other end:  *)
(* fragments of SplitPacket on a network that loses, repeats and reorders  *)
(* them, put together again by Reassembly.  Every packet may come from     *)
(* another sender: recv_packet asks for nobody's address.                  *)
(***************************************************************************)
EXTENDS SplitPacket, Reassembly

CONSTANT MaxPackets    \* bound: packets sent

VARIABLES
  sent,          \* history: the packets, the one being sent last
  wire,          \* the fragments that may arrive, now or later
  received       \* what the last datagram made recv_packet return, <<>> if nothing

transfer_vars == <<split_vars, fragments, sent, wire, received>>

ASSUME TransferAssumption == MaxPackets \in Nat \ {0}

Current == Len(sent)

\* random.randint: a number in use or another one
MessageIds == 1 .. Current + 1

TransferInit ==
  /\ SplitInit
  /\ ReassemblyInit
  /\ sent = <<[message_id |-> 1, len |-> len]>>
  /\ wire = {}
  /\ received = <<>>

\* The content of a fragment is the packet and the range of bytes it carries.
Send ==
  /\ SendFragment
  /\ wire' = wire \union
       {[message_id |-> sent[Current].message_id, fragment_count |-> fragment_count(len),
         fragment_id |-> fragment_id, content |-> <<Current, consumed, consumed'>>]}
  /\ UNCHANGED <<fragments, sent, received>>

\* Without a split header a datagram is returned as it is.
SendAndReceiveWhole ==
  /\ SendWhole
  /\ received' \in {received, <<<<Current, 0, len>>>>}
  /\ UNCHANGED <<fragments, sent, wire>>

NextPacket ==
  /\ Ended
  /\ Current < MaxPackets
  /\ len' \in Lengths
  /\ \E id \in MessageIds : sent' = Append(sent, [message_id |-> id, len |-> len'])
  /\ fragment_id' = 0
  /\ consumed' = 0
  /\ datagram' = 0
  /\ UNCHANGED <<fragments, wire, received>>

Arrive ==
  /\ \E f \in wire :
       /\ handle_fragments(f)
       /\ received' = IF Completes(f) THEN Joined(f) ELSE <<>>
  /\ UNCHANGED <<split_vars, sent, wire>>

TransferNext == Send \/ SendAndReceiveWhole \/ NextPacket \/ Arrive

TransferSpec == TransferInit /\ [][TransferNext]_transfer_vars

-----------------------------------------------------------------------------
Contents == (1..MaxPackets) \X Nat \X Nat
Fragments == [message_id : 1..MaxPackets, fragment_count : Nat, fragment_id : Nat,
              content : Contents]

TransferTypeOK ==
  /\ SplitTypeOK
  /\ sent \in Seq([message_id : 1..MaxPackets, len : Lengths])
  /\ Len(sent) \in 1..MaxPackets
  /\ wire \subseteq Fragments

\* One entry per packet, no more entries than the cache has room for, and each holds
\* only fragments of its own, and too few of them: what is complete has been
\* returned.
CacheConsistent ==
  /\ TransferTypeOK
  /\ Len(fragments) <= LruSize
  /\ \A i, j \in DOMAIN fragments :
       fragments[i].message_id = fragments[j].message_id => i = j
  /\ \A i \in DOMAIN fragments :
       /\ \A f \in Range(fragments[i].packet_fragments) :
            f \in wire /\ IsOf(fragments[i], f)
       /\ Len(fragments[i].packet_fragments) < fragments[i].fragment_count

\* The bytes of a packet of n that were sent: all but those that its fragments
\* have no room for.
BytesSent(n) == IF n <= split_size THEN n ELSE BytesIn(n, fragment_count(n))

\* Ranges of packet p that follow one another from its first to its last byte
ReceivedWhole(p) ==
  /\ received[1] = <<p, 0, received[1][3]>>
  /\ received[Len(received)][3] = BytesSent(sent[p].len)
  /\ \A i \in 2..Len(received) : received[i][1] = p /\ received[i][2] = received[i - 1][3]

Shares(p, q) == p # q /\ sent[p].message_id = sent[q].message_id
FitsLimit(p) == fragment_count(sent[p].len) <= MAX_FRAGMENTS_PER_PACKET

\* tests/test_proxy.py asserts that the client's data equals the response that
\* was sent: whatever arrives twice, late or out of order, with other packets
\* under way and half complete ones evicted, a packet that is returned has all
\* the bytes that were sent, in order, and none of another packet.
\* It holds for packets within the limit of fragments whose number is no
\* other packet's.  Which lengths are not sent to their last byte, SplitPacket's
\* AllBytesSent shows.
ReceivedIsSent ==
  \A i \in DOMAIN received :
    LET p == received[i][1] IN
    ReceivedWhole(p) \/ ~FitsLimit(p) \/ \E q \in DOMAIN sent : Shares(p, q)

\* What goes wrong otherwise, and what does not.  Bytes of two packets come
\* together only under one message_id, whoever sent them.  Of a packet that
\* is trimmed as many fragments as the limit allows are returned, some of its
\* own in their order.  No range of bytes comes twice.
MixedOnlyBySharedId ==
  /\ received \in Seq(Contents)
  /\ Len(received) <= MAX_FRAGMENTS_PER_PACKET
  /\ \A i, j \in DOMAIN received :
       LET f == received[i]
           g == received[j]
       IN (f[1] = g[1] \/ Shares(f[1], g[1])) /\ (i < j => f[2] < g[2])
=============================================================================
