----------------------------- MODULE SplitPacket ----------------------------
(***************************************************************************)
(* SourceDatagramStream.send_packet (transport.py): a packet of `len`      *)
(* bytes goes out whole, or in fragments of at most split_size bytes, one  *)
(* await after the other.  Bytes are counted; their values do not matter.  *)
(***************************************************************************)
EXTENDS Integers

CONSTANTS
  split_size,     \* FRAGMENT_MAX_SIZE
  header_size,    \* packet and fragment header: 4 + (4 + 1 + 1 + 2)
  Lengths         \* bound: the packets' lengths

ASSUME SplitAssumption ==
  /\ header_size \in Nat \ {0}
  /\ split_size \in Nat
  /\ header_size < split_size
  /\ Lengths \subseteq Nat \ {0}

VARIABLES
  len,            \* len(packet)
  fragment_id,    \* fragments sent so far
  consumed,       \* bytes taken from packet_iter
  datagram        \* size of the datagram sent last

split_vars == <<len, fragment_id, consumed, datagram>>

\* Fault: the headers are forgotten.
mtuWithoutHeaders == split_size

mtu == split_size - header_size

\* math.ceil(len(packet) / split_size)
fragment_count(n) == (n + split_size - 1) \div split_size

\* What itertools.islice(packet_iter, mtu) takes
Slice == IF len - consumed < mtu THEN len - consumed ELSE mtu

SplitInit ==
  /\ len \in Lengths
  /\ fragment_id = 0
  /\ consumed = 0
  /\ datagram = 0

SendWhole ==
  /\ len <= split_size
  /\ consumed = 0
  /\ consumed' = len
  /\ datagram' = len
  /\ UNCHANGED <<len, fragment_id>>

\* The count is a byte of the header: encode raises BrokenMessageError for a larger
\* one, and send_packet ends before its first fragment.
MaxCount == 255
Refused == fragment_count(len) > MaxCount

SendFragment ==
  /\ len > split_size
  /\ ~Refused
  /\ fragment_id < fragment_count(len)
  /\ fragment_id' = fragment_id + 1
  /\ consumed' = consumed + Slice
  /\ datagram' = header_size + Slice
  /\ UNCHANGED len

Sent == IF len <= split_size THEN consumed > 0 ELSE fragment_id = fragment_count(len)

\* send_packet has returned or raised.
Ended == Sent \/ Refused
Returned == Ended /\ UNCHANGED split_vars

SplitNext == SendWhole \/ SendFragment \/ Returned

SplitSpec == SplitInit /\ [][SplitNext]_split_vars

-----------------------------------------------------------------------------
SplitTypeOK ==
  /\ len \in Lengths
  /\ fragment_id \in 0..fragment_count(len)
  /\ consumed \in 0..len
  /\ datagram \in 0..(split_size + header_size)

\* No datagram is larger than split_size, headers included, and none carries
\* an empty fragment: the count, taken from split_size, never asks for more
\* fragments than packets of mtu bytes fill.
DatagramsFit ==
  /\ datagram <= split_size
  /\ fragment_id > 0 => datagram > header_size

\* How many of n bytes the first i fragments carry
BytesIn(n, i) == IF i * mtu < n THEN i * mtu ELSE n

\* What is on the wire after n fragments, and so what is missing at the end.
BytesOnWire == len > split_size => consumed = BytesIn(len, fragment_id)

\* tests/test_proxy.py asserts that the client's data equals the response the
\* game server made: a packet that was sent was sent to its last byte.
AllBytesSent == Sent => consumed = len
=============================================================================
