--------------------------- MODULE TransferProofs ---------------------------
(***************************************************************************)
(* send_packet for every length and every pair of sizes: the datagrams     *)
(* fit, none is empty, and the bytes sent are the number of fragments      *)
(* times mtu, or all there are.  At the far end, the cache of fragments is *)
(* consistent for every size of it and any number of packets.              *)
(***************************************************************************)
EXTENDS Transfer, Induction, TLAPS

USE SplitAssumption

\* Rounding up: fragments before the last start within the packet.
LEMMA Division ==
  ASSUME NEW a \in Nat, NEW b \in Nat \ {0}
  PROVE  a \div b \in Nat /\ (a \div b) * b <= a
  OBVIOUS

LEMMA Monotone ==
  ASSUME NEW i \in Nat, NEW j \in Nat, NEW m \in Nat, i <= j
  PROVE  i * m <= j * m /\ m * i <= m * j
  OBVIOUS

LEMMA Distributive ==
  ASSUME NEW i \in Nat, NEW m \in Nat
  PROVE  (i + 1) * m = i * m + m /\ i * m \in Nat
  OBVIOUS

LEMMA CountIsNat ==
  ASSUME NEW n \in Nat \ {0}
  PROVE  fragment_count(n) \in Nat
  BY Division DEF fragment_count

LEMMA FragmentStartsInside ==
  ASSUME NEW n \in Nat \ {0}, NEW i \in Nat, i < fragment_count(n)
  PROVE  i * mtu < n
  <1> DEFINE c == fragment_count(n)
  <1>1. c \in Nat /\ c * split_size <= n + split_size - 1
    BY Division DEF fragment_count
  <1> HIDE DEF c
  <1>2. (i + 1) * split_size <= c * split_size
    BY <1>1, Monotone DEF c
  <1>3. i * split_size + split_size = (i + 1) * split_size /\ i * split_size \in Nat
    BY Distributive
  <1>4. i * mtu <= i * split_size
    BY Monotone DEF mtu
  <1>5. i * mtu \in Nat
    BY Distributive DEF mtu
  <1>6. (i + 1) * split_size \in Nat /\ c * split_size \in Nat
    BY <1>1
  <1>7. QED
    BY <1>1, <1>2, <1>3, <1>4, <1>5, <1>6

-----------------------------------------------------------------------------
\* Inductive: a packet sent whole has no fragments, and one sent in fragments
\* is consumed up to a multiple of mtu.
SplitInv ==
  /\ SplitTypeOK
  /\ DatagramsFit
  /\ BytesOnWire
  /\ len <= split_size => fragment_id = 0 /\ consumed \in {0, len}

LEMMA LenIsPositive == SplitTypeOK => len \in Nat \ {0}
  BY DEF SplitTypeOK

LEMMA InitSplitInv == SplitInit => SplitInv
  <1> SUFFICES ASSUME SplitInit
               PROVE  SplitInv
    OBVIOUS
  <1>1. len \in Nat \ {0}
    BY DEF SplitInit
  <1>2. fragment_count(len) \in Nat
    BY <1>1, CountIsNat
  <1>3. 0 * mtu = 0
    BY DEF mtu
  <1>4. SplitTypeOK
    BY <1>1, <1>2 DEF SplitInit, SplitTypeOK
  <1>5. QED
    BY <1>1, <1>3, <1>4 DEF SplitInit, SplitInv, DatagramsFit, BytesOnWire, BytesIn

LEMMA WholeKeepsSplitInv ==
  ASSUME SplitInv, SendWhole
  PROVE  SplitInv'
  <1>1. len \in Nat \ {0} /\ fragment_count(len) \in Nat
    BY LenIsPositive, CountIsNat DEF SplitInv
  <1>2. SplitTypeOK'
    BY <1>1 DEF SplitInv, SplitTypeOK, SendWhole, fragment_count
  <1>3. QED
    BY <1>1, <1>2 DEF SplitInv, SendWhole, DatagramsFit, BytesOnWire, BytesIn

LEMMA FragmentKeepsSplitInv ==
  ASSUME SplitInv, SendFragment
  PROVE  SplitInv'
  <1> DEFINE start == fragment_id * mtu
  <1>1. /\ len \in Nat \ {0} /\ fragment_count(len) \in Nat
        /\ fragment_id \in Nat /\ fragment_id < fragment_count(len)
        /\ mtu \in Nat \ {0} /\ mtu = split_size - header_size
    BY LenIsPositive, CountIsNat DEF SplitInv, SplitTypeOK, SendFragment, mtu
  <1>2. start \in Nat /\ start < len /\ (fragment_id + 1) * mtu = start + mtu
    BY <1>1, FragmentStartsInside, Distributive
  <1> HIDE DEF start
  <1>3. consumed = start
    BY <1>2 DEF SplitInv, BytesOnWire, BytesIn, SendFragment, start
  <1>4. /\ Slice = IF len - start < mtu THEN len - start ELSE mtu
        /\ Slice \in 1..mtu
    BY <1>1, <1>2, <1>3 DEF Slice
  <1>5. /\ fragment_id' = fragment_id + 1 /\ len' = len /\ len > split_size
        /\ consumed' = start + Slice
        /\ datagram' = header_size + Slice
    BY <1>3 DEF SendFragment
  <1>6. SplitTypeOK'
    BY <1>1, <1>2, <1>4, <1>5 DEF SplitInv, SplitTypeOK, fragment_count
  <1>7. DatagramsFit'
    BY <1>1, <1>4, <1>5 DEF DatagramsFit
  <1>8. consumed' = IF start + mtu < len THEN start + mtu ELSE len
    BY <1>1, <1>2, <1>4, <1>5
  <1>9. BytesOnWire'
    BY <1>2, <1>5, <1>8 DEF BytesOnWire, BytesIn, mtu
  <1>10. QED
    BY <1>1, <1>5, <1>6, <1>7, <1>9 DEF SplitInv

LEMMA StepKeepsSplitInv == SplitInv /\ [SplitNext]_split_vars => SplitInv'
  <1> SUFFICES ASSUME SplitInv, [SplitNext]_split_vars
               PROVE  SplitInv'
    OBVIOUS
  <1>1. CASE UNCHANGED split_vars
    BY <1>1 DEF split_vars, SplitInv, SplitTypeOK, DatagramsFit, BytesOnWire,
                BytesIn, fragment_count, mtu
  <1>2. QED
    BY <1>1, WholeKeepsSplitInv, FragmentKeepsSplitInv DEF SplitNext, Returned

\* At any sizes with room for a header, no datagram is too large or empty.
THEOREM DatagramsAlwaysFit == SplitSpec => [](SplitTypeOK /\ DatagramsFit)
  <1>1. SplitInv => SplitTypeOK /\ DatagramsFit
    BY DEF SplitInv
  <1>2. QED
    BY <1>1, InitSplitInv, StepKeepsSplitInv, PTL DEF SplitSpec

\* The exact number of bytes on the wire, and with it the lengths whose last
\* bytes are not sent.
THEOREM ExactlyTheseBytes == SplitSpec => []BytesOnWire
  <1>1. SplitInv => BytesOnWire
    BY DEF SplitInv
  <1>2. QED
    BY <1>1, InitSplitInv, StepKeepsSplitInv, PTL DEF SplitSpec

\* A packet loses its end exactly when its fragments have no room for it.
THEOREM WhatIsLost ==
  SplitSpec =>
    [](Sent => (AllBytesSent <=> len <= split_size \/ fragment_count(len) * mtu >= len))
  <1>1. SplitInv /\ Sent =>
          (AllBytesSent <=> len <= split_size \/ fragment_count(len) * mtu >= len)
    <2> SUFFICES ASSUME SplitInv, Sent
                 PROVE  AllBytesSent <=> len <= split_size \/ fragment_count(len) * mtu >= len
      OBVIOUS
    <2>1. /\ len \in Nat \ {0} /\ consumed \in 0..len
          /\ fragment_count(len) \in Nat /\ mtu \in Nat
      BY LenIsPositive, CountIsNat DEF SplitInv, SplitTypeOK, mtu
    <2>2. fragment_count(len) * mtu \in Nat
      BY <2>1, Distributive
    <2>3. CASE len > split_size
      <3>1. consumed = IF fragment_count(len) * mtu < len THEN fragment_count(len) * mtu ELSE len
        BY <2>1, <2>3 DEF SplitInv, BytesOnWire, BytesIn, Sent
      <3>2. QED
        BY <2>1, <2>2, <2>3, <3>1 DEF AllBytesSent
    <2>4. CASE len <= split_size
      BY <2>1, <2>4 DEF SplitInv, AllBytesSent, Sent
    <2>5. QED
      BY <2>1, <2>3, <2>4
  <1>2. QED
    BY <1>1, InitSplitInv, StepKeepsSplitInv, PTL DEF SplitSpec

-----------------------------------------------------------------------------
\* The cache.
USE ReassemblyAssumption, TransferAssumption

Entries == [message_id : 1..MaxPackets, fragment_count : Nat, packet_fragments : Seq(Fragments)]

DistinctIds(known) ==
  \A i, j \in DOMAIN known : known[i].fragment_id = known[j].fragment_id => i = j

\* What an entry holds is its own and has been sent, each fragment once; and how
\* many it waits for was said by one that has been sent.
OwnFragments(entry) ==
  /\ \A i \in DOMAIN entry.packet_fragments :
       entry.packet_fragments[i] \in wire /\ IsOf(entry, entry.packet_fragments[i])
  /\ DistinctIds(entry.packet_fragments)
  /\ \E g \in wire : IsOf(entry, g) /\ entry.fragment_count = NewEntry(g).fragment_count

NotComplete(entry) == Len(entry.packet_fragments) < entry.fragment_count

\* Inductive once the types of the entries are part of it.
CacheInv ==
  /\ fragments \in Seq(Entries)
  /\ Len(fragments) <= LruSize
  /\ \A i, j \in DOMAIN fragments :
       fragments[i].message_id = fragments[j].message_id => i = j
  /\ \A i \in DOMAIN fragments : OwnFragments(fragments[i]) /\ NotComplete(fragments[i])

TransferInv == SplitInv /\ TransferTypeOK /\ CacheInv

\* Holds of what is looked up, be it found or new.
LEMMA LookedUp ==
  ASSUME TransferInv, NEW f \in wire
  PROVE  /\ EntryOf(f) \in Entries
         /\ IsOf(EntryOf(f), f)
         /\ OwnFragments(EntryOf(f))
  <1>1. f \in Fragments
    BY DEF TransferInv, TransferTypeOK
  <1>2. CASE IsKnown(f)
    <2>1. Place(f) \in DOMAIN fragments /\ IsOf(fragments[Place(f)], f)
      BY <1>2 DEF IsKnown, Place
    <2>2. QED
      BY <1>2, <2>1 DEF EntryOf, TransferInv, CacheInv
  <1>3. CASE ~IsKnown(f)
    <2>1. NewEntry(f) \in Entries /\ NewEntry(f).packet_fragments = <<>>
      BY <1>1 DEF NewEntry, Entries, Fragments
    <2>2. IsOf(NewEntry(f), f)
      BY DEF NewEntry, IsOf
    <2>3. OwnFragments(NewEntry(f))
      BY <2>1, <2>2 DEF OwnFragments, DistinctIds
    <2>4. QED
      BY <1>3, <2>1, <2>2, <2>3 DEF EntryOf
  <1>4. QED
    BY <1>2, <1>3

\* The other entries are entries of the cache, each once, and none is of f.
LEMMA OthersAreOthers ==
  ASSUME TransferInv, NEW f \in wire
  PROVE  /\ Others(f) \in Seq(Entries)
         /\ \A i, j \in DOMAIN Others(f) :
              Others(f)[i].message_id = Others(f)[j].message_id => i = j
         /\ \A i \in DOMAIN Others(f) :
              /\ ~IsOf(Others(f)[i], f)
              /\ OwnFragments(Others(f)[i])
              /\ NotComplete(Others(f)[i])
  <1>1. CASE ~IsKnown(f)
    BY <1>1 DEF Others, IsKnown, TransferInv, CacheInv
  <1>2. CASE IsKnown(f)
    <2> DEFINE n == Place(f)
               o == Others(f)
               at(i) == IF i < n THEN i ELSE i + 1
    <2>1. n \in DOMAIN fragments /\ IsOf(fragments[n], f)
      BY <1>2 DEF IsKnown, Place
    <2>2. fragments \in Seq(Entries)
      BY DEF TransferInv, CacheInv
    <2>3. o = SubSeq(fragments, 1, n - 1) \o SubSeq(fragments, n + 1, Len(fragments))
      BY <1>2 DEF Others, RemoveAt
    <2> HIDE DEF n, o
    <2>4. /\ o \in Seq(Entries)
          /\ Len(o) = Len(fragments) - 1
          /\ \A i \in DOMAIN o : o[i] = fragments[at(i)]
      <3> DEFINE before == SubSeq(fragments, 1, n - 1)
                 after == SubSeq(fragments, n + 1, Len(fragments))
      <3>1. /\ before \in Seq(Entries) /\ Len(before) = n - 1
            /\ \A i \in 1 .. n - 1 : before[i] = fragments[i]
        BY <2>1, <2>2
      <3>2. /\ after \in Seq(Entries) /\ Len(after) = Len(fragments) - n
            /\ \A i \in 1 .. Len(fragments) - n : after[i] = fragments[i + n]
        BY <2>1, <2>2
      <3>3. o = before \o after
        BY <2>3
      <3> HIDE DEF before, after
      <3>4. o \in Seq(Entries) /\ Len(o) = Len(fragments) - 1
        BY <2>1, <2>2, <3>1, <3>2, <3>3
      <3>5. ASSUME NEW i \in DOMAIN o
            PROVE  o[i] = fragments[at(i)]
        <4>1. CASE i < n
          BY <2>1, <2>2, <3>1, <3>2, <3>3, <3>4, <4>1
        <4>2. CASE i >= n
          <5>1. o[i] = after[i - (n - 1)]
            BY <2>1, <2>2, <3>1, <3>2, <3>3, <3>4, <4>2
          <5>2. i - (n - 1) \in 1 .. Len(fragments) - n
            BY <2>1, <2>2, <3>4, <4>2
          <5>3. (i - (n - 1)) + n = i + 1
            BY <2>1, <2>2, <3>4
          <5>4. QED
            BY <2>1, <2>2, <3>2, <3>4, <4>2, <5>1, <5>2, <5>3
        <4>3. QED
          BY <2>1, <2>2, <3>4, <4>1, <4>2
      <3>6. QED
        BY <3>4, <3>5
    <2>5. \A i \in DOMAIN o : at(i) \in DOMAIN fragments /\ at(i) # n
      BY <2>1, <2>2, <2>4
    <2>6. \A i, j \in DOMAIN o : at(i) = at(j) => i = j
      BY <2>1, <2>2, <2>4
    <2> HIDE DEF at
    <2>7. \A i, j \in DOMAIN o : o[i].message_id = o[j].message_id => i = j
      BY <2>4, <2>5, <2>6 DEF TransferInv, CacheInv
    <2>8. \A i \in DOMAIN o : ~IsOf(o[i], f)
      BY <2>1, <2>4, <2>5 DEF TransferInv, CacheInv, IsOf
    <2>9. \A i \in DOMAIN o : OwnFragments(o[i]) /\ NotComplete(o[i])
      BY <2>4, <2>5 DEF TransferInv, CacheInv
    <2>10. QED
      BY <2>4, <2>7, <2>8, <2>9 DEF o
  <1>3. QED
    BY <1>1, <1>2

\* After a look-up the entry is in front, and of the others some are behind.
LEMMA TouchedIs ==
  ASSUME TransferInv, NEW f \in wire
  PROVE  /\ Touched(f) \in Seq(Entries)
         /\ Len(Touched(f)) \in 1..LruSize
         /\ Touched(f)[1] = EntryOf(f)
         /\ \A i \in DOMAIN Touched(f) \ {1} :
              i - 1 \in DOMAIN Others(f) /\ Touched(f)[i] = Others(f)[i - 1]
  <1> DEFINE e == EntryOf(f)
             o == Others(f)
             cache == <<e>> \o o
             n == IF Len(cache) > LruSize THEN LruSize ELSE Len(cache)
  <1>1. e \in Entries /\ o \in Seq(Entries)
    BY LookedUp, OthersAreOthers
  <1>2. Touched(f) = SubSeq(cache, 1, n)
    BY DEF Touched
  <1> HIDE DEF e, o
  <1>3. /\ cache \in Seq(Entries)
        /\ Len(cache) = Len(o) + 1
        /\ cache[1] = e
        /\ \A i \in 2..Len(cache) : cache[i] = o[i - 1] /\ i - 1 \in DOMAIN o
    BY <1>1
  <1> HIDE DEF cache
  <1>4. n \in 1..LruSize /\ n <= Len(cache)
    BY <1>1, <1>3
  <1> HIDE DEF n
  <1>5. /\ Touched(f) \in Seq(Entries) /\ Len(Touched(f)) = n
        /\ \A i \in 1..n : Touched(f)[i] = cache[i]
    BY <1>2, <1>3, <1>4
  <1>6. QED
    BY <1>3, <1>4, <1>5 DEF e, o

LEMMA KnownIsOwn ==
  ASSUME TransferInv, NEW f \in wire
  PROVE  /\ Known(f) \in Seq(Fragments)
         /\ \A i \in DOMAIN Known(f) : Known(f)[i] \in wire /\ IsOf(EntryOf(f), Known(f)[i])
         /\ DistinctIds(Known(f))
  <1> DEFINE known == EntryOf(f).packet_fragments
  <1>1. f \in Fragments
    BY DEF TransferInv, TransferTypeOK
  <1>2. /\ known \in Seq(Fragments)
        /\ \A i \in DOMAIN known : known[i] \in wire /\ IsOf(EntryOf(f), known[i])
    BY LookedUp DEF Entries, OwnFragments
  <1>3. DistinctIds(known)
    BY LookedUp DEF OwnFragments
  <1>4. \/ Known(f) = known
        \/ /\ Known(f) = Append(known, f)
           /\ \A i \in DOMAIN known : known[i].fragment_id # f.fragment_id
    BY <1>2 DEF Known, WithFragment, Range
  <1>5. IsOf(EntryOf(f), f)
    BY LookedUp
  <1> HIDE DEF known
  <1>6. DistinctIds(Known(f))
    BY <1>1, <1>2, <1>3, <1>4 DEF DistinctIds
  <1>7. QED
    BY <1>1, <1>2, <1>4, <1>5, <1>6

\* A cache is in order if its entries are distinct, own what they hold, and lack
\* something.
InOrder(cache) ==
  /\ cache \in Seq(Entries)
  /\ Len(cache) <= LruSize
  /\ \A i, j \in DOMAIN cache : cache[i].message_id = cache[j].message_id => i = j
  /\ \A i \in DOMAIN cache : OwnFragments(cache[i]) /\ NotComplete(cache[i])

\* All that comes behind the touched entry is in order, whatever becomes of it.
LEMMA BehindTouched ==
  ASSUME TransferInv, NEW f \in wire
  PROVE  /\ \A i, j \in DOMAIN Touched(f) :
              Touched(f)[i].message_id = Touched(f)[j].message_id => i = j
         /\ \A i \in DOMAIN Touched(f) \ {1} :
              OwnFragments(Touched(f)[i]) /\ NotComplete(Touched(f)[i])
  <1> DEFINE t == Touched(f)
             o == Others(f)
  <1>1. /\ t \in Seq(Entries) /\ Len(t) \in Nat \ {0} /\ t[1] = EntryOf(f)
        /\ \A i \in DOMAIN t \ {1} : i - 1 \in DOMAIN o /\ t[i] = o[i - 1]
    BY TouchedIs
  <1>2. /\ o \in Seq(Entries)
        /\ \A i, j \in DOMAIN o : o[i].message_id = o[j].message_id => i = j
        /\ \A i \in DOMAIN o : ~IsOf(o[i], f) /\ OwnFragments(o[i]) /\ NotComplete(o[i])
    BY OthersAreOthers
  <1>3. IsOf(EntryOf(f), f)
    BY LookedUp
  <1> HIDE DEF t, o
  <1>4. \A i \in DOMAIN t \ {1} : t[i].message_id # t[1].message_id
    BY <1>1, <1>2, <1>3 DEF IsOf
  <1>5. ASSUME NEW i \in DOMAIN t \ {1}, NEW j \in DOMAIN t \ {1},
               t[i].message_id = t[j].message_id
        PROVE  i = j
    <2>1. i - 1 = j - 1
      BY <1>1, <1>2, <1>5
    <2>2. QED
      BY <1>1, <2>1
  <1>6. \A i, j \in DOMAIN t : t[i].message_id = t[j].message_id => i = j
    BY <1>4, <1>5
  <1>7. \A i \in DOMAIN t \ {1} : OwnFragments(t[i]) /\ NotComplete(t[i])
    BY <1>1, <1>2
  <1>8. QED
    BY <1>6, <1>7 DEF t

\* The next cache, both ways: the entry is popped, or kept with what is known.
LEMMA NextCacheInOrder ==
  ASSUME TransferInv, NEW f \in wire
  PROVE  /\ InOrder(Tail(Touched(f)))
         /\ ~Completes(f) => InOrder([Touched(f) EXCEPT ![1].packet_fragments = Known(f)])
  <1> DEFINE t == Touched(f)
             known == Known(f)
             kept == [t[1] EXCEPT !.packet_fragments = known]
             u == [t EXCEPT ![1] = kept]
  <1>1. /\ t \in Seq(Entries) /\ Len(t) \in 1..LruSize /\ t[1] = EntryOf(f)
    BY TouchedIs
  <1>2. /\ \A i, j \in DOMAIN t : t[i].message_id = t[j].message_id => i = j
        /\ \A i \in DOMAIN t \ {1} : OwnFragments(t[i]) /\ NotComplete(t[i])
    BY BehindTouched
  <1>3. /\ known \in Seq(Fragments)
        /\ \A i \in DOMAIN known : known[i] \in wire /\ IsOf(t[1], known[i])
        /\ DistinctIds(known)
        /\ \E g \in wire : IsOf(t[1], g) /\ t[1].fragment_count = NewEntry(g).fragment_count
    BY <1>1, KnownIsOwn, LookedUp DEF OwnFragments
  <1>4. ~Completes(f) => Len(known) < t[1].fragment_count
    <2>1. EntryOf(f) \in Entries
      BY LookedUp
    <2>2. EntryOf(f).fragment_count \in Nat
      BY <2>1 DEF Entries
    <2>3. Len(known) \in Nat
      BY <1>3
    <2>4. QED
      BY <1>1, <2>2, <2>3 DEF Completes
  <1>5. [t EXCEPT ![1].packet_fragments = known] = u
    BY <1>1
  <1> HIDE DEF t, known
  <1>6. InOrder(Tail(t))
    <2>1. /\ Tail(t) \in Seq(Entries) /\ Len(Tail(t)) = Len(t) - 1
          /\ \A i \in DOMAIN Tail(t) : i + 1 \in DOMAIN t \ {1} /\ Tail(t)[i] = t[i + 1]
      BY <1>1
    <2>2. ASSUME NEW i \in DOMAIN Tail(t), NEW j \in DOMAIN Tail(t),
                 Tail(t)[i].message_id = Tail(t)[j].message_id
          PROVE  i = j
      <3>1. i + 1 = j + 1
        BY <1>2, <2>1, <2>2
      <3>2. QED
        BY <2>1, <3>1
    <2>3. \A i \in DOMAIN Tail(t) : OwnFragments(Tail(t)[i]) /\ NotComplete(Tail(t)[i])
      BY <1>2, <2>1
    <2>4. Len(Tail(t)) <= LruSize
      BY <1>1, <2>1
    <2>5. QED
      BY <2>1, <2>2, <2>3, <2>4 DEF InOrder
  <1>7. ASSUME ~Completes(f)
        PROVE  InOrder(u)
    <2>1. /\ kept \in Entries
          /\ kept.message_id = t[1].message_id
          /\ kept.fragment_count = t[1].fragment_count
          /\ kept.packet_fragments = known
      <3>1. t[1] \in Entries
        BY <1>1
      <3>2. QED
        BY <1>3, <3>1 DEF Entries
    <2>2. OwnFragments(kept) /\ NotComplete(kept)
      BY <1>3, <1>4, <1>7, <2>1 DEF OwnFragments, NotComplete, IsOf
    <2> HIDE DEF kept
    <2>3. /\ u \in Seq(Entries) /\ Len(u) = Len(t)
          /\ \A i \in DOMAIN u : i \in DOMAIN t /\ u[i] = IF i = 1 THEN kept ELSE t[i]
      BY <1>1, <2>1
    <2> HIDE DEF u
    <2>4. \A i \in DOMAIN u : u[i].message_id = t[i].message_id
      BY <2>1, <2>3
    <2>5. \A i, j \in DOMAIN u : u[i].message_id = u[j].message_id => i = j
      BY <1>2, <2>3, <2>4
    <2>6. \A i \in DOMAIN u : OwnFragments(u[i]) /\ NotComplete(u[i])
      BY <1>2, <2>2, <2>3
    <2>7. Len(u) <= LruSize
      BY <1>1, <2>3
    <2>8. QED
      BY <2>3, <2>5, <2>6, <2>7 DEF InOrder
  <1>8. QED
    BY <1>5, <1>6, <1>7 DEF t, known

LEMMA ArriveKeepsInv ==
  ASSUME TransferInv, Arrive
  PROVE  TransferInv'
  <1>1. PICK f \in wire : handle_fragments(f)
    BY DEF Arrive
  <1>2. UNCHANGED <<split_vars, sent, wire>>
    BY DEF Arrive
  <1>3. InOrder(fragments')
    BY <1>1, NextCacheInOrder DEF handle_fragments
  <1>4. CacheInv'
    BY <1>2, <1>3 DEF InOrder, CacheInv, OwnFragments, NotComplete, IsOf, Entries, Fragments, Contents
  <1>5. SplitInv'
    BY <1>2 DEF TransferInv, split_vars, SplitInv, SplitTypeOK, DatagramsFit, BytesOnWire,
                BytesIn, fragment_count, mtu
  <1>6. QED
    BY <1>2, <1>4, <1>5
       DEF TransferInv, TransferTypeOK, split_vars, SplitInv, Fragments, Contents

\* As long as nothing arrives, the cache stays and what was sent stays sent.
LEMMA CacheStays ==
  ASSUME TransferInv, UNCHANGED fragments, wire \subseteq wire'
  PROVE  CacheInv'
  BY DEF TransferInv, CacheInv, OwnFragments, NotComplete, IsOf, Entries, Fragments, Contents

LEMMA SendKeepsInv ==
  ASSUME TransferInv, Send
  PROVE  TransferInv'
  <1> DEFINE f == [message_id |-> sent[Current].message_id,
                   fragment_count |-> fragment_count(len), fragment_id |-> fragment_id,
                   content |-> <<Current, consumed, consumed'>>]
  <1>1. SplitInv'
    BY FragmentKeepsSplitInv DEF TransferInv, Send
  <1>2. wire' = wire \union {f} /\ UNCHANGED <<fragments, sent, received>>
    BY DEF Send
  <1>3. CacheInv'
    BY <1>2, CacheStays
  <1>4. consumed \in Nat /\ consumed' \in Nat /\ fragment_id \in Nat /\ fragment_count(len) \in Nat
    <2>1. consumed \in 0..len /\ consumed' \in 0..len' /\ len' = len /\ len \in Nat \ {0}
      BY <1>1, LenIsPositive DEF TransferInv, SplitInv, SplitTypeOK, Send, SendFragment
    <2>2. fragment_count(len) \in Nat /\ fragment_id \in 0..fragment_count(len)
      BY <2>1, CountIsNat DEF TransferInv, SplitInv, SplitTypeOK
    <2>3. QED
      BY <2>1, <2>2
  <1>5. Current \in 1..MaxPackets /\ sent[Current].message_id \in 1..MaxPackets
    <2> DEFINE Packets == [message_id : 1..MaxPackets, len : Lengths]
    <2>1. sent \in Seq(Packets) /\ Len(sent) \in 1..MaxPackets
      BY DEF TransferInv, TransferTypeOK
    <2> HIDE DEF Packets
    <2>2. sent[Len(sent)] \in Packets
      BY <2>1
    <2>3. QED
      BY <2>1, <2>2 DEF Current, Packets
  <1>6. f \in Fragments
    BY <1>4, <1>5 DEF Fragments, Contents
  <1>7. TransferTypeOK'
    BY <1>1, <1>2, <1>6 DEF TransferInv, TransferTypeOK, SplitInv, Fragments, Contents
  <1>8. QED
    BY <1>1, <1>3, <1>7 DEF TransferInv

LEMMA WholeKeepsInv ==
  ASSUME TransferInv, SendAndReceiveWhole
  PROVE  TransferInv'
  <1>1. SplitInv'
    BY WholeKeepsSplitInv DEF TransferInv, SendAndReceiveWhole
  <1>2. UNCHANGED <<fragments, sent, wire>>
    BY DEF SendAndReceiveWhole
  <1>3. QED
    BY <1>1, <1>2, CacheStays DEF TransferInv, TransferTypeOK, SplitInv, Fragments, Contents

\* A packet begins as the first one did.
LEMMA NextPacketKeepsInv ==
  ASSUME TransferInv, NextPacket
  PROVE  TransferInv'
  <1>1. /\ len' \in Lengths /\ fragment_id' = 0 /\ consumed' = 0 /\ datagram' = 0
        /\ UNCHANGED <<fragments, wire>>
    BY DEF NextPacket
  <1>2. len' \in Nat \ {0}
    BY <1>1
  <1>3. SplitInv'
    <2>1. fragment_count(len') \in Nat
      BY <1>2, CountIsNat
    <2>2. 0 * mtu = 0 /\ fragment_count(len)' = fragment_count(len') /\ mtu' = mtu
      BY DEF mtu, fragment_count
    <2>3. SplitTypeOK'
      BY <1>1, <1>2, <2>1, <2>2 DEF SplitTypeOK
    <2>4. QED
      BY <1>1, <1>2, <2>2, <2>3 DEF SplitInv, DatagramsFit, BytesOnWire, BytesIn
  <1>4. PICK id \in MessageIds : sent' = Append(sent, [message_id |-> id, len |-> len'])
    BY DEF NextPacket
  <1>5. Len(sent) \in 1..MaxPackets /\ Len(sent) < MaxPackets /\ id \in 1 .. Len(sent) + 1
    BY <1>4 DEF TransferInv, TransferTypeOK, NextPacket, MessageIds, Current
  <1>6. id \in 1..MaxPackets
    BY <1>5
  <1>7. /\ sent' \in Seq([message_id : 1..MaxPackets, len : Lengths])
        /\ Len(sent') \in 1..MaxPackets
    BY <1>1, <1>4, <1>5, <1>6 DEF TransferInv, TransferTypeOK
  <1>8. CacheInv'
    BY <1>1, CacheStays
  <1>9. QED
    BY <1>1, <1>3, <1>7, <1>8 DEF TransferInv, TransferTypeOK, SplitInv, Fragments, Contents

LEMMA InitTransferInv == TransferInit => TransferInv
  <1> SUFFICES ASSUME TransferInit
               PROVE  TransferInv
    OBVIOUS
  <1>1. SplitInv /\ len \in Lengths
    BY InitSplitInv DEF TransferInit, SplitInit
  <1>2. CacheInv
    BY DEF TransferInit, ReassemblyInit, CacheInv
  <1>3. TransferTypeOK
    BY <1>1 DEF TransferInit, TransferTypeOK, SplitInv
  <1>4. QED
    BY <1>1, <1>2, <1>3 DEF TransferInv

LEMMA StepKeepsTransferInv == TransferInv /\ [TransferNext]_transfer_vars => TransferInv'
  <1> SUFFICES ASSUME TransferInv, [TransferNext]_transfer_vars
               PROVE  TransferInv'
    OBVIOUS
  <1>1. CASE UNCHANGED transfer_vars
    <2>1. SplitInv'
      BY <1>1 DEF TransferInv, transfer_vars, split_vars, SplitInv, SplitTypeOK, DatagramsFit,
                  BytesOnWire, BytesIn, fragment_count, mtu
    <2>2. QED
      BY <1>1, <2>1, CacheStays
         DEF TransferInv, TransferTypeOK, SplitInv, transfer_vars, Fragments, Contents
  <1>2. QED
    BY <1>1, ArriveKeepsInv, SendKeepsInv, WholeKeepsInv, NextPacketKeepsInv DEF TransferNext

\* However many packets are under way, whatever is lost, repeated or evicted: one
\* entry for each number, within the size of the cache, with fragments of its
\* own only and not enough of them.
THEOREM CacheAlwaysConsistent == TransferSpec => []CacheConsistent
  <1>1. TransferInv => CacheConsistent
    BY DEF TransferInv, CacheInv, CacheConsistent, OwnFragments, NotComplete, Range
  <1>2. QED
    BY <1>1, InitTransferInv, StepKeepsTransferInv, PTL DEF TransferSpec

-----------------------------------------------------------------------------
\* What is returned.  First the order: fragments with different ids are sorted by
\* them.
Increasing(s) == \A i, j \in DOMAIN s : i < j => s[i].fragment_id < s[j].fragment_id

LEMMA SortedIs ==
  ASSUME NEW known \in Seq(Fragments), DistinctIds(known)
  PROVE  Sorted(known) \in [DOMAIN known -> Range(known)] /\ Increasing(Sorted(known))
  <1> DEFINE D == DOMAIN known
             P(p) == \A i, j \in D : i < j => known[p[i]].fragment_id <= known[p[j]].fragment_id
             order == CHOOSE p \in Injection(D, D) : P(p)
  <1>1. /\ D \subseteq Int
        /\ \A i \in D : known[i].fragment_id \in Nat
        /\ \A i, j \in D : i # j => known[i].fragment_id # known[j].fragment_id
    <2>1. D \subseteq Int /\ \A i \in D : known[i] \in Fragments
      OBVIOUS
    <2>2. \A i \in D : known[i].fragment_id \in Nat
      BY <2>1 DEF Fragments
    <2>3. \A i, j \in D : i # j => known[i].fragment_id # known[j].fragment_id
      BY DEF DistinctIds
    <2>4. QED
      BY <2>1, <2>2, <2>3
  <1>2. \E p \in Injection(D, D) : P(p)
    <2> DEFINE id == [i \in D |-> known[i].fragment_id]
    <2>1. Len(known) \in Nat /\ D = 1 .. Len(known) /\ id \in [D -> Int]
      BY <1>1
    <2>2. \A i \in D : id[i] = known[i].fragment_id
      OBVIOUS
    <2> HIDE DEF D, id
    <2>3. PICK p \in Injection(D, D) : \A i, j \in D : i < j => id[p[i]] <= id[p[j]]
      BY <2>1, SortingOrderExists
    <2>4. \A i \in D : p[i] \in D
      BY DEF Injection
    <2>5. QED
      BY <2>2, <2>3, <2>4
  <1>3. Sorted(known) = [i \in D |-> known[order[i]]]
    BY DEF Sorted
  <1> HIDE DEF D, P
  <1>4. order \in Injection(D, D) /\ P(order)
    BY <1>2
  <1> HIDE DEF order
  <1>5. \A i \in D : order[i] \in D
    BY <1>4 DEF Injection
  <1>6. \A i, j \in D : i < j => known[order[i]].fragment_id < known[order[j]].fragment_id
    <2> SUFFICES ASSUME NEW i \in D, NEW j \in D, i < j
                 PROVE  known[order[i]].fragment_id < known[order[j]].fragment_id
      OBVIOUS
    <2>1. order[i] # order[j]
      BY <1>1, <1>4 DEF Injection, IsInjective
    <2>2. known[order[i]].fragment_id <= known[order[j]].fragment_id
      BY <1>4 DEF P
    <2>3. QED
      BY <1>1, <1>5, <2>1, <2>2
  <1>7. QED
    BY <1>3, <1>5, <1>6 DEF D, Increasing, Range

-----------------------------------------------------------------------------
\* The packet a fragment is of, and its bytes.
IsFragmentOf(g, p) ==
  /\ p \in DOMAIN sent
  /\ sent[p].len > split_size
  /\ g.message_id = sent[p].message_id
  /\ g.fragment_count = fragment_count(sent[p].len)
  /\ g.fragment_id \in Nat
  /\ g.fragment_id < fragment_count(sent[p].len)
  /\ g.content = <<p, BytesIn(sent[p].len, g.fragment_id), BytesIn(sent[p].len, g.fragment_id + 1)>>

WireInv ==
  /\ len = sent[Current].len
  /\ \A g \in wire : IsFragmentOf(g, g.content[1])

\* Whatever is returned, the datagram's sender may have sent something else since.
Result(r) ==
  /\ r \in Seq(Contents)
  /\ Len(r) <= MAX_FRAGMENTS_PER_PACKET
  /\ \A i \in DOMAIN r : r[i][1] \in DOMAIN sent
  /\ \A i, j \in DOMAIN r :
       (r[i][1] = r[j][1] \/ Shares(r[i][1], r[j][1])) /\ (i < j => r[i][2] < r[j][2])

IsWhole(r, p) ==
  /\ r[1] = <<p, 0, r[1][3]>>
  /\ r[Len(r)][3] = BytesSent(sent[p].len)
  /\ \A i \in 2..Len(r) : r[i][1] = p /\ r[i][2] = r[i - 1][3]

Unshared(p) == \A q \in DOMAIN sent : ~Shares(p, q)

WholeUnlessShared(r) ==
  \A i \in DOMAIN r : FitsLimit(r[i][1]) /\ Unshared(r[i][1]) => IsWhole(r, r[i][1])

\* Inductive: what is on the wire is what send_packet made of the packets, and
\* what was returned is in order.
ResultInv == TransferInv /\ WireInv /\ Result(received) /\ WholeUnlessShared(received)

LEMMA SentIs ==
  ASSUME TransferInv, NEW p \in DOMAIN sent
  PROVE  /\ p \in 1..MaxPackets
         /\ sent[p].len \in Nat \ {0}
         /\ sent[p].message_id \in 1..MaxPackets
  <1> DEFINE Packets == [message_id : 1..MaxPackets, len : Lengths]
  <1>1. sent \in Seq(Packets) /\ Len(sent) \in 1..MaxPackets
    BY DEF TransferInv, TransferTypeOK
  <1> HIDE DEF Packets
  <1>2. sent[p] \in Packets /\ p \in 1..MaxPackets
    BY <1>1
  <1>3. QED
    BY <1>2 DEF Packets

\* The fragments before the last start where mtu puts them.
LEMMA StartsAt ==
  ASSUME NEW n \in Nat \ {0}, NEW i \in Nat, i < fragment_count(n)
  PROVE  BytesIn(n, i) = i * mtu
  BY FragmentStartsInside DEF BytesIn

LEMMA StartsIncrease ==
  ASSUME NEW i \in Nat, NEW j \in Nat, i < j
  PROVE  i * mtu < j * mtu
  <1>1. mtu \in Nat \ {0}
    BY DEF mtu
  <1> HIDE DEF mtu
  <1>2. (i + 1) * mtu = i * mtu + mtu /\ i * mtu \in Nat
    BY <1>1, Distributive
  <1>3. (i + 1) * mtu <= j * mtu
    BY <1>1, Monotone
  <1>4. j * mtu \in Nat
    BY <1>1, Distributive
  <1>5. QED
    BY <1>1, <1>2, <1>3, <1>4

LEMMA BytesInIsNat ==
  ASSUME NEW n \in Nat \ {0}, NEW i \in Nat
  PROVE  BytesIn(n, i) \in Nat
  <1>1. i * mtu \in Nat
    BY Distributive DEF mtu
  <1>2. QED
    BY <1>1 DEF BytesIn

\* As many fragments as the limit at most: the entry had too few of them.
LEMMA KnownWithinLimit ==
  ASSUME TransferInv, NEW f \in wire
  PROVE  Len(Known(f)) \in 1..MAX_FRAGMENTS_PER_PACKET
  <1> DEFINE e == EntryOf(f)
             known == e.packet_fragments
  <1>1. e \in Entries
    BY LookedUp
  <1>2. known \in Seq(Fragments) /\ e.fragment_count \in Nat
    BY <1>1 DEF Entries
  <1>3. PICK fst \in wire : e.fragment_count = NewEntry(fst).fragment_count
    BY LookedUp DEF OwnFragments
  <1>4. fst.fragment_count \in Nat
    BY DEF TransferInv, TransferTypeOK, Fragments
  <1>5. e.fragment_count <= MAX_FRAGMENTS_PER_PACKET
    BY <1>3, <1>4 DEF NewEntry
  <1>6. Len(known) = 0 \/ Len(known) < e.fragment_count
    <2>1. CASE IsKnown(f)
      <3>1. Place(f) \in DOMAIN fragments
        BY <2>1 DEF IsKnown, Place
      <3>2. QED
        BY <2>1, <3>1 DEF EntryOf, TransferInv, CacheInv, NotComplete
    <2>2. CASE ~IsKnown(f)
      BY <2>2 DEF EntryOf, NewEntry
    <2>3. QED
      BY <2>1, <2>2
  <1>7. Known(f) = IF \E g \in Range(known) : g.fragment_id = f.fragment_id
                   THEN known ELSE Append(known, f)
    BY DEF Known, WithFragment
  <1> HIDE DEF e, known
  <1>8. Len(known) = 0 => Known(f) = Append(known, f)
    <2>1. Len(known) = 0 => Range(known) = {}
      BY <1>2 DEF Range
    <2>2. QED
      BY <1>7, <2>1
  <1>9. Len(known) \in Nat /\ Len(Append(known, f)) = Len(known) + 1
    BY <1>2
  <1>10. QED
    BY <1>2, <1>5, <1>6, <1>7, <1>8, <1>9

\* What is returned, its fragments in the order of their ids.
LEMMA JoinedIs ==
  ASSUME ResultInv, NEW f \in wire
  PROVE  LET n == Len(Known(f))
             s == Sorted(Known(f))
         IN  /\ n \in 1..MAX_FRAGMENTS_PER_PACKET
             /\ s \in [1..n -> wire]
             /\ Increasing(s)
             /\ \A i \in 1..n : IsOf(EntryOf(f), s[i]) /\ IsFragmentOf(s[i], s[i].content[1])
             /\ Joined(f) = [i \in 1..n |-> s[i].content]
  <1> DEFINE known == Known(f)
             n == Len(known)
             s == Sorted(known)
  <1>1. /\ known \in Seq(Fragments)
        /\ \A i \in DOMAIN known : known[i] \in wire /\ IsOf(EntryOf(f), known[i])
        /\ DistinctIds(known)
    BY KnownIsOwn DEF ResultInv
  <1>2. n \in 1..MAX_FRAGMENTS_PER_PACKET
    BY KnownWithinLimit DEF ResultInv
  <1>3. Joined(f) = [i \in DOMAIN s |-> s[i].content]
    BY DEF Joined
  <1> SUFFICES /\ n \in 1..MAX_FRAGMENTS_PER_PACKET
               /\ s \in [1..n -> wire]
               /\ Increasing(s)
               /\ \A i \in 1..n : IsOf(EntryOf(f), s[i]) /\ IsFragmentOf(s[i], s[i].content[1])
               /\ Joined(f) = [i \in 1..n |-> s[i].content]
    OBVIOUS
  <1> HIDE DEF known
  <1>4. s \in [DOMAIN known -> Range(known)] /\ Increasing(s)
    BY <1>1, SortedIs
  <1> HIDE DEF s
  <1>5. DOMAIN s = 1..n
    BY <1>1, <1>4
  <1>6. \A i \in 1..n : s[i] \in wire /\ IsOf(EntryOf(f), s[i])
    BY <1>1, <1>4, <1>5 DEF Range
  <1>7. s \in [1..n -> wire]
    BY <1>4, <1>5, <1>6
  <1>8. \A i \in 1..n : IsFragmentOf(s[i], s[i].content[1])
    BY <1>6 DEF ResultInv, WireInv
  <1> HIDE DEF n
  <1>9. QED
    BY <1>2, <1>3, <1>4, <1>5, <1>6, <1>7, <1>8

LEMMA JoinedIsResult ==
  ASSUME ResultInv, NEW f \in wire
  PROVE  Result(Joined(f))
  <1> DEFINE n == Len(Known(f))
             s == Sorted(Known(f))
             r == Joined(f)
             p(i) == s[i].content[1]
  <1>1. /\ n \in 1..MAX_FRAGMENTS_PER_PACKET /\ s \in [1..n -> wire]
        /\ Increasing(s)
        /\ \A i \in 1..n : IsOf(EntryOf(f), s[i]) /\ IsFragmentOf(s[i], p(i))
        /\ r = [i \in 1..n |-> s[i].content]
    BY JoinedIs
  <1> HIDE DEF n, s, r
  <1>2. \A i \in 1..n : s[i] \in wire /\ s[i] \in Fragments /\ r[i] = s[i].content
    BY <1>1 DEF ResultInv, TransferInv, TransferTypeOK
  <1>3. r \in Seq(Contents) /\ Len(r) = n /\ DOMAIN r = 1..n
    BY <1>1, <1>2 DEF Fragments
  <1>4. ASSUME NEW i \in 1..n
        PROVE  /\ r[i][1] = p(i) /\ p(i) \in DOMAIN sent
               /\ sent[p(i)].message_id = EntryOf(f).message_id
               /\ s[i].fragment_id \in Nat
               /\ r[i][2] = s[i].fragment_id * mtu
    <2>1. IsFragmentOf(s[i], p(i)) /\ IsOf(EntryOf(f), s[i]) /\ r[i] = s[i].content
      BY <1>1, <1>2
    <2>2. /\ p(i) \in DOMAIN sent
          /\ sent[p(i)].message_id = EntryOf(f).message_id
          /\ s[i].fragment_id \in Nat
          /\ s[i].fragment_id < fragment_count(sent[p(i)].len)
      BY <2>1 DEF IsFragmentOf, IsOf
    <2>3. r[i][2] = BytesIn(sent[p(i)].len, s[i].fragment_id)
      BY <2>1 DEF IsFragmentOf
    <2>4. sent[p(i)].len \in Nat \ {0}
      BY <2>2, SentIs DEF ResultInv
    <2>5. QED
      BY <2>1, <2>2, <2>3, <2>4, StartsAt
  <1>5. ASSUME NEW i \in 1..n, NEW j \in 1..n
        PROVE  r[i][1] = r[j][1] \/ Shares(r[i][1], r[j][1])
    BY <1>4 DEF Shares
  <1>6. ASSUME NEW i \in 1..n, NEW j \in 1..n, i < j
        PROVE  r[i][2] < r[j][2]
    <2>1. s[i].fragment_id < s[j].fragment_id
      BY <1>1, <1>6 DEF Increasing
    <2>2. QED
      BY <1>4, <2>1, StartsIncrease
  <1>7. QED
    <2>1. \A i \in DOMAIN r : r[i][1] \in DOMAIN sent
      BY <1>3, <1>4
    <2>2. Len(r) <= MAX_FRAGMENTS_PER_PACKET
      BY <1>1, <1>3
    <2>3. Result(r)
      BY <1>3, <1>5, <1>6, <2>1, <2>2 DEF Result
    <2>4. QED
      BY <2>3 DEF r

\* Fragments of one packet, as many as it has and no two the same, are all of it.
LEMMA JoinedIsWhole ==
  ASSUME ResultInv, NEW f \in wire, Completes(f)
  PROVE  WholeUnlessShared(Joined(f))
  <1> DEFINE n == Len(Known(f))
             s == Sorted(Known(f))
             r == Joined(f)
  <1>1. /\ n \in 1..MAX_FRAGMENTS_PER_PACKET /\ s \in [1..n -> wire]
        /\ Increasing(s)
        /\ \A i \in 1..n : IsOf(EntryOf(f), s[i]) /\ IsFragmentOf(s[i], s[i].content[1])
        /\ r = [i \in 1..n |-> s[i].content]
    BY JoinedIs
  <1> HIDE DEF s, r
  <1>2. DOMAIN r = 1..n /\ Len(r) = n /\ \A i \in 1..n : r[i] = s[i].content
    BY <1>1
  <1>3. SUFFICES ASSUME NEW k \in 1..n, FitsLimit(r[k][1]), Unshared(r[k][1])
                 PROVE  IsWhole(r, r[k][1])
    BY <1>2 DEF WholeUnlessShared, r
  <1> DEFINE p == r[k][1]
             c == fragment_count(sent[p].len)
  <1>4. /\ p \in DOMAIN sent /\ sent[p].message_id = EntryOf(f).message_id
        /\ sent[p].len > split_size
    BY <1>1, <1>2 DEF IsFragmentOf, IsOf
  <1>5. sent[p].len \in Nat \ {0} /\ c \in Nat
    BY <1>4, SentIs, CountIsNat DEF ResultInv
  <1>6. ASSUME NEW q \in DOMAIN sent, sent[q].message_id = EntryOf(f).message_id
        PROVE  q = p
    BY <1>3, <1>4, <1>6 DEF Unshared, Shares
  <1>7. \A i \in 1..n : IsFragmentOf(s[i], p)
    <2>1. ASSUME NEW i \in 1..n
          PROVE  s[i].content[1] = p
      <3>1. /\ s[i].content[1] \in DOMAIN sent
            /\ sent[s[i].content[1]].message_id = EntryOf(f).message_id
        BY <1>1 DEF IsFragmentOf, IsOf
      <3>2. QED
        BY <1>6, <3>1
    <2> HIDE DEF p
    <2>2. QED
      BY <1>1, <2>1
  <1>8. EntryOf(f).fragment_count = c
    <2>1. PICK g \in wire : /\ IsOf(EntryOf(f), g)
                            /\ EntryOf(f).fragment_count = NewEntry(g).fragment_count
      BY LookedUp DEF ResultInv, OwnFragments
    <2>2. IsFragmentOf(g, g.content[1])
      BY DEF ResultInv, WireInv
    <2>3. g.content[1] = p
      BY <1>6, <2>1, <2>2 DEF IsFragmentOf, IsOf
    <2>4. g.fragment_count = c
      BY <2>2, <2>3 DEF IsFragmentOf
    <2>5. c <= MAX_FRAGMENTS_PER_PACKET
      BY <1>3 DEF FitsLimit
    <2> HIDE DEF c
    <2>6. QED
      BY <1>5, <2>1, <2>4, <2>5 DEF NewEntry
  <1> HIDE DEF p, c
  <1>9. n >= c
    BY <1>1, <1>5, <1>8 DEF Completes
  <1> HIDE DEF n
  <1> DEFINE id == [i \in 1..n |-> s[i].fragment_id]
  <1>10. n = c /\ \A i \in 1..n : id[i] = i - 1
    <2>1. \A i \in 1..n : s[i].fragment_id \in Nat /\ s[i].fragment_id < c
      BY <1>7 DEF IsFragmentOf, c
    <2>2. \A i, j \in 1..n : i < j => s[i].fragment_id < s[j].fragment_id
      BY <1>1 DEF Increasing
    <2>3. IncreaseBelow(id, n, c)
      BY <2>1, <2>2 DEF IncreaseBelow
    <2> HIDE DEF id
    <2>4. n \in Nat \ {0} /\ c \in Nat
      BY <1>1, <1>5
    <2>5. QED
      BY <1>9, <2>3, <2>4, AllOfThem
  <1>11. ASSUME NEW i \in 1..n
         PROVE  r[i] = <<p, BytesIn(sent[p].len, i - 1), BytesIn(sent[p].len, i)>>
    <2>1. s[i].fragment_id = i - 1 /\ (i - 1) + 1 = i
      BY <1>10
    <2>2. QED
      BY <1>2, <1>7, <2>1 DEF IsFragmentOf
  <1>12. BytesIn(sent[p].len, 0) = 0
    <2>1. 0 * mtu = 0
      BY DEF mtu
    <2>2. QED
      BY <1>5, <2>1 DEF BytesIn
  <1>13. r[1] = <<p, 0, r[1][3]>>
    BY <1>1, <1>11, <1>12
  <1>14. r[Len(r)][3] = BytesSent(sent[p].len)
    <2>1. BytesSent(sent[p].len) = BytesIn(sent[p].len, c)
      BY <1>4, <1>5 DEF BytesSent, c, p
    <2>2. QED
      BY <1>2, <1>10, <1>11, <2>1
  <1>15. \A i \in 2..Len(r) : r[i][1] = p /\ r[i][2] = r[i - 1][3]
    <2>1. ASSUME NEW i \in 2..n
          PROVE  r[i][1] = p /\ r[i][2] = r[i - 1][3]
      <3>1. i \in 1..n /\ i - 1 \in 1..n
        BY <1>1
      <3>2. QED
        BY <1>11, <3>1
    <2>2. QED
      BY <1>2, <2>1
  <1>16. QED
    BY <1>13, <1>14, <1>15 DEF IsWhole, p

\* The sizes are constants: what was sent of a packet stays the same.
LEMMA SizesStay ==
  ASSUME NEW p, sent[p]' = sent[p]
  PROVE  /\ FitsLimit(p)' = FitsLimit(p)
         /\ BytesSent(sent[p].len)' = BytesSent(sent[p].len)
  BY DEF FitsLimit, BytesSent, BytesIn, mtu, fragment_count

LEMMA ResultStays ==
  ASSUME Result(received'), WholeUnlessShared(received'), UNCHANGED sent
  PROVE  Result(received)' /\ WholeUnlessShared(received)'
  <1>1. Result(received)'
    BY DEF Result, Shares, Contents
  <1>2. WholeUnlessShared(received)'
    BY DEF WholeUnlessShared, IsWhole, Unshared, Shares, FitsLimit, BytesSent, BytesIn, mtu,
           fragment_count
  <1>3. QED
    BY <1>1, <1>2

LEMMA NothingIsResult == Result(<<>>) /\ WholeUnlessShared(<<>>)
  BY DEF Result, WholeUnlessShared

LEMMA SendKeepsResultInv ==
  ASSUME ResultInv, Send
  PROVE  WireInv' /\ Result(received)' /\ WholeUnlessShared(received)'
  <1> DEFINE f == [message_id |-> sent[Current].message_id,
                   fragment_count |-> fragment_count(len), fragment_id |-> fragment_id,
                   content |-> <<Current, consumed, consumed'>>]
  <1>1. wire' = wire \union {f} /\ UNCHANGED <<sent, received>> /\ len' = len
    BY DEF Send, SendFragment
  <1>2. Current \in DOMAIN sent
    BY DEF ResultInv, TransferInv, TransferTypeOK, Current
  <1>3. /\ consumed = BytesIn(len, fragment_id)
        /\ consumed' = BytesIn(len, fragment_id + 1)
    <2>1. BytesOnWire /\ BytesOnWire'
      BY FragmentKeepsSplitInv DEF ResultInv, TransferInv, SplitInv, Send
    <2>2. /\ len > split_size /\ len' = len /\ fragment_id' = fragment_id + 1
      BY DEF Send, SendFragment
    <2>3. QED
      BY <2>1, <2>2 DEF BytesOnWire, BytesIn, mtu
  <1>4. fragment_id \in Nat /\ fragment_id < fragment_count(len) /\ len > split_size
    <2>1. len \in Nat \ {0} /\ fragment_count(len) \in Nat
      BY LenIsPositive, CountIsNat DEF ResultInv, TransferInv, SplitInv
    <2>2. QED
      BY <2>1 DEF ResultInv, TransferInv, SplitInv, SplitTypeOK, Send, SendFragment
  <1>5. len = sent[Current].len
    BY DEF ResultInv, WireInv
  <1>6. IsFragmentOf(f, Current)
    <2>1. /\ f.message_id = sent[Current].message_id
          /\ f.fragment_count = fragment_count(len)
          /\ f.fragment_id = fragment_id
          /\ f.content = <<Current, consumed, consumed'>>
      OBVIOUS
    <2> HIDE DEF f
    <2>2. QED
      BY <1>2, <1>3, <1>4, <1>5, <2>1 DEF IsFragmentOf
  <1>7. f.content[1] = Current
    OBVIOUS
  <1> HIDE DEF f
  <1>8. \A g \in wire' : IsFragmentOf(g, g.content[1])
    BY <1>1, <1>6, <1>7 DEF ResultInv, WireInv
  <1>9. WireInv'
    BY <1>1, <1>5, <1>8 DEF WireInv, IsFragmentOf, BytesIn, mtu, fragment_count, Current
  <1>10. QED
    BY <1>1, <1>9, ResultStays DEF ResultInv

\* A datagram without a split header is the packet.
LEMMA WholeKeepsResultInv ==
  ASSUME ResultInv, SendAndReceiveWhole
  PROVE  WireInv' /\ Result(received)' /\ WholeUnlessShared(received)'
  <1> DEFINE r == <<<<Current, 0, len>>>>
  <1>1. UNCHANGED <<sent, wire>> /\ len' = len /\ len <= split_size /\ received' \in {received, r}
    BY DEF SendAndReceiveWhole, SendWhole
  <1>2. Current \in DOMAIN sent /\ Current \in 1..MaxPackets
    BY DEF ResultInv, TransferInv, TransferTypeOK, Current
  <1>3. len \in Nat \ {0} /\ len = sent[Current].len
    BY LenIsPositive DEF ResultInv, TransferInv, SplitInv, WireInv
  <1>4. WireInv'
    BY <1>1 DEF ResultInv, WireInv, IsFragmentOf, BytesIn, mtu, fragment_count, Current
  <1>5. r \in Seq(Contents) /\ Len(r) = 1 /\ r[1] = <<Current, 0, len>>
    BY <1>2, <1>3 DEF Contents
  <1> HIDE DEF r
  <1>6. Result(r)
    BY <1>2, <1>5 DEF Result
  <1>7. WholeUnlessShared(r)
    <2>1. BytesSent(sent[Current].len) = len
      BY <1>1, <1>3 DEF BytesSent
    <2>2. IsWhole(r, Current)
      BY <1>5, <2>1 DEF IsWhole
    <2>3. QED
      BY <1>5, <2>2 DEF WholeUnlessShared
  <1>8. Result(received') /\ WholeUnlessShared(received')
    BY <1>1, <1>6, <1>7 DEF ResultInv
  <1>9. QED
    BY <1>1, <1>4, <1>8, ResultStays

\* A new packet may share the number of one that was returned, never unshare it.
LEMMA NextPacketKeepsResultInv ==
  ASSUME ResultInv, NextPacket
  PROVE  WireInv' /\ Result(received)' /\ WholeUnlessShared(received)'
  <1>1. PICK id \in MessageIds : sent' = Append(sent, [message_id |-> id, len |-> len'])
    BY DEF NextPacket
  <1>2. UNCHANGED <<wire, received>>
    BY DEF NextPacket
  <1> DEFINE new == [message_id |-> id, len |-> len']
             Packets == [message_id : 1..MaxPackets, len : Lengths]
  <1>3. sent \in Seq(Packets) /\ new.len = len'
    BY DEF ResultInv, TransferInv, TransferTypeOK
  <1>4. sent' = Append(sent, new)
    BY <1>1
  <1> HIDE DEF new, Packets
  <1>5. /\ Len(sent') = Len(sent) + 1
        /\ sent'[Len(sent')].len = len'
        /\ \A p \in DOMAIN sent : p \in DOMAIN sent' /\ sent'[p] = sent[p]
    BY <1>3, <1>4
  <1>6. \A g \in wire : IsFragmentOf(g, g.content[1])'
    BY <1>5 DEF ResultInv, WireInv, IsFragmentOf, BytesIn, mtu, fragment_count
  <1>7. WireInv'
    BY <1>2, <1>5, <1>6 DEF WireInv, Current
  <1>8. Result(received)'
    <2>1. Result(received)
      BY DEF ResultInv
    <2>2. /\ (received \in Seq(Contents))'
          /\ (Len(received) <= MAX_FRAGMENTS_PER_PACKET)'
      BY <1>2, <2>1 DEF Result, Contents
    <2>3. \A i \in DOMAIN received : received[i][1] \in DOMAIN sent'
      BY <1>5, <2>1 DEF Result
    <2>4. \A i, j \in DOMAIN received :
            Shares(received[i][1], received[j][1]) => Shares(received[i][1], received[j][1])'
      BY <1>2, <1>5, <2>1 DEF Result, Shares
    <2>5. QED
      BY <1>2, <2>1, <2>2, <2>3, <2>4 DEF Result, Shares
  <1>9. WholeUnlessShared(received)'
    <2>1. ASSUME NEW i \in DOMAIN received,
                 FitsLimit(received[i][1])', Unshared(received[i][1])'
          PROVE  IsWhole(received, received[i][1])'
      <3> DEFINE p == received[i][1]
      <3>1. p \in DOMAIN sent
        BY DEF ResultInv, Result
      <3>2. FitsLimit(p) /\ Unshared(p)
        BY <1>2, <1>5, <2>1, <3>1 DEF FitsLimit, Unshared, Shares, fragment_count
      <3>3. IsWhole(received, p)
        BY <3>2 DEF ResultInv, WholeUnlessShared
      <3>4. BytesSent(sent[p].len)' = BytesSent(sent[p].len)
        BY <1>2, <1>5, <3>1, SizesStay
      <3>5. QED
        BY <1>2, <3>3, <3>4 DEF IsWhole
    <2>2. QED
      BY <1>2, <2>1 DEF WholeUnlessShared
  <1>10. QED
    BY <1>7, <1>8, <1>9

LEMMA ArriveKeepsResultInv ==
  ASSUME ResultInv, Arrive
  PROVE  WireInv' /\ Result(received)' /\ WholeUnlessShared(received)'
  <1>1. PICK f \in wire : received' = IF Completes(f) THEN Joined(f) ELSE <<>>
    BY DEF Arrive
  <1>2. UNCHANGED <<split_vars, sent, wire>>
    BY DEF Arrive
  <1>3. Result(received') /\ WholeUnlessShared(received')
    BY <1>1, NothingIsResult, JoinedIsResult, JoinedIsWhole
  <1>4. WireInv'
    BY <1>2 DEF ResultInv, WireInv, IsFragmentOf, BytesIn, mtu, fragment_count, Current, split_vars
  <1>5. QED
    BY <1>2, <1>3, <1>4, ResultStays

LEMMA InitResultInv == TransferInit => ResultInv
  <1> SUFFICES ASSUME TransferInit
               PROVE  ResultInv
    OBVIOUS
  <1>1. sent = <<[message_id |-> 1, len |-> len]>> /\ wire = {} /\ received = <<>>
    BY DEF TransferInit
  <1>2. WireInv
    BY <1>1 DEF WireInv, Current
  <1>3. QED
    BY <1>1, <1>2, InitTransferInv, NothingIsResult DEF ResultInv

LEMMA StepKeepsResultInv == ResultInv /\ [TransferNext]_transfer_vars => ResultInv'
  <1> SUFFICES ASSUME ResultInv, [TransferNext]_transfer_vars
               PROVE  ResultInv'
    OBVIOUS
  <1>1. TransferInv'
    BY StepKeepsTransferInv DEF ResultInv
  <1>2. CASE UNCHANGED transfer_vars
    <2>1. UNCHANGED <<len, sent, wire, received>>
      BY <1>2 DEF transfer_vars, split_vars
    <2>2. WireInv'
      BY <2>1 DEF ResultInv, WireInv, IsFragmentOf, BytesIn, mtu, fragment_count, Current
    <2>3. QED
      BY <1>1, <2>1, <2>2, ResultStays DEF ResultInv
  <1>3. QED
    BY <1>1, <1>2, SendKeepsResultInv, WholeKeepsResultInv, NextPacketKeepsResultInv,
       ArriveKeepsResultInv
       DEF TransferNext, ResultInv

LEMMA ResultsAreInOrder == TransferSpec => []ResultInv
  <1>1. QED
    BY InitResultInv, StepKeepsResultInv, PTL DEF TransferSpec

\* For any number of packets of any lengths, a cache of any size and any number of
\* losses, repetitions and evictions: a packet that is returned is all that was
\* sent of it, in order, if it fits the limit and no other has its number.
THEOREM ReceivedAlwaysIsSent == TransferSpec => []ReceivedIsSent
  <1>1. ResultInv => ReceivedIsSent
    BY DEF ResultInv, WholeUnlessShared, IsWhole, ReceivedIsSent, ReceivedWhole, Unshared
  <1>2. QED
    BY <1>1, ResultsAreInOrder, PTL

\* What the others can become: their own bytes and those of packets of the same
\* number, no range twice, and no more of them than the limit.
THEOREM OnlyMixedBySharedId == TransferSpec => []MixedOnlyBySharedId
  <1>1. ResultInv => MixedOnlyBySharedId
    BY DEF ResultInv, Result, MixedOnlyBySharedId
  <1>2. QED
    BY <1>1, ResultsAreInOrder, PTL
=============================================================================
