----------------------------- MODULE Reassembly -----------------------------
(***************************************************************************)
(* SourceDatagramStream.handle_fragments (transport.py) for a fragment     *)
(* that is decoded: fragments arrive in any order, any number of times,    *)
(* and of several packets at once; the packets being put together are kept *)
(* in an LRU cache.  Modules Transfer and Receive say what arrives.        *)
(***************************************************************************)
EXTENDS Integers, Sequences, SequencesExt

CONSTANTS
  MAX_FRAGMENTS_PER_PACKET,
  LruSize                      \* pylru.lrucache(size=1024)

ASSUME ReassemblyAssumption ==
  /\ MAX_FRAGMENTS_PER_PACKET \in Nat \ {0}
  /\ LruSize \in Nat \ {0}

VARIABLE fragments    \* the cache: entries, the most recently used one first

ReassemblyInit == fragments = <<>>

-----------------------------------------------------------------------------
\* Fault: the packet is not trimmed.
NewEntryUntrimmed(f) ==
  [message_id |-> f.message_id, fragment_count |-> f.fragment_count, packet_fragments |-> <<>>]

NewEntry(f) ==
  [message_id |-> f.message_id,
   fragment_count |-> IF f.fragment_count > MAX_FRAGMENTS_PER_PACKET
                      THEN MAX_FRAGMENTS_PER_PACKET ELSE f.fragment_count,
   packet_fragments |-> <<>>]

IsOf(entry, f) == entry.message_id = f.message_id

IsKnown(f) == \E i \in DOMAIN fragments : IsOf(fragments[i], f)
Place(f) == CHOOSE i \in DOMAIN fragments : IsOf(fragments[i], f)

EntryOf(f) == IF IsKnown(f) THEN fragments[Place(f)] ELSE NewEntry(f)
Others(f) == IF IsKnown(f) THEN RemoveAt(fragments, Place(f)) ELSE fragments

\* A look-up or an insertion moves the entry to the front; an insertion into a
\* full cache evicts the entry at the end.
Touched(f) ==
  LET cache == <<EntryOf(f)>> \o Others(f)
  IN SubSeq(cache, 1, IF Len(cache) > LruSize THEN LruSize ELSE Len(cache))

\* Fault: duplicates count.
WithAnyFragment(known, f) == Append(known, f)

\* A fragment with an id the packet already has is a duplicate.
WithFragment(known, f) ==
  IF \E g \in Range(known) : g.fragment_id = f.fragment_id THEN known ELSE Append(known, f)

Known(f) == WithFragment(EntryOf(f).packet_fragments, f)

\* Enough fragments, which for a packet of too many need not be its first ones
Completes(f) == Len(Known(f)) >= EntryOf(f).fragment_count

\* packet_fragments.sort: the same fragments in the order of their ids
Sorted(known) ==
  LET order == CHOOSE p \in Injection(DOMAIN known, DOMAIN known) :
                 \A i, j \in DOMAIN known :
                   i < j => known[p[i]].fragment_id <= known[p[j]].fragment_id
  IN [i \in DOMAIN known |-> known[order[i]]]

\* What handle_fragments returns when they are: the contents, by fragment_id
Joined(f) ==
  LET sorted == Sorted(Known(f))
  IN [i \in DOMAIN sorted |-> sorted[i].content]

\* Fault: the entry is not popped.
handle_fragments_keeping(f) ==
  fragments' = [Touched(f) EXCEPT ![1].packet_fragments = Known(f)]

handle_fragments(f) ==
  fragments' = IF Completes(f) THEN Tail(Touched(f))
               ELSE [Touched(f) EXCEPT ![1].packet_fragments = Known(f)]
=============================================================================
