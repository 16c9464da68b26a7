------------------------------ MODULE MCReceive -----------------------------
(***************************************************************************)
(* Receive with short names and lists of two.                              *)
(***************************************************************************)
EXTENDS Receive

Long(n) == <<n, 0, 0, 0>>
Minus1 == <<255, 255, 255, 255>>

MCMessages ==
  {[class |-> "InfoRequest", values |-> [payload |-> DefaultPayload]],
   [class |-> "InfoRequest", values |-> [payload |-> <<>>]],
   [class |-> "InfoRequestV2", values |-> <<>>],
   [class |-> "InfoRequestV2", values |-> [payload |-> <<66>>]],
   [class |-> "InfoRequestV2", values |-> [challenge |-> Long(0)]],
   [class |-> "PlayersRequest", values |-> [challenge |-> Minus1]],
   [class |-> "RulesRequest", values |-> [challenge |-> Long(0)]],
   [class |-> "GetChallengeResponse", values |-> [challenge |-> Long(7)]]}

Encoded == {EncodePacket(Fields[m.class], m.values) : m \in MCMessages}

Info(server_type, platform) ==
  EncodePacket(Fields.InfoResponse,
    [response_type |-> 73, protocol |-> 17, server_name |-> <<65>>, map |-> <<>>, folder |-> <<>>,
     game |-> <<>>, app_id |-> -1, player_count |-> 2, max_players |-> 3, bot_count |-> 0,
     server_type |-> server_type, platform |-> platform, password_protected |-> 0,
     vac_enabled |-> 1, version |-> <<49>>])

Entry(name) ==
  Encode(PlayerEntry, [index |-> 0, name |-> <<name>>, score |-> Minus1, duration |-> Long(1)])
Rule(key, value) == <<key, 0, value, 0>>

\* A list with the count that it announces
List(type, count, entries) == NO_SPLIT \o <<type>> \o count \o FlattenSeq(entries)

TwoPlayers == List(68, <<2>>, <<Entry(65), Entry(66)>>)
TwoRules == List(69, <<2, 0>>, <<Rule(65, 48), Rule(66, 49)>>)

\* What follows the version
Extra == <<177, 4, 8, 7>>

MCResponses ==
  {Info(100, 108), Info(100, 108) \o Extra, Info(100, 7), Info(1, 108), TwoPlayers, List(68, <<1>>, <<Entry(65)>>),
   List(68, <<0>>, <<>>), TwoRules, List(69, <<2, 0>>, <<Rule(65, 48), Rule(65, 49)>>)}

\* Some of the ways to lose the end, and a number of rules that is negative
Cut == UNION {{SubSeq(p, 1, n) : n \in {6, Len(p) - 4, Len(p) - 1}} : p \in MCResponses}
Negative == List(69, <<255, 255>>, <<Rule(65, 48)>>)

\* Fragments
Split(message_id, count, i, content) ==
  EncodeFragment(Fragment, [message_id |-> message_id, fragment_count |-> count,
                            fragment_id |-> i, mtu |-> 1188]) \o content
SplitCompressed(message_id, count, i, content) ==
  EncodeFragment(CompressedFragment, [message_id |-> message_id, fragment_count |-> count,
                                      fragment_id |-> i, size |-> Long(9), crc |-> Long(9)])
    \o content

FirstHalf(p) == SubSeq(p, 1, Len(p) \div 2)
SecondHalf(p) == SubSeq(p, Len(p) \div 2 + 1, Len(p))
InHalves(message_id, p) ==
  {Split(message_id, 2, 0, FirstHalf(p)), Split(message_id, 2, 1, SecondHalf(p))}

SmallRequest == EncodePacket(Fields.RulesRequest, [challenge |-> Long(0)])
NoHeader == <<1, 2, 3, 4, 5, 6>>
SignBit == <<1, 0, 0, 128>>

MCLarge == {TwoRules, SmallRequest}

\* A request in halves; a compressed response in one fragment, one in two, each
\* half by itself, and one of which the whole was compressed; what is no packet
\* once it is joined; a fragment whose header is cut.
MCFragments ==
  InHalves(Long(2), SmallRequest)
    \union {SplitCompressed(SignBit, 1, 0, Compress(TwoRules)),
            SplitCompressed(<<2, 0, 0, 128>>, 2, 0, Compress(FirstHalf(TwoRules))),
            SplitCompressed(<<2, 0, 0, 128>>, 2, 1, Compress(SecondHalf(TwoRules))),
            SplitCompressed(<<3, 0, 0, 128>>, 2, 0, FirstHalf(Compress(TwoRules))),
            SplitCompressed(<<3, 0, 0, 128>>, 2, 1, SecondHalf(Compress(TwoRules))),
            Split(Long(3), 0, 0, NoHeader),
            SubSeq(Split(Long(1), 2, 0, <<>>), 1, 9)}

MCWire == Encoded \union MCResponses \union Cut \union MCFragments \union {Negative, NoHeader}
=============================================================================
