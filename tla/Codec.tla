-------------------------------- MODULE Codec -------------------------------
(***************************************************************************)
(* source/messages.py: how messages are put into bytes and read from them. *)
(* A buffer is a sequence of bytes.  Of numbers of four bytes only         *)
(* equality matters, so their bytes stand for them.                        *)
(***************************************************************************)
EXTENDS Integers, Sequences, SequencesExt

Byte == 0..255

NO_SPLIT == <<255, 255, 255, 255>>    \* -1
SPLIT == <<254, 255, 255, 255>>       \* -2

-----------------------------------------------------------------------------
\* Fields.  `valid` is what the validators accept, {} for anything; `default`
\* is what encode writes when no value is given: nothing for optional fields
\* without a default.  (A missing value of a required field is a ValueError.)
Field(name, kind) == [name |-> name, kind |-> kind, valid |-> {}, default |-> <<>>]
Validated(name, kind, valid) == [Field(name, kind) EXCEPT !.valid = valid]
Tag(name, byte) == [Validated(name, "byte", {byte}) EXCEPT !.default = <<byte>>]
Repeated(name, kind, element, count) ==
  [name |-> name, kind |-> kind, element |-> element, count |-> count]

Platforms == {108, 109, 111, 119}
ServerTypes == {100, 108, 112}

\* "Source Engine Query", in short
DefaultPayload == <<83>>

Header == <<Validated("split", "long", {SPLIT, NO_SPLIT})>>
Fragment == <<Field("message_id", "long"), Field("fragment_count", "byte"),
              Field("fragment_id", "byte"), Field("mtu", "short")>>
CompressedFragment == SubSeq(Fragment, 1, 3) \o <<Field("size", "long"), Field("crc", "long")>>

InfoRequest ==
  <<Tag("request_type", 84),
    [Field("payload", "string") EXCEPT !.default = Append(DefaultPayload, 0)]>>

PlayerEntry == <<Field("index", "byte"), Field("name", "string"), Field("score", "long"),
                 Field("duration", "float")>>

\* The fields of each class of messages
Fields ==
  [InfoRequest |-> InfoRequest,
   InfoRequestV2 |-> Append(InfoRequest, Field("challenge", "long")),
   PlayersRequest |-> <<Tag("request_type", 85), Field("challenge", "long")>>,
   RulesRequest |-> <<Tag("request_type", 86), Field("challenge", "long")>>,
   GetChallengeResponse |-> <<Tag("response_type", 65), Field("challenge", "long")>>,
   InfoResponse |->
     <<Validated("response_type", "byte", {73}), Field("protocol", "byte"),
       Field("server_name", "string"), Field("map", "string"), Field("folder", "string"),
       Field("game", "string"), Field("app_id", "short"), Field("player_count", "byte"),
       Field("max_players", "byte"), Field("bot_count", "byte"),
       Validated("server_type", "enum", ServerTypes), Validated("platform", "enum", Platforms),
       Field("password_protected", "byte"), Field("vac_enabled", "byte"),
       Field("version", "string")>>,
   PlayersResponse |->
     <<Validated("response_type", "byte", {68}), Field("player_count", "byte"),
       Repeated("players", "array", PlayerEntry, "player_count")>>,
   RulesResponse |->
     <<Validated("response_type", "byte", {69}), Field("rule_count", "short"),
       Repeated("rules", "dict", <<Field("key", "string"), Field("value", "string")>>,
                "rule_count")>>]

\* Fault: the requests are tried in the order of their age.
request_classes_by_age == <<"InfoRequest", "InfoRequestV2", "PlayersRequest", "RulesRequest">>

request_message_classes == <<"InfoRequestV2", "InfoRequest", "PlayersRequest", "RulesRequest">>
response_message_classes ==
  <<"InfoResponse", "PlayersResponse", "RulesResponse", "GetChallengeResponse">>

-----------------------------------------------------------------------------
Size == [byte |-> 1, enum |-> 1, short |-> 2, long |-> 4, float |-> 4]

\* decode('utf8', 'ignore'), for ASCII and the bytes that UTF-8 never has
Utf8Ignore(b) ==
  LET kept[i \in 0 .. Len(b)] ==
        IF i = 0 THEN <<>> ELSE IF b[i] < 128 THEN Append(kept[i - 1], b[i]) ELSE kept[i - 1]
  IN kept[Len(b)]

Signed16(n) == IF n >= 32768 THEN n - 65536 ELSE n

ValueOf(kind, b) ==
  CASE kind = "string" -> Utf8Ignore(Front(b))
    [] kind \in {"byte", "enum"} -> b[1]
    [] kind = "short" -> Signed16(b[1] + 256 * b[2])
    [] OTHER -> b

\* Fault: without a terminator the string is all there is.
StringLengthOrAll(b) ==
  LET n == SelectInSeq(b, LAMBDA x : x = 0) IN IF n = 0 THEN Len(b) ELSE n

\* A string with its terminator, 0 if that is missing
StringLength(b) == SelectInSeq(b, LAMBDA x : x = 0)

\* Fault: a validator's exception is let through.
InvalidRaises(kind) == "raised"

\* A mapping with one more entry
With(f, x, y) == [z \in DOMAIN f \union {x} |-> IF z = x THEN y ELSE f[z]]

\* A validator makes the message broken.  Platform and ServerType are made
\* from the byte after it has been validated: their ValueError is nobody's.
Invalid(kind) == IF kind = "enum" THEN "raised" ELSE "broken"

\* decode of one field from the first n bytes of what is left of the buffer
Take(m, f, n, value) ==
  IF n = 0 \/ Len(m.rest) < n THEN [m EXCEPT !.status = "broken"]
  ELSE IF f.valid # {} /\ value \notin f.valid THEN [m EXCEPT !.status = Invalid(f.kind)]
  ELSE [m EXCEPT !.values = With(@, f.name, value), !.rest = SubSeq(@, n + 1, Len(@))]

ReadField(m, f) ==
  LET n == IF f.kind = "string" THEN StringLength(m.rest) ELSE Size[f.kind]
  IN Take(m, f, n, ValueOf(f.kind, SubSeq(m.rest, 1, n)))

Start(b) == [status |-> "ok", values |-> <<>>, rest |-> b]
Then(m, f) == IF m.status = "ok" THEN ReadField(m, f) ELSE m

\* The fields of a message of which none is repeated
Read(fields, b) ==
  LET after[i \in 0 .. Len(fields)] == IF i = 0 THEN Start(b) ELSE Then(after[i - 1], fields[i])
  IN after[Len(fields)]

\* Fault: value_of sets the bound only once.
FirstMinimum(f, values, minimum) ==
  IF f.name \in DOMAIN minimum THEN minimum[f.name] ELSE values[f.count]

\* value_of sets it anew whenever the loop asks for the count.
Minimum(f, values, minimum) == values[f.count]

\* One turn of the loop of MessageArrayField.decode, with what decode returned: a
\* broken entry is the end of the list.
WithEntry(l, e) ==
  IF e.status = "ok" THEN [l EXCEPT !.entries = Append(@, e.values), !.rest = e.rest]
  ELSE [l EXCEPT !.ended = TRUE]

NextEntry(l, element) == IF l.ended THEN l ELSE WithEntry(l, Read(element, l.rest))

ReadEntries(element, count, rest) ==
  LET turns == Max({0, count})
      after[i \in 0 .. turns] ==
        IF i = 0 THEN [entries |-> <<>>, rest |-> rest, ended |-> FALSE]
        ELSE NextEntry(after[i - 1], element)
  IN after[turns]

\* MessageDictField.decode: the last of several values of a key stays.
AsDict(entries) ==
  [key \in {e.key : e \in Range(entries)} |->
     entries[Max({i \in DOMAIN entries : entries[i].key = key})].value]

\* A list that ends early is broken unless it has `minimum` entries.
WithList(m, f, min, l) ==
  [m EXCEPT !.status = IF l.ended /\ Len(l.entries) < min THEN "broken" ELSE "ok",
            !.values = With(@, f.name, IF f.kind = "dict" THEN AsDict(l.entries) ELSE l.entries),
            !.rest = l.rest,
            !.minimum = With(@, f.name, min)]

ReadRepeated(m, f) ==
  WithList(m, f, Minimum(f, m.values, m.minimum),
           ReadEntries(f.element, m.values[f.count], m.rest))

ThenAny(m, f) ==
  IF m.status = "ok" /\ f.kind \in {"array", "dict"} THEN ReadRepeated(m, f) ELSE Then(m, f)

\* Message.decode
Decode(class, b, minimum) ==
  LET fields == Fields[class]
      after[i \in 0 .. Len(fields)] ==
        IF i = 0 THEN [status |-> "ok", values |-> <<>>, rest |-> b, minimum |-> minimum]
        ELSE ThenAny(after[i - 1], fields[i])
  IN after[Len(fields)]

Outcomes == [ok |-> "message", broken |-> "none", raised |-> "raises"]

AsMessage(class, m) ==
  [is |-> Outcomes[m.status], minimum |-> m.minimum,
   message |-> IF m.status = "ok" THEN [class |-> class, values |-> m.values] ELSE <<>>]

Try(r, class, b) ==
  IF r.is = "none" THEN AsMessage(class, Decode(class, b, r.minimum)) ELSE r

\* transport.decode_packet: the first class that can read the packet.  A broken
\* header and what a class raises go through.
DecodeBody(header, classes, minimum) ==
  LET after[i \in 0 .. Len(classes)] ==
        IF i = 0 THEN [is |-> IF header.status = "ok" THEN "none" ELSE "raises",
                       message |-> <<>>, minimum |-> minimum]
        ELSE Try(after[i - 1], classes[i], header.rest)
  IN after[Len(classes)]

decode_packet(b, classes, minimum) == DecodeBody(Read(Header, b), classes, minimum)

-----------------------------------------------------------------------------
Bytes(kind, value) ==
  CASE kind = "string" -> Append(value, 0)
    [] kind \in {"byte", "enum"} -> <<value>>
    [] kind = "short" -> <<value % 256, (value \div 256) % 256>>
    [] OTHER -> value

\* Message.encode of fields that are not repeated
Encode(fields, values) ==
  FlattenSeq([i \in DOMAIN fields |->
    LET f == fields[i] IN
    IF f.name \in DOMAIN values THEN Bytes(f.kind, values[f.name]) ELSE f.default])

\* Packet.encode
EncodePacket(fields, values) == NO_SPLIT \o Encode(fields, values)
EncodeFragment(fields, values) == SPLIT \o Encode(fields, values)
=============================================================================
