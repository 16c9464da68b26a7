---------------------------- MODULE ReceiveProofs ---------------------------
(***************************************************************************)
(* For whatever may arrive: what a packet is read as does not depend on    *)
(* the packets before it, only a few things raise, the messages of this    *)
(* package are read as they were made, and of the packets of the game      *)
(* server none is read that lost what a field reads.  Decoding is followed *)
(* from field to field, once with the bytes that encode wrote and once     *)
(* side by side with a packet that goes on.                                *)
(***************************************************************************)
EXTENDS Receive, Induction, SequenceTheorems, TLAPS

\* The loops of decode: over the fields of a message, over those of an entry, and
\* over the entries of a list.  Each of them has one outcome after every turn.
LoopTurn(loop, m, x) ==
  CASE loop = "fields" -> ThenAny(m, x) [] loop = "plain" -> Then(m, x)
    [] loop = "entries" -> NextEntry(m, x)

IsLoop(g, loop, start, xs, n) ==
  g = [i \in 0 .. n |-> IF i = 0 THEN start ELSE LoopTurn(loop, g[i - 1], xs[i])]

DecodeStart(b, min) == [status |-> "ok", values |-> <<>>, rest |-> b, minimum |-> min]
NoEntries(rest) == [entries |-> <<>>, rest |-> rest, ended |-> FALSE]

IsDecodeLoop(g, fields, b, min, n) ==
  g = [i \in 0 .. n |-> IF i = 0 THEN DecodeStart(b, min) ELSE ThenAny(g[i - 1], fields[i])]

IsReadLoop(g, fields, b, n) ==
  g = [i \in 0 .. n |-> IF i = 0 THEN Start(b) ELSE Then(g[i - 1], fields[i])]

IsEntriesLoop(g, element, rest, n) ==
  g = [i \in 0 .. n |-> IF i = 0 THEN NoEntries(rest) ELSE NextEntry(g[i - 1], element)]

LEMMA LoopExists ==
  ASSUME NEW loop, NEW start, NEW xs, NEW n \in Nat
  PROVE  \E g : IsLoop(g, loop, start, xs, n)
  <1> DEFINE T == {m \in Nat : \E g : IsLoop(g, loop, start, xs, m)}
  <1>1. 0 \in T
    <2> DEFINE h == [i \in 0 .. 0 |-> start]
    <2>1. h = [i \in 0 .. 0 |-> IF i = 0 THEN start ELSE LoopTurn(loop, h[i - 1], xs[i])]
      OBVIOUS
    <2> HIDE DEF h
    <2>2. QED
      BY <2>1 DEF IsLoop
  <1>2. ASSUME NEW m \in Nat, m \in T
        PROVE  m + 1 \in T
    <2>1. PICK g : IsLoop(g, loop, start, xs, m)
      BY <1>2
    <2> DEFINE h == [i \in 0 .. m + 1 |->
                       IF i = m + 1 THEN LoopTurn(loop, g[m], xs[m + 1]) ELSE g[i]]
    <2>2. \A i \in 0 .. m : h[i] = g[i]
      OBVIOUS
    <2>3. h[m + 1] = LoopTurn(loop, g[m], xs[m + 1])
      OBVIOUS
    <2>4. h = [i \in 0 .. m + 1 |-> h[i]]
      OBVIOUS
    <2> HIDE DEF h
    <2>5. ASSUME NEW i \in 0 .. m + 1
          PROVE  h[i] = IF i = 0 THEN start ELSE LoopTurn(loop, h[i - 1], xs[i])
      <3>1. CASE i = m + 1
        <4>1. i - 1 = m /\ m \in 0 .. m /\ i # 0
          BY <3>1
        <4>2. QED
          BY <2>2, <2>3, <3>1, <4>1
      <3>2. CASE i # m + 1
        <4>1. i \in 0 .. m /\ (i # 0 => i - 1 \in 0 .. m)
          BY <3>2
        <4>2. g[i] = IF i = 0 THEN start ELSE LoopTurn(loop, g[i - 1], xs[i])
          BY <2>1, <4>1 DEF IsLoop
        <4>3. QED
          BY <2>2, <4>1, <4>2
      <3>3. QED
        BY <3>1, <3>2
    <2>6. IsLoop(h, loop, start, xs, m + 1)
      BY <2>4, <2>5 DEF IsLoop
    <2>7. QED
      BY <2>6
  <1>3. Nat \subseteq T
    <2> HIDE DEF T
    <2>1. QED
      BY <1>1, <1>2, NatInduct
  <1>4. QED
    BY <1>3

\* The fields of a message
LEMMA DecodeLoopExists ==
  ASSUME NEW fields, NEW b, NEW min, NEW n \in Nat
  PROVE  \E g : IsDecodeLoop(g, fields, b, min, n)
  <1>1. \A m, x : LoopTurn("fields", m, x) = ThenAny(m, x)
    BY DEF LoopTurn
  <1>2. PICK g : IsLoop(g, "fields", DecodeStart(b, min), fields, n)
    BY LoopExists
  <1>3. IsDecodeLoop(g, fields, b, min, n)
    BY <1>1, <1>2 DEF IsLoop, IsDecodeLoop
  <1>4. QED
    BY <1>3

LEMMA DecodeIs ==
  ASSUME NEW class, NEW n \in Nat, Len(Fields[class]) = n, NEW b, NEW min
  PROVE  \E g : IsDecodeLoop(g, Fields[class], b, min, n) /\ Decode(class, b, min) = g[n]
  <1> DEFINE fields == Fields[class]
             after == CHOOSE g : IsDecodeLoop(g, fields, b, min, Len(fields))
  <1>1. Decode(class, b, min) = after[Len(fields)]
    BY Zenon DEF Decode, IsDecodeLoop, DecodeStart
  <1>2. Len(fields) = n
    OBVIOUS
  <1> HIDE DEF fields
  <1>3. \E g : IsDecodeLoop(g, fields, b, min, n)
    BY DecodeLoopExists
  <1>4. IsDecodeLoop(after, fields, b, min, n)
    BY <1>2, <1>3
  <1>5. QED
    BY <1>1, <1>2, <1>4 DEF fields

\* The fields of a header or of an entry
LEMMA ReadLoopExists ==
  ASSUME NEW fields, NEW b, NEW n \in Nat
  PROVE  \E g : IsReadLoop(g, fields, b, n)
  <1>1. \A m, x : LoopTurn("plain", m, x) = Then(m, x)
    BY DEF LoopTurn
  <1>2. PICK g : IsLoop(g, "plain", Start(b), fields, n)
    BY LoopExists
  <1>3. IsReadLoop(g, fields, b, n)
    BY <1>1, <1>2 DEF IsLoop, IsReadLoop
  <1>4. QED
    BY <1>3

LEMMA ReadIs ==
  ASSUME NEW fields, NEW n \in Nat, Len(fields) = n, NEW b
  PROVE  \E g : IsReadLoop(g, fields, b, n) /\ Read(fields, b) = g[n]
  <1> DEFINE after == CHOOSE g : IsReadLoop(g, fields, b, Len(fields))
  <1>1. Read(fields, b) = after[Len(fields)]
    BY Zenon DEF Read, IsReadLoop
  <1>2. Len(fields) = n
    OBVIOUS
  <1>3. \E g : IsReadLoop(g, fields, b, n)
    BY ReadLoopExists
  <1>4. IsReadLoop(after, fields, b, n)
    BY <1>2, <1>3
  <1>5. QED
    BY <1>1, <1>2, <1>4

\* The entries of a list, as many as its count says
LEMMA EntriesLoopExists ==
  ASSUME NEW element, NEW rest, NEW n \in Nat
  PROVE  \E g : IsEntriesLoop(g, element, rest, n)
  <1> DEFINE xs == [i \in 0 .. n |-> element]
  <1>1. \A m, x : LoopTurn("entries", m, x) = NextEntry(m, x)
    BY DEF LoopTurn
  <1>2. \A i \in 0 .. n : xs[i] = element
    OBVIOUS
  <1> HIDE DEF xs
  <1>3. PICK g : IsLoop(g, "entries", NoEntries(rest), xs, n)
    BY LoopExists
  <1>4. IsEntriesLoop(g, element, rest, n)
    BY <1>1, <1>2, <1>3 DEF IsLoop, IsEntriesLoop
  <1>5. QED
    BY <1>4

Turns(count) == IF count > 0 THEN count ELSE 0

LEMMA TurnsIs ==
  ASSUME NEW count \in Int
  PROVE  Max({0, count}) = Turns(count) /\ Turns(count) \in Nat
  <1> DEFINE Is(x) == x \in {0, count} /\ \A y \in {0, count} : x >= y
  <1>1. Is(Turns(count)) /\ Turns(count) \in Nat
    BY DEF Turns
  <1>2. \A x, y : Is(x) /\ Is(y) => x = y
    OBVIOUS
  <1>3. Max({0, count}) = CHOOSE x : Is(x)
    BY DEF Max
  <1> HIDE DEF Is
  <1>4. QED
    BY <1>1, <1>2, <1>3

LEMMA EntriesIs ==
  ASSUME NEW element, NEW count \in Int, NEW rest
  PROVE  \E g : /\ IsEntriesLoop(g, element, rest, Turns(count))
                /\ ReadEntries(element, count, rest) = g[Turns(count)]
  <1> DEFINE n == Max({0, count})
             after == CHOOSE g : IsEntriesLoop(g, element, rest, n)
  <1>1. ReadEntries(element, count, rest) = after[n]
    BY Zenon DEF ReadEntries, IsEntriesLoop, NoEntries
  <1>2. n = Turns(count) /\ n \in Nat
    BY TurnsIs
  <1> HIDE DEF n
  <1>3. \E g : IsEntriesLoop(g, element, rest, n)
    BY <1>2, EntriesLoopExists
  <1>4. IsEntriesLoop(after, element, rest, n)
    BY <1>3
  <1>5. QED
    BY <1>1, <1>2, <1>4

-----------------------------------------------------------------------------
\* The header is one field.
LEMMA ReadHeader ==
  ASSUME NEW b
  PROVE  Read(Header, b) = Then(Start(b), Header[1])
  <1> DEFINE n == 1
  <1>1. Len(Header) = n /\ n \in Nat
    BY DEF Header
  <1> HIDE DEF n
  <1>2. PICK g : IsReadLoop(g, Header, b, n) /\ Read(Header, b) = g[n]
    BY <1>1, ReadIs
  <1>3. g[0] = Start(b) /\ g[1] = Then(g[0], Header[1])
    BY <1>2 DEF IsReadLoop, n
  <1>4. QED
    BY <1>2, <1>3 DEF n

\* A packet of no bytes has no header.
LEMMA NothingHasNoHeader == Read(Header, <<>>).status = "broken"
  <1>1. Header[1].kind = "long" /\ Size["long"] = 4
    BY DEF Header, Validated, Field, Size
  <1>2. Start(<<>>).status = "ok" /\ Start(<<>>).rest = <<>> /\ "status" \in DOMAIN Start(<<>>)
    BY DEF Start
  <1>3. Len(<<>>) < 4
    OBVIOUS
  <1>4. ReadField(Start(<<>>), Header[1]).status = "broken"
    BY <1>1, <1>2, <1>3 DEF ReadField, Take
  <1>5. QED
    BY <1>2, <1>4, ReadHeader DEF Then

-----------------------------------------------------------------------------
\* What decode keeps, and what of it does not depend on the bounds
Statuses == {"ok", "broken", "raised"}
IsState(m) == DOMAIN m = {"status", "values", "rest", "minimum"} /\ m.status \in Statuses
Same(m1, m2) == m1.status = m2.status /\ m1.values = m2.values /\ m1.rest = m2.rest

\* One field: only the validator of an enum raises.
LEMMA TakeKeepsState ==
  ASSUME NEW m, IsState(m), NEW f, NEW n, NEW value
  PROVE  /\ IsState(Take(m, f, n, value))
         /\ Take(m, f, n, value).status = "raised" => f.kind = "enum" \/ m.status = "raised"
  <1>1. Invalid(f.kind) \in Statuses /\ (Invalid(f.kind) = "raised" => f.kind = "enum")
    BY DEF Invalid, Statuses
  <1>2. QED
    BY <1>1 DEF Take, IsState, Statuses

LEMMA TakeForgets ==
  ASSUME NEW m1, IsState(m1), NEW m2, IsState(m2), Same(m1, m2), NEW f, NEW n, NEW value
  PROVE  Same(Take(m1, f, n, value), Take(m2, f, n, value))
  BY DEF Take, IsState, Same

LEMMA ThenKeepsState ==
  ASSUME NEW m, IsState(m), NEW f
  PROVE  /\ IsState(Then(m, f))
         /\ Then(m, f).status = "raised" => f.kind = "enum" \/ m.status = "raised"
  BY TakeKeepsState DEF Then, ReadField

LEMMA ThenForgets ==
  ASSUME NEW m1, IsState(m1), NEW m2, IsState(m2), Same(m1, m2), NEW f
  PROVE  Same(Then(m1, f), Then(m2, f))
  <1> DEFINE n == IF f.kind = "string" THEN StringLength(m1.rest) ELSE Size[f.kind]
             value == ValueOf(f.kind, SubSeq(m1.rest, 1, n))
  <1>1. m1.rest = m2.rest /\ m1.status = m2.status
    BY DEF Same
  <1>2. ReadField(m1, f) = Take(m1, f, n, value)
    BY DEF ReadField
  <1>3. ReadField(m2, f) = Take(m2, f, n, value)
    BY <1>1 DEF ReadField
  <1> HIDE DEF n, value
  <1>4. Same(ReadField(m1, f), ReadField(m2, f))
    BY <1>2, <1>3, TakeForgets
  <1>5. QED
    BY <1>1, <1>4 DEF Then

\* A list: its bound is set anew, from the values.
LEMMA RepeatedKeepsState ==
  ASSUME NEW m, IsState(m), NEW f
  PROVE  IsState(ReadRepeated(m, f)) /\ ReadRepeated(m, f).status # "raised"
  BY DEF ReadRepeated, WithList, IsState, Statuses

LEMMA RepeatedForgets ==
  ASSUME NEW m1, IsState(m1), NEW m2, IsState(m2), Same(m1, m2), NEW f
  PROVE  Same(ReadRepeated(m1, f), ReadRepeated(m2, f))
  <1> DEFINE min == m1.values[f.count]
             l == ReadEntries(f.element, m1.values[f.count], m1.rest)
  <1>1. ReadRepeated(m1, f) = WithList(m1, f, min, l)
    BY DEF ReadRepeated, Minimum
  <1>2. ReadRepeated(m2, f) = WithList(m2, f, min, l)
    BY DEF ReadRepeated, Minimum, Same
  <1> HIDE DEF min, l
  <1>3. Same(WithList(m1, f, min, l), WithList(m2, f, min, l))
    BY DEF WithList, IsState, Same
  <1>4. QED
    BY <1>1, <1>2, <1>3

LEMMA StepKeepsState ==
  ASSUME NEW m, IsState(m), NEW f
  PROVE  /\ IsState(ThenAny(m, f))
         /\ ThenAny(m, f).status = "raised" => f.kind = "enum" \/ m.status = "raised"
  BY ThenKeepsState, RepeatedKeepsState DEF ThenAny

LEMMA StepForgets ==
  ASSUME NEW m1, IsState(m1), NEW m2, IsState(m2), Same(m1, m2), NEW f
  PROVE  Same(ThenAny(m1, f), ThenAny(m2, f))
  <1>1. m1.status = m2.status
    BY DEF Same
  <1>2. QED
    BY <1>1, ThenForgets, RepeatedForgets DEF ThenAny

-----------------------------------------------------------------------------
\* A class that has no enum never raises.
RaisesNothing(fields) == \A i \in 1 .. Len(fields) : fields[i].kind # "enum"

LEMMA DecodeKeepsState ==
  ASSUME NEW class, Len(Fields[class]) \in Nat, NEW b, NEW min
  PROVE  /\ IsState(Decode(class, b, min))
         /\ RaisesNothing(Fields[class]) => Decode(class, b, min).status # "raised"
  <1> DEFINE fields == Fields[class]
             n == Len(fields)
  <1>1. PICK g : IsDecodeLoop(g, fields, b, min, n) /\ Decode(class, b, min) = g[n]
    BY DecodeIs
  <1> DEFINE T == {i \in 0 .. n : /\ IsState(g[i])
                                  /\ RaisesNothing(fields) => g[i].status # "raised"}
  <1>2. n \in Nat
    OBVIOUS
  <1> HIDE DEF n
  <1>3. 0 \in T
    <2>1. g[0] = DecodeStart(b, min)
      BY <1>1, <1>2 DEF IsDecodeLoop
    <2>2. IsState(g[0]) /\ g[0].status = "ok"
      BY <2>1 DEF DecodeStart, IsState, Statuses
    <2>3. 0 \in 0 .. n
      BY <1>2
    <2>4. QED
      BY <2>2, <2>3
  <1>4. ASSUME NEW i \in 0 .. n - 1, i \in T
        PROVE  i + 1 \in T
    <2>1. i + 1 \in 0 .. n /\ i + 1 \in 1 .. n /\ i + 1 # 0 /\ (i + 1) - 1 = i
      BY <1>2
    <2>2. g[i + 1] = ThenAny(g[i], fields[i + 1])
      BY <1>1, <2>1 DEF IsDecodeLoop
    <2>3. IsState(g[i]) /\ (RaisesNothing(fields) => g[i].status # "raised")
      BY <1>4
    <2>4. RaisesNothing(fields) => fields[i + 1].kind # "enum"
      BY <2>1 DEF RaisesNothing, n
    <2>5. QED
      BY <2>1, <2>2, <2>3, <2>4, StepKeepsState
  <1>5. n \in T
    <2> HIDE DEF T
    <2>1. 0 .. n \subseteq T
      BY <1>2, <1>3, <1>4, IntervalInduct
    <2>2. QED
      BY <1>2, <2>1
  <1>6. QED
    BY <1>1, <1>5

LEMMA DecodeForgets ==
  ASSUME NEW class, Len(Fields[class]) \in Nat, NEW b, NEW min1, NEW min2
  PROVE  Same(Decode(class, b, min1), Decode(class, b, min2))
  <1> DEFINE fields == Fields[class]
             n == Len(fields)
  <1>1. PICK g : IsDecodeLoop(g, fields, b, min1, n) /\ Decode(class, b, min1) = g[n]
    BY DecodeIs
  <1>2. PICK h : IsDecodeLoop(h, fields, b, min2, n) /\ Decode(class, b, min2) = h[n]
    BY DecodeIs
  <1> DEFINE T == {i \in 0 .. n : IsState(g[i]) /\ IsState(h[i]) /\ Same(g[i], h[i])}
  <1>3. n \in Nat
    OBVIOUS
  <1> HIDE DEF fields, n
  <1>4. 0 \in T
    <2>1. g[0] = DecodeStart(b, min1) /\ h[0] = DecodeStart(b, min2) /\ 0 \in 0 .. n
      BY <1>1, <1>2, <1>3 DEF IsDecodeLoop
    <2>2. QED
      BY <2>1 DEF DecodeStart, IsState, Statuses, Same
  <1>5. ASSUME NEW i \in 0 .. n - 1, i \in T
        PROVE  i + 1 \in T
    <2>1. i + 1 \in 0 .. n /\ i + 1 # 0 /\ (i + 1) - 1 = i
      BY <1>3
    <2>2. /\ g[i + 1] = ThenAny(g[i], fields[i + 1])
          /\ h[i + 1] = ThenAny(h[i], fields[i + 1])
      BY <1>1, <1>2, <2>1 DEF IsDecodeLoop
    <2>3. IsState(g[i]) /\ IsState(h[i]) /\ Same(g[i], h[i])
      BY <1>5
    <2>4. QED
      BY <2>1, <2>2, <2>3, StepKeepsState, StepForgets
  <1>6. n \in T
    <2> HIDE DEF T
    <2>1. 0 .. n \subseteq T
      BY <1>3, <1>4, <1>5, IntervalInduct
    <2>2. QED
      BY <1>3, <2>1
  <1>7. QED
    BY <1>1, <1>2, <1>6

-----------------------------------------------------------------------------
\* The classes of messages: only InfoResponse has enums.
AllClasses == Range(request_message_classes) \union Range(response_message_classes)

LEMMA KindOfField ==
  ASSUME NEW name, NEW kind, NEW valid
  PROVE  /\ Field(name, kind).kind = kind
         /\ Validated(name, kind, valid).kind = kind
  BY DEF Field, Validated

LEMMA KindOfTag ==
  ASSUME NEW name, NEW byte
  PROVE  Tag(name, byte).kind = "byte"
  BY DEF Tag, Field, Validated

LEMMA KindOfRepeated ==
  ASSUME NEW name, NEW kind, NEW element, NEW count
  PROVE  Repeated(name, kind, element, count).kind = kind
  BY DEF Repeated

LEMMA SmallClasses ==
  /\ Fields["InfoRequest"] = InfoRequest
  /\ Fields["InfoRequestV2"] = Append(InfoRequest, Field("challenge", "long"))
  /\ Fields["PlayersRequest"] = <<Tag("request_type", 85), Field("challenge", "long")>>
  /\ Fields["RulesRequest"] = <<Tag("request_type", 86), Field("challenge", "long")>>
  /\ Fields["GetChallengeResponse"] = <<Tag("response_type", 65), Field("challenge", "long")>>
  BY DEF Fields

LEMMA RepeatedClasses ==
  /\ Fields["PlayersResponse"] =
       <<Validated("response_type", "byte", {68}), Field("player_count", "byte"),
         Repeated("players", "array", PlayerEntry, "player_count")>>
  /\ Fields["RulesResponse"] =
       <<Validated("response_type", "byte", {69}), Field("rule_count", "short"),
         Repeated("rules", "dict", <<Field("key", "string"), Field("value", "string")>>,
                  "rule_count")>>
  BY DEF Fields

LEMMA TwoFields ==
  ASSUME NEW f, NEW g, f.kind # "enum", g.kind # "enum"
  PROVE  Len(<<f, g>>) \in Nat /\ RaisesNothing(<<f, g>>)
  BY DEF RaisesNothing

LEMMA ThreeFields ==
  ASSUME NEW f, NEW g, NEW h, f.kind # "enum", g.kind # "enum", h.kind # "enum"
  PROVE  Len(<<f, g, h>>) \in Nat /\ RaisesNothing(<<f, g, h>>)
  BY DEF RaisesNothing

LEMMA InfoRequestKinds ==
  \E f, g : InfoRequest = <<f, g>> /\ f.kind = "byte" /\ g.kind = "string"
  <1> DEFINE f == Tag("request_type", 84)
             g == [Field("payload", "string") EXCEPT !.default = Append(DefaultPayload, 0)]
  <1>1. InfoRequest = <<f, g>>
    BY DEF InfoRequest
  <1>2. g.kind = "string"
    BY DEF Field
  <1>3. f.kind = "byte"
    BY KindOfTag
  <1> HIDE DEF f, g
  <1>4. QED
    BY <1>1, <1>2, <1>3

LEMMA OneMore ==
  ASSUME NEW f, NEW g, NEW h
  PROVE  Append(<<f, g>>, h) = <<f, g, h>>
  <1> DEFINE S == {f, g, h}
             s == <<f, g>>
             t == Append(s, h)
  <1>1. s \in Seq(S) /\ h \in S /\ Len(s) = 2 /\ s[1] = f /\ s[2] = g
    OBVIOUS
  <1> HIDE DEF S, s
  <1>2. t \in Seq(S) /\ Len(t) = 3 /\ t[1] = f /\ t[2] = g /\ t[3] = h
    <2>1. s \in Seq(S) /\ h \in S
      BY <1>1
    <2>2. /\ t \in Seq(S)
          /\ Len(t) = Len(s) + 1
          /\ \A i \in 1 .. Len(s) : t[i] = s[i]
          /\ t[Len(s) + 1] = h
      BY <2>1, AppendProperties
    <2> HIDE DEF t
    <2>3. QED
      BY <1>1, <2>2
  <1> HIDE DEF t
  <1>3. t = <<f, g, h>>
    <2>1. t \in [1 .. 3 -> S]
      BY <1>2
    <2>2. QED
      BY <1>2, <2>1
  <1>4. QED
    BY <1>3 DEF t, s

LEMMA OnlyInfoRaises ==
  ASSUME NEW class \in AllClasses
  PROVE  /\ Len(Fields[class]) \in Nat
         /\ class # "InfoResponse" => RaisesNothing(Fields[class])
  <1>1. PICK f, g : InfoRequest = <<f, g>> /\ f.kind = "byte" /\ g.kind = "string"
    BY InfoRequestKinds
  <1>2. CASE class = "InfoRequest"
    BY <1>1, <1>2, TwoFields, SmallClasses
  <1>3. CASE class = "InfoRequestV2"
    <2>1. Fields[class] = <<f, g, Field("challenge", "long")>>
      BY <1>1, <1>3, SmallClasses, OneMore
    <2>2. QED
      BY <1>1, <2>1, ThreeFields, KindOfField
  <1>4. CASE class \in {"PlayersRequest", "RulesRequest", "GetChallengeResponse"}
    <2>1. PICK tag : tag.kind = "byte" /\ Fields[class] = <<tag, Field("challenge", "long")>>
      BY <1>4, SmallClasses, KindOfTag
    <2>2. Field("challenge", "long").kind = "long"
      BY KindOfField
    <2>3. QED
      BY <2>1, <2>2, TwoFields
  <1>5. CASE class \in {"PlayersResponse", "RulesResponse"}
    <2>1. PICK h, k, l : /\ h.kind = "byte" /\ k.kind \in {"byte", "short"}
                         /\ l.kind \in {"array", "dict"}
                         /\ Fields[class] = <<h, k, l>>
      BY <1>5, RepeatedClasses, KindOfRepeated, KindOfField
    <2>2. QED
      BY <2>1, ThreeFields
  <1>6. CASE class = "InfoResponse"
    BY <1>6 DEF Fields
  <1>7. QED
    BY <1>2, <1>3, <1>4, <1>5, <1>6
      DEF AllClasses, Range, request_message_classes, response_message_classes

-----------------------------------------------------------------------------
\* decode_packet, from class to class: each end has four of them.
IsEnd(cs) == cs \in {request_message_classes, response_message_classes}

TryStart(header, min) ==
  [is |-> IF header.status = "ok" THEN "none" ELSE "raises", message |-> <<>>, minimum |-> min]

AllTried(r, cs, b) == Try(Try(Try(Try(r, cs[1], b), cs[2], b), cs[3], b), cs[4], b)

LEMMA ClassesOfEnd ==
  ASSUME NEW cs, IsEnd(cs)
  PROVE  Len(cs) = 4 /\ \A i \in 1 .. 4 : cs[i] \in AllClasses
  BY DEF IsEnd, AllClasses, Range, request_message_classes, response_message_classes

LEMMA DecodeBodyIs ==
  ASSUME NEW header, NEW cs, IsEnd(cs), NEW min
  PROVE  DecodeBody(header, cs, min) = AllTried(TryStart(header, min), cs, header.rest)
  <1> DEFINE b == header.rest
             r0 == TryStart(header, min)
             r1 == Try(r0, cs[1], b)
             r2 == Try(r1, cs[2], b)
             r3 == Try(r2, cs[3], b)
             r4 == Try(r3, cs[4], b)
             h == [i \in 0 .. 4 |-> IF i = 0 THEN r0 ELSE IF i = 1 THEN r1 ELSE IF i = 2 THEN r2
                                    ELSE IF i = 3 THEN r3 ELSE r4]
             Is(g) == g = [i \in 0 .. Len(cs) |-> IF i = 0 THEN r0 ELSE Try(g[i - 1], cs[i], b)]
             after == CHOOSE g : Is(g)
  <1>0. Len(cs) = 4
    BY ClassesOfEnd
  <1>1. DecodeBody(header, cs, min) = after[Len(cs)]
    BY DEF DecodeBody, TryStart
  <1>2. AllTried(r0, cs, b) = r4
    BY DEF AllTried
  <1>3. r1 = Try(r0, cs[1], b) /\ r2 = Try(r1, cs[2], b) /\ r3 = Try(r2, cs[3], b)
          /\ r4 = Try(r3, cs[4], b)
    OBVIOUS
  <1> HIDE DEF r0, r1, r2, r3, r4, b
  <1>4. h[0] = r0 /\ h[1] = r1 /\ h[2] = r2 /\ h[3] = r3 /\ h[4] = r4 /\ h = [i \in 0 .. 4 |-> h[i]]
    OBVIOUS
  <1> HIDE DEF h
  <1>5. \A i \in 0 .. 4 : h[i] = IF i = 0 THEN r0 ELSE Try(h[i - 1], cs[i], b)
    <2>1. \A i \in 0 .. 4 : i = 0 \/ (i = 1 /\ i - 1 = 0) \/ (i = 2 /\ i - 1 = 1)
                              \/ (i = 3 /\ i - 1 = 2) \/ (i = 4 /\ i - 1 = 3)
      OBVIOUS
    <2>2. QED
      BY <1>3, <1>4, <2>1
  <1>6. Is(h)
    BY <1>0, <1>4, <1>5
  <1> HIDE DEF Is
  <1>7. Is(after)
    BY <1>6
  <1> HIDE DEF after
  <1>8. /\ after[0] = r0 /\ after[1] = Try(after[0], cs[1], b) /\ after[2] = Try(after[1], cs[2], b)
        /\ after[3] = Try(after[2], cs[3], b) /\ after[4] = Try(after[3], cs[4], b)
    <2>1. \A i \in 0 .. 4 : after[i] = IF i = 0 THEN r0 ELSE Try(after[i - 1], cs[i], b)
      BY <1>0, <1>7 DEF Is
    <2>2. QED
      BY <2>1
  <1>9. QED
    BY <1>0, <1>1, <1>2, <1>3, <1>8 DEF r0, b

\* What a class makes of a packet, whatever has been decoded before
SameOutcome(r1, r2) == r1.is = r2.is /\ r1.message = r2.message

LEMMA TryForgets ==
  ASSUME NEW class \in AllClasses, NEW b, NEW r1, NEW r2, SameOutcome(r1, r2)
  PROVE  SameOutcome(Try(r1, class, b), Try(r2, class, b))
  <1>1. CASE r1.is = "none"
    <2> DEFINE m1 == Decode(class, b, r1.minimum)
               m2 == Decode(class, b, r2.minimum)
    <2>1. Same(m1, m2)
      BY OnlyInfoRaises, DecodeForgets
    <2>2. Try(r1, class, b) = AsMessage(class, m1) /\ Try(r2, class, b) = AsMessage(class, m2)
      BY <1>1 DEF Try, SameOutcome
    <2> HIDE DEF m1, m2
    <2>3. SameOutcome(AsMessage(class, m1), AsMessage(class, m2))
      BY <2>1 DEF AsMessage, Same, SameOutcome
    <2>4. QED
      BY <2>2, <2>3
  <1>2. CASE r1.is # "none"
    BY <1>2 DEF Try, SameOutcome
  <1>3. QED
    BY <1>1, <1>2

\* A packet is read as if nothing had been read before it.
LEMMA ReadingForgets ==
  ASSUME NEW b, NEW cs, IsEnd(cs), NEW min1, NEW min2
  PROVE  SameOutcome(decode_packet(b, cs, min1), decode_packet(b, cs, min2))
  <1> DEFINE header == Read(Header, b)
             r1 == TryStart(header, min1)
             r2 == TryStart(header, min2)
  <1>1. SameOutcome(r1, r2)
    BY DEF TryStart, SameOutcome
  <1>2. /\ decode_packet(b, cs, min1) = AllTried(r1, cs, header.rest)
        /\ decode_packet(b, cs, min2) = AllTried(r2, cs, header.rest)
    BY DecodeBodyIs DEF decode_packet
  <1>3. \A i \in 1 .. 4 : cs[i] \in AllClasses
    BY ClassesOfEnd
  <1> HIDE DEF header, r1, r2
  <1>4. SameOutcome(AllTried(r1, cs, header.rest), AllTried(r2, cs, header.rest))
    BY <1>1, <1>3, TryForgets DEF AllTried
  <1>5. QED
    BY <1>2, <1>4

InfoRaises(b) == Decode("InfoResponse", b, <<>>).status = "raised"

LEMMA TryRaises ==
  ASSUME NEW class \in AllClasses, NEW b, NEW r, Try(r, class, b).is = "raises"
  PROVE  r.is = "raises" \/ (class = "InfoResponse" /\ InfoRaises(b))
  <1> DEFINE m == Decode(class, b, r.minimum)
  <1>1. SUFFICES ASSUME r.is # "raises"
                 PROVE  class = "InfoResponse" /\ InfoRaises(b)
    OBVIOUS
  <1>2. Try(r, class, b) = AsMessage(class, m)
    BY <1>1 DEF Try
  <1>3. IsState(m) /\ (class # "InfoResponse" => m.status # "raised")
    BY OnlyInfoRaises, DecodeKeepsState
  <1>4. Same(m, Decode(class, b, <<>>))
    BY OnlyInfoRaises, DecodeForgets
  <1> HIDE DEF m
  <1>5. m.status = "raised"
    BY <1>2, <1>3 DEF AsMessage, Outcomes, IsState, Statuses
  <1>6. QED
    BY <1>3, <1>4, <1>5 DEF Same, InfoRaises

LEMMA ReadingRaises ==
  ASSUME NEW b, NEW cs, IsEnd(cs), NEW min, decode_packet(b, cs, min).is = "raises"
  PROVE  \/ Read(Header, b).status # "ok"
         \/ cs = response_message_classes /\ InfoRaises(Read(Header, b).rest)
  <1> DEFINE header == Read(Header, b)
             r0 == TryStart(header, min)
  <1>1. decode_packet(b, cs, min) = AllTried(r0, cs, header.rest)
    BY DecodeBodyIs DEF decode_packet
  <1>2. \A i \in 1 .. 4 : cs[i] \in AllClasses
    BY ClassesOfEnd
  <1>3. r0.is = "raises" => header.status # "ok"
    BY DEF TryStart
  <1>4. cs = request_message_classes => \A i \in 1 .. 4 : cs[i] # "InfoResponse"
    BY DEF request_message_classes
  <1> HIDE DEF header, r0
  <1>5. \/ r0.is = "raises"
        \/ InfoRaises(header.rest) /\ \E i \in 1 .. 4 : cs[i] = "InfoResponse"
    BY <1>1, <1>2, TryRaises DEF AllTried
  <1>6. QED
    BY <1>3, <1>4, <1>5 DEF IsEnd, header

-----------------------------------------------------------------------------
\* Bytes: the first piece of a buffer, and what comes behind it
LEMMA FirstPiece ==
  ASSUME NEW a \in Seq(Byte), NEW t \in Seq(Byte)
  PROVE  /\ a \o t \in Seq(Byte)
         /\ Len(a \o t) = Len(a) + Len(t)
         /\ SubSeq(a \o t, 1, Len(a)) = a
         /\ SubSeq(a \o t, Len(a) + 1, Len(a \o t)) = t
  <1> DEFINE s == a \o t
             n == Len(a)
             x == SubSeq(s, 1, n)
             y == SubSeq(s, n + 1, Len(s))
  <1>1. /\ s \in Seq(Byte) /\ Len(s) = n + Len(t) /\ n \in Nat /\ Len(t) \in Nat
        /\ \A i \in 1 .. n + Len(t) : s[i] = IF i <= n THEN a[i] ELSE t[i - n]
    BY ConcatProperties
  <1> HIDE DEF s, n
  <1>2. \A i \in 1 .. Len(s) : s[i] \in Byte
    BY <1>1
  <1>3. x = a
    <2>1. \A i \in 1 .. n : s[i] \in Byte
      BY <1>1, <1>2
    <2>2. /\ x \in Seq(Byte) /\ Len(x) = IF 1 <= n THEN n - 1 + 1 ELSE 0
          /\ \A i \in 1 .. n - 1 + 1 : x[i] = s[1 + i - 1]
      BY <1>1, <2>1, SubSeqProperties
    <2> HIDE DEF x
    <2>3. Len(x) = Len(a) /\ \A i \in 1 .. Len(x) : x[i] = a[i]
      BY <1>1, <2>2 DEF n
    <2>4. QED
      BY <2>2, <2>3, SeqEqual
  <1>4. y = t
    <2>1. \A i \in n + 1 .. Len(s) : s[i] \in Byte
      BY <1>1, <1>2
    <2>2. /\ y \in Seq(Byte) /\ Len(y) = IF n + 1 <= Len(s) THEN Len(s) - (n + 1) + 1 ELSE 0
          /\ \A i \in 1 .. Len(s) - (n + 1) + 1 : y[i] = s[(n + 1) + i - 1]
      BY <1>1, <2>1, SubSeqProperties
    <2> HIDE DEF y
    <2>3. Len(s) - (n + 1) + 1 = Len(t) /\ Len(y) = Len(t)
      BY <1>1, <2>2
    <2>4. ASSUME NEW i \in 1 .. Len(t)
          PROVE  y[i] = t[i]
      <3>1. (n + 1) + i - 1 = n + i /\ n + i \in 1 .. n + Len(t) /\ ~(n + i <= n) /\ n + i - n = i
        BY <1>1
      <3>2. y[i] = s[n + i]
        BY <2>2, <2>3, <3>1
      <3>3. QED
        BY <1>1, <3>1, <3>2
    <2>5. QED
      BY <2>2, <2>3, <2>4, SeqEqual
  <1>5. QED
    BY <1>1, <1>3, <1>4 DEF s, n

\* A state that decode of a field goes on from; what a field makes of it
IsReading(m) == {"status", "values", "rest"} \subseteq DOMAIN m /\ m.status = "ok"

Taken(m1, m2, f, value, t) ==
  m2.status = "ok" /\ m2.values = With(m1.values, f.name, value) /\ m2.rest = t

\* As many bytes as a field takes, in front of others
LEMMA TakesPiece ==
  ASSUME NEW m, IsReading(m), NEW a \in Seq(Byte), a # <<>>, NEW t \in Seq(Byte), m.rest = a \o t,
         NEW f, (IF f.kind = "string" THEN StringLength(m.rest) ELSE Size[f.kind]) = Len(a),
         f.valid = {} \/ ValueOf(f.kind, a) \in f.valid
  PROVE  Taken(m, Then(m, f), f, ValueOf(f.kind, a), t)
  <1> DEFINE n == IF f.kind = "string" THEN StringLength(m.rest) ELSE Size[f.kind]
             value == ValueOf(f.kind, a)
  <1>1. n = Len(a) /\ Len(a) \in Nat \ {0} /\ Len(t) \in Nat
    BY EmptySeq, LenProperties
  <1>2. /\ SubSeq(m.rest, 1, n) = a
        /\ SubSeq(m.rest, n + 1, Len(m.rest)) = t
        /\ Len(m.rest) = n + Len(t)
    BY <1>1, FirstPiece
  <1>3. Then(m, f) = Take(m, f, n, value)
    BY <1>2 DEF Then, ReadField, IsReading
  <1> HIDE DEF n, value
  <1>4. ~(n = 0 \/ Len(m.rest) < n)
    BY <1>1, <1>2
  <1>5. f.valid = {} \/ value \in f.valid
    BY DEF value
  <1>6. Take(m, f, n, value) =
          [m EXCEPT !.values = With(@, f.name, value), !.rest = SubSeq(@, n + 1, Len(@))]
    BY <1>4, <1>5 DEF Take
  <1>7. QED
    BY <1>2, <1>3, <1>6 DEF IsReading, Taken, value

\* A long: any four bytes.
LEMMA LongIsSeq ==
  ASSUME NEW l \in Longs
  PROVE  l \in Seq(Byte) /\ Len(l) = 4 /\ l # <<>>
  <1>1. l \in [1 .. 4 -> Byte] /\ 4 \in Nat
    BY DEF Longs
  <1>2. l \in Seq(Byte)
    BY <1>1, SeqDef
  <1>3. Len(l) \in Nat /\ 1 .. Len(l) = 1 .. 4
    BY <1>1, <1>2, LenProperties
  <1> DEFINE n == Len(l)
  <1>4. n = 4
    <2>1. n \in Nat /\ 1 .. n = 1 .. 4
      BY <1>3
    <2> HIDE DEF n
    <2>2. 4 \in 1 .. n /\ 5 \notin 1 .. n
      BY <2>1
    <2>3. QED
      BY <2>1, <2>2
  <1>5. l # <<>>
    BY <1>4, EmptySeq
  <1>6. QED
    BY <1>2, <1>4, <1>5

LEMMA TakesLong ==
  ASSUME NEW m, IsReading(m), NEW l \in Longs, NEW t \in Seq(Byte), m.rest = l \o t,
         NEW f, f.kind = "long", f.valid = {} \/ l \in f.valid
  PROVE  Taken(m, Then(m, f), f, l, t)
  <1>1. l \in Seq(Byte) /\ Len(l) = 4 /\ l # <<>>
    BY LongIsSeq
  <1>2. ValueOf(f.kind, l) = l /\ Size[f.kind] = 4 /\ f.kind # "string"
    BY DEF ValueOf, Size
  <1>3. QED
    BY <1>1, <1>2, TakesPiece

LEMMA TakesByte ==
  ASSUME NEW m, IsReading(m), NEW x \in Byte, NEW t \in Seq(Byte), m.rest = <<x>> \o t,
         NEW f, f.kind = "byte", f.valid = {} \/ x \in f.valid
  PROVE  Taken(m, Then(m, f), f, x, t)
  <1>1. <<x>> \in Seq(Byte) /\ Len(<<x>>) = 1 /\ <<x>> # <<>> /\ <<x>>[1] = x
    OBVIOUS
  <1>2. ValueOf(f.kind, <<x>>) = x /\ Size[f.kind] = 1 /\ f.kind # "string"
    BY <1>1 DEF ValueOf, Size
  <1>3. QED
    BY <1>1, <1>2, TakesPiece

\* A tag that is not the one of the class
LEMMA OtherTag ==
  ASSUME NEW m, IsReading(m), NEW x \in Byte, NEW t \in Seq(Byte), m.rest = <<x>> \o t,
         NEW f, f.kind = "byte", f.valid # {}, x \notin f.valid
  PROVE  Then(m, f).status = "broken"
  <1>1. <<x>> \in Seq(Byte) /\ Len(<<x>>) = 1 /\ <<x>>[1] = x
    OBVIOUS
  <1>2. SubSeq(m.rest, 1, 1) = <<x>> /\ Len(m.rest) = 1 + Len(t) /\ Len(t) \in Nat
    <2> DEFINE a == <<x>>
    <2>1. a \in Seq(Byte) /\ Len(a) = 1 /\ m.rest = a \o t
      BY <1>1
    <2> HIDE DEF a
    <2>2. SubSeq(m.rest, 1, 1) = a /\ Len(m.rest) = 1 + Len(t)
      BY <2>1, FirstPiece
    <2>3. QED
      BY <2>2, LenProperties DEF a
  <1>3. ValueOf(f.kind, <<x>>) = x /\ Size[f.kind] = 1 /\ f.kind # "string"
    BY <1>1 DEF ValueOf, Size
  <1>4. Then(m, f) = Take(m, f, 1, x)
    BY <1>2, <1>3 DEF Then, ReadField, IsReading
  <1>5. Take(m, f, 1, x) = [m EXCEPT !.status = "broken"]
    BY <1>2 DEF Take, Invalid
  <1>6. QED
    BY <1>4, <1>5 DEF IsReading

\* Text is decoded as it was encoded.
LEMMA TextIsKept ==
  ASSUME NEW b \in Texts
  PROVE  Utf8Ignore(b) = b
  <1> DEFINE n == Len(b)
             Is(g) == g = [i \in 0 .. Len(b) |->
                             IF i = 0 THEN <<>> ELSE IF b[i] < 128 THEN Append(g[i - 1], b[i])
                                                     ELSE g[i - 1]]
             kept == CHOOSE g : Is(g)
             h == [i \in 0 .. n |-> SubSeq(b, 1, i)]
  <1>1. /\ b \in Seq(1..127) /\ n \in Nat
        /\ \A i \in 1 .. n : b[i] \in 1 .. 127 /\ b[i] < 128
    <2>1. b \in Seq(1..127) /\ n \in Nat
      BY LenProperties DEF Texts
    <2>2. ASSUME NEW i \in 1 .. n
          PROVE  b[i] \in 1 .. 127
      BY <2>1, ElementOfSeq
    <2>3. \A x \in 1 .. 127 : x < 128
      OBVIOUS
    <2>4. QED
      BY <2>1, <2>2, <2>3
  <1>2. Utf8Ignore(b) = kept[n]
    BY DEF Utf8Ignore
  <1>3. ASSUME NEW i \in 1 .. n
        PROVE  SubSeq(b, 1, i) = Append(SubSeq(b, 1, i - 1), b[i])
    <2>1. 1 \in 1 .. n /\ i \in 1 .. n
      BY <1>1
    <2>2. SubSeq(b, 1, i) = SubSeq(b, 1, i - 1) \o <<b[i]>>
      BY <1>1, <2>1, SubSeqRecursiveSecond
    <2>3. SubSeq(b, 1, i - 1) \in Seq(1..127)
      <3>1. \A j \in 1 .. i - 1 : b[j] \in 1 .. 127
        BY <1>1
      <3>2. QED
        BY <3>1, <1>1, SubSeqProperties
    <2>4. QED
      BY <1>1, <2>2, <2>3, AppendIsConcat
  <1>4. SubSeq(b, 1, 0) = <<>>
    BY SubSeqEmpty
  <1>5. \E g : Is(g)
    <2>1. \A i \in 0 .. n : h[i] = SubSeq(b, 1, i)
      OBVIOUS
    <2>2. ASSUME NEW i \in 0 .. n
          PROVE  h[i] = IF i = 0 THEN <<>> ELSE IF b[i] < 128 THEN Append(h[i - 1], b[i])
                                               ELSE h[i - 1]
      <3>1. CASE i = 0
        BY <1>4, <2>1, <3>1
      <3>2. CASE i # 0
        <4>1. i \in 1 .. n /\ i - 1 \in 0 .. n
          BY <1>1, <3>2
        <4>2. b[i] < 128
          BY <1>1, <4>1 DEF n
        <4>3. QED
          BY <1>3, <2>1, <3>2, <4>1, <4>2
      <3>3. QED
        BY <3>1, <3>2
    <2>3. h = [i \in 0 .. n |-> h[i]]
      OBVIOUS
    <2> HIDE DEF h
    <2>4. Is(h)
      BY <2>2, <2>3
    <2> HIDE DEF Is
    <2>5. QED
      BY <2>4
  <1>6. Is(kept)
    <2> HIDE DEF Is
    <2>1. QED
      BY <1>5
  <1> HIDE DEF kept, h
  <1>7. \A i \in 0 .. n : kept[i] = IF i = 0 THEN <<>> ELSE IF b[i] < 128
                                     THEN Append(kept[i - 1], b[i]) ELSE kept[i - 1]
    BY <1>6
  <1> DEFINE T == {i \in 0 .. n : kept[i] = SubSeq(b, 1, i)}
  <1> HIDE DEF n, Is
  <1>8. 0 \in T
    <2>1. 0 \in 0 .. n /\ kept[0] = <<>>
      BY <1>1, <1>7
    <2>2. QED
      BY <1>4, <2>1
  <1>9. ASSUME NEW i \in 0 .. n - 1, i \in T
        PROVE  i + 1 \in T
    <2>1. i + 1 \in 0 .. n /\ i + 1 \in 1 .. n /\ i + 1 # 0 /\ (i + 1) - 1 = i
      BY <1>1
    <2>2. b[i + 1] < 128
      BY <1>1, <2>1
    <2>3. kept[i + 1] = Append(kept[i], b[i + 1])
      BY <1>7, <2>1, <2>2
    <2>4. SubSeq(b, 1, i + 1) = Append(SubSeq(b, 1, i), b[i + 1])
      BY <1>3, <2>1
    <2>5. QED
      BY <1>9, <2>1, <2>3, <2>4
  <1>10. n \in T
    <2> HIDE DEF T
    <2>1. 0 .. n \subseteq T
      BY <1>1, <1>8, <1>9, IntervalInduct
    <2>2. QED
      BY <1>1, <2>1
  <1>11. QED
    BY <1>1, <1>2, <1>10, SubSeqFull DEF n

\* Its terminator is the first NUL behind it.
LEMMA TakesText ==
  ASSUME NEW m, IsReading(m), NEW text \in Texts, NEW t \in Seq(Byte),
         m.rest = Append(text, 0) \o t, NEW f, f.kind = "string", f.valid = {}
  PROVE  Taken(m, Then(m, f), f, text, t)
  <1> DEFINE a == Append(text, 0)
             n == Len(text)
             I == {i \in 1 .. Len(m.rest) : m.rest[i] = 0}
  <1>1. text \in Seq(Byte) /\ 0 \in Byte /\ n \in Nat /\ \A i \in 1 .. n : text[i] \in 1..127
    <2>1. text \in Seq(1..127) /\ n \in Nat
      BY LenProperties DEF Texts
    <2>2. 1..127 \subseteq Byte /\ 0 \in Byte
      BY DEF Byte
    <2>3. text \in Seq(Byte)
      <3> DEFINE S == 1..127
      <3>1. text \in Seq(S) /\ S \subseteq Byte
        BY <2>1, <2>2
      <3> HIDE DEF S
      <3>2. QED
        BY <3>1, SeqMonotonic
    <2>4. QED
      BY <2>1, <2>2, <2>3, ElementOfSeq
  <1>2. /\ a \in Seq(Byte) /\ a # <<>> /\ Len(a) = n + 1
        /\ \A i \in 1 .. n : a[i] = text[i]
        /\ a[n + 1] = 0
    BY <1>1, AppendProperties
  <1>3. SubSeq(a, 1, n) = text
    <2>1. text \o <<0>> = a /\ <<0>> \in Seq(Byte)
      BY <1>1, AppendIsConcat
    <2>2. QED
      BY <1>1, <2>1, FirstPiece
  <1> HIDE DEF a
  <1>4. ValueOf("string", a) = text
    <2>1. Front(a) = text
      BY <1>1, <1>2, <1>3 DEF Front
    <2>2. QED
      BY <2>1, TextIsKept DEF ValueOf
  <1>5. /\ m.rest = a \o t
        /\ Len(m.rest) = n + 1 + Len(t) /\ Len(t) \in Nat
        /\ \A i \in 1 .. n + 1 : m.rest[i] = a[i]
    <2>1. m.rest = a \o t
      BY DEF a
    <2>2. Len(t) \in Nat
      BY LenProperties
    <2>3. /\ Len(m.rest) = Len(a) + Len(t)
          /\ \A i \in 1 .. Len(a) + Len(t) : m.rest[i] = IF i <= Len(a) THEN a[i] ELSE t[i - Len(a)]
      BY <1>2, <2>1, ConcatProperties
    <2> HIDE DEF n
    <2>4. /\ Len(m.rest) = n + 1 + Len(t)
          /\ \A i \in 1 .. n + 1 : i \in 1 .. Len(a) + Len(t) /\ i <= Len(a)
      BY <1>1, <1>2, <2>2, <2>3
    <2>5. QED
      BY <2>1, <2>2, <2>3, <2>4
  <1>6. n + 1 \in I /\ \A i \in I : n + 1 <= i
    <2>1. n + 1 \in I
      BY <1>1, <1>2, <1>5
    <2>2. ASSUME NEW i \in I, i <= n
          PROVE  FALSE
      <3>1. i \in 1 .. n /\ i \in 1 .. n + 1
        BY <1>1, <1>5, <2>2
      <3>2. m.rest[i] = text[i]
        BY <1>2, <1>5, <3>1
      <3>3. text[i] \in 1..127 /\ \A x \in 1..127 : x # 0
        BY <1>1, <3>1
      <3>4. m.rest[i] = 0
        BY <2>2
      <3>5. QED
        BY <3>2, <3>3, <3>4
    <2>3. QED
      BY <1>1, <1>5, <2>1, <2>2
  <1>7. StringLength(m.rest) = n + 1
    <2>1. StringLength(m.rest) = IF I # {} THEN Min(I) ELSE 0
      BY DEF StringLength, SelectInSeq
    <2>2. I \in SUBSET Nat
      BY <1>5
    <2> HIDE DEF I
    <2>3. QED
      BY <1>6, <2>1, <2>2, MinIs
  <1>8. QED
    BY <1>2, <1>4, <1>5, <1>7, TakesPiece

-----------------------------------------------------------------------------
\* Messages of this package: a tag, and behind it a text, a long, or both
IsTag(f, x) ==
  /\ f.kind = "byte" /\ f.valid = {x} /\ f.default = <<x>>
  /\ f.name \in {"request_type", "response_type"}
IsChallenge(f) == f.kind = "long" /\ f.valid = {} /\ f.name = "challenge" /\ f.default = <<>>
IsPayload(f) ==
  /\ f.kind = "string" /\ f.valid = {} /\ f.name = "payload"
  /\ f.default = Append(DefaultPayload, 0)

LEMMA OwnFields ==
  /\ \E f, g : Fields["InfoRequest"] = <<f, g>> /\ IsTag(f, 84) /\ IsPayload(g)
  /\ \E f, g, h : /\ Fields["InfoRequestV2"] = <<f, g, h>>
                  /\ IsTag(f, 84) /\ IsPayload(g) /\ IsChallenge(h)
  /\ \E f, g : Fields["PlayersRequest"] = <<f, g>> /\ IsTag(f, 85) /\ IsChallenge(g)
  /\ \E f, g : Fields["RulesRequest"] = <<f, g>> /\ IsTag(f, 86) /\ IsChallenge(g)
  /\ \E f, g : Fields["GetChallengeResponse"] = <<f, g>> /\ IsTag(f, 65) /\ IsChallenge(g)
  <1> DEFINE payload == [Field("payload", "string") EXCEPT !.default = Append(DefaultPayload, 0)]
             challenge == Field("challenge", "long")
             tag(x) == IF x = 65 THEN Tag("response_type", x) ELSE Tag("request_type", x)
  <1>1. ASSUME NEW x
        PROVE  IsTag(tag(x), x)
    BY DEF IsTag, Tag, Validated, Field
  <1>2. IsChallenge(challenge)
    BY DEF IsChallenge, Field
  <1>3. IsPayload(payload)
    BY DEF IsPayload, Field
  <1>4. InfoRequest = <<tag(84), payload>>
    BY DEF InfoRequest
  <1>5. /\ Fields["InfoRequest"] = InfoRequest
        /\ Fields["InfoRequestV2"] = Append(InfoRequest, challenge)
        /\ Fields["PlayersRequest"] = <<tag(85), challenge>>
        /\ Fields["RulesRequest"] = <<tag(86), challenge>>
        /\ Fields["GetChallengeResponse"] = <<tag(65), challenge>>
    BY SmallClasses
  <1> HIDE DEF payload, challenge, tag
  <1>6. Fields["InfoRequestV2"] = <<tag(84), payload, challenge>>
    BY <1>4, <1>5, OneMore
  <1>7. IsTag(tag(84), 84) /\ IsTag(tag(85), 85) /\ IsTag(tag(86), 86) /\ IsTag(tag(65), 65)
    BY <1>1
  <1>8. QED
    BY <1>2, <1>3, <1>4, <1>5, <1>6, <1>7, Zenon

\* The tag that each class expects
TypeOf ==
  [InfoRequest |-> 84, InfoRequestV2 |-> 84, PlayersRequest |-> 85, RulesRequest |-> 86,
   InfoResponse |-> 73, PlayersResponse |-> 68, RulesResponse |-> 69, GetChallengeResponse |-> 65]

LEMMA FirstField ==
  ASSUME NEW class \in AllClasses
  PROVE  /\ Len(Fields[class]) \in Nat \ {0}
         /\ Fields[class][1].kind = "byte" /\ Fields[class][1].valid = {TypeOf[class]}
  <1>1. ASSUME NEW name, NEW x
        PROVE  /\ Validated(name, "byte", {x}).kind = "byte"
               /\ Validated(name, "byte", {x}).valid = {x}
    BY DEF Validated, Field
  <1>2. CASE class = "InfoRequest"
    BY <1>2, OwnFields DEF IsTag, TypeOf
  <1>3. CASE class = "InfoRequestV2"
    <2>1. PICK f, g, h : Fields["InfoRequestV2"] = <<f, g, h>> /\ IsTag(f, 84)
      BY OwnFields
    <2>2. QED
      BY <1>3, <2>1 DEF IsTag, TypeOf
  <1>4. CASE class = "PlayersRequest"
    BY <1>4, OwnFields DEF IsTag, TypeOf
  <1>5. CASE class = "RulesRequest"
    BY <1>5, OwnFields DEF IsTag, TypeOf
  <1>6. CASE class = "GetChallengeResponse"
    BY <1>6, OwnFields DEF IsTag, TypeOf
  <1>7. CASE class \in {"PlayersResponse", "RulesResponse"}
    <2> DEFINE x == TypeOf[class]
               f == Validated("response_type", "byte", {x})
    <2>1. x = IF class = "PlayersResponse" THEN 68 ELSE 69
      BY <1>7 DEF TypeOf
    <2> HIDE DEF x
    <2>2. PICK g, h : Fields[class] = <<f, g, h>>
      BY <1>7, <2>1, RepeatedClasses
    <2>3. f.kind = "byte" /\ f.valid = {x}
      BY <1>1
    <2> HIDE DEF f
    <2>4. QED
      BY <2>2, <2>3 DEF x
  <1>8. CASE class = "InfoResponse"
    BY <1>8 DEF Fields, Validated, Field, TypeOf
  <1>9. QED
    BY <1>2, <1>3, <1>4, <1>5, <1>6, <1>7, <1>8
      DEF AllClasses, Range, request_message_classes, response_message_classes

\* Decode of few fields
LEMMA DecodeTwo ==
  ASSUME NEW class, Len(Fields[class]) = 2, NEW b, NEW min
  PROVE  Decode(class, b, min) =
           ThenAny(ThenAny(DecodeStart(b, min), Fields[class][1]), Fields[class][2])
  <1> DEFINE fields == Fields[class]
             n == 2
  <1>1. n \in Nat /\ Len(Fields[class]) = n
    OBVIOUS
  <1> HIDE DEF n
  <1>2. PICK h : IsDecodeLoop(h, Fields[class], b, min, n) /\ Decode(class, b, min) = h[n]
    BY <1>1, DecodeIs
  <1> HIDE DEF fields
  <1>3. \A i \in 0 .. n :
          h[i] = IF i = 0 THEN DecodeStart(b, min) ELSE ThenAny(h[i - 1], fields[i])
    BY <1>2 DEF IsDecodeLoop, fields
  <1>4. /\ h[0] = DecodeStart(b, min)
        /\ h[1] = ThenAny(h[0], fields[1])
        /\ h[2] = ThenAny(h[1], fields[2])
    BY <1>3 DEF n
  <1>5. QED
    BY <1>2, <1>4 DEF fields, n

LEMMA DecodeThree ==
  ASSUME NEW class, Len(Fields[class]) = 3, NEW b, NEW min
  PROVE  Decode(class, b, min) =
           ThenAny(ThenAny(ThenAny(DecodeStart(b, min), Fields[class][1]), Fields[class][2]),
                   Fields[class][3])
  <1> DEFINE fields == Fields[class]
             n == 3
  <1>1. n \in Nat /\ Len(Fields[class]) = n
    OBVIOUS
  <1> HIDE DEF n
  <1>2. PICK h : IsDecodeLoop(h, Fields[class], b, min, n) /\ Decode(class, b, min) = h[n]
    BY <1>1, DecodeIs, Z3
  <1> HIDE DEF fields
  <1>3. \A i \in 0 .. n :
          h[i] = IF i = 0 THEN DecodeStart(b, min) ELSE ThenAny(h[i - 1], fields[i])
    BY <1>2 DEF IsDecodeLoop, fields
  <1>4. /\ h[0] = DecodeStart(b, min)
        /\ h[1] = ThenAny(h[0], fields[1])
        /\ h[2] = ThenAny(h[1], fields[2])
        /\ h[3] = ThenAny(h[2], fields[3])
    BY <1>3 DEF n
  <1>5. QED
    BY <1>2, <1>4 DEF fields, n

\* A class does not read a message with the tag of another one.
LEMMA OtherClassBreaks ==
  ASSUME NEW class \in AllClasses, NEW x \in Byte, x # TypeOf[class], NEW t \in Seq(Byte), NEW min
  PROVE  Decode(class, <<x>> \o t, min).status = "broken"
  <1> DEFINE fields == Fields[class]
             n == Len(fields)
             b == <<x>> \o t
  <1>1. n \in Nat \ {0} /\ fields[1].kind = "byte" /\ fields[1].valid = {TypeOf[class]}
    BY FirstField
  <1>2. PICK g : IsDecodeLoop(g, fields, b, min, n) /\ Decode(class, b, min) = g[n]
    BY <1>1, DecodeIs
  <1> HIDE DEF n
  <1>3. g[0] = DecodeStart(b, min) /\ g[1] = ThenAny(g[0], fields[1])
    BY <1>1, <1>2 DEF IsDecodeLoop
  <1>4. IsReading(g[0]) /\ g[0].rest = b
    BY <1>3 DEF IsReading, DecodeStart
  <1>5. g[1].status = "broken"
    <2> DEFINE f == fields[1]
               m == g[0]
    <2>1. g[1] = Then(m, f)
      BY <1>1, <1>3 DEF ThenAny
    <2>2. f.kind = "byte" /\ f.valid # {} /\ x \notin f.valid
      BY <1>1
    <2>3. IsReading(m) /\ m.rest = <<x>> \o t
      BY <1>4
    <2> HIDE DEF f, m
    <2>4. QED
      BY <2>1, <2>2, <2>3, OtherTag
  <1> DEFINE T == {i \in 0 .. n - 1 : g[i + 1].status = "broken"}
  <1>6. 0 \in T
    BY <1>1, <1>5
  <1>7. ASSUME NEW i \in 0 .. (n - 1) - 1, i \in T
        PROVE  i + 1 \in T
    <2>1. i + 1 \in 0 .. n - 1 /\ (i + 1) + 1 \in 0 .. n /\ (i + 1) + 1 # 0
            /\ ((i + 1) + 1) - 1 = i + 1
      BY <1>1
    <2>2. g[(i + 1) + 1] = ThenAny(g[i + 1], fields[(i + 1) + 1])
      BY <1>2, <2>1 DEF IsDecodeLoop
    <2>3. g[i + 1].status = "broken"
      BY <1>7
    <2>4. g[(i + 1) + 1] = g[i + 1]
      BY <2>2, <2>3 DEF ThenAny, Then
    <2>5. QED
      BY <2>1, <2>3, <2>4
  <1>8. n - 1 \in T
    <2> HIDE DEF T
    <2>1. n - 1 \in Nat
      BY <1>1
    <2>2. 0 .. n - 1 \subseteq T
      BY <2>1, <1>6, <1>7, IntervalInduct
    <2>3. QED
      BY <2>1, <2>2
  <1>9. (n - 1) + 1 = n
    BY <1>1
  <1>10. QED
    BY <1>2, <1>8, <1>9

\* What a field is encoded as, and two or three of them
Given(f, values) ==
  IF f.name \in DOMAIN values THEN Bytes(f.kind, values[f.name]) ELSE f.default

LEMMA FlattenTwo ==
  ASSUME NEW a, NEW b
  PROVE  FlattenSeq(<<a, b>>) = a \o b
  <1> DEFINE s == <<a, b>>
             Is(g) == g = [i \in 1 .. Len(s) |-> IF i = 1 THEN s[i] ELSE g[i - 1] \o s[i]]
             flatten == CHOOSE g : Is(g)
             h == [i \in 1 .. 2 |-> IF i = 1 THEN a ELSE a \o b]
  <1>1. Len(s) = 2 /\ s[1] = a /\ s[2] = b
    OBVIOUS
  <1>2. FlattenSeq(s) = flatten[Len(s)]
    BY <1>1 DEF FlattenSeq
  <1> HIDE DEF s
  <1>3. Is(h)
    <2>1. h[1] = a /\ h[2] = a \o b /\ h = [i \in 1 .. 2 |-> h[i]]
      OBVIOUS
    <2> HIDE DEF h
    <2>2. \A i \in 1 .. 2 : i = 1 \/ (i = 2 /\ i - 1 = 1)
      OBVIOUS
    <2>3. \A i \in 1 .. 2 : h[i] = IF i = 1 THEN s[i] ELSE h[i - 1] \o s[i]
      BY <1>1, <2>1, <2>2
    <2>4. QED
      BY <1>1, <2>1, <2>3
  <1> HIDE DEF Is, h
  <1>4. Is(flatten)
    BY <1>3
  <1> HIDE DEF flatten
  <1>5. \A i \in 1 .. 2 : flatten[i] = IF i = 1 THEN s[i] ELSE flatten[i - 1] \o s[i]
    BY <1>1, <1>4 DEF Is
  <1>6. flatten[1] = a /\ flatten[2] = flatten[1] \o b
    BY <1>1, <1>5
  <1>7. QED
    BY <1>1, <1>2, <1>6 DEF s

\* (A concatenation by name, where one is part of another one)
Join(a, b) == a \o b

LEMMA FlattenThree ==
  ASSUME NEW a, NEW b, NEW c
  PROVE  FlattenSeq(<<a, b, c>>) = Join(Join(a, b), c)
  <1> DEFINE s == <<a, b, c>>
             Is(g) == g = [i \in 1 .. Len(s) |-> IF i = 1 THEN s[i] ELSE g[i - 1] \o s[i]]
             flatten == CHOOSE g : Is(g)
             ab == a \o b
             h == [i \in 1 .. 3 |-> IF i = 1 THEN a ELSE IF i = 2 THEN ab ELSE ab \o c]
  <1>1. Len(s) = 3 /\ s[1] = a /\ s[2] = b /\ s[3] = c
    OBVIOUS
  <1>2. FlattenSeq(s) = flatten[Len(s)]
    BY <1>1 DEF FlattenSeq
  <1> HIDE DEF s
  <1>3. Is(h)
    <2>1. h[1] = a /\ h[2] = ab /\ h[3] = ab \o c /\ h = [i \in 1 .. 3 |-> h[i]]
      <3> HIDE DEF ab
      <3>1. QED
        OBVIOUS
    <2> HIDE DEF h
    <2>2. \A i \in 1 .. 3 : i = 1 \/ (i = 2 /\ i - 1 = 1) \/ (i = 3 /\ i - 1 = 2)
      OBVIOUS
    <2>3. \A i \in 1 .. 3 : h[i] = IF i = 1 THEN s[i] ELSE h[i - 1] \o s[i]
      BY <1>1, <2>1, <2>2
    <2>4. QED
      BY <1>1, <2>1, <2>3
  <1> HIDE DEF Is, h
  <1>4. Is(flatten)
    BY <1>3
  <1> HIDE DEF flatten
  <1>5. \A i \in 1 .. 3 : flatten[i] = IF i = 1 THEN s[i] ELSE flatten[i - 1] \o s[i]
    BY <1>1, <1>4 DEF Is
  <1>6. flatten[1] = a /\ flatten[2] = flatten[1] \o b /\ flatten[3] = flatten[2] \o c
    BY <1>1, <1>5
  <1>7. flatten[2] = Join(a, b)
    BY <1>6 DEF Join
  <1>8. QED
    BY <1>1, <1>2, <1>6, <1>7 DEF s, Join

LEMMA EncodeTwo ==
  ASSUME NEW f, NEW g, NEW values
  PROVE  Encode(<<f, g>>, values) = Given(f, values) \o Given(g, values)
  <1> DEFINE s == <<f, g>>
             x == Given(f, values)
             y == Given(g, values)
             parts == [i \in DOMAIN s |-> Given(s[i], values)]
  <1>1. Encode(s, values) = FlattenSeq(parts)
    BY DEF Encode, Given
  <1>2. DOMAIN s = 1 .. 2 /\ s[1] = f /\ s[2] = g
    OBVIOUS
  <1> HIDE DEF s
  <1>3. parts = <<x, y>>
    <2>1. parts = [i \in 1 .. 2 |-> parts[i]] /\ parts[1] = x /\ parts[2] = y
      BY <1>2
    <2> HIDE DEF parts, x, y
    <2>2. QED
      BY <2>1
  <1> HIDE DEF parts, x, y
  <1>4. Encode(s, values) = x \o y
    BY <1>1, <1>3, FlattenTwo
  <1>5. QED
    BY <1>4 DEF s, x, y

LEMMA EncodeThree ==
  ASSUME NEW values, NEW f, NEW g, NEW h
  PROVE  Encode(<<f, g, h>>, values) =
           Join(Join(Given(f, values), Given(g, values)), Given(h, values))
  <1> DEFINE s == <<f, g, h>>
             x == Given(f, values)
             y == Given(g, values)
             z == Given(h, values)
             parts == [i \in DOMAIN s |-> Given(s[i], values)]
  <1>1. Encode(s, values) = FlattenSeq(parts)
    BY DEF Encode, Given
  <1>2. DOMAIN s = 1 .. 3 /\ s[1] = f /\ s[2] = g /\ s[3] = h
    OBVIOUS
  <1> HIDE DEF s
  <1>3. parts = <<x, y, z>>
    <2>1. parts = [i \in 1 .. 3 |-> parts[i]] /\ parts[1] = x /\ parts[2] = y /\ parts[3] = z
      BY <1>2
    <2> HIDE DEF parts, x, y, z
    <2>2. QED
      BY <2>1
  <1> HIDE DEF parts, x, y, z
  <1>4. Encode(s, values) = Join(Join(x, y), z)
    <2>1. FlattenSeq(<<x, y, z>>) = Join(Join(x, y), z)
      BY FlattenThree
    <2>2. QED
      BY <1>1, <1>3, <2>1
  <1>5. QED
    BY <1>4 DEF s, x, y, z

\* What a message is encoded as
Payload(m) == IF "payload" \in DOMAIN m.values THEN m.values["payload"] ELSE DefaultPayload

LEMMA OwnValues ==
  ASSUME NEW m \in Messages
  PROVE  /\ m.class \in {"InfoRequest", "InfoRequestV2", "PlayersRequest", "RulesRequest",
                         "GetChallengeResponse"}
         /\ DOMAIN m.values \subseteq {f.name : f \in Range(Tail(Fields[m.class]))}
         /\ m.class \notin {"InfoRequest", "InfoRequestV2"} => "challenge" \in DOMAIN m.values
         /\ "challenge" \in DOMAIN m.values => m.values["challenge"] \in Longs
         /\ Payload(m) \in Texts
  <1>1. DefaultPayload \in Texts
    BY DEF DefaultPayload, Texts
  <1>2. \A name \in DOMAIN m.values :
          m.values[name] \in IF name = "payload" THEN Texts ELSE Longs
    BY MessagesAssumption
  <1>3. Payload(m) \in Texts
    BY <1>1, <1>2 DEF Payload
  <1>4. "challenge" \in DOMAIN m.values => m.values["challenge"] \in Longs
    BY <1>2
  <1>5. /\ m.class \in Range(request_message_classes) \union {"GetChallengeResponse"}
        /\ DOMAIN m.values \subseteq {f.name : f \in Range(Tail(Fields[m.class]))}
        /\ m.class \notin {"InfoRequest", "InfoRequestV2"} => "challenge" \in DOMAIN m.values
    BY MessagesAssumption
  <1>6. QED
    BY <1>3, <1>4, <1>5 DEF Range, request_message_classes

LEMMA GivenIs ==
  ASSUME NEW m \in Messages, NEW f
  PROVE  /\ \A x : IsTag(f, x) /\ f.name \notin DOMAIN m.values => Given(f, m.values) = <<x>>
         /\ IsChallenge(f) /\ "challenge" \in DOMAIN m.values =>
              Given(f, m.values) = m.values["challenge"]
         /\ IsChallenge(f) /\ "challenge" \notin DOMAIN m.values => Given(f, m.values) = <<>>
         /\ IsPayload(f) => Given(f, m.values) = Append(Payload(m), 0)
  BY DEF Given, IsTag, IsChallenge, IsPayload, Bytes, Payload

LEMMA TextInBytes ==
  ASSUME NEW t \in Seq(1..127)
  PROVE  Append(t, 0) \in Seq(Byte)
  <1> DEFINE S == 1..127
  <1>1. t \in Seq(S) /\ S \subseteq Byte /\ 0 \in Byte
    BY DEF Byte
  <1> HIDE DEF S
  <1>2. t \in Seq(Byte)
    BY <1>1, SeqMonotonic
  <1>3. QED
    BY <1>1, <1>2, AppendProperties

\* Only what comes behind the tag is given.
LEMMA NamesOfTail ==
  ASSUME NEW f, NEW g, NEW h
  PROVE  /\ {x.name : x \in Range(Tail(<<f, g>>))} = {g.name}
         /\ {x.name : x \in Range(Tail(<<f, g, h>>))} = {g.name, h.name}
  <1>1. Tail(<<f, g>>) = <<g>> /\ Tail(<<f, g, h>>) = <<g, h>>
    OBVIOUS
  <1>2. Range(<<g>>) = {g} /\ Range(<<g, h>>) = {g, h}
    BY DEF Range
  <1>3. QED
    BY <1>1, <1>2

\* With its challenge a message is read as what it is, without one as an InfoRequest.
LEMMA ReadAsIs ==
  ASSUME NEW m \in Messages
  PROVE  /\ ReadAs(m) = "InfoRequest" =>
              \/ m.class = "InfoRequest"
              \/ m.class = "InfoRequestV2" /\ "challenge" \notin DOMAIN m.values
         /\ ReadAs(m) # "InfoRequest" => ReadAs(m) = m.class /\ "challenge" \in DOMAIN m.values
         /\ ReadAs(m) \in {"InfoRequest", "InfoRequestV2", "PlayersRequest", "RulesRequest",
                          "GetChallengeResponse"}
         /\ TypeOf[ReadAs(m)] = TypeOf[m.class]
  BY OwnValues DEF ReadAs, TypeOf

LEMMA OwnBytes ==
  ASSUME NEW m \in Messages
  PROVE  LET e == Encode(Fields[m.class], m.values)
             text == Append(Payload(m), 0)
             long == m.values["challenge"]
             names == DOMAIN m.values
         IN  /\ ReadAs(m) = "InfoRequest" => e = <<84>> \o text /\ names \subseteq {"payload"}
             /\ ReadAs(m) = "InfoRequestV2" =>
                  e = Join(Join(<<84>>, text), long) /\ names \subseteq {"payload", "challenge"}
             /\ m.class \in {"PlayersRequest", "RulesRequest", "GetChallengeResponse"} =>
                  e = <<TypeOf[m.class]>> \o long /\ names \subseteq {"challenge"}
  <1> DEFINE e == Encode(Fields[m.class], m.values)
             text == Append(Payload(m), 0)
             long == m.values["challenge"]
             names == DOMAIN m.values
  <1>1. names \subseteq {f.name : f \in Range(Tail(Fields[m.class]))}
    BY OwnValues
  <1>2. CASE m.class = "InfoRequest"
    <2>1. PICK f, g : Fields["InfoRequest"] = <<f, g>> /\ IsTag(f, 84) /\ IsPayload(g)
      BY OwnFields
    <2> HIDE DEF names
    <2>2. names \subseteq {"payload"}
      <3>1. names \subseteq {x.name : x \in Range(Tail(<<f, g>>))}
        BY <1>1, <1>2, <2>1
      <3>2. names \subseteq {g.name}
        BY <3>1, NamesOfTail
      <3>3. QED
        BY <2>1, <3>2 DEF IsPayload
    <2>3. f.name \notin names
      BY <2>1, <2>2 DEF IsTag
    <2>4. Given(f, m.values) = <<84>> /\ Given(g, m.values) = text
      BY <2>1, <2>3, GivenIs DEF names
    <2>5. e = <<84>> \o text
      <3>1. e = Encode(<<f, g>>, m.values)
        BY <1>2, <2>1
      <3>2. e = Given(f, m.values) \o Given(g, m.values)
        BY <3>1, EncodeTwo
      <3>3. QED
        BY <2>4, <3>2
    <2>6. QED
      BY <1>2, <2>2, <2>5 DEF names, ReadAs
  <1>3. CASE m.class = "InfoRequestV2"
    <2>1. PICK f, g, h : /\ Fields["InfoRequestV2"] = <<f, g, h>>
                         /\ IsTag(f, 84) /\ IsPayload(g) /\ IsChallenge(h)
      BY OwnFields
    <2> HIDE DEF names
    <2> DEFINE last == IF "challenge" \in names THEN long ELSE <<>>
    <2>2. names \subseteq {"payload", "challenge"}
      <3>1. names \subseteq {x.name : x \in Range(Tail(<<f, g, h>>))}
        BY <1>1, <1>3, <2>1
      <3>2. names \subseteq {g.name, h.name}
        BY <3>1, NamesOfTail
      <3>3. QED
        BY <2>1, <3>2 DEF IsPayload, IsChallenge
    <2>3. f.name \notin names
      BY <2>1, <2>2 DEF IsTag
    <2>4. Given(f, m.values) = <<84>> /\ Given(g, m.values) = text /\ Given(h, m.values) = last
      BY <2>1, <2>3, GivenIs DEF names
    <2> HIDE DEF last
    <2>5. e = Join(Join(<<84>>, text), last)
      <3>1. e = Encode(<<f, g, h>>, m.values)
        BY <1>3, <2>1
      <3> DEFINE values == m.values
      <3> HIDE DEF values
      <3>2. Encode(<<f, g, h>>, values) =
              Join(Join(Given(f, values), Given(g, values)), Given(h, values))
        BY EncodeThree
      <3>3. QED
        BY <2>4, <3>1, <3>2 DEF values
    <2>6. CASE "challenge" \in names
      <3>1. last = long /\ ReadAs(m) = "InfoRequestV2"
        BY <1>3, <2>6 DEF last, names, ReadAs
      <3>2. QED
        BY <1>3, <2>2, <2>5, <3>1 DEF names
    <2>7. CASE "challenge" \notin names
      <3>1. last = <<>> /\ ReadAs(m) = "InfoRequest" /\ names \subseteq {"payload"}
        BY <1>3, <2>2, <2>7 DEF last, names, ReadAs
      <3>2. Join(<<84>>, text) \in Seq(Byte)
        <4>1. Payload(m) \in Seq(1..127) /\ 84 \in Byte
          BY OwnValues DEF Texts, Byte
        <4>2. <<84>> \in Seq(Byte) /\ text \in Seq(Byte)
          BY <4>1, TextInBytes
        <4>3. QED
          BY <4>2, ConcatProperties DEF Join
      <3>3. e = <<84>> \o text
        BY <2>5, <3>1, <3>2, ConcatEmptySeq DEF Join
      <3>4. QED
        BY <1>3, <3>1, <3>3 DEF names
    <2>8. QED
      BY <2>6, <2>7
  <1>4. CASE m.class \in {"PlayersRequest", "RulesRequest", "GetChallengeResponse"}
    <2> DEFINE x == TypeOf[m.class]
    <2>1. PICK f, g : Fields[m.class] = <<f, g>> /\ IsTag(f, x) /\ IsChallenge(g)
      BY <1>4, OwnFields DEF TypeOf
    <2> HIDE DEF x, names
    <2>2. names \subseteq {"challenge"} /\ "challenge" \in names
      <3>1. names \subseteq {y.name : y \in Range(Tail(<<f, g>>))}
        BY <1>1, <2>1
      <3>2. names \subseteq {g.name}
        BY <3>1, NamesOfTail
      <3>3. "challenge" \in names
        BY <1>4, OwnValues DEF names
      <3>4. QED
        BY <2>1, <3>2, <3>3 DEF IsChallenge
    <2>3. f.name \notin names
      BY <2>1, <2>2 DEF IsTag
    <2>4. Given(f, m.values) = <<x>> /\ Given(g, m.values) = long
      BY <2>1, <2>2, <2>3, GivenIs DEF names
    <2>5. e = <<x>> \o long
      BY <2>1, <2>4, EncodeTwo
    <2>6. QED
      BY <1>4, <2>2, <2>5 DEF x, names, ReadAs
  <1>5. QED
    BY <1>2, <1>3, <1>4, OwnValues

\* How it is read: the header, the tag, the text, the long
LEMMA HeaderIsRead ==
  ASSUME NEW e \in Seq(Byte)
  PROVE  LET header == Read(Header, NO_SPLIT \o e)
         IN header.status = "ok" /\ header.values["split"] = NO_SPLIT /\ header.rest = e
  <1> DEFINE m == Start(NO_SPLIT \o e)
             f == Header[1]
  <1>1. NO_SPLIT \in Longs
    BY DEF NO_SPLIT, Longs, Byte
  <1>2. IsReading(m) /\ m.rest = NO_SPLIT \o e
    BY DEF Start, IsReading
  <1>3. f.kind = "long" /\ f.name = "split" /\ NO_SPLIT \in f.valid
    BY DEF Header, Validated, Field
  <1> HIDE DEF m, f
  <1>4. Taken(m, Then(m, f), f, NO_SPLIT, e)
    BY <1>1, <1>2, <1>3, TakesLong
  <1>5. Read(Header, NO_SPLIT \o e) = Then(m, f)
    BY ReadHeader DEF m, f
  <1>6. QED
    BY <1>3, <1>4, <1>5 DEF Taken, With

LEMMA StaysReading ==
  ASSUME NEW m, IsState(m), NEW f, NEW value, NEW t, Taken(m, Then(m, f), f, value, t),
         f.kind \notin {"array", "dict"}
  PROVE  LET after == ThenAny(m, f)
         IN IsState(after) /\ IsReading(after) /\ Taken(m, after, f, value, t)
  <1>1. ThenAny(m, f) = Then(m, f)
    BY DEF ThenAny
  <1>2. IsState(ThenAny(m, f))
    BY StepKeepsState
  <1>3. QED
    BY <1>1, <1>2 DEF IsReading, IsState, Taken

LEMMA TagIsRead ==
  ASSUME NEW f, NEW x \in Byte, IsTag(f, x), NEW t \in Seq(Byte), NEW min
  PROVE  LET after == ThenAny(DecodeStart(<<x>> \o t, min), f)
         IN IsState(after) /\ IsReading(after) /\ after.rest = t
  <1> DEFINE m == DecodeStart(<<x>> \o t, min)
  <1>1. IsState(m) /\ IsReading(m) /\ m.rest = <<x>> \o t
    BY DEF DecodeStart, IsState, IsReading, Statuses
  <1> HIDE DEF m
  <1>2. f.kind = "byte" /\ x \in f.valid
    BY DEF IsTag
  <1>3. Taken(m, Then(m, f), f, x, t)
    BY <1>1, <1>2, TakesByte
  <1>4. IsState(ThenAny(m, f)) /\ IsReading(ThenAny(m, f)) /\ Taken(m, ThenAny(m, f), f, x, t)
    BY <1>1, <1>2, <1>3, StaysReading
  <1>5. QED
    BY <1>4 DEF Taken, m

LEMMA PayloadIsRead ==
  ASSUME NEW m, IsState(m), IsReading(m), NEW text \in Texts, NEW t \in Seq(Byte),
         m.rest = Append(text, 0) \o t, NEW f, IsPayload(f)
  PROVE  LET after == ThenAny(m, f)
         IN  /\ IsState(after) /\ IsReading(after) /\ after.rest = t
             /\ "payload" \in DOMAIN after.values /\ after.values["payload"] = text
  <1>1. f.kind = "string" /\ f.valid = {} /\ f.name = "payload"
    BY DEF IsPayload
  <1>2. Taken(m, Then(m, f), f, text, t)
    BY <1>1, TakesText
  <1>3. IsState(ThenAny(m, f)) /\ IsReading(ThenAny(m, f)) /\ Taken(m, ThenAny(m, f), f, text, t)
    BY <1>1, <1>2, StaysReading
  <1>4. QED
    BY <1>1, <1>3 DEF Taken, With

LEMMA ChallengeIsRead ==
  ASSUME NEW m, IsState(m), IsReading(m), NEW l \in Longs, m.rest = l, NEW f, IsChallenge(f)
  PROVE  LET after == ThenAny(m, f)
         IN  /\ after.status = "ok"
             /\ after.values["challenge"] = l
             /\ \A name \in DOMAIN m.values : name # "challenge" =>
                  after.values[name] = m.values[name]
  <1>1. f.kind = "long" /\ f.valid = {} /\ f.name = "challenge"
    BY DEF IsChallenge
  <1>2. <<>> \in Seq(Byte) /\ m.rest = l \o <<>>
    BY LongIsSeq, ConcatEmptySeq, EmptySeq
  <1>3. Taken(m, Then(m, f), f, l, <<>>)
    BY <1>1, <1>2, TakesLong
  <1>4. ThenAny(m, f) = Then(m, f)
    BY <1>1 DEF ThenAny
  <1>5. QED
    BY <1>1, <1>3, <1>4 DEF Taken, With

\* Without its four bytes a challenge is none.
LEMMA ChallengeIsMissing ==
  ASSUME NEW m, IsReading(m), m.rest = <<>>, NEW f, IsChallenge(f)
  PROVE  ThenAny(m, f).status = "broken"
  <1>1. f.kind = "long" /\ Size["long"] = 4 /\ Len(m.rest) = 0
    BY DEF IsChallenge, Size
  <1>2. ThenAny(m, f) = Take(m, f, 4, ValueOf("long", SubSeq(m.rest, 1, 4)))
    BY <1>1 DEF ThenAny, Then, ReadField, IsReading
  <1>3. ThenAny(m, f) = [m EXCEPT !.status = "broken"]
    BY <1>1, <1>2 DEF Take
  <1>4. QED
    BY <1>3 DEF IsReading

\* A message as the class that it arrives as reads it
IsReadAs(m, b) ==
  LET r == Decode(ReadAs(m), b, <<>>)
  IN  /\ r.status = "ok"
      /\ \A name \in DOMAIN m.values : r.values[name] = m.values[name]

\* The text of a message, with its terminator and what comes behind it
TextOf(m) == Append(Payload(m), 0)

LEMMA TextIsSeq ==
  ASSUME NEW m \in Messages
  PROVE  TextOf(m) \in Seq(Byte)
  BY OwnValues, TextInBytes DEF Texts, TextOf

LEMMA InfoRequestIsRead ==
  ASSUME NEW m \in Messages, ReadAs(m) = "InfoRequest"
  PROVE  LET b == Encode(Fields[m.class], m.values)
         IN  /\ \E t \in Seq(Byte) : b = <<84>> \o t
             /\ IsReadAs(m, b)
             /\ Decode("InfoRequestV2", b, <<>>).status = "broken"
  <1> DEFINE b == Encode(Fields[m.class], m.values)
             text == TextOf(m)
             m0 == DecodeStart(<<84>> \o text, <<>>)
             none == <<>>
  <1>1. b = <<84>> \o text /\ DOMAIN m.values \subseteq {"payload"}
    BY OwnBytes DEF TextOf
  <1>2. text \in Seq(Byte) /\ 84 \in Byte /\ <<>> \in Seq(Byte)
    BY TextIsSeq, EmptySeq DEF Byte
  <1>3. \E t \in Seq(Byte) : b = <<84>> \o t
    BY <1>1, <1>2
  <1>4. none \in Seq(Byte) /\ text = Append(Payload(m), 0) \o none
    BY <1>2, ConcatEmptySeq DEF TextOf
  <1>5. Payload(m) \in Texts
    BY OwnValues
  <1> HIDE DEF text, b, none
  <1>6. IsReadAs(m, b)
    <2>1. PICK f, g : Fields["InfoRequest"] = <<f, g>> /\ IsTag(f, 84) /\ IsPayload(g)
      BY OwnFields
    <2> DEFINE m1 == ThenAny(m0, f)
               m2 == ThenAny(m1, g)
    <2>2. IsState(m1) /\ IsReading(m1) /\ m1.rest = text
      BY <1>2, <2>1, TagIsRead
    <2> HIDE DEF m1
    <2>3. m2.status = "ok" /\ m2.values["payload"] = Payload(m)
      <3>1. IsState(m1) /\ IsReading(m1) /\ m1.rest = Append(Payload(m), 0) \o none
        BY <1>4, <2>2
      <3>2. IsPayload(g) /\ none \in Seq(Byte)
        BY <1>4, <2>1
      <3>3. IsReading(m2) /\ m2.values["payload"] = Payload(m)
        BY <1>5, <3>1, <3>2, PayloadIsRead
      <3>4. QED
        BY <3>3 DEF IsReading
    <2>4. Decode("InfoRequest", b, <<>>) = m2
      <3>1. Len(Fields["InfoRequest"]) = 2
        BY <2>1
      <3>2. Decode("InfoRequest", b, <<>>) =
              ThenAny(ThenAny(DecodeStart(b, <<>>), Fields["InfoRequest"][1]),
                      Fields["InfoRequest"][2])
        BY <3>1, DecodeTwo
      <3>3. Fields["InfoRequest"][1] = f /\ Fields["InfoRequest"][2] = g
        BY <2>1
      <3>4. QED
        BY <1>1, <3>2, <3>3 DEF m1
    <2> HIDE DEF m2
    <2>5. ASSUME NEW name \in DOMAIN m.values
          PROVE  m2.values[name] = m.values[name]
      <3>1. name = "payload" /\ Payload(m) = m.values["payload"]
        BY <1>1 DEF Payload
      <3>2. QED
        BY <2>3, <3>1
    <2>6. Decode(ReadAs(m), b, <<>>) = m2
      BY <2>4
    <2>7. QED
      BY <2>3, <2>5, <2>6 DEF IsReadAs
  <1>7. Decode("InfoRequestV2", b, <<>>).status = "broken"
    <2>1. PICK f, g, h : /\ Fields["InfoRequestV2"] = <<f, g, h>>
                         /\ IsTag(f, 84) /\ IsPayload(g) /\ IsChallenge(h)
      BY OwnFields
    <2> DEFINE m1 == ThenAny(m0, f)
               m2 == ThenAny(m1, g)
               m3 == ThenAny(m2, h)
    <2>2. IsState(m1) /\ IsReading(m1) /\ m1.rest = text
      BY <1>2, <2>1, TagIsRead
    <2> HIDE DEF m1
    <2>3. IsReading(m2) /\ m2.rest = none
      <3>1. IsState(m1) /\ IsReading(m1) /\ m1.rest = Append(Payload(m), 0) \o none
        BY <1>4, <2>2
      <3>2. IsPayload(g) /\ none \in Seq(Byte)
        BY <1>4, <2>1
      <3>3. QED
        BY <1>5, <3>1, <3>2, PayloadIsRead
    <2> HIDE DEF m2
    <2>4. m3.status = "broken"
      BY <2>1, <2>3, ChallengeIsMissing DEF none
    <2>5. Decode("InfoRequestV2", b, <<>>) = m3
      <3>1. Len(Fields["InfoRequestV2"]) = 3
        BY <2>1
      <3>2. Decode("InfoRequestV2", b, <<>>) =
              ThenAny(ThenAny(ThenAny(DecodeStart(b, <<>>), Fields["InfoRequestV2"][1]),
                              Fields["InfoRequestV2"][2]), Fields["InfoRequestV2"][3])
        BY <3>1, DecodeThree
      <3>3. /\ Fields["InfoRequestV2"][1] = f /\ Fields["InfoRequestV2"][2] = g
            /\ Fields["InfoRequestV2"][3] = h
        BY <2>1
      <3>4. QED
        BY <1>1, <3>2, <3>3 DEF m1, m2
    <2>6. QED
      BY <2>4, <2>5
  <1>8. QED
    BY <1>3, <1>6, <1>7 DEF b

LEMMA InfoRequestV2IsRead ==
  ASSUME NEW m \in Messages, ReadAs(m) = "InfoRequestV2"
  PROVE  LET b == Encode(Fields[m.class], m.values)
         IN (\E t \in Seq(Byte) : b = <<84>> \o t) /\ IsReadAs(m, b)
  <1> DEFINE b == Encode(Fields[m.class], m.values)
             text == TextOf(m)
             long == m.values["challenge"]
             tail == text \o long
             m0 == DecodeStart(<<84>> \o tail, <<>>)
  <1>1. /\ b = Join(Join(<<84>>, text), long)
        /\ DOMAIN m.values \subseteq {"payload", "challenge"}
    BY OwnBytes DEF TextOf
  <1>2. long \in Longs /\ long \in Seq(Byte)
    BY OwnValues, LongIsSeq, ReadAsIs
  <1>3. text \in Seq(Byte) /\ 84 \in Byte /\ <<84>> \in Seq(Byte)
    BY TextIsSeq DEF Byte
  <1> HIDE DEF b, text, long
  <1>4. tail \in Seq(Byte)
    BY <1>2, <1>3, ConcatProperties
  <1>5. b = <<84>> \o tail
    <2>1. Join(Join(<<84>>, text), long) = <<84>> \o tail
      BY <1>2, <1>3, ConcatAssociative DEF Join
    <2>2. QED
      BY <1>1, <2>1
  <1>6. Payload(m) \in Texts /\ tail = Append(Payload(m), 0) \o long
    BY OwnValues DEF text, TextOf
  <1> HIDE DEF tail
  <1>7. IsReadAs(m, b)
    <2>1. PICK f, g, h : /\ Fields["InfoRequestV2"] = <<f, g, h>>
                         /\ IsTag(f, 84) /\ IsPayload(g) /\ IsChallenge(h)
      BY OwnFields
    <2> DEFINE m1 == ThenAny(m0, f)
               m2 == ThenAny(m1, g)
               m3 == ThenAny(m2, h)
    <2>2. IsState(m1) /\ IsReading(m1) /\ m1.rest = tail
      BY <1>3, <1>4, <2>1, TagIsRead
    <2> HIDE DEF m1
    <2>3. /\ IsState(m2) /\ IsReading(m2) /\ m2.rest = long
          /\ "payload" \in DOMAIN m2.values /\ m2.values["payload"] = Payload(m)
      BY <1>2, <1>6, <2>1, <2>2, PayloadIsRead
    <2> HIDE DEF m2
    <2>4. /\ m3.status = "ok"
          /\ m3.values["challenge"] = long
          /\ \A name \in DOMAIN m2.values : name # "challenge" => m3.values[name] = m2.values[name]
      BY <1>2, <2>1, <2>3, ChallengeIsRead
    <2>5. Decode("InfoRequestV2", b, <<>>) = m3
      <3>1. Len(Fields["InfoRequestV2"]) = 3
        BY <2>1
      <3>2. Decode("InfoRequestV2", b, <<>>) =
              ThenAny(ThenAny(ThenAny(DecodeStart(b, <<>>), Fields["InfoRequestV2"][1]),
                              Fields["InfoRequestV2"][2]), Fields["InfoRequestV2"][3])
        BY <3>1, DecodeThree
      <3>3. /\ Fields["InfoRequestV2"][1] = f /\ Fields["InfoRequestV2"][2] = g
            /\ Fields["InfoRequestV2"][3] = h
        BY <2>1
      <3>4. QED
        BY <1>5, <3>2, <3>3 DEF m1, m2
    <2> HIDE DEF m3
    <2>6. ASSUME NEW name \in DOMAIN m.values
          PROVE  m3.values[name] = m.values[name]
      <3>1. CASE name = "payload"
        BY <2>3, <2>4, <3>1 DEF Payload
      <3>2. CASE name = "challenge"
        BY <2>4, <3>2 DEF long
      <3>3. QED
        BY <1>1, <3>1, <3>2
    <2>7. QED
      BY <2>4, <2>5, <2>6 DEF IsReadAs
  <1>8. QED
    BY <1>4, <1>5, <1>7 DEF b

LEMMA ChallengeMessageIsRead ==
  ASSUME NEW m \in Messages,
         m.class \in {"PlayersRequest", "RulesRequest", "GetChallengeResponse"}
  PROVE  LET b == Encode(Fields[m.class], m.values)
         IN (\E t \in Seq(Byte) : b = <<TypeOf[m.class]>> \o t) /\ IsReadAs(m, b)
  <1>0. ReadAs(m) = m.class
    BY DEF ReadAs
  <1> DEFINE b == Encode(Fields[m.class], m.values)
             class == m.class
             long == m.values["challenge"]
             x == TypeOf[class]
             m0 == DecodeStart(<<x>> \o long, <<>>)
  <1>1. b = <<x>> \o long /\ DOMAIN m.values \subseteq {"challenge"}
    BY OwnBytes
  <1>2. long \in Longs /\ long \in Seq(Byte)
    BY OwnValues, LongIsSeq
  <1>3. x \in Byte
    BY DEF Byte, TypeOf
  <1>4. PICK f, g : Fields[class] = <<f, g>> /\ IsTag(f, x) /\ IsChallenge(g)
    BY OwnFields DEF TypeOf
  <1> HIDE DEF b, long, x, class
  <1> DEFINE m1 == ThenAny(m0, f)
             m2 == ThenAny(m1, g)
  <1>5. IsState(m1) /\ IsReading(m1) /\ m1.rest = long
    BY <1>2, <1>3, <1>4, TagIsRead
  <1> HIDE DEF m1
  <1>6. m2.status = "ok" /\ m2.values["challenge"] = long
    BY <1>2, <1>4, <1>5, ChallengeIsRead
  <1>7. Decode(class, b, <<>>) = m2
    <2>1. Len(Fields[class]) = 2 /\ Fields[class][1] = f /\ Fields[class][2] = g
      BY <1>4
    <2>2. Decode(class, b, <<>>) =
            ThenAny(ThenAny(DecodeStart(b, <<>>), Fields[class][1]), Fields[class][2])
      BY <2>1, DecodeTwo
    <2>3. QED
      BY <1>1, <2>1, <2>2 DEF m1
  <1> HIDE DEF m2
  <1>8. ASSUME NEW name \in DOMAIN m.values
        PROVE  m2.values[name] = m.values[name]
    BY <1>1, <1>6 DEF long
  <1>9. IsReadAs(m, b)
    BY <1>0, <1>6, <1>7, <1>8 DEF IsReadAs, class
  <1>10. QED
    BY <1>1, <1>2, <1>9 DEF b, x, class

LEMMA OwnMessageBegins ==
  ASSUME NEW m \in Messages
  PROVE  LET b == Encode(Fields[m.class], m.values)
         IN  /\ TypeOf[m.class] \in Byte
             /\ \E t \in Seq(Byte) : b = <<TypeOf[m.class]>> \o t
             /\ IsReadAs(m, b)
             /\ b \in Seq(Byte)
  <1> DEFINE b == Encode(Fields[m.class], m.values)
             x == TypeOf[m.class]
  <1>1. m.class \in {"InfoRequest", "InfoRequestV2", "PlayersRequest", "RulesRequest",
                     "GetChallengeResponse"}
    BY OwnValues
  <1>2. x \in Byte
    <2>1. \A y \in {84, 85, 86, 65} : y \in Byte
      BY DEF Byte
    <2>2. x \in {84, 85, 86, 65}
      BY <1>1 DEF TypeOf
    <2>3. QED
      BY <2>1, <2>2
  <1>3. IsReadAs(m, b) /\ \E t \in Seq(Byte) : b = <<x>> \o t
    <2>1. CASE ReadAs(m) = "InfoRequest"
      <3>1. x = 84
        BY <2>1, ReadAsIs DEF TypeOf
      <3>2. IsReadAs(m, b) /\ \E t \in Seq(Byte) : b = <<84>> \o t
        BY <2>1, InfoRequestIsRead
      <3>3. QED
        BY <3>1, <3>2
    <2>2. CASE ReadAs(m) = "InfoRequestV2"
      <3>1. x = 84
        BY <2>2, ReadAsIs DEF TypeOf
      <3>2. IsReadAs(m, b) /\ \E t \in Seq(Byte) : b = <<84>> \o t
        BY <2>2, InfoRequestV2IsRead
      <3>3. QED
        BY <3>1, <3>2
    <2>3. CASE m.class \in {"PlayersRequest", "RulesRequest", "GetChallengeResponse"}
      BY <2>3, ChallengeMessageIsRead
    <2>4. QED
      BY <1>1, <2>1, <2>2, <2>3 DEF ReadAs
  <1> HIDE DEF b, x
  <1>4. b \in Seq(Byte)
    <2>1. <<x>> \in Seq(Byte)
      BY <1>2
    <2>2. QED
      BY <1>3, <2>1, ConcatProperties
  <1>5. QED
    BY <1>2, <1>3, <1>4 DEF b, x

\* decode_packet tries one class after the other: one that breaks leaves it to
\* the next, and the first that reads the packet is the last one tried.
LEMMA TryBreaks ==
  ASSUME NEW class \in AllClasses, NEW b, Decode(class, b, <<>>).status = "broken",
         NEW r, r.is = "none"
  PROVE  Try(r, class, b).is = "none"
  <1> DEFINE d == Decode(class, b, r.minimum)
  <1>1. d.status = "broken"
    BY OnlyInfoRaises, DecodeForgets DEF Same
  <1>2. Try(r, class, b) = AsMessage(class, d)
    BY DEF Try
  <1> HIDE DEF d
  <1>3. QED
    BY <1>1, <1>2 DEF AsMessage, Outcomes

\* What is returned for a message
Returned(r, m) ==
  /\ r.is = "message"
  /\ r.message.class = ReadAs(m)
  /\ \A name \in DOMAIN m.values : r.message.values[name] = m.values[name]

LEMMA TryReads ==
  ASSUME NEW m, ReadAs(m) \in AllClasses, NEW b, IsReadAs(m, b), NEW r, r.is = "none"
  PROVE  Returned(Try(r, ReadAs(m), b), m)
  <1> DEFINE class == ReadAs(m)
             d == Decode(class, b, r.minimum)
             d0 == Decode(class, b, <<>>)
             after == AsMessage(class, d)
  <1>1. d.status = d0.status /\ d.values = d0.values
    BY OnlyInfoRaises, DecodeForgets DEF Same
  <1>2. d0.status = "ok" /\ \A name \in DOMAIN m.values : d0.values[name] = m.values[name]
    BY DEF IsReadAs
  <1>3. Try(r, class, b) = after
    BY DEF Try
  <1> HIDE DEF d, d0
  <1>4. after.is = "message" /\ after.message = [class |-> class, values |-> d.values]
    BY <1>1, <1>2 DEF AsMessage, Outcomes
  <1> HIDE DEF after
  <1>5. after.message.class = class /\ after.message.values = d.values
    BY <1>4
  <1>6. QED
    BY <1>1, <1>2, <1>3, <1>4, <1>5 DEF Returned

LEMMA TryIsOver ==
  ASSUME NEW class, NEW b, NEW m, NEW r, Returned(r, m)
  PROVE  Returned(Try(r, class, b), m)
  BY DEF Returned, Try

LEMMA OwnMessageIsReturned ==
  ASSUME NEW m \in Messages, NEW cs, IsEnd(cs), m.class \in Range(cs)
  PROVE  Returned(decode_packet(EncodePacket(Fields[m.class], m.values), cs, <<>>), m)
  <1> DEFINE b == Encode(Fields[m.class], m.values)
             header == Read(Header, NO_SPLIT \o b)
             r0 == TryStart(header, <<>>)
             r1 == Try(r0, cs[1], b)
             r2 == Try(r1, cs[2], b)
             r3 == Try(r2, cs[3], b)
             r4 == Try(r3, cs[4], b)
             Breaks(class) == Decode(class, b, <<>>).status = "broken"
  <1> DEFINE c == ReadAs(m)
  <1>1. /\ c \in {"InfoRequest", "InfoRequestV2", "PlayersRequest", "RulesRequest",
                  "GetChallengeResponse"}
        /\ c \in AllClasses
    BY ReadAsIs DEF AllClasses, Range, request_message_classes, response_message_classes
  <1>2. /\ TypeOf[c] \in Byte
        /\ \E t \in Seq(Byte) : b = <<TypeOf[c]>> \o t
        /\ IsReadAs(m, b)
    BY OwnMessageBegins, ReadAsIs
  <1>3. ASSUME NEW class \in AllClasses, TypeOf[class] # TypeOf[c]
        PROVE  Breaks(class)
    BY <1>2, <1>3, OtherClassBreaks
  <1>4. c = "InfoRequest" => Breaks("InfoRequestV2")
    BY InfoRequestIsRead
  <1>5. b \in Seq(Byte)
    BY OwnMessageBegins
  <1> HIDE DEF b
  <1>6. header.status = "ok" /\ header.rest = b
    BY <1>5, HeaderIsRead
  <1>7. decode_packet(EncodePacket(Fields[m.class], m.values), cs, <<>>) = r4
    <2>1. EncodePacket(Fields[m.class], m.values) = NO_SPLIT \o b
      BY DEF EncodePacket, b
    <2>2. decode_packet(NO_SPLIT \o b, cs, <<>>) = AllTried(r0, cs, header.rest)
      BY DecodeBodyIs DEF decode_packet
    <2>3. QED
      BY <1>6, <2>1, <2>2 DEF AllTried
  <1>8. r0.is = "none"
    BY <1>6 DEF TryStart
  <1>9. \A i \in 1 .. 4 : cs[i] \in AllClasses
    BY ClassesOfEnd
  <1>10. PICK k \in 1 .. 4 : cs[k] = c /\ \A i \in 1 .. k - 1 : Breaks(cs[i])
    <2>1. CASE cs = request_message_classes
      <3>1. /\ cs[1] = "InfoRequestV2" /\ cs[2] = "InfoRequest"
            /\ cs[3] = "PlayersRequest" /\ cs[4] = "RulesRequest"
        BY <2>1 DEF request_message_classes
      <3>2. CASE c = "InfoRequestV2"
        BY <3>1, <3>2
      <3>3. CASE c = "InfoRequest"
        BY <1>4, <3>1, <3>3
      <3>4. CASE c = "PlayersRequest"
        <4>1. Breaks(cs[1]) /\ Breaks(cs[2])
          BY <1>3, <1>9, <3>1, <3>4 DEF TypeOf
        <4>2. QED
          BY <3>1, <3>4, <4>1
      <3>5. CASE c = "RulesRequest"
        <4>1. Breaks(cs[1]) /\ Breaks(cs[2]) /\ Breaks(cs[3])
          BY <1>3, <1>9, <3>1, <3>5 DEF TypeOf
        <4>2. \A i \in 1 .. 4 - 1 : i = 1 \/ i = 2 \/ i = 3
          OBVIOUS
        <4>3. QED
          BY <3>1, <3>5, <4>1, <4>2
      <3>6. c # "GetChallengeResponse"
        BY <2>1 DEF ReadAs, request_message_classes, Range
      <3>7. QED
        BY <1>1, <3>2, <3>3, <3>4, <3>5, <3>6
    <2>2. CASE cs = response_message_classes
      <3>1. /\ cs[1] = "InfoResponse" /\ cs[2] = "PlayersResponse"
            /\ cs[3] = "RulesResponse" /\ cs[4] = "GetChallengeResponse"
        BY <2>2 DEF response_message_classes
      <3>2. c = "GetChallengeResponse"
        BY <2>2, OwnValues DEF ReadAs, response_message_classes, Range
      <3>3. Breaks(cs[1]) /\ Breaks(cs[2]) /\ Breaks(cs[3])
        BY <1>3, <1>9, <3>1, <3>2 DEF TypeOf
      <3>4. \A i \in 1 .. 4 - 1 : i = 1 \/ i = 2 \/ i = 3
        OBVIOUS
      <3>5. QED
        BY <3>1, <3>2, <3>3, <3>4
    <2>3. QED
      BY <2>1, <2>2 DEF IsEnd
  <1> HIDE DEF header, r0, c
  <1>11. CASE k = 1
    <2>1. Returned(r1, m)
      BY <1>1, <1>2, <1>8, <1>10, <1>11, TryReads DEF c
    <2>2. QED
      BY <1>7, <2>1, TryIsOver
  <1>12. CASE k = 2
    <2>1. r1.is = "none"
      BY <1>8, <1>9, <1>10, <1>12, TryBreaks
    <2> HIDE DEF r1
    <2>2. Returned(r2, m)
      BY <1>1, <1>2, <1>10, <1>12, <2>1, TryReads DEF c
    <2>3. QED
      BY <1>7, <2>2, TryIsOver
  <1>13. CASE k = 3
    <2>1. Breaks(cs[1]) /\ Breaks(cs[2])
      BY <1>10, <1>13
    <2>2. r1.is = "none"
      BY <1>8, <1>9, <2>1, TryBreaks
    <2> HIDE DEF r1
    <2>3. r2.is = "none"
      BY <1>9, <2>1, <2>2, TryBreaks
    <2> HIDE DEF r2
    <2>4. Returned(r3, m)
      BY <1>1, <1>2, <1>10, <1>13, <2>3, TryReads DEF c
    <2>5. QED
      BY <1>7, <2>4, TryIsOver
  <1>14. CASE k = 4
    <2>1. Breaks(cs[1]) /\ Breaks(cs[2]) /\ Breaks(cs[3])
      BY <1>10, <1>14
    <2>2. r1.is = "none"
      BY <1>8, <1>9, <2>1, TryBreaks
    <2> HIDE DEF r1
    <2>3. r2.is = "none"
      BY <1>9, <2>1, <2>2, TryBreaks
    <2> HIDE DEF r2
    <2>4. r3.is = "none"
      BY <1>9, <2>1, <2>3, TryBreaks
    <2> HIDE DEF r3
    <2>5. QED
      BY <1>1, <1>2, <1>7, <1>10, <1>14, <2>4, TryReads DEF c
  <1>15. k = 1 \/ k = 2 \/ k = 3 \/ k = 4
    OBVIOUS
  <1>16. QED
    BY <1>11, <1>12, <1>13, <1>14, <1>15

-----------------------------------------------------------------------------
\* A packet and a longer one that begins with it: what the fields of the first are
\* read as, those of the other are too, and what is left is longer by as much.
LEMMA JoinIs ==
  ASSUME NEW a \in Seq(Byte), NEW b \in Seq(Byte)
  PROVE  /\ Join(a, b) \in Seq(Byte)
         /\ Len(Join(a, b)) = Len(a) + Len(b)
         /\ \A i \in 1 .. Len(a) + Len(b) :
              Join(a, b)[i] = IF i <= Len(a) THEN a[i] ELSE b[i - Len(a)]
  BY ConcatProperties DEF Join

LEMMA JoinAssociative ==
  ASSUME NEW a \in Seq(Byte), NEW b \in Seq(Byte), NEW c \in Seq(Byte)
  PROVE  Join(Join(a, b), c) = Join(a, Join(b, c))
  <1> DEFINE ab == Join(a, b)
             bc == Join(b, c)
             left == Join(ab, c)
             right == Join(a, bc)
             n == Len(a) + Len(b) + Len(c)
  <1>1. Len(a) \in Nat /\ Len(b) \in Nat /\ Len(c) \in Nat
    BY LenProperties
  <1>2. /\ ab \in Seq(Byte) /\ Len(ab) = Len(a) + Len(b)
        /\ \A i \in 1 .. Len(a) + Len(b) : ab[i] = IF i <= Len(a) THEN a[i] ELSE b[i - Len(a)]
    BY JoinIs
  <1>3. /\ bc \in Seq(Byte) /\ Len(bc) = Len(b) + Len(c)
        /\ \A i \in 1 .. Len(b) + Len(c) : bc[i] = IF i <= Len(b) THEN b[i] ELSE c[i - Len(b)]
    BY JoinIs
  <1> HIDE DEF ab, bc
  <1>4. /\ left \in Seq(Byte) /\ Len(left) = n
        /\ \A i \in 1 .. n : left[i] = IF i <= Len(ab) THEN ab[i] ELSE c[i - Len(ab)]
    <2>1. /\ left \in Seq(Byte) /\ Len(left) = Len(ab) + Len(c)
          /\ \A i \in 1 .. Len(ab) + Len(c) :
               left[i] = IF i <= Len(ab) THEN ab[i] ELSE c[i - Len(ab)]
      BY <1>2, JoinIs
    <2>2. Len(ab) + Len(c) = n
      BY <1>1, <1>2
    <2> HIDE DEF left, n
    <2>3. QED
      BY <2>1, <2>2
  <1>5. /\ right \in Seq(Byte) /\ Len(right) = n
        /\ \A i \in 1 .. n : right[i] = IF i <= Len(a) THEN a[i] ELSE bc[i - Len(a)]
    <2>1. /\ right \in Seq(Byte) /\ Len(right) = Len(a) + Len(bc)
          /\ \A i \in 1 .. Len(a) + Len(bc) :
               right[i] = IF i <= Len(a) THEN a[i] ELSE bc[i - Len(a)]
      BY <1>3, JoinIs
    <2>2. Len(a) + Len(bc) = n
      BY <1>1, <1>3
    <2> HIDE DEF right, n
    <2>3. QED
      BY <2>1, <2>2
  <1> HIDE DEF left, right
  <1>6. ASSUME NEW i \in 1 .. n
        PROVE  left[i] = right[i]
    <2>1. CASE i <= Len(a)
      <3>1. i \in 1 .. Len(a) + Len(b) /\ i <= Len(ab)
        BY <1>1, <1>2, <2>1
      <3>2. left[i] = a[i]
        BY <1>2, <1>4, <2>1, <3>1
      <3>3. right[i] = a[i]
        BY <1>5, <2>1
      <3>4. QED
        BY <3>2, <3>3
    <2>2. CASE ~(i <= Len(a)) /\ i <= Len(a) + Len(b)
      <3>1. left[i] = b[i - Len(a)]
        BY <1>1, <1>2, <1>4, <2>2
      <3>2. i - Len(a) \in 1 .. Len(b) + Len(c) /\ i - Len(a) <= Len(b)
        BY <1>1, <2>2
      <3>3. right[i] = b[i - Len(a)]
        BY <1>3, <1>5, <2>2, <3>2
      <3>4. QED
        BY <3>1, <3>3
    <2>3. CASE ~(i <= Len(a) + Len(b))
      <3>1. i - Len(a) \in 1 .. Len(b) + Len(c) /\ ~(i - Len(a) <= Len(b)) /\ ~(i <= Len(a))
              /\ (i - Len(a)) - Len(b) = i - (Len(a) + Len(b))
        BY <1>1, <2>3
      <3>2. left[i] = c[i - (Len(a) + Len(b))]
        BY <1>2, <1>4, <2>3
      <3>3. right[i] = c[(i - Len(a)) - Len(b)]
        BY <1>3, <1>5, <3>1
      <3>4. QED
        BY <3>1, <3>2, <3>3
    <2>4. QED
      BY <2>1, <2>2, <2>3
  <1>7. left = right
    BY <1>4, <1>5, <1>6, SeqEqual
  <1>8. QED
    BY <1>7 DEF left, right, ab, bc

LEMMA CutInPieces ==
  ASSUME NEW r \in Seq(Byte), NEW n \in 1 .. Len(r)
  PROVE  /\ SubSeq(r, 1, n) \in Seq(Byte) /\ SubSeq(r, n + 1, Len(r)) \in Seq(Byte)
         /\ Len(SubSeq(r, 1, n)) = n
         /\ Join(SubSeq(r, 1, n), SubSeq(r, n + 1, Len(r))) = r
  <1>1. Len(r) \in Nat /\ 1 \in 1 .. Len(r) + 1 /\ n \in 1 - 1 .. Len(r) /\ Len(r) \in n .. Len(r)
    BY LenProperties
  <1>2. (\A i \in 1 .. n : r[i] \in Byte) /\ (\A i \in n + 1 .. Len(r) : r[i] \in Byte)
    BY <1>1, ElementOfSeq
  <1>3. SubSeq(r, 1, n) \in Seq(Byte) /\ Len(SubSeq(r, 1, n)) = n
    BY <1>1, <1>2, SubSeqProperties
  <1>4. SubSeq(r, n + 1, Len(r)) \in Seq(Byte)
    BY <1>1, <1>2, SubSeqProperties
  <1>5. SubSeq(r, 1, n) \o SubSeq(r, n + 1, Len(r)) = SubSeq(r, 1, Len(r))
    BY <1>1, ConcatAdjacentSubSeq
  <1>6. QED
    BY <1>3, <1>4, <1>5, SubSeqFull DEF Join

LEMMA LongerInPieces ==
  ASSUME NEW r \in Seq(Byte), NEW n \in 1 .. Len(r), NEW t \in Seq(Byte)
  PROVE  /\ SubSeq(Join(r, t), 1, n) = SubSeq(r, 1, n)
         /\ SubSeq(Join(r, t), n + 1, Len(Join(r, t))) = Join(SubSeq(r, n + 1, Len(r)), t)
         /\ Len(Join(r, t)) >= n
  <1> DEFINE a == SubSeq(r, 1, n)
             c == SubSeq(r, n + 1, Len(r))
  <1>1. a \in Seq(Byte) /\ c \in Seq(Byte) /\ Len(a) = n /\ Join(a, c) = r
    BY CutInPieces
  <1>2. Join(c, t) \in Seq(Byte)
    BY <1>1, ConcatProperties DEF Join
  <1>3. Join(r, t) = Join(a, Join(c, t))
    <2> HIDE DEF a, c
    <2>1. a \in Seq(Byte) /\ c \in Seq(Byte) /\ t \in Seq(Byte)
      BY <1>1
    <2>2. Join(Join(a, c), t) = Join(a, Join(c, t))
      BY <2>1, JoinAssociative
    <2>3. QED
      BY <1>1, <2>2
  <1> DEFINE u == Join(c, t)
             b == Join(a, u)
  <1>4. Join(r, t) = b /\ u \in Seq(Byte)
    BY <1>2, <1>3
  <1> HIDE DEF a, u
  <1>5. /\ Len(b) = Len(a) + Len(u) /\ SubSeq(b, 1, Len(a)) = a
        /\ SubSeq(b, Len(a) + 1, Len(b)) = u
    BY <1>1, <1>4, FirstPiece DEF Join
  <1> HIDE DEF b
  <1>6. SubSeq(b, 1, n) = a /\ SubSeq(b, n + 1, Len(b)) = u
    BY <1>1, <1>5
  <1>7. Len(b) >= n
    <2>1. Len(u) \in Nat /\ n \in Nat
      BY <1>4, LenProperties
    <2>2. QED
      BY <1>1, <1>5, <2>1
  <1>8. QED
    BY <1>4, <1>6, <1>7 DEF a, c, u

\* The first NUL stays the first one.
LEMMA StringStays ==
  ASSUME NEW r \in Seq(Byte), NEW t \in Seq(Byte), StringLength(r) # 0
  PROVE  StringLength(r) \in 1 .. Len(r) /\ StringLength(Join(r, t)) = StringLength(r)
  <1> DEFINE s == Join(r, t)
             I == {i \in 1 .. Len(r) : r[i] = 0}
             J == {i \in 1 .. Len(s) : s[i] = 0}
             n == Min(I)
  <1>1. StringLength(r) = IF I # {} THEN Min(I) ELSE 0
    BY DEF StringLength, SelectInSeq
  <1>2. StringLength(s) = IF J # {} THEN Min(J) ELSE 0
    BY DEF StringLength, SelectInSeq
  <1>3. /\ Len(r) \in Nat /\ Len(t) \in Nat /\ Len(s) = Len(r) + Len(t)
        /\ \A i \in 1 .. Len(r) : s[i] = r[i]
    <2>1. Len(r) \in Nat /\ Len(t) \in Nat
      BY LenProperties
    <2>2. /\ Len(s) = Len(r) + Len(t)
          /\ \A i \in 1 .. Len(r) + Len(t) : s[i] = IF i <= Len(r) THEN r[i] ELSE t[i - Len(r)]
      BY ConcatProperties DEF Join
    <2> HIDE DEF s
    <2>3. \A i \in 1 .. Len(r) : i \in 1 .. Len(r) + Len(t) /\ i <= Len(r)
      BY <2>1
    <2>4. QED
      BY <2>1, <2>2, <2>3
  <1> HIDE DEF s
  <1>4. I \in SUBSET Nat /\ J \in SUBSET Nat /\ I # {}
    BY <1>1, <1>3
  <1>5. n \in I /\ \A i \in I : n <= i
    <2> HIDE DEF I
    <2>1. QED
      BY <1>4, LeastNumberIsMin
  <1> HIDE DEF n
  <1>6. n \in 1 .. Len(r) /\ n \in J
    BY <1>3, <1>5
  <1>7. ASSUME NEW i \in J
        PROVE  n <= i
    <2>1. CASE i \in 1 .. Len(r)
      BY <1>3, <1>5, <2>1
    <2>2. CASE i \notin 1 .. Len(r)
      BY <1>3, <1>6, <2>2
    <2>3. QED
      BY <2>1, <2>2
  <1> HIDE DEF I, J
  <1>8. Min(J) = n
    BY <1>4, <1>6, <1>7, MinIs
  <1>9. QED
    BY <1>1, <1>2, <1>4, <1>6, <1>8 DEF n, s

IsLonger(m1, m2, t) ==
  /\ IsReading(m1) /\ IsReading(m2)
  /\ m1.values = m2.values
  /\ m1.rest \in Seq(Byte) /\ m2.rest = Join(m1.rest, t)

Plain == {"string", "byte", "enum", "short", "long", "float"}

LEMMA FieldGoesOn ==
  ASSUME NEW t \in Seq(Byte), NEW m1, NEW m2, IsLonger(m1, m2, t), NEW f, f.kind \in Plain,
         Then(m1, f).status = "ok"
  PROVE  /\ IsLonger(Then(m1, f), Then(m2, f), t)
         /\ \E x \in Seq(Byte) :
              /\ Then(m1, f).values = With(m1.values, f.name, ValueOf(f.kind, x))
              /\ f.kind # "string" => Len(x) = Size[f.kind]
  <1> DEFINE r == m1.rest
             s == Join(r, t)
             n == IF f.kind = "string" THEN StringLength(r) ELSE Size[f.kind]
             k == IF f.kind = "string" THEN StringLength(s) ELSE Size[f.kind]
             value == ValueOf(f.kind, SubSeq(r, 1, n))
  <1>1. /\ r \in Seq(Byte) /\ m2.rest = s /\ m1.status = "ok" /\ m2.status = "ok"
        /\ m1.values = m2.values
    BY DEF IsLonger, IsReading
  <1>2. Then(m1, f) = Take(m1, f, n, value)
    BY <1>1 DEF Then, ReadField
  <1>3. Then(m2, f) = Take(m2, f, k, ValueOf(f.kind, SubSeq(s, 1, k)))
    BY <1>1 DEF Then, ReadField
  <1>4. n # 0 /\ ~(Len(r) < n) /\ (f.valid = {} \/ value \in f.valid)
    <2> HIDE DEF n, value
    <2>1. Take(m1, f, n, value).status = "ok"
      BY <1>2
    <2>2. Invalid(f.kind) # "ok"
      BY DEF Invalid
    <2>3. QED
      BY <2>1, <2>2 DEF Take, IsLonger, IsReading
  <1>5. k = n /\ n \in 1 .. Len(r)
    <2>1. Len(r) \in Nat
      BY <1>1, LenProperties
    <2>2. CASE f.kind = "string"
      BY <1>1, <1>4, <2>2, StringStays
    <2>3. CASE f.kind # "string"
      <3>1. Size[f.kind] \in Nat
        BY <2>3 DEF Plain, Size
      <3>2. n = Size[f.kind] /\ k = Size[f.kind]
        BY <2>3
      <3> HIDE DEF n, k
      <3>3. QED
        BY <1>4, <2>1, <3>1, <3>2
    <2>4. QED
      BY <2>2, <2>3
  <1> HIDE DEF n, k, r, s
  <1>6. /\ SubSeq(s, 1, n) = SubSeq(r, 1, n)
        /\ SubSeq(s, n + 1, Len(s)) = Join(SubSeq(r, n + 1, Len(r)), t)
        /\ Len(s) >= n
    BY <1>1, <1>5, LongerInPieces DEF s
  <1>7. /\ SubSeq(r, n + 1, Len(r)) \in Seq(Byte)
        /\ SubSeq(r, 1, n) \in Seq(Byte) /\ Len(SubSeq(r, 1, n)) = n
    BY <1>1, <1>5, CutInPieces
  <1>8. Then(m2, f) = Take(m2, f, n, value)
    BY <1>3, <1>5, <1>6
  <1>9. ~(n = 0 \/ Len(r) < n) /\ ~(n = 0 \/ Len(s) < n)
    <2>1. Len(s) \in Nat /\ n \in Nat
      <3>1. s \in Seq(Byte)
        BY <1>1, ConcatProperties DEF s, Join
      <3>2. QED
        BY <1>5, <3>1, LenProperties
    <2>2. QED
      BY <1>4, <1>6, <2>1
  <1>10. value = ValueOf(f.kind, SubSeq(r, 1, n))
    OBVIOUS
  <1> HIDE DEF value
  <1>11. Take(m1, f, n, value) =
           [m1 EXCEPT !.values = With(@, f.name, value), !.rest = SubSeq(@, n + 1, Len(@))]
    BY <1>4, <1>9 DEF Take, r
  <1>12. Take(m2, f, n, value) =
           [m2 EXCEPT !.values = With(@, f.name, value), !.rest = SubSeq(@, n + 1, Len(@))]
    BY <1>1, <1>4, <1>9 DEF Take
  <1> DEFINE u1 == Then(m1, f)
             u2 == Then(m2, f)
  <1>13. /\ IsReading(u1) /\ u1.values = With(m1.values, f.name, value)
         /\ u1.rest = SubSeq(r, n + 1, Len(r))
    BY <1>2, <1>11 DEF IsLonger, IsReading, r
  <1>14. /\ IsReading(u2) /\ u2.values = With(m2.values, f.name, value)
         /\ u2.rest = SubSeq(s, n + 1, Len(s))
    BY <1>1, <1>8, <1>12 DEF IsLonger, IsReading
  <1> HIDE DEF u1, u2
  <1>15. IsLonger(u1, u2, t)
    BY <1>1, <1>6, <1>7, <1>13, <1>14 DEF IsLonger
  <1>16. f.kind # "string" => n = Size[f.kind]
    BY DEF n
  <1>17. QED
    BY <1>7, <1>10, <1>13, <1>15, <1>16 DEF u1, u2

\* The fields of an entry
LEMMA ReadGoesOn ==
  ASSUME NEW fields, NEW n \in Nat, Len(fields) = n, \A i \in 1 .. n : fields[i].kind \in Plain,
         NEW r \in Seq(Byte), NEW t \in Seq(Byte), Read(fields, r).status = "ok"
  PROVE  IsLonger(Read(fields, r), Read(fields, Join(r, t)), t)
  <1>1. PICK g : IsReadLoop(g, fields, r, n) /\ Read(fields, r) = g[n]
    BY ReadIs
  <1>2. PICK h : IsReadLoop(h, fields, Join(r, t), n) /\ Read(fields, Join(r, t)) = h[n]
    BY ReadIs
  <1> DEFINE T == {i \in 0 .. n : g[i].status = "ok" => IsLonger(g[i], h[i], t)}
  <1>3. 0 \in T
    <2>1. g[0] = Start(r) /\ h[0] = Start(Join(r, t)) /\ 0 \in 0 .. n
      BY <1>1, <1>2 DEF IsReadLoop
    <2>2. IsLonger(Start(r), Start(Join(r, t)), t)
      BY DEF Start, IsLonger, IsReading
    <2>3. QED
      BY <2>1, <2>2
  <1>4. ASSUME NEW i \in 0 .. n - 1, i \in T
        PROVE  i + 1 \in T
    <2>1. i + 1 \in 0 .. n /\ i + 1 \in 1 .. n /\ i + 1 # 0 /\ (i + 1) - 1 = i
      OBVIOUS
    <2>2. /\ g[i + 1] = Then(g[i], fields[i + 1])
          /\ h[i + 1] = Then(h[i], fields[i + 1])
      BY <1>1, <1>2, <2>1 DEF IsReadLoop
    <2>3. ASSUME g[i + 1].status = "ok"
          PROVE  IsLonger(g[i + 1], h[i + 1], t)
      <3>1. g[i].status = "ok"
        BY <2>2, <2>3 DEF Then
      <3>2. IsLonger(g[i], h[i], t) /\ fields[i + 1].kind \in Plain
        BY <1>4, <2>1, <3>1
      <3>3. QED
        BY <2>2, <2>3, <3>2, FieldGoesOn
    <2>4. QED
      BY <2>1, <2>3
  <1>5. n \in T
    <2> HIDE DEF T
    <2>1. 0 .. n \subseteq T
      BY <1>3, <1>4, IntervalInduct
    <2>2. QED
      BY <2>1
  <1>6. QED
    BY <1>1, <1>2, <1>5

-----------------------------------------------------------------------------
\* Lists that go on
IsSequence(s) == \E S : s \in Seq(S)

LEMMA AppendCounts ==
  ASSUME NEW s, IsSequence(s), NEW x
  PROVE  IsSequence(Append(s, x)) /\ Len(s) \in Nat /\ Len(Append(s, x)) = Len(s) + 1
  <1>1. PICK S : s \in Seq(S)
    BY DEF IsSequence
  <1> DEFINE U == S \union {x}
  <1>2. S \subseteq U /\ x \in U
    OBVIOUS
  <1> HIDE DEF U
  <1>3. s \in Seq(U)
    BY <1>1, <1>2, SeqMonotonic
  <1>4. Append(s, x) \in Seq(U) /\ Len(Append(s, x)) = Len(s) + 1
    BY <1>2, <1>3, AppendProperties
  <1>5. QED
    BY <1>3, <1>4, LenProperties DEF IsSequence

\* After i turns a list has at most i entries, and fewer if it has ended.
IsList(l, i) ==
  /\ DOMAIN l = {"entries", "rest", "ended"} /\ l.ended \in BOOLEAN
  /\ IsSequence(l.entries)
  /\ Len(l.entries) <= i
  /\ l.ended => Len(l.entries) < i

LEMMA NextIsList ==
  ASSUME NEW l, NEW i \in Nat, IsList(l, i), NEW element
  PROVE  IsList(NextEntry(l, element), i + 1)
  <1> DEFINE e == Read(element, l.rest)
  <1>1. Len(l.entries) \in Nat
    BY AppendCounts DEF IsList
  <1>2. CASE l.ended
    <2>1. NextEntry(l, element) = l
      BY <1>2 DEF NextEntry
    <2>2. Len(l.entries) <= i + 1 /\ Len(l.entries) < i + 1
      BY <1>1 DEF IsList
    <2>3. QED
      BY <2>1, <2>2 DEF IsList
  <1>3. CASE ~l.ended /\ e.status # "ok"
    <2>1. NextEntry(l, element) = [l EXCEPT !.ended = TRUE]
      BY <1>3 DEF NextEntry, WithEntry
    <2>2. QED
      BY <1>1, <2>1 DEF IsList
  <1>4. CASE ~l.ended /\ e.status = "ok"
    <2> DEFINE new == Append(l.entries, e.values)
    <2>1. NextEntry(l, element) = [l EXCEPT !.entries = new, !.rest = e.rest]
      BY <1>4 DEF NextEntry, WithEntry
    <2>2. IsSequence(new) /\ Len(new) = Len(l.entries) + 1
      BY AppendCounts DEF IsList
    <2> HIDE DEF new, e
    <2>3. QED
      BY <1>1, <1>4, <2>1, <2>2 DEF IsList
  <1>5. QED
    BY <1>2, <1>3, <1>4

LEMMA EntriesAreList ==
  ASSUME NEW element, NEW rest, NEW n \in Nat, NEW g, IsEntriesLoop(g, element, rest, n)
  PROVE  \A i \in 0 .. n : IsList(g[i], i)
  <1> DEFINE T == {i \in 0 .. n : IsList(g[i], i)}
  <1>1. 0 \in T
    <2>1. g[0] = NoEntries(rest) /\ 0 \in 0 .. n
      BY DEF IsEntriesLoop
    <2>2. IsSequence(<<>>) /\ Len(<<>>) = 0
      BY DEF IsSequence
    <2>3. /\ DOMAIN NoEntries(rest) = {"entries", "rest", "ended"}
          /\ NoEntries(rest).entries = <<>> /\ NoEntries(rest).ended = FALSE
      BY DEF NoEntries
    <2>4. 0 <= 0
      OBVIOUS
    <2>5. IsList(NoEntries(rest), 0)
      BY <2>2, <2>3, <2>4 DEF IsList
    <2>6. QED
      BY <2>1, <2>5
  <1>2. ASSUME NEW i \in 0 .. n - 1, i \in T
        PROVE  i + 1 \in T
    <2>1. i \in Nat /\ i + 1 \in 0 .. n /\ i + 1 # 0 /\ (i + 1) - 1 = i
      OBVIOUS
    <2>2. g[i + 1] = NextEntry(g[i], element)
      BY <2>1 DEF IsEntriesLoop
    <2>3. IsList(g[i], i)
      BY <1>2
    <2>4. IsList(g[i + 1], i + 1)
      BY <2>1, <2>2, <2>3, NextIsList
    <2>5. QED
      BY <2>1, <2>4
  <1>3. 0 .. n \subseteq T
    <2> HIDE DEF T
    <2>1. QED
      BY <1>1, <1>2, IntervalInduct
  <1>4. QED
    BY <1>3

\* An element whose fields are plain is read from its bytes only.
IsElement(element) ==
  \E n \in Nat : Len(element) = n /\ \A i \in 1 .. n : element[i].kind \in Plain

ListGoesOn(l1, l2, t) ==
  /\ ~l1.ended /\ ~l2.ended
  /\ l1.entries = l2.entries
  /\ l1.rest \in Seq(Byte) /\ l2.rest = Join(l1.rest, t)

LEMMA EntryGoesOn ==
  ASSUME NEW element, IsElement(element), NEW t \in Seq(Byte), NEW l1, NEW l2,
         NEW i, IsList(l1, i), IsList(l2, i),
         ListGoesOn(l1, l2, t), ~NextEntry(l1, element).ended
  PROVE  ListGoesOn(NextEntry(l1, element), NextEntry(l2, element), t)
  <1> DEFINE e1 == Read(element, l1.rest)
             e2 == Read(element, l2.rest)
  <1>1. NextEntry(l1, element) = WithEntry(l1, e1) /\ NextEntry(l2, element) = WithEntry(l2, e2)
    BY DEF NextEntry, ListGoesOn
  <1>2. e1.status = "ok"
    <2> HIDE DEF e1
    <2>1. CASE e1.status # "ok"
      BY <1>1, <2>1 DEF WithEntry, IsList
    <2>2. QED
      BY <2>1
  <1>3. IsLonger(e1, e2, t)
    BY <1>2, ReadGoesOn DEF IsElement, ListGoesOn
  <1> HIDE DEF e1, e2
  <1>4. /\ WithEntry(l1, e1) = [l1 EXCEPT !.entries = Append(@, e1.values), !.rest = e1.rest]
        /\ WithEntry(l2, e2) = [l2 EXCEPT !.entries = Append(@, e2.values), !.rest = e2.rest]
    BY <1>3 DEF WithEntry, IsLonger, IsReading
  <1>5. QED
    BY <1>1, <1>3, <1>4 DEF IsList, ListGoesOn, IsLonger

\* A list that is not broken has as many entries as it announces, or none if that
\* number is negative; and it has them in the longer packet.
LEMMA EntriesGoOn ==
  ASSUME NEW element, IsElement(element), NEW count \in Int,
         NEW r \in Seq(Byte), NEW t \in Seq(Byte),
         LET l == ReadEntries(element, count, r) IN ~(l.ended /\ Len(l.entries) < count)
  PROVE  ListGoesOn(ReadEntries(element, count, r), ReadEntries(element, count, Join(r, t)), t)
  <1> DEFINE n == Turns(count)
  <1>1. PICK g : IsEntriesLoop(g, element, r, n) /\ ReadEntries(element, count, r) = g[n]
    BY EntriesIs
  <1>2. PICK h : IsEntriesLoop(h, element, Join(r, t), n)
                 /\ ReadEntries(element, count, Join(r, t)) = h[n]
    BY EntriesIs
  <1>3. n \in Nat /\ (n = count \/ n = 0)
    BY TurnsIs DEF Turns
  <1> HIDE DEF n
  <1>4. \A i \in 0 .. n : IsList(g[i], i) /\ IsList(h[i], i)
    BY <1>1, <1>2, <1>3, EntriesAreList
  <1>5. ~g[n].ended
    <2>1. IsList(g[n], n)
      BY <1>3, <1>4
    <2>2. Len(g[n].entries) \in Nat
      BY <2>1, AppendCounts DEF IsList
    <2>3. QED
      BY <1>1, <1>3, <2>1, <2>2 DEF IsList
  <1> DEFINE T == {i \in 0 .. n : ~g[i].ended => ListGoesOn(g[i], h[i], t)}
  <1>6. 0 \in T
    <2>1. g[0] = NoEntries(r) /\ h[0] = NoEntries(Join(r, t)) /\ 0 \in 0 .. n
      BY <1>1, <1>2, <1>3 DEF IsEntriesLoop
    <2>2. ListGoesOn(NoEntries(r), NoEntries(Join(r, t)), t)
      BY DEF NoEntries, ListGoesOn
    <2>3. QED
      BY <2>1, <2>2
  <1>7. ASSUME NEW i \in 0 .. n - 1, i \in T
        PROVE  i + 1 \in T
    <2>1. i \in 0 .. n /\ i + 1 \in 0 .. n /\ i + 1 # 0 /\ (i + 1) - 1 = i
      BY <1>3
    <2>2. /\ g[i + 1] = NextEntry(g[i], element)
          /\ h[i + 1] = NextEntry(h[i], element)
      BY <1>1, <1>2, <2>1 DEF IsEntriesLoop
    <2>3. ASSUME ~g[i + 1].ended
          PROVE  ListGoesOn(g[i + 1], h[i + 1], t)
      <3>1. ~g[i].ended
        BY <2>2, <2>3 DEF NextEntry
      <3>2. ListGoesOn(g[i], h[i], t) /\ IsList(g[i], i) /\ IsList(h[i], i)
        BY <1>4, <1>7, <2>1, <3>1
      <3>3. QED
        BY <2>2, <2>3, <3>2, EntryGoesOn
    <2>4. QED
      BY <2>1, <2>3
  <1>8. n \in T
    <2> HIDE DEF T
    <2>1. 0 .. n \subseteq T
      BY <1>3, <1>6, <1>7, IntervalInduct
    <2>2. QED
      BY <1>3, <2>1
  <1>9. QED
    BY <1>1, <1>2, <1>5, <1>8

-----------------------------------------------------------------------------
\* A list in a packet that goes on, and each kind of class
LEMMA ListFieldGoesOn ==
  ASSUME NEW t \in Seq(Byte), NEW m1, NEW m2, IsState(m1), IsState(m2), IsLonger(m1, m2, t),
         NEW f, IsElement(f.element), m1.values[f.count] \in Int,
         ReadRepeated(m1, f).status = "ok"
  PROVE  IsLonger(ReadRepeated(m1, f), ReadRepeated(m2, f), t)
  <1> DEFINE count == m1.values[f.count]
             l1 == ReadEntries(f.element, count, m1.rest)
             l2 == ReadEntries(f.element, count, m2.rest)
  <1>1. ReadRepeated(m1, f) = WithList(m1, f, count, l1)
    BY DEF ReadRepeated, Minimum
  <1>2. ReadRepeated(m2, f) = WithList(m2, f, count, l2)
    BY DEF ReadRepeated, Minimum, IsLonger
  <1>3. count \in Int /\ m1.rest \in Seq(Byte) /\ m2.rest = Join(m1.rest, t)
          /\ m1.values = m2.values
    BY DEF IsLonger
  <1>4. ~(l1.ended /\ Len(l1.entries) < count)
    <2> HIDE DEF count, l1
    <2>1. WithList(m1, f, count, l1).status = "ok"
      BY <1>1
    <2>2. QED
      BY <2>1 DEF WithList, IsState
  <1>5. ListGoesOn(l1, l2, t)
    BY <1>3, <1>4, EntriesGoOn
  <1> HIDE DEF count, l1, l2
  <1> DEFINE values == With(m1.values, f.name,
                            IF f.kind = "dict" THEN AsDict(l1.entries) ELSE l1.entries)
             u1 == WithList(m1, f, count, l1)
             u2 == WithList(m2, f, count, l2)
  <1>6. IsReading(u1) /\ u1.values = values /\ u1.rest = l1.rest
    BY <1>5 DEF WithList, IsState, ListGoesOn, IsReading
  <1>7. IsReading(u2) /\ u2.values = values /\ u2.rest = l2.rest
    <2>1. m2.values = m1.values /\ l2.entries = l1.entries /\ ~l2.ended
      BY <1>3, <1>5 DEF ListGoesOn
    <2>2. QED
      BY <2>1 DEF WithList, IsState, IsReading
  <1> HIDE DEF values, u1, u2
  <1>8. IsLonger(u1, u2, t)
    BY <1>5, <1>6, <1>7 DEF IsLonger, ListGoesOn
  <1>9. QED
    BY <1>1, <1>2, <1>8 DEF u1, u2

\* A class all of whose fields are plain
IsPlain(class, n) ==
  Len(Fields[class]) = n /\ \A i \in 1 .. n : Fields[class][i].kind \in Plain

LEMMA PlainGoesOn ==
  ASSUME NEW class, NEW n \in Nat, IsPlain(class, n),
         NEW r \in Seq(Byte), NEW t \in Seq(Byte), NEW min, Decode(class, r, min).status = "ok"
  PROVE  IsLonger(Decode(class, r, min), Decode(class, Join(r, t), min), t)
  <1>0. Len(Fields[class]) = n
    BY DEF IsPlain
  <1> DEFINE s == Join(r, t)
             IsDecoded(b) ==
               \E g : IsDecodeLoop(g, Fields[class], b, min, n) /\ Decode(class, b, min) = g[n]
  <1> HIDE DEF s
  <1>a. IsDecoded(r) /\ IsDecoded(s)
    <2>1. ASSUME NEW b
          PROVE  IsDecoded(b)
      BY <1>0, DecodeIs
    <2> HIDE DEF IsDecoded
    <2>2. QED
      BY <2>1
  <1>1. PICK g : IsDecodeLoop(g, Fields[class], r, min, n) /\ Decode(class, r, min) = g[n]
    BY <1>a
  <1>2. PICK h : IsDecodeLoop(h, Fields[class], s, min, n) /\ Decode(class, s, min) = h[n]
    BY <1>a
  <1> DEFINE fields == Fields[class]
             T == {i \in 0 .. n : g[i].status = "ok" => IsLonger(g[i], h[i], t)}
  <1>3. \A i \in 1 .. n : fields[i].kind \in Plain
    BY DEF IsPlain
  <1>4. 0 \in T
    <2>1. g[0] = DecodeStart(r, min) /\ h[0] = DecodeStart(s, min) /\ 0 \in 0 .. n
      BY <1>1, <1>2 DEF IsDecodeLoop
    <2>2. IsLonger(DecodeStart(r, min), DecodeStart(s, min), t)
      BY DEF DecodeStart, IsLonger, IsReading, s
    <2>3. QED
      BY <2>1, <2>2
  <1>5. ASSUME NEW i \in 0 .. n - 1, i \in T
        PROVE  i + 1 \in T
    <2>1. i + 1 \in 0 .. n /\ i + 1 \in 1 .. n /\ i + 1 # 0 /\ (i + 1) - 1 = i
      OBVIOUS
    <2>2. /\ g[i + 1] = ThenAny(g[i], fields[i + 1])
          /\ h[i + 1] = ThenAny(h[i], fields[i + 1])
      BY <1>1, <1>2, <2>1 DEF IsDecodeLoop
    <2> HIDE DEF fields
    <2>3. fields[i + 1].kind \in Plain /\ fields[i + 1].kind \notin {"array", "dict"}
      BY <1>3, <2>1 DEF Plain
    <2>4. g[i + 1] = Then(g[i], fields[i + 1]) /\ h[i + 1] = Then(h[i], fields[i + 1])
      BY <2>2, <2>3 DEF ThenAny
    <2>5. ASSUME g[i + 1].status = "ok"
          PROVE  IsLonger(g[i + 1], h[i + 1], t)
      <3>1. g[i].status = "ok"
        BY <2>4, <2>5 DEF Then
      <3>2. IsLonger(g[i], h[i], t)
        BY <1>5, <3>1
      <3>3. QED
        BY <2>3, <2>4, <2>5, <3>2, FieldGoesOn
    <2>6. QED
      BY <2>1, <2>5
  <1>6. n \in T
    <2> HIDE DEF T
    <2>1. 0 .. n \subseteq T
      BY <1>4, <1>5, IntervalInduct
    <2>2. QED
      BY <2>1
  <1>7. QED
    BY <1>1, <1>2, <1>6 DEF s

\* A class with a list: a tag, the number of entries, and the entries
LEMMA CountIsInt ==
  ASSUME NEW kind \in {"byte", "short"}, NEW x \in Seq(Byte), Len(x) = Size[kind]
  PROVE  ValueOf(kind, x) \in Int
  <1>1. CASE kind = "byte"
    <2>1. Len(x) = 1
      BY <1>1 DEF Size
    <2>2. x[1] \in Byte
      BY <2>1, ElementOfSeq
    <2>3. x[1] \in Int
      <3>1. \A b \in Byte : b \in Int
        BY DEF Byte
      <3>2. QED
        BY <2>2, <3>1
    <2>4. ValueOf("byte", x) = x[1]
      BY DEF ValueOf
    <2>5. QED
      BY <1>1, <2>3, <2>4
  <1>2. CASE kind = "short"
    <2>1. Len(x) = 2
      BY <1>2 DEF Size
    <2>2. x[1] \in Byte /\ x[2] \in Byte
      BY <2>1, ElementOfSeq
    <2>3. x[1] + 256 * x[2] \in Int
      <3>1. \A a, b \in Byte : a + 256 * b \in Int
        BY DEF Byte
      <3>2. QED
        BY <2>2, <3>1
    <2>4. Signed16(x[1] + 256 * x[2]) \in Int
      BY <2>3 DEF Signed16
    <2>5. ValueOf("short", x) = Signed16(x[1] + 256 * x[2])
      BY DEF ValueOf
    <2>6. QED
      BY <1>2, <2>4, <2>5
  <1>3. QED
    BY <1>1, <1>2

HasList(class) ==
  /\ Len(Fields[class]) = 3
  /\ Fields[class][1].kind = "byte"
  /\ Fields[class][2].kind \in {"byte", "short"}
  /\ Fields[class][3].kind \in {"array", "dict"}
  /\ Fields[class][3].count = Fields[class][2].name
  /\ IsElement(Fields[class][3].element)

LEMMA ListClassGoesOn ==
  ASSUME NEW class, HasList(class), NEW r \in Seq(Byte), NEW t \in Seq(Byte), NEW min,
         Decode(class, r, min).status = "ok"
  PROVE  IsLonger(Decode(class, r, min), Decode(class, Join(r, t), min), t)
  <1> DEFINE f == Fields[class][1]
             c == Fields[class][2]
             l == Fields[class][3]
             s == Join(r, t)
             g0 == DecodeStart(r, min)
             h0 == DecodeStart(s, min)
             g1 == ThenAny(g0, f)
             h1 == ThenAny(h0, f)
             g2 == ThenAny(g1, c)
             h2 == ThenAny(h1, c)
             g3 == ThenAny(g2, l)
             h3 == ThenAny(h2, l)
  <1>1. Decode(class, r, min) = g3 /\ Decode(class, s, min) = h3
    BY DecodeThree DEF HasList
  <1>2. /\ f.kind = "byte" /\ c.kind \in {"byte", "short"} /\ l.kind \in {"array", "dict"}
        /\ l.count = c.name /\ IsElement(l.element)
    BY DEF HasList
  <1>3. IsLonger(g0, h0, t) /\ IsState(g0) /\ IsState(h0)
    BY DEF DecodeStart, IsLonger, IsReading, IsState, Statuses
  <1>4. g3.status = "ok"
    BY <1>1
  <1> HIDE DEF f, c, l, g0, h0, s
  <1>5. /\ f.kind \in Plain /\ c.kind \in Plain /\ c.kind # "string"
        /\ g1 = Then(g0, f) /\ h1 = Then(h0, f) /\ g2 = Then(g1, c) /\ h2 = Then(h1, c)
    BY <1>2 DEF Plain, ThenAny
  <1>6. IsState(g1) /\ IsState(h1)
    BY <1>3, StepKeepsState
  <1> HIDE DEF g1, h1
  <1>7. IsState(g2) /\ IsState(h2)
    BY <1>6, StepKeepsState
  <1> HIDE DEF g2, h2
  <1>8. g2.status = "ok"
    <2>1. g2.status # "ok" => g3 = g2
      BY <1>2 DEF ThenAny, Then
    <2> HIDE DEF g3
    <2>2. QED
      BY <1>4, <2>1
  <1>9. g3 = ReadRepeated(g2, l)
    BY <1>2, <1>8 DEF ThenAny
  <1>10. g1.status = "ok"
    BY <1>5, <1>8 DEF Then
  <1>11. IsLonger(g1, h1, t)
    BY <1>3, <1>5, <1>10, FieldGoesOn
  <1>12. PICK x \in Seq(Byte) : /\ IsLonger(g2, h2, t)
                                /\ g2.values = With(g1.values, c.name, ValueOf(c.kind, x))
                                /\ Len(x) = Size[c.kind]
    BY <1>5, <1>8, <1>11, FieldGoesOn
  <1>13. g2.values[l.count] \in Int
    <2>1. ValueOf(c.kind, x) \in Int
      BY <1>2, <1>12, CountIsInt
    <2>2. g2.values[c.name] = ValueOf(c.kind, x)
      BY <1>12 DEF With
    <2>3. QED
      BY <1>2, <2>1, <2>2
  <1>14. h3 = ReadRepeated(h2, l)
    BY <1>2, <1>12 DEF ThenAny, IsLonger, IsReading
  <1> HIDE DEF g3, h3
  <1>15. IsLonger(g3, h3, t)
    BY <1>2, <1>4, <1>7, <1>9, <1>12, <1>13, <1>14, ListFieldGoesOn
  <1>16. QED
    BY <1>1, <1>15 DEF s

\* The classes of responses
LEMMA InfoIsPlain == IsPlain("InfoResponse", 15)
  <1> DEFINE fields == Fields["InfoResponse"]
  <1>1. Len(fields) = 15
    BY DEF Fields
  <1>2. fields[1] = Validated("response_type", "byte", {73})
    BY DEF Fields
  <1>3. fields[2] = Field("protocol", "byte")
    BY DEF Fields
  <1>4. fields[3] = Field("server_name", "string")
    BY DEF Fields
  <1>5. fields[4] = Field("map", "string")
    BY DEF Fields
  <1>6. fields[5] = Field("folder", "string")
    BY DEF Fields
  <1>7. fields[6] = Field("game", "string")
    BY DEF Fields
  <1>8. fields[7] = Field("app_id", "short")
    BY DEF Fields
  <1>9. fields[8] = Field("player_count", "byte")
    BY DEF Fields
  <1>10. fields[9] = Field("max_players", "byte")
    BY DEF Fields
  <1>11. fields[10] = Field("bot_count", "byte")
    BY DEF Fields
  <1>12. fields[11] = Validated("server_type", "enum", ServerTypes)
    BY DEF Fields
  <1>13. fields[12] = Validated("platform", "enum", Platforms)
    BY DEF Fields
  <1>14. fields[13] = Field("password_protected", "byte")
    BY DEF Fields
  <1>15. fields[14] = Field("vac_enabled", "byte")
    BY DEF Fields
  <1>16. fields[15] = Field("version", "string")
    BY DEF Fields
  <1> HIDE DEF fields
  <1>17. \A i \in 1 .. 15 : fields[i].kind \in Plain
    <2>1. fields[1].kind \in Plain
      BY <1>2, KindOfField DEF Plain
    <2>2. fields[2].kind \in Plain
      BY <1>3, KindOfField DEF Plain
    <2>3. fields[3].kind \in Plain
      BY <1>4, KindOfField DEF Plain
    <2>4. fields[4].kind \in Plain
      BY <1>5, KindOfField DEF Plain
    <2>5. fields[5].kind \in Plain
      BY <1>6, KindOfField DEF Plain
    <2>6. fields[6].kind \in Plain
      BY <1>7, KindOfField DEF Plain
    <2>7. fields[7].kind \in Plain
      BY <1>8, KindOfField DEF Plain
    <2>8. fields[8].kind \in Plain
      BY <1>9, KindOfField DEF Plain
    <2>9. fields[9].kind \in Plain
      BY <1>10, KindOfField DEF Plain
    <2>10. fields[10].kind \in Plain
      BY <1>11, KindOfField DEF Plain
    <2>11. fields[11].kind \in Plain
      BY <1>12, KindOfField DEF Plain
    <2>12. fields[12].kind \in Plain
      BY <1>13, KindOfField DEF Plain
    <2>13. fields[13].kind \in Plain
      BY <1>14, KindOfField DEF Plain
    <2>14. fields[14].kind \in Plain
      BY <1>15, KindOfField DEF Plain
    <2>15. fields[15].kind \in Plain
      BY <1>16, KindOfField DEF Plain
    <2>16. QED
      BY <2>1, <2>2, <2>3, <2>4, <2>5, <2>6, <2>7, <2>8, <2>9, <2>10, <2>11, <2>12, <2>13,
         <2>14, <2>15
  <1>18. QED
    BY <1>1, <1>17 DEF fields, IsPlain

LEMMA ElementsArePlain ==
  IsElement(PlayerEntry) /\ IsElement(<<Field("key", "string"), Field("value", "string")>>)
  <1> DEFINE p == PlayerEntry
             q == <<Field("key", "string"), Field("value", "string")>>
  <1>1. /\ Len(p) = 4 /\ p[1].kind \in Plain /\ p[2].kind \in Plain /\ p[3].kind \in Plain
        /\ p[4].kind \in Plain
    BY KindOfField DEF PlayerEntry, Plain
  <1>2. Len(q) = 2 /\ q[1].kind \in Plain /\ q[2].kind \in Plain
    BY KindOfField DEF Plain
  <1> HIDE DEF p, q
  <1>3. \A i \in 1 .. 4 : p[i].kind \in Plain
    BY <1>1
  <1>4. \A i \in 1 .. 2 : q[i].kind \in Plain
    BY <1>2
  <1>5. 4 \in Nat /\ 2 \in Nat
    OBVIOUS
  <1>6. IsElement(p) /\ IsElement(q)
    BY <1>1, <1>2, <1>3, <1>4, <1>5 DEF IsElement
  <1>7. QED
    BY <1>6 DEF p, q

LEMMA ListsAreLists == HasList("PlayersResponse") /\ HasList("RulesResponse")
  <1>1. HasList("PlayersResponse")
    <2> DEFINE f == Validated("response_type", "byte", {68})
               c == Field("player_count", "byte")
               l == Repeated("players", "array", PlayerEntry, "player_count")
    <2>1. /\ f.kind = "byte" /\ c.kind = "byte" /\ c.name = "player_count" /\ l.kind = "array"
          /\ l.count = "player_count" /\ l.element = PlayerEntry
      BY KindOfField DEF Field, Repeated
    <2>2. Fields["PlayersResponse"] = <<f, c, l>>
      BY RepeatedClasses
    <2> HIDE DEF f, c, l
    <2>3. QED
      BY <2>1, <2>2, ElementsArePlain DEF HasList
  <1>2. HasList("RulesResponse")
    <2> DEFINE f == Validated("response_type", "byte", {69})
               c == Field("rule_count", "short")
               e == <<Field("key", "string"), Field("value", "string")>>
               l == Repeated("rules", "dict", e, "rule_count")
    <2>1. /\ f.kind = "byte" /\ c.kind = "short" /\ c.name = "rule_count" /\ l.kind = "dict"
          /\ l.count = "rule_count" /\ l.element = e
      BY KindOfField DEF Field, Repeated
    <2>2. Fields["RulesResponse"] = <<f, c, l>>
      BY RepeatedClasses
    <2>3. IsElement(e)
      BY ElementsArePlain
    <2> HIDE DEF f, c, l, e
    <2>4. QED
      BY <2>1, <2>2, <2>3 DEF HasList
  <1>3. QED
    BY <1>1, <1>2

LEMMA ChallengeIsPlain ==
  IsPlain("GetChallengeResponse", 2)
  <1> DEFINE f == Tag("response_type", 65)
             g == Field("challenge", "long")
  <1>1. f.kind = "byte" /\ g.kind = "long"
    BY KindOfTag, KindOfField
  <1>2. Fields["GetChallengeResponse"] = <<f, g>>
    BY SmallClasses
  <1> HIDE DEF f, g
  <1>3. QED
    BY <1>1, <1>2 DEF IsPlain, Plain

\* What a class reads of a packet, it reads of one that goes on.
LEMMA ResponseGoesOn ==
  ASSUME NEW class \in Range(response_message_classes),
         NEW r \in Seq(Byte), NEW t \in Seq(Byte), NEW min, Decode(class, r, min).status = "ok"
  PROVE  IsLonger(Decode(class, r, min), Decode(class, Join(r, t), min), t)
  <1>1. class \in {"InfoResponse", "PlayersResponse", "RulesResponse", "GetChallengeResponse"}
    BY DEF response_message_classes, Range
  <1> DEFINE two == 2
             all == 15
  <1>2. two \in Nat /\ all \in Nat
    OBVIOUS
  <1>3. CASE class = "InfoResponse"
    <2>1. IsPlain(class, all)
      BY <1>3, InfoIsPlain
    <2> HIDE DEF all
    <2>2. QED
      BY <1>2, <2>1, PlainGoesOn
  <1>4. CASE class = "GetChallengeResponse"
    <2>1. IsPlain(class, two)
      BY <1>4, ChallengeIsPlain
    <2> HIDE DEF two
    <2>2. QED
      BY <1>2, <2>1, PlainGoesOn
  <1>5. CASE class \in {"PlayersResponse", "RulesResponse"}
    BY <1>5, ListsAreLists, ListClassGoesOn
  <1>6. QED
    BY <1>1, <1>3, <1>4, <1>5

-----------------------------------------------------------------------------
\* A response that lost its end: what any class reads of it, that class reads of
\* the whole one too, and leaves at least what was lost.
LEMMA HeaderGoesOn ==
  ASSUME NEW d \in Seq(Byte), NEW t \in Seq(Byte), Read(Header, d).status = "ok"
  PROVE  IsLonger(Read(Header, d), Read(Header, Join(d, t)), t)
  <1> DEFINE f == Header[1]
             m1 == Start(d)
             m2 == Start(Join(d, t))
  <1>1. Read(Header, d) = Then(m1, f) /\ Read(Header, Join(d, t)) = Then(m2, f)
    BY ReadHeader
  <1>2. f.kind \in Plain
    BY DEF Header, Validated, Field, Plain
  <1>3. IsLonger(m1, m2, t)
    BY DEF Start, IsLonger, IsReading
  <1> HIDE DEF f, m1, m2
  <1>4. QED
    BY <1>1, <1>2, <1>3, FieldGoesOn

\* A message is what a class reads of a packet that has a header.
IsReadBy(r, class, b) ==
  LET m == Decode(class, b, <<>>)
  IN m.status = "ok" /\ r.message = [class |-> class, values |-> m.values]

LEMMA TryIsMessage ==
  ASSUME NEW class \in AllClasses, NEW b, NEW r
  PROVE  /\ r.is = "raises" => Try(r, class, b).is = "raises"
         /\ Try(r, class, b).is = "message" =>
              \/ r.is = "message" /\ Try(r, class, b) = r
              \/ IsReadBy(Try(r, class, b), class, b)
  <1> DEFINE m == Decode(class, b, r.minimum)
  <1>1. CASE r.is # "none"
    BY <1>1 DEF Try
  <1>2. CASE r.is = "none"
    <2>1. Try(r, class, b) = AsMessage(class, m)
      BY <1>2 DEF Try
    <2>2. IsState(m) /\ Same(m, Decode(class, b, <<>>))
      BY OnlyInfoRaises, DecodeKeepsState, DecodeForgets
    <2> HIDE DEF m
    <2>3. AsMessage(class, m).is = "message" =>
            m.status = "ok" /\ AsMessage(class, m).message = [class |-> class, values |-> m.values]
      BY <2>2 DEF AsMessage, Outcomes, IsState, Statuses
    <2>4. QED
      BY <1>2, <2>1, <2>2, <2>3 DEF Same, IsReadBy
  <1>3. QED
    BY <1>1, <1>2

LEMMA ReadingReads ==
  ASSUME NEW b, NEW cs, IsEnd(cs), NEW min, decode_packet(b, cs, min).is = "message"
  PROVE  /\ Read(Header, b).status = "ok"
         /\ \E class \in Range(cs) :
              IsReadBy(decode_packet(b, cs, min), class, Read(Header, b).rest)
  <1> DEFINE header == Read(Header, b)
             c == header.rest
             r0 == TryStart(header, min)
             r1 == Try(r0, cs[1], c)
             r2 == Try(r1, cs[2], c)
             r3 == Try(r2, cs[3], c)
             r4 == Try(r3, cs[4], c)
             IsRead(r) == \E class \in Range(cs) : IsReadBy(r, class, c)
  <1>1. decode_packet(b, cs, min) = r4
    BY DecodeBodyIs DEF decode_packet, AllTried
  <1>2. \A i \in 1 .. 4 : cs[i] \in AllClasses
    BY ClassesOfEnd
  <1>3. \A i \in 1 .. 4 : cs[i] \in Range(cs)
    BY DEF IsEnd, Range, request_message_classes, response_message_classes
  <1>4. r0.is # "message" /\ (header.status # "ok" => r0.is = "raises")
    BY DEF TryStart
  <1>5. ASSUME NEW i \in 1 .. 4, NEW r, r.is = "message" => IsRead(r)
        PROVE  /\ r.is = "raises" => Try(r, cs[i], c).is = "raises"
               /\ Try(r, cs[i], c).is = "message" => IsRead(Try(r, cs[i], c))
    BY <1>2, <1>3, <1>5, TryIsMessage
  <1> HIDE DEF header, c, r0, IsRead
  <1>6. (r0.is = "raises" => r1.is = "raises") /\ (r1.is = "message" => IsRead(r1))
    BY <1>4, <1>5
  <1> HIDE DEF r1
  <1>7. (r1.is = "raises" => r2.is = "raises") /\ (r2.is = "message" => IsRead(r2))
    BY <1>5, <1>6
  <1> HIDE DEF r2
  <1>8. (r2.is = "raises" => r3.is = "raises") /\ (r3.is = "message" => IsRead(r3))
    BY <1>5, <1>7
  <1> HIDE DEF r3
  <1>9. (r3.is = "raises" => r4.is = "raises") /\ (r4.is = "message" => IsRead(r4))
    BY <1>5, <1>8
  <1>10. r4.is = "message"
    BY <1>1
  <1> HIDE DEF r4
  <1>11. header.status = "ok" /\ IsRead(r4)
    BY <1>4, <1>6, <1>7, <1>8, <1>9, <1>10
  <1>12. QED
    BY <1>1, <1>11 DEF header, c, IsRead

\* A response that lost its end
LEMMA LostEnd ==
  ASSUME NEW d \in Seq(Byte), NEW p \in Seq(Byte), IsPrefix(d, p), d # <<>>
  PROVE  \E t \in Seq(Byte) : p = Join(d, t)
  <1> DEFINE n == Len(d)
             t == SubSeq(p, n + 1, Len(p))
  <1>1. n \in Nat /\ n # 0 /\ Len(p) \in Nat
    BY EmptySeq, LenProperties
  <1>2. n <= Len(p) /\ SubSeq(d, 1, n) = SubSeq(p, 1, n)
    BY DEF IsPrefix
  <1>3. SubSeq(d, 1, n) = d
    BY SubSeqFull
  <1> HIDE DEF n
  <1>4. n \in 1 .. Len(p)
    BY <1>1, <1>2
  <1>5. SubSeq(p, 1, n) = d /\ t \in Seq(Byte) /\ Join(SubSeq(p, 1, n), t) = p
    BY <1>2, <1>3, <1>4, CutInPieces
  <1> HIDE DEF t
  <1>6. QED
    BY <1>5

\* What is read of a part of it
LEMMA OnlyUnreadIsLost ==
  ASSUME NEW p \in Seq(Byte), NEW d \in Seq(Byte), IsPrefix(d, p), NEW cs, IsEnd(cs),
         cs = response_message_classes, NEW min, decode_packet(d, cs, min).is = "message"
  PROVE  NothingIsMissing(decode_packet(d, cs, min).message, d, p)
  <1> DEFINE r == Read(Header, d)
             s == Read(Header, p)
             result_d == decode_packet(d, cs, min)
  <1>1. PICK class \in Range(cs) : r.status = "ok" /\ IsReadBy(result_d, class, r.rest)
    BY ReadingReads
  <1> DEFINE m1 == Decode(class, r.rest, <<>>)
             m2 == Decode(class, s.rest, <<>>)
  <1>2. m1.status = "ok" /\ result_d.message = [class |-> class, values |-> m1.values]
    BY <1>1 DEF IsReadBy
  <1> HIDE DEF result_d
  <1>3. result_d.message.class = class /\ result_d.message.values = m1.values
    BY <1>2
  <1>4. m2.status = "ok" /\ m2.values = m1.values /\ Len(m2.rest) >= Len(p) - Len(d)
    <2>1. d # <<>>
      BY <1>1, NothingHasNoHeader
    <2>2. PICK t \in Seq(Byte) : p = Join(d, t)
      BY <2>1, LostEnd
    <2>3. IsLonger(r, s, t)
      BY <1>1, <2>2, HeaderGoesOn
    <2> HIDE DEF r, s
    <2>4. r.rest \in Seq(Byte) /\ s.rest = Join(r.rest, t)
      BY <2>3 DEF IsLonger
    <2>5. IsLonger(m1, m2, t)
      BY <1>2, <2>4, ResponseGoesOn
    <2> HIDE DEF m1, m2
    <2>6. /\ m2.status = "ok" /\ m2.values = m1.values
          /\ m1.rest \in Seq(Byte) /\ m2.rest = Join(m1.rest, t)
      BY <2>5 DEF IsLonger, IsReading
    <2>7. Len(m2.rest) = Len(m1.rest) + Len(t) /\ Len(p) = Len(d) + Len(t)
      BY <2>2, <2>6, JoinIs
    <2>8. Len(m1.rest) \in Nat /\ Len(t) \in Nat /\ Len(d) \in Nat
      BY <2>6, LenProperties
    <2>9. QED
      BY <2>6, <2>7, <2>8
  <1>5. QED
    BY <1>3, <1>4 DEF NothingIsMissing, result_d

-----------------------------------------------------------------------------
\* The fragments.  What an entry of the cache holds is of one packet, each
\* fragment once, and it waits for as many as that has.
PieceEntries ==
  [message_id : {f.message_id : f \in Pieces}, fragment_count : Nat, packet_fragments : Seq(Pieces)]

DistinctIds(known) ==
  \A i, j \in DOMAIN known : known[i].fragment_id = known[j].fragment_id => i = j

OfOnePacket(e) ==
  /\ \A i \in DOMAIN e.packet_fragments : e.packet_fragments[i].message_id = e.message_id
  /\ DistinctIds(e.packet_fragments)
  /\ \A g \in Pieces : g.message_id = e.message_id => e.fragment_count = g.fragment_count

Good == {e \in PieceEntries : OfOnePacket(e)}

LEMMA PieceIs ==
  ASSUME NEW f \in Pieces
  PROVE  /\ f.fragment_count \in Nat /\ f.fragment_count <= MAX_FRAGMENTS_PER_PACKET
         /\ FragmentCount(f) \in Nat \ {0} /\ f.fragment_count <= FragmentCount(f)
         /\ f.fragment_id \in Nat /\ f.fragment_id < FragmentCount(f)
         /\ \A g \in Pieces : g.message_id = f.message_id =>
              /\ g.fragment_count = f.fragment_count /\ FragmentCount(g) = FragmentCount(f)
              /\ g.fragment_id = f.fragment_id => g = f
  <1>1. /\ f.fragment_count \in 0 .. MAX_FRAGMENTS_PER_PACKET
        /\ f.fragment_id \in 0 .. FragmentCount(f) - 1
        /\ \A g \in SameId(f) :
             /\ g.fragment_count = f.fragment_count
             /\ g.fragment_id = f.fragment_id => g = f
    BY FragmentsAssumption
  <1>2. FragmentCount(f) \in Nat \ {0} /\ f.fragment_count <= FragmentCount(f)
    BY <1>1 DEF FragmentCount
  <1>3. \A g \in Pieces : g.message_id = f.message_id =>
          /\ g.fragment_count = f.fragment_count /\ FragmentCount(g) = FragmentCount(f)
          /\ g.fragment_id = f.fragment_id => g = f
    BY <1>1 DEF SameId, FragmentCount
  <1>4. QED
    BY <1>1, <1>2, <1>3

LEMMA EntryIsGood ==
  ASSUME fragments \in Seq(Good), NEW f \in Pieces
  PROVE  EntryOf(f) \in Good /\ EntryOf(f).message_id = f.message_id
  <1>1. CASE IsKnown(f)
    <2>1. Place(f) \in DOMAIN fragments /\ IsOf(fragments[Place(f)], f)
      BY <1>1 DEF IsKnown, Place
    <2>2. QED
      BY <1>1, <2>1 DEF EntryOf, IsOf
  <1>2. CASE ~IsKnown(f)
    <2> DEFINE e == NewEntry(f)
    <2>1. /\ e.message_id = f.message_id /\ e.fragment_count = f.fragment_count
          /\ e.packet_fragments = <<>> /\ e \in PieceEntries
      BY PieceIs, ReassemblyAssumption DEF NewEntry, PieceEntries
    <2>2. DistinctIds(e.packet_fragments)
      BY <2>1 DEF DistinctIds
    <2>3. OfOnePacket(e)
      BY <2>1, <2>2, PieceIs DEF OfOnePacket
    <2>4. QED
      BY <1>2, <2>1, <2>3 DEF EntryOf, Good, e
  <1>3. QED
    BY <1>1, <1>2

LEMMA OthersAreGood ==
  ASSUME fragments \in Seq(Good), NEW f
  PROVE  Others(f) \in Seq(Good)
  <1>1. CASE ~IsKnown(f)
    BY <1>1 DEF Others
  <1>2. CASE IsKnown(f)
    <2> DEFINE n == Place(f)
    <2>1. n \in 1 .. Len(fragments)
      BY <1>2 DEF IsKnown, Place
    <2>2. Others(f) = SubSeq(fragments, 1, n - 1) \o SubSeq(fragments, n + 1, Len(fragments))
      BY <1>2 DEF Others, RemoveAt
    <2> HIDE DEF n
    <2>3. /\ SubSeq(fragments, 1, n - 1) \in Seq(Good)
          /\ SubSeq(fragments, n + 1, Len(fragments)) \in Seq(Good)
      BY <2>1
    <2>4. QED
      BY <2>2, <2>3
  <1>3. QED
    BY <1>1, <1>2

LEMMA TouchedAreGood ==
  ASSUME fragments \in Seq(Good), NEW f \in Pieces
  PROVE  Touched(f) \in Seq(Good) /\ Touched(f) # <<>> /\ Touched(f)[1] = EntryOf(f)
  <1> DEFINE e == EntryOf(f)
             o == Others(f)
             cache == <<e>> \o o
             n == IF Len(cache) > LruSize THEN LruSize ELSE Len(cache)
  <1>1. e \in Good /\ o \in Seq(Good)
    BY EntryIsGood, OthersAreGood
  <1>2. Touched(f) = SubSeq(cache, 1, n)
    BY DEF Touched
  <1> HIDE DEF e, o
  <1>3. cache \in Seq(Good) /\ Len(cache) = Len(o) + 1 /\ cache[1] = e
    BY <1>1
  <1> HIDE DEF cache
  <1>4. n \in 1 .. Len(cache) /\ Len(cache) \in Nat
    BY <1>1, <1>3, ReassemblyAssumption
  <1> HIDE DEF n
  <1>5. /\ Touched(f) \in Seq(Good) /\ Len(Touched(f)) = n /\ Touched(f)[1] = cache[1]
    BY <1>2, <1>3, <1>4
  <1>6. QED
    BY <1>3, <1>4, <1>5 DEF e

\* With what has arrived the entry stays good.
LEMMA KnownIsGood ==
  ASSUME fragments \in Seq(Good), NEW f \in Pieces
  PROVE  /\ Known(f) \in Seq(Pieces) /\ Known(f) # <<>>
         /\ [EntryOf(f) EXCEPT !.packet_fragments = Known(f)] \in Good
  <1> DEFINE e == EntryOf(f)
             known == e.packet_fragments
  <1>1. /\ e \in PieceEntries /\ e.message_id = f.message_id /\ OfOnePacket(e)
        /\ known \in Seq(Pieces)
    BY EntryIsGood DEF Good, PieceEntries
  <1>2. \/ Known(f) = known /\ known # <<>>
        \/ /\ Known(f) = Append(known, f)
           /\ \A i \in DOMAIN known : known[i].fragment_id # f.fragment_id
    BY <1>1 DEF Known, WithFragment, Range
  <1>3. /\ \A i \in DOMAIN known : known[i].message_id = e.message_id
        /\ DistinctIds(known)
        /\ \A g \in Pieces : g.message_id = e.message_id => e.fragment_count = g.fragment_count
    BY <1>1 DEF OfOnePacket
  <1> HIDE DEF e, known
  <1>4. /\ Known(f) \in Seq(Pieces) /\ Known(f) # <<>>
        /\ \A i \in DOMAIN Known(f) :
             \/ i \in DOMAIN known /\ Known(f)[i] = known[i]
             \/ Known(f)[i] = f /\ i = Len(known) + 1 /\ Known(f) # known
    <2>1. CASE Known(f) = known /\ known # <<>>
      BY <1>1, <2>1
    <2>2. CASE Known(f) = Append(known, f)
      <3> DEFINE longer == Append(known, f)
      <3>1. /\ longer \in Seq(Pieces) /\ Len(longer) = Len(known) + 1
            /\ \A i \in 1 .. Len(known) : longer[i] = known[i]
            /\ longer[Len(known) + 1] = f
        BY <1>1, AppendProperties
      <3>2. DOMAIN longer = 1 .. Len(known) + 1 /\ DOMAIN known = 1 .. Len(known)
              /\ Len(known) \in Nat
        BY <1>1, <3>1, LenProperties
      <3> HIDE DEF longer
      <3>3. longer # <<>> /\ longer # known
        BY <3>1, <3>2, EmptySeq
      <3>4. \A i \in DOMAIN longer : i \in DOMAIN known \/ i = Len(known) + 1
        BY <3>2
      <3>5. QED
        BY <2>2, <3>1, <3>2, <3>3, <3>4 DEF longer
    <2>3. QED
      BY <1>2, <2>1, <2>2
  <1>5. \A i \in DOMAIN Known(f) : Known(f)[i].message_id = e.message_id
    BY <1>1, <1>3, <1>4
  <1>6. DistinctIds(Known(f))
    <2>1. Known(f) # known => \A i \in DOMAIN known : known[i].fragment_id # f.fragment_id
      BY <1>2
    <2>2. \A i, j \in DOMAIN known : known[i].fragment_id = known[j].fragment_id => i = j
      BY <1>3 DEF DistinctIds
    <2>3. QED
      BY <1>4, <2>1, <2>2 DEF DistinctIds
  <1> DEFINE new == [e EXCEPT !.packet_fragments = Known(f)]
  <1>7. /\ new \in PieceEntries /\ new.message_id = e.message_id
        /\ new.fragment_count = e.fragment_count /\ new.packet_fragments = Known(f)
    BY <1>1, <1>4 DEF PieceEntries
  <1> HIDE DEF new
  <1>8. OfOnePacket(new)
    BY <1>3, <1>5, <1>6, <1>7 DEF OfOnePacket
  <1>9. QED
    BY <1>4, <1>7, <1>8 DEF Good, new, e

LEMMA CacheStaysGood ==
  ASSUME fragments \in Seq(Good), NEW f \in Pieces, handle_fragments(f)
  PROVE  fragments' \in Seq(Good)
  <1> DEFINE t == Touched(f)
             new == [EntryOf(f) EXCEPT !.packet_fragments = Known(f)]
  <1>1. t \in Seq(Good) /\ t # <<>> /\ t[1] = EntryOf(f) /\ new \in Good
    BY TouchedAreGood, KnownIsGood
  <1>2. [t EXCEPT ![1].packet_fragments = Known(f)] = [t EXCEPT ![1] = new]
    BY <1>1
  <1>3. fragments' = IF Completes(f) THEN Tail(t) ELSE [t EXCEPT ![1] = new]
    BY <1>2 DEF handle_fragments
  <1> HIDE DEF t, new
  <1>4. Tail(t) \in Seq(Good) /\ [t EXCEPT ![1] = new] \in Seq(Good)
    BY <1>1
  <1>5. QED
    BY <1>3, <1>4

\* Fragments with different ids are sorted by them.
Increasing(s) == \A i, j \in DOMAIN s : i < j => s[i].fragment_id < s[j].fragment_id

LEMMA SortedIs ==
  ASSUME NEW known \in Seq(Pieces), DistinctIds(known)
  PROVE  /\ Sorted(known) \in [DOMAIN known -> Pieces]
         /\ \A i \in DOMAIN known : \E j \in DOMAIN known : Sorted(known)[i] = known[j]
         /\ Increasing(Sorted(known))
  <1> DEFINE D == DOMAIN known
             P(p) == \A i, j \in D : i < j => known[p[i]].fragment_id <= known[p[j]].fragment_id
             order == CHOOSE p \in Injection(D, D) : P(p)
  <1>1. /\ D \subseteq Int
        /\ \A i \in D : known[i] \in Pieces /\ known[i].fragment_id \in Nat
        /\ \A i, j \in D : i # j => known[i].fragment_id # known[j].fragment_id
    <2>1. D \subseteq Int /\ \A i \in D : known[i] \in Pieces
      OBVIOUS
    <2>2. \A i \in D : known[i].fragment_id \in Nat
      BY <2>1, PieceIs
    <2>3. \A i, j \in D : i # j => known[i].fragment_id # known[j].fragment_id
      BY DEF DistinctIds
    <2>4. QED
      BY <2>1, <2>2, <2>3
  <1>2. \E p \in Injection(D, D) : P(p)
    <2> DEFINE id == [i \in D |-> known[i].fragment_id]
    <2>1. Len(known) \in Nat /\ D = 1 .. Len(known) /\ id \in [D -> Int]
      BY <1>1
    <2>2. \A i \in D : id[i] = known[i].fragment_id
      OBVIOUS
    <2> HIDE DEF D, id
    <2>3. PICK p \in Injection(D, D) : \A i, j \in D : i < j => id[p[i]] <= id[p[j]]
      BY <2>1, SortingOrderExists
    <2>4. \A i \in D : p[i] \in D
      BY DEF Injection
    <2>5. QED
      BY <2>2, <2>3, <2>4
  <1>3. Sorted(known) = [i \in D |-> known[order[i]]]
    BY DEF Sorted
  <1> HIDE DEF D, P
  <1>4. order \in Injection(D, D) /\ P(order)
    BY <1>2
  <1> HIDE DEF order
  <1>5. \A i \in D : order[i] \in D
    BY <1>4 DEF Injection
  <1>6. \A i, j \in D : i < j => known[order[i]].fragment_id < known[order[j]].fragment_id
    <2> SUFFICES ASSUME NEW i \in D, NEW j \in D, i < j
                 PROVE  known[order[i]].fragment_id < known[order[j]].fragment_id
      OBVIOUS
    <2>1. order[i] # order[j]
      BY <1>1, <1>4 DEF Injection, IsInjective
    <2>2. known[order[i]].fragment_id <= known[order[j]].fragment_id
      BY <1>4 DEF P
    <2>3. /\ known[order[i]].fragment_id \in Nat /\ known[order[j]].fragment_id \in Nat
          /\ known[order[i]].fragment_id # known[order[j]].fragment_id
      BY <1>1, <1>5, <2>1
    <2>4. QED
      BY <2>2, <2>3
  <1>7. QED
    BY <1>1, <1>3, <1>5, <1>6 DEF D, Increasing

\* What is joined when they are complete are the contents of all fragments, in order.
LEMMA JoinedIs ==
  ASSUME fragments \in Seq(Good), NEW f \in Pieces, Completes(f)
  PROVE  Packet(f) \subseteq Wire \union Large
  <1> DEFINE known == Known(f)
             n == Len(known)
             c == FragmentCount(f)
             s == Sorted(known)
             e == [EntryOf(f) EXCEPT !.packet_fragments = known]
  <1>1. /\ known \in Seq(Pieces) /\ n \in Nat \ {0} /\ DOMAIN known = 1 .. n
        /\ \A i \in DOMAIN known : known[i].message_id = f.message_id
        /\ DistinctIds(known)
    <2>1. known \in Seq(Pieces) /\ known # <<>> /\ e \in Good
      BY KnownIsGood
    <2>2. e.packet_fragments = known /\ e.message_id = f.message_id
      <3>1. EntryOf(f) \in PieceEntries /\ EntryOf(f).message_id = f.message_id
        BY EntryIsGood DEF Good
      <3>2. QED
        BY <3>1 DEF PieceEntries
    <2> HIDE DEF known, e
    <2>3. OfOnePacket(e)
      BY <2>1 DEF Good
    <2>4. n \in Nat \ {0} /\ DOMAIN known = 1 .. n
      BY <2>1
    <2>5. QED
      BY <2>1, <2>2, <2>3, <2>4 DEF OfOnePacket
  <1>2. n >= f.fragment_count
    <2>1. EntryOf(f).fragment_count = f.fragment_count
      BY EntryIsGood DEF Good, OfOnePacket
    <2>2. QED
      BY <2>1 DEF Completes
  <1>3. /\ s \in [1 .. n -> Pieces]
        /\ \A i \in 1 .. n : \E j \in DOMAIN known : s[i] = known[j]
        /\ Increasing(s)
    BY <1>1, SortedIs
  <1>4. Joined(f) = [i \in 1 .. n |-> s[i].content]
    <2>1. DOMAIN s = 1 .. n
      BY <1>3
    <2>2. QED
      BY <2>1 DEF Joined
  <1> HIDE DEF known, n, s
  <1>5. \A i \in 1 .. n : s[i] \in Pieces /\ s[i].message_id = f.message_id
    BY <1>1, <1>3
  <1>6. c \in Nat \ {0} /\ n >= c
    <2>1. c = IF f.fragment_count = 0 THEN 1 ELSE f.fragment_count
      BY DEF FragmentCount
    <2>2. QED
      BY <1>1, <1>2, <2>1, PieceIs
  <1>7. \A i \in 1 .. n : s[i].fragment_id \in Nat /\ s[i].fragment_id < c
    BY <1>5, PieceIs
  <1> HIDE DEF c, e
  <1> DEFINE id == [i \in 1 .. n |-> s[i].fragment_id]
  <1>8. n = c /\ \A i \in 1 .. n : id[i] = i - 1
    <2>1. IncreaseBelow(id, n, c)
      BY <1>3, <1>7 DEF Increasing, IncreaseBelow
    <2> HIDE DEF id
    <2>2. n \in Nat \ {0} /\ c \in Nat /\ n >= c
      BY <1>1, <1>6
    <2>3. QED
      BY <2>1, <2>2, AllOfThem
  <1>9. ASSUME NEW i \in 1 .. c
        PROVE  s[i] \in SameId(f) /\ s[i].fragment_id = i - 1
    BY <1>5, <1>8 DEF SameId
  <1>10. \A i \in 0 .. c - 1 : \E g \in SameId(f) : g.fragment_id = i
    <2> TAKE i \in 0 .. c - 1
    <2>1. i + 1 \in 1 .. c /\ (i + 1) - 1 = i
      BY <1>6
    <2>2. s[i + 1] \in SameId(f) /\ s[i + 1].fragment_id = i
      BY <1>9, <2>1
    <2>3. QED
      BY <2>2
  <1>11. ASSUME NEW i \in 1 .. c
         PROVE  PieceAt(f, i - 1) = s[i]
    <2>1. s[i] \in SameId(f) /\ s[i].fragment_id = i - 1
      BY <1>9
    <2>2. PieceAt(f, i - 1) \in SameId(f) /\ PieceAt(f, i - 1).fragment_id = i - 1
      BY <2>1 DEF PieceAt
    <2>3. QED
      BY <2>1, <2>2, PieceIs DEF SameId
  <1>12. Joined(f) = [i \in 1 .. c |-> PieceAt(f, i - 1).content]
    BY <1>4, <1>8, <1>11
  <1>13. PacketOf(f.message_id, [i \in 1 .. c |-> PieceAt(f, i - 1).content])
           \subseteq Wire \union Large
    BY <1>10, FragmentsAssumption DEF c
  <1>14. QED
    BY <1>12, <1>13 DEF Packet

-----------------------------------------------------------------------------
\* Each end keeps its classes, and a packet is read with them as if they had
\* decoded nothing before; or there is no packet yet, or none at all.
IsNoPacket(r) ==
  \/ r = Waits
  \/ r = Refused(r.parts) /\ \E i \in DOMAIN r.parts : ~IsCompressed(r.parts[i])

Accounted ==
  \/ IsNoPacket(result)
  \/ result.is = "none" /\ IsBroken(result.data)
  \/ result.parts = <<>> /\ SameOutcome(result, decode_packet(result.data, classes, <<>>))

ReceiveInv == IsEnd(classes) /\ Accounted

LEMMA InitReceiveInv == ReceiveInit => ReceiveInv
  BY DEF ReceiveInit, ReceiveInv, IsEnd, Accounted, IsNoPacket

\* Where bz2 raises, it is for one of the fragments.
LEMMA RefusedIsNoPacket ==
  ASSUME NEW f, Packet(f) = {}
  PROVE  IsNoPacket(Refused(Joined(f)))
  <1>1. \E i \in DOMAIN Joined(f) : ~IsCompressed(Joined(f)[i])
    BY DEF Packet, PacketOf
  <1>2. QED
    BY <1>1 DEF IsNoPacket, Refused

\* No packet is neither a message nor none, and it is not one that lacks only a message.
LEMMA NoPacket ==
  ASSUME NEW r, IsNoPacket(r)
  PROVE  r.is \notin {"message", "none"} /\ r.data = <<>>
  BY DEF IsNoPacket, Waits, Refused, Result

\* A packet that is decoded, alone or joined
LEMMA DecodedKeepsReceiveInv ==
  ASSUME ReceiveInv, UNCHANGED classes, NEW data, Decoded(data)
  PROVE  ReceiveInv'
  <1> DEFINE r == decode_packet(data, classes, minimum)
             r0 == decode_packet(data, classes, <<>>)
  <1>1. IsEnd(classes)
    BY DEF ReceiveInv
  <1>2. /\ result'.is = r.is /\ result'.message = r.message /\ result'.data = data
        /\ result'.parts = <<>>
    BY DEF Decoded, Result
  <1>3. SameOutcome(r, r0)
    BY <1>1, ReadingForgets
  <1> HIDE DEF r
  <1>4. SameOutcome(result', r0)
    BY <1>2, <1>3 DEF SameOutcome
  <1>5. QED
    BY <1>1, <1>2, <1>4 DEF ReceiveInv, Accounted

LEMMA StepKeepsReceiveInv == ReceiveInv /\ [ReceiveNext]_receive_vars => ReceiveInv'
  <1> SUFFICES ASSUME ReceiveInv, [ReceiveNext]_receive_vars
               PROVE  ReceiveInv'
    OBVIOUS
  <1>1. ASSUME NEW d \in Broken, ReceiveBroken(d), UNCHANGED classes
        PROVE  ReceiveInv'
    <2>1. result'.is = "none" /\ result'.data = d
      BY <1>1 DEF ReceiveBroken, Result
    <2>2. IsBroken(d)
      BY DEF Broken
    <2>3. (IsBroken(result.data))'
      BY <2>1, <2>2 DEF IsBroken
    <2>4. QED
      BY <1>1, <2>1, <2>3 DEF ReceiveInv, IsEnd, Accounted
  <1>2. ASSUME NEW d \in Whole, ReceiveWhole(d), UNCHANGED classes
        PROVE  ReceiveInv'
    BY <1>2, DecodedKeepsReceiveInv DEF ReceiveWhole
  <1>3. ASSUME NEW d \in Fragmented, ReceiveFragment(d), UNCHANGED classes
        PROVE  ReceiveInv'
    <2> DEFINE f == AsFragment(d)
    <2>1. CASE IsNoPacket(result')
      BY <1>3, <2>1 DEF ReceiveInv, IsEnd, Accounted
    <2>2. CASE \E data : Decoded(data)
      BY <1>3, <2>2, DecodedKeepsReceiveInv
    <2>3. \/ result' = Waits
          \/ Packet(f) = {} /\ result' = Refused(Joined(f))
          \/ \E data : Decoded(data)
      BY <1>3 DEF ReceiveFragment
    <2> HIDE DEF f
    <2>4. IsNoPacket(Waits)
      BY DEF IsNoPacket
    <2>5. QED
      BY <2>1, <2>2, <2>3, <2>4, RefusedIsNoPacket
  <1>4. CASE UNCHANGED receive_vars
    BY <1>4 DEF receive_vars, ReceiveInv, IsEnd, Accounted
  <1>5. QED
    BY <1>1, <1>2, <1>3, <1>4 DEF ReceiveNext

LEMMA ReceiveInvariant == ReceiveSpec => []ReceiveInv
  BY InitReceiveInv, StepKeepsReceiveInv, PTL DEF ReceiveSpec

-----------------------------------------------------------------------------
\* The entries of the cache stay good, and what was read is a packet that arrived
\* or one that its sender took apart.
CacheInv == fragments \in Seq(Good) /\ JoinedAsSent

LEMMA InitCacheInv == ReceiveInit => CacheInv
  <1> SUFFICES ASSUME ReceiveInit
               PROVE  CacheInv
    OBVIOUS
  <1>1. fragments \in Seq(Good)
    BY EmptySeq DEF ReceiveInit, ReassemblyInit
  <1>2. JoinedAsSent
    BY DEF ReceiveInit, Waits, Result, JoinedAsSent
  <1>3. QED
    BY <1>1, <1>2 DEF CacheInv

LEMMA StepKeepsCacheInv == CacheInv /\ [ReceiveNext]_receive_vars => CacheInv'
  <1> SUFFICES ASSUME CacheInv, [ReceiveNext]_receive_vars
               PROVE  CacheInv'
    OBVIOUS
  <1>1. ASSUME NEW data \in Wire \union Large, Decoded(data)
        PROVE  JoinedAsSent'
    <2>1. result'.data = data
      BY <1>1 DEF Decoded, Result
    <2>2. QED
      BY <2>1 DEF JoinedAsSent
  <1>2. ASSUME NEW d \in Broken, ReceiveBroken(d)
        PROVE  CacheInv'
    <2>1. result'.data = d /\ d \in Wire
      BY <1>2 DEF ReceiveBroken, Result, Broken
    <2>2. QED
      BY <1>2, <2>1 DEF ReceiveBroken, CacheInv, JoinedAsSent
  <1>3. ASSUME NEW d \in Whole, ReceiveWhole(d)
        PROVE  CacheInv'
    BY <1>1, <1>3 DEF ReceiveWhole, Whole, CacheInv
  <1>4. ASSUME NEW d \in Fragmented, ReceiveFragment(d)
        PROVE  CacheInv'
    <2> DEFINE f == AsFragment(d)
    <2>1. f \in Pieces
      BY DEF Pieces
    <2>2. /\ handle_fragments(f)
          /\ \/ result' \in {Waits, Refused(Joined(f))}
             \/ Completes(f) /\ \E data \in Packet(f) : Decoded(data)
      BY <1>4 DEF ReceiveFragment
    <2> HIDE DEF f
    <2>3. fragments' \in Seq(Good)
      BY <2>1, <2>2, CacheStaysGood DEF CacheInv
    <2>4. JoinedAsSent'
      <3>1. CASE result' \in {Waits, Refused(Joined(f))}
        BY <3>1 DEF Waits, Refused, Result, JoinedAsSent
      <3>2. CASE Completes(f) /\ \E data \in Packet(f) : Decoded(data)
        BY <1>1, <2>1, <3>2, JoinedIs DEF CacheInv
      <3>3. QED
        BY <2>2, <3>1, <3>2
    <2>5. QED
      BY <2>3, <2>4 DEF CacheInv
  <1>5. CASE UNCHANGED receive_vars
    BY <1>5 DEF receive_vars, CacheInv, JoinedAsSent
  <1>6. QED
    BY <1>2, <1>3, <1>4, <1>5 DEF ReceiveNext

LEMMA CacheInvariant == ReceiveSpec => []CacheInv
  BY InitCacheInv, StepKeepsCacheInv, PTL DEF ReceiveSpec

-----------------------------------------------------------------------------
\* recv_packet reads a packet as if the classes had decoded nothing before: the
\* bound that value_of leaves at a class is set again before it is asked for.
THEOREM ReadsForgetHistory == ReceiveSpec => []HistoryFree
  <1>1. ReceiveInv => HistoryFree
    BY NoPacket DEF ReceiveInv, Accounted, SameOutcome, HistoryFree
  <1>2. QED
    BY <1>1, ReceiveInvariant, PTL

\* Whatever arrives, decode_packet and handle_fragments raise only for a header
\* that is none, for the enums of an InfoResponse and for fragments of a compressed
\* packet of which one is not.
THEOREM NothingElseRaises == ReceiveSpec => []OnlyTheseRaise
  <1>1. ReceiveInv => OnlyTheseRaise
    <2> SUFFICES ASSUME ReceiveInv, result.is = "raises"
                 PROVE  IF result.parts = <<>> THEN Raises(result.data)
                        ELSE \E i \in DOMAIN result.parts : ~IsCompressed(result.parts[i])
      BY DEF OnlyTheseRaise
    <2>1. CASE IsNoPacket(result)
      <3>1. result # Waits
        BY DEF Waits, Result
      <3>2. PICK i \in DOMAIN result.parts : ~IsCompressed(result.parts[i])
        BY <2>1, <3>1 DEF IsNoPacket
      <3>3. result.parts # <<>>
        BY <3>2
      <3>4. QED
        BY <3>2, <3>3
    <2>2. CASE result.parts = <<>> /\ SameOutcome(result, decode_packet(result.data, classes, <<>>))
      <3>1. /\ decode_packet(result.data, classes, <<>>).is = "raises"
            /\ IsEnd(classes)
        BY <2>2 DEF SameOutcome, ReceiveInv
      <3>2. Raises(result.data)
        BY <3>1, ReadingRaises DEF Raises, InfoRaises
      <3>3. QED
        BY <2>2, <3>2
    <2>3. QED
      BY <2>1, <2>2 DEF ReceiveInv, Accounted
  <1>2. QED
    BY <1>1, ReceiveInvariant, PTL

\* Whatever else arrives, and whatever was decoded before: the messages of this
\* package are read as what they were made from, and an InfoRequestV2 without a
\* challenge as an InfoRequest.
THEOREM OwnMessagesAlwaysRead == ReceiveSpec => []OwnMessagesAreRead
  <1>1. ReceiveInv => OwnMessagesAreRead
    <2> SUFFICES ASSUME ReceiveInv, NEW m \in Messages, m.class \in Range(classes),
                        result.data = EncodePacket(Fields[m.class], m.values)
                 PROVE  Returned(result, m)
      BY DEF OwnMessagesAreRead, Returned
    <2> DEFINE b == Encode(Fields[m.class], m.values)
               d == result.data
    <2>1. b \in Seq(Byte)
      BY OwnMessageBegins
    <2> HIDE DEF b
    <2>2. d = NO_SPLIT \o b
      BY DEF EncodePacket, b
    <2>3. /\ Read(Header, d).status = "ok"
          /\ Read(Header, d).values["split"] = NO_SPLIT
      BY <2>1, <2>2, HeaderIsRead
    <2>4. ~IsBroken(d)
      <3>1. ~IsSplit(d)
        BY <2>3 DEF IsSplit, SPLIT, NO_SPLIT
      <3>2. QED
        BY <2>3, <3>1 DEF IsBroken
    <2>5. ~IsNoPacket(result)
      BY <2>3, NothingHasNoHeader, NoPacket
    <2>6. SameOutcome(result, decode_packet(d, classes, <<>>))
      BY <2>4, <2>5 DEF ReceiveInv, Accounted
    <2>7. Returned(decode_packet(d, classes, <<>>), m)
      BY OwnMessageIsReturned DEF ReceiveInv
    <2>8. QED
      BY <2>6, <2>7 DEF SameOutcome, Returned
  <1>2. QED
    BY <1>1, ReceiveInvariant, PTL

\* Whatever fragments arrive, in whatever order, as often as they may: only a
\* packet that was sent is decoded, and a response whose end was lost is a message
\* only if no field reads what is missing.
THEOREM OnlyWholeAlwaysRead == ReceiveSpec => []OnlyWholeIsRead
  <1>1. ReceiveInv /\ CacheInv => OnlyWholeIsRead
    <2> SUFFICES ASSUME ReceiveInv, CacheInv
                 PROVE  OnlyWholeIsRead
      OBVIOUS
    <2>1. ASSUME result.is = "message", classes = response_message_classes,
                 NEW p \in Responses, IsPrefix(result.data, p)
          PROVE  NothingIsMissing(result.message, result.data, p)
      <3> DEFINE d == result.data
                 r == decode_packet(d, classes, <<>>)
      <3>1. d \in Seq(Byte) /\ p \in Seq(Byte)
        BY <2>1, PacketsAssumption DEF CacheInv, JoinedAsSent
      <3>2. ~IsNoPacket(result)
        BY <2>1, NoPacket
      <3>3. SameOutcome(result, r)
        BY <2>1, <3>2 DEF ReceiveInv, Accounted
      <3>4. r.is = "message" /\ result.message = r.message
        BY <2>1, <3>3 DEF SameOutcome
      <3>5. IsEnd(classes)
        BY DEF ReceiveInv
      <3>6. QED
        BY <2>1, <3>1, <3>4, <3>5, OnlyUnreadIsLost
    <2>2. CutIsNotRead
      BY <2>1 DEF CutIsNotRead
    <2>3. QED
      BY <2>2 DEF CacheInv, OnlyWholeIsRead
  <1>2. QED
    BY <1>1, ReceiveInvariant, CacheInvariant, PTL
=============================================================================
