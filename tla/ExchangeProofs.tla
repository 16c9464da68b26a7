---------------------------- MODULE ExchangeProofs --------------------------
(***************************************************************************)
(* send_recv_packet keeps the contract of a round for any timeout, any     *)
(* challenge numbers and any number of copies and changes of the server.   *)
(***************************************************************************)
EXTENDS Exchange, FiniteSetTheorems, TLAPS

USE ExchangeAssumption

\* What the contract's state depends on
RoundTypeOK ==
  /\ phase \in Contract!Phases
  /\ version \in 0..MaxVersion
  /\ asked \in 0..version

\* Inductive: no datagram outlives the socket of its round, so each response
\* in flight was made after the round began.
FreshInv ==
  /\ RoundTypeOK
  /\ phase # "asking" => requests = {} /\ replies = {}
  /\ \A m \in replies : m.type = "response" => m.version \in asked..version

LEMMA InitFreshInv == ExchangeInit => FreshInv
  BY DEF ExchangeInit, FreshInv, RoundTypeOK, Contract!Phases

LEMMA ReplyTypes ==
  /\ \A n : ChallengeReply(n).type = "challenge"
  /\ \A v : Response(v).type = "response" /\ Response(v).version = v
  /\ Garbage.type = "garbage"
  BY DEF ChallengeReply, Response, Garbage

\* A response that is received answers the contract's question.
LEMMA ReceivedIsFresh ==
  ASSUME FreshInv, NEW v \in 0..MaxVersion, ReceiveResponse(v)
  PROVE  Contract!Answer
  <1>1. v \in asked..version
    BY ReplyTypes DEF FreshInv, ReceiveResponse
  <1>2. QED
    BY <1>1 DEF ReceiveResponse, RoundEnds, server_vars, Contract!Answer

LEMMA RoundEndKeepsFreshInv ==
  ASSUME FreshInv, NEW outcome \in Outcomes, RoundEnds(outcome)
  PROVE  FreshInv'
  BY DEF FreshInv, RoundTypeOK, RoundEnds, Outcomes, server_vars, Contract!Phases

LEMMA HearingKeepsFreshInv ==
  ASSUME FreshInv, NEW c, ServerHears(c), phase = "asking"
  PROVE  FreshInv'
  <1>1. PICK reply \in {Response(version), Garbage, ChallengeReply(number)} :
          replies' = replies \union {reply}
    BY Zenon DEF ServerHears
  <1>2. reply.type = "response" => reply.version = version
    BY <1>1, ReplyTypes
  <1>3. UNCHANGED <<phase, version, asked>>
    BY DEF ServerHears, client_vars, server_vars
  <1>4. QED
    BY <1>1, <1>2, <1>3 DEF FreshInv, RoundTypeOK

\* Each step keeps the invariant and is a step of the contract, or none.
LEMMA StepKeepsContract ==
  FreshInv /\ [ExchangeNext]_exchange_vars => FreshInv' /\ [Contract!Next]_(Contract!vars)
  <1> SUFFICES ASSUME FreshInv, [ExchangeNext]_exchange_vars
               PROVE  FreshInv' /\ [Contract!Next]_(Contract!vars)
    OBVIOUS
  <1> USE DEF Contract!vars
  <1>1. CASE Start
    <2>1. Contract!Ask
      BY <1>1 DEF Start, Contract!Ask
    <2>2. FreshInv'
      BY <1>1 DEF Start, FreshInv, RoundTypeOK, Contract!Phases
    <2>3. QED
      BY <2>1, <2>2 DEF Contract!Next
  <1>2. ASSUME NEW n \in Numbers, ReceiveChallenge(n)
        PROVE  FreshInv' /\ [Contract!Next]_(Contract!vars)
    <2>1. UNCHANGED <<phase, version, asked, got>> /\ replies' \subseteq replies
          /\ phase = "asking"
      BY <1>2 DEF ReceiveChallenge, Taken, server_vars
    <2>2. QED
      BY <2>1 DEF FreshInv, RoundTypeOK
  <1>3. ASSUME NEW v \in 0..MaxVersion, ReceiveResponse(v)
        PROVE  FreshInv' /\ [Contract!Next]_(Contract!vars)
    BY <1>3, ReceivedIsFresh, RoundEndKeepsFreshInv DEF ReceiveResponse, Outcomes, Contract!Next
  <1>4. CASE ReceiveGarbage
    <2>1. Contract!Fail
      BY <1>4 DEF ReceiveGarbage, RoundEnds, server_vars, Contract!Fail
    <2>2. QED
      BY <1>4, <2>1, RoundEndKeepsFreshInv DEF ReceiveGarbage, Outcomes, Contract!Next
  <1>5. CASE TimerFires
    <2>1. Contract!Fail
      BY <1>5 DEF TimerFires, RoundEnds, server_vars, Contract!Fail
    <2>2. QED
      BY <1>5, <2>1, RoundEndKeepsFreshInv DEF TimerFires, Outcomes, Contract!Next
  <1>6. ASSUME NEW c \in Numbers \union {RequestChallenge}, ServerHears(c)
        PROVE  FreshInv' /\ [Contract!Next]_(Contract!vars)
    <2>1. phase = "asking"
      BY <1>6 DEF FreshInv, ServerHears
    <2>2. UNCHANGED Contract!vars
      BY <1>6 DEF ServerHears, client_vars, server_vars
    <2>3. QED
      BY <1>6, <2>1, <2>2, HearingKeepsFreshInv
  <1>7. CASE ServerChanges
    <2>1. Contract!Change
      BY <1>7 DEF ServerChanges, client_vars, Contract!Change
    <2>2. \A m \in replies : m.type = "response" => m.version \in asked..(version + 1)
      BY DEF FreshInv, RoundTypeOK
    <2>3. FreshInv'
      BY <1>7, <2>2 DEF ServerChanges, FreshInv, RoundTypeOK, client_vars, net_vars
    <2>4. QED
      BY <2>1, <2>3 DEF Contract!Next
  <1>8. CASE Tick \/ ServerRotates \/ UNCHANGED exchange_vars
    <2>1. UNCHANGED <<phase, version, asked, got, requests, replies>>
      BY <1>8 DEF Tick, ServerRotates, client_vars, net_vars, server_vars, exchange_vars
    <2>2. QED
      BY <2>1 DEF FreshInv, RoundTypeOK
  <1>9. QED
    BY <1>1, <1>2, <1>3, <1>4, <1>5, <1>6, <1>7, <1>8 DEF ExchangeNext

\* Whatever the network and the server do, a round returns data of its own
\* time, or fails.
THEOREM ExchangeKeepsContract == ExchangeSpec => ImplementsContract
  <1>1. ExchangeInit => Contract!Init
    BY DEF ExchangeInit, Contract!Init
  <1>2. QED
    BY <1>1, InitFreshInv, StepKeepsContract, PTL
    DEF ExchangeSpec, ImplementsContract, Contract!Spec

-----------------------------------------------------------------------------
LEMMA InitTypeOK == ExchangeInit => ExchangeTypeOK
  BY DEF ExchangeInit, ExchangeTypeOK

LEMMA RoundEndKeepsTypeOK ==
  ASSUME ExchangeTypeOK, NEW outcome \in Outcomes, RoundEnds(outcome), got' \in 0..MaxVersion
  PROVE  ExchangeTypeOK'
  BY DEF ExchangeTypeOK, RoundEnds, server_vars

LEMMA StepKeepsTypeOK == ExchangeTypeOK /\ [ExchangeNext]_exchange_vars => ExchangeTypeOK'
  <1> SUFFICES ASSUME ExchangeTypeOK, [ExchangeNext]_exchange_vars
               PROVE  ExchangeTypeOK'
    OBVIOUS
  <1>1. CASE Start
    BY <1>1 DEF Start, ExchangeTypeOK, Outcomes
  <1>2. ASSUME NEW n \in Numbers, ReceiveChallenge(n)
        PROVE  ExchangeTypeOK'
    <2>1. replies' \subseteq replies /\ copies' \in 0..MaxCopies
      BY <1>2 DEF ReceiveChallenge, Taken, ExchangeTypeOK
    <2>2. QED
      BY <1>2, <2>1 DEF ReceiveChallenge, server_vars, ExchangeTypeOK
  <1>3. ASSUME NEW v \in 0..MaxVersion, ReceiveResponse(v)
        PROVE  ExchangeTypeOK'
    BY <1>3, RoundEndKeepsTypeOK DEF ReceiveResponse, Outcomes
  <1>4. CASE ReceiveGarbage
    BY <1>4, RoundEndKeepsTypeOK DEF ReceiveGarbage, Outcomes, ExchangeTypeOK
  <1>5. CASE TimerFires
    BY <1>5, RoundEndKeepsTypeOK DEF TimerFires, Outcomes, ExchangeTypeOK
  <1>6. CASE Tick
    BY <1>6 DEF Tick, net_vars, server_vars, ExchangeTypeOK
  <1>7. ASSUME NEW c \in Numbers \union {RequestChallenge}, ServerHears(c)
        PROVE  ExchangeTypeOK'
    <2>1. requests' \subseteq requests /\ copies' \in 0..MaxCopies
      BY <1>7 DEF ServerHears, Taken, ExchangeTypeOK
    <2>2. {Response(version), Garbage, ChallengeReply(number)} \subseteq Replies
      BY DEF ExchangeTypeOK, Replies
    <2>3. replies' \subseteq Replies
      BY <1>7, <2>2, Zenon DEF ServerHears, ExchangeTypeOK
    <2>4. QED
      BY <1>7, <2>1, <2>3 DEF ServerHears, client_vars, server_vars, ExchangeTypeOK
  <1>8. CASE ServerRotates
    BY <1>8 DEF ServerRotates, client_vars, net_vars, ExchangeTypeOK
  <1>9. CASE ServerChanges
    BY <1>9 DEF ServerChanges, client_vars, net_vars, ExchangeTypeOK
  <1>10. CASE UNCHANGED exchange_vars
    BY <1>10 DEF exchange_vars, client_vars, net_vars, server_vars, ExchangeTypeOK
  <1>11. QED
    BY <1>1, <1>2, <1>3, <1>4, <1>5, <1>6, <1>7, <1>8, <1>9, <1>10 DEF ExchangeNext

\* Type correctness, for any timeout: in particular the timer is never
\* prolonged beyond it.
THEOREM ExchangeTypes == ExchangeSpec => []ExchangeTypeOK
  BY InitTypeOK, StepKeepsTypeOK, PTL DEF ExchangeSpec

-----------------------------------------------------------------------------
\* Why challenges do not multiply.  Each datagram of a round is one token that
\* is a request or a reply, and a copy is a token more.  A token can still
\* cause a number of sends: one as a request the server will not accept or as
\* its current challenge, two as a challenge it has replaced.
StaleRequests == {c \in requests : ~Accepts(c)}
ChallengesInFlight == {m \in replies : m.type = "challenge"}
OldChallenges == {m \in ChallengesInFlight : m.number # number}

SendsToCome ==
  Cardinality(StaleRequests) + Cardinality(ChallengesInFlight) + Cardinality(OldChallenges)

Budget(r, c) == (2 + r) * (1 + c)

CountersOK ==
  /\ sends \in Nat
  /\ rotations \in Nat
  /\ copies \in Nat
  /\ IsFiniteSet(requests)
  /\ IsFiniteSet(replies)

\* Inductive: what was sent and what is still to come is within the bound.
TokenInv ==
  /\ CountersOK
  /\ phase # "asking" => requests = {} /\ replies = {}
  /\ Cardinality(requests) + Cardinality(replies) <= 1 + copies
  /\ sends + SendsToCome <= Budget(rotations, copies)

LEMMA BudgetGrows ==
  ASSUME NEW r \in Nat, NEW c \in Nat
  PROVE  /\ Budget(r, c) \in Nat
         /\ Budget(r + 1, c) = Budget(r, c) + 1 + c
         /\ Budget(r, c + 1) = Budget(r, c) + 2 + r
  BY DEF Budget

LEMMA SubsetCounts ==
  ASSUME NEW S, NEW T, IsFiniteSet(S), T \subseteq S
  PROVE  /\ IsFiniteSet(T)
         /\ Cardinality(S) \in Nat /\ Cardinality(T) \in Nat
         /\ Cardinality(T) <= Cardinality(S)
  BY FS_Subset, FS_CardinalityType

LEMMA AddedCounts ==
  ASSUME NEW S, NEW T, NEW x, IsFiniteSet(S), T \subseteq S \union {x}
  PROVE  /\ IsFiniteSet(T)
         /\ Cardinality(S) \in Nat /\ Cardinality(T) \in Nat
         /\ Cardinality(T) <= Cardinality(S) + 1
  <1>1. /\ IsFiniteSet(S \union {x})
        /\ Cardinality(S) \in Nat
        /\ Cardinality(S \union {x}) <= Cardinality(S) + 1
    <2>1. Cardinality(S) \in Nat
      BY FS_CardinalityType
    <2>2. /\ IsFiniteSet(S \union {x})
          /\ Cardinality(S \union {x}) =
               IF x \in S THEN Cardinality(S) ELSE Cardinality(S) + 1
      BY FS_AddElement, Zenon
    <2>3. QED
      BY <2>1, <2>2
  <1>2. QED
    BY <1>1, SubsetCounts

LEMMA RemovedCounts ==
  ASSUME NEW S, NEW T, NEW x \in S, IsFiniteSet(S), T \subseteq S \ {x}
  PROVE  /\ IsFiniteSet(T)
         /\ Cardinality(S) \in Nat /\ Cardinality(T) \in Nat
         /\ Cardinality(T) <= Cardinality(S) - 1
  <1>1. /\ IsFiniteSet(S \ {x})
        /\ Cardinality(S) \in Nat
        /\ Cardinality(S \ {x}) = Cardinality(S) - 1
    BY FS_RemoveElement, FS_CardinalityType
  <1>2. QED
    BY <1>1, SubsetCounts

\* All that is counted is a number.
TokensOK ==
  /\ IsFiniteSet(requests) /\ Cardinality(requests) \in Nat
  /\ IsFiniteSet(replies) /\ Cardinality(replies) \in Nat
  /\ IsFiniteSet(StaleRequests) /\ Cardinality(StaleRequests) \in Nat
  /\ IsFiniteSet(ChallengesInFlight) /\ Cardinality(ChallengesInFlight) \in Nat
  /\ IsFiniteSet(OldChallenges) /\ Cardinality(OldChallenges) \in Nat
  /\ SendsToCome \in Nat
  /\ sends \in Nat /\ rotations \in Nat /\ copies \in Nat
  /\ Budget(rotations, copies) \in Nat

LEMMA TokensAreFinite ==
  ASSUME TokenInv
  PROVE  TokensOK
  <1>1. /\ StaleRequests \subseteq requests
        /\ ChallengesInFlight \subseteq replies
        /\ OldChallenges \subseteq replies
    BY DEF StaleRequests, ChallengesInFlight, OldChallenges
  <1>2. CountersOK
    BY DEF TokenInv
  <1>3. /\ Cardinality(requests) \in Nat /\ Cardinality(replies) \in Nat
        /\ IsFiniteSet(StaleRequests) /\ Cardinality(StaleRequests) \in Nat
        /\ IsFiniteSet(ChallengesInFlight) /\ Cardinality(ChallengesInFlight) \in Nat
        /\ IsFiniteSet(OldChallenges) /\ Cardinality(OldChallenges) \in Nat
    BY <1>1, <1>2, SubsetCounts DEF CountersOK
  <1>4. SendsToCome \in Nat
    BY <1>3 DEF SendsToCome
  <1>5. Budget(rotations, copies) \in Nat
    BY <1>2, BudgetGrows DEF CountersOK
  <1>6. QED
    BY <1>2, <1>3, <1>4, <1>5 DEF CountersOK, TokensOK

\* No datagram in flight: nothing is still to come.
LEMMA QuietKeepsTokenInv ==
  ASSUME CountersOK', requests' = {}, replies' = {}, sends' <= Budget(rotations', copies')
  PROVE  TokenInv'
  <1>1. Cardinality({}) = 0
    BY FS_EmptySet
  <1>2. StaleRequests' = {} /\ ChallengesInFlight' = {} /\ OldChallenges' = {}
    BY DEF StaleRequests, ChallengesInFlight, OldChallenges
  <1>3. SendsToCome' = 0 + 0 + 0
    BY <1>1, <1>2, Zenon DEF SendsToCome
  <1>4. sends' \in Nat /\ copies' \in Nat
    BY DEF CountersOK
  <1>5. SendsToCome' = 0
    BY <1>3
  <1>6. QED
    BY <1>1, <1>4, <1>5 DEF TokenInv

LEMMA InitTokenInv == ExchangeInit => TokenInv
  <1> SUFFICES ASSUME ExchangeInit
               PROVE  TokenInv
    OBVIOUS
  <1>1. Cardinality({}) = 0 /\ IsFiniteSet({})
    BY FS_EmptySet
  <1>2. StaleRequests = {} /\ ChallengesInFlight = {} /\ OldChallenges = {}
    BY DEF ExchangeInit, StaleRequests, ChallengesInFlight, OldChallenges
  <1>3. SendsToCome = 0
    BY <1>1, <1>2 DEF SendsToCome
  <1>4. QED
    BY <1>1, <1>3 DEF ExchangeInit, TokenInv, CountersOK, Budget

LEMMA StartKeepsTokenInv ==
  ASSUME TokenInv, Start
  PROVE  TokenInv'
  <1>1. /\ requests' = {} \union {RequestChallenge} /\ replies' = {}
        /\ sends' = 1 /\ rotations' = 0 /\ copies' = 0 /\ phase' = "asking"
    BY DEF TokenInv, Start
  <1>2. /\ Cardinality({}) = 0 /\ IsFiniteSet({})
        /\ IsFiniteSet({} \union {RequestChallenge})
        /\ Cardinality({} \union {RequestChallenge}) <= Cardinality({}) + 1
        /\ Cardinality({} \union {RequestChallenge}) \in Nat
    BY FS_EmptySet, AddedCounts
  <1>3. CountersOK'
    BY <1>1, <1>2 DEF CountersOK
  <1>4. /\ StaleRequests' \subseteq {} \union {RequestChallenge}
        /\ ChallengesInFlight' = {} /\ OldChallenges' = {}
    BY <1>1 DEF StaleRequests, ChallengesInFlight, OldChallenges
  <1>5. Cardinality(StaleRequests') \in Nat /\ Cardinality(StaleRequests') <= 1
    BY <1>2, <1>4, AddedCounts
  <1>6. SendsToCome' <= 1 /\ SendsToCome' \in Nat
    BY <1>2, <1>4, <1>5 DEF SendsToCome
  <1>7. Budget(0, 0) = 2
    BY DEF Budget
  <1>8. QED
    BY <1>1, <1>2, <1>3, <1>6, <1>7 DEF TokenInv

\* The client takes a challenge: one token of weight one or two becomes a
\* request of weight zero or one.
LEMMA ChallengeKeepsTokenInv ==
  ASSUME TokenInv, NEW n \in Numbers, ReceiveChallenge(n)
  PROVE  TokenInv'
  <1> DEFINE m == ChallengeReply(n)
             old == IF n = number THEN 0 ELSE 1
  <1>1. /\ m \in replies /\ m.type = "challenge" /\ m.number = n
        /\ requests' = requests \union {n}
        /\ sends' = sends + 1
        /\ UNCHANGED <<phase, number, rotations>>
        /\ phase = "asking"
    BY DEF ReceiveChallenge, ChallengeReply, server_vars
  <1>2. \/ replies' = replies \ {m} /\ copies' = copies
        \/ replies' = replies /\ copies' = copies + 1
    BY DEF ReceiveChallenge, Taken
  <1>3. m \in ChallengesInFlight /\ (old = 1 => m \in OldChallenges)
    BY <1>1 DEF ChallengesInFlight, OldChallenges
  <1> HIDE DEF m
  <1>4. /\ StaleRequests' \subseteq StaleRequests \union {n}
        /\ old = 0 => StaleRequests' \subseteq StaleRequests
    BY <1>1 DEF StaleRequests, Accepts
  <1>5. TokensOK
    BY TokensAreFinite
  <1>6. /\ IsFiniteSet(requests') /\ Cardinality(requests') \in Nat
        /\ Cardinality(requests') <= Cardinality(requests) + 1
    BY <1>1, <1>5, AddedCounts DEF TokensOK
  <1>7. /\ Cardinality(StaleRequests') \in Nat
        /\ Cardinality(StaleRequests') <= Cardinality(StaleRequests) + 1
        /\ old = 0 => Cardinality(StaleRequests') <= Cardinality(StaleRequests)
    BY <1>4, <1>5, AddedCounts, SubsetCounts DEF TokensOK
  <1>8. CASE replies' = replies \ {m} /\ copies' = copies
    <2>1. /\ ChallengesInFlight' \subseteq ChallengesInFlight \ {m}
          /\ OldChallenges' \subseteq OldChallenges \ {m}
      BY <1>1, <1>8 DEF ChallengesInFlight, OldChallenges
    <2>2. /\ Cardinality(ChallengesInFlight') \in Nat
          /\ Cardinality(ChallengesInFlight') <= Cardinality(ChallengesInFlight) - 1
      BY <1>3, <1>5, <2>1, RemovedCounts DEF TokensOK
    <2>3. /\ Cardinality(OldChallenges') \in Nat
          /\ Cardinality(OldChallenges') <= Cardinality(OldChallenges)
      <3>1. OldChallenges' \subseteq OldChallenges
        BY <2>1
      <3>2. QED
        BY <1>5, <3>1, SubsetCounts DEF TokensOK
    <2>4. old = 1 => Cardinality(OldChallenges') <= Cardinality(OldChallenges) - 1
      BY <1>3, <1>5, <2>1, RemovedCounts DEF TokensOK
    <2>5. /\ IsFiniteSet(replies') /\ Cardinality(replies') \in Nat
          /\ Cardinality(replies') <= Cardinality(replies) - 1
      BY <1>1, <1>5, <1>8, RemovedCounts DEF TokensOK
    <2>6. SendsToCome' \in Nat /\ SendsToCome' <= SendsToCome - 1
      <3>1. CASE old = 0
        BY <1>5, <1>7, <2>2, <2>3, <3>1 DEF SendsToCome, TokensOK
      <3>2. CASE old = 1
        BY <1>5, <1>7, <2>2, <2>3, <2>4, <3>2 DEF SendsToCome, TokensOK
      <3>3. QED
        BY <3>1, <3>2
    <2>7. SendsToCome \in Nat
      BY <1>5 DEF TokensOK
    <2>8. CountersOK'
      BY <1>1, <1>5, <1>6, <1>8, <2>5 DEF CountersOK, TokensOK
    <2>9. Cardinality(requests') + Cardinality(replies') <= 1 + copies'
      BY <1>5, <1>6, <1>8, <2>5 DEF TokenInv, TokensOK
    <2>10. Budget(rotations', copies') = Budget(rotations, copies)
      BY <1>1, <1>8
    <2>11. sends' + SendsToCome' <= Budget(rotations', copies')
      BY <1>1, <1>5, <2>6, <2>7, <2>10, BudgetGrows DEF TokenInv, TokensOK
    <2>12. QED
      BY <1>1, <2>8, <2>9, <2>11 DEF TokenInv
  <1>9. CASE replies' = replies /\ copies' = copies + 1
    <2>1. ChallengesInFlight' = ChallengesInFlight /\ OldChallenges' = OldChallenges
      BY <1>1, <1>9 DEF ChallengesInFlight, OldChallenges
    <2>2. SendsToCome' \in Nat /\ SendsToCome' <= SendsToCome + 1 /\ SendsToCome \in Nat
      BY <1>5, <1>7, <2>1 DEF SendsToCome, TokensOK
    <2>3. /\ Budget(rotations, copies) \in Nat
          /\ Budget(rotations', copies') = Budget(rotations, copies) + 2 + rotations
      BY <1>1, <1>5, <1>9, BudgetGrows DEF TokensOK
    <2>4. CountersOK'
      BY <1>1, <1>5, <1>6, <1>9 DEF CountersOK, TokensOK
    <2>5. Cardinality(requests') + Cardinality(replies') <= 1 + copies'
      BY <1>5, <1>6, <1>9 DEF TokenInv, TokensOK
    <2>6. sends' + SendsToCome' <= Budget(rotations', copies')
      BY <1>1, <1>5, <2>2, <2>3 DEF TokenInv, TokensOK
    <2>7. QED
      BY <1>1, <2>4, <2>5, <2>6 DEF TokenInv
  <1>10. QED
    BY <1>2, <1>8, <1>9

\* The server takes a request.  One it does not accept becomes its current
\* challenge, of the same weight.
LEMMA HearingKeepsTokenInv ==
  ASSUME TokenInv, NEW c, ServerHears(c)
  PROVE  TokenInv'
  <1>1. /\ c \in requests
        /\ UNCHANGED <<phase, number, rotations, sends>>
        /\ phase = "asking"
    BY DEF TokenInv, ServerHears, client_vars, server_vars
  <1>2. \/ requests' = requests \ {c} /\ copies' = copies
        \/ requests' = requests /\ copies' = copies + 1
    BY DEF ServerHears, Taken
  <1>3. PICK reply : /\ replies' = replies \union {reply}
                     /\ \/ reply.type # "challenge"
                        \/ ~Accepts(c) /\ reply.type = "challenge" /\ reply.number = number
    <2>1. CASE Accepts(c)
      BY <2>1, ReplyTypes DEF ServerHears
    <2>2. CASE ~Accepts(c)
      BY <2>2 DEF ServerHears, ChallengeReply
    <2>3. QED
      BY <2>1, <2>2
  <1>4. TokensOK
    BY TokensAreFinite
  <1>5. /\ IsFiniteSet(replies') /\ Cardinality(replies') \in Nat
        /\ Cardinality(replies') <= Cardinality(replies) + 1
    BY <1>3, <1>4, AddedCounts DEF TokensOK
  <1>6. /\ ChallengesInFlight' \subseteq ChallengesInFlight \union {reply}
        /\ Accepts(c) => ChallengesInFlight' \subseteq ChallengesInFlight
        /\ OldChallenges' \subseteq OldChallenges
    BY <1>1, <1>3 DEF ChallengesInFlight, OldChallenges
  <1>7. /\ Cardinality(ChallengesInFlight') \in Nat
        /\ Cardinality(ChallengesInFlight') <= Cardinality(ChallengesInFlight) + 1
        /\ Accepts(c) => Cardinality(ChallengesInFlight') <= Cardinality(ChallengesInFlight)
        /\ Cardinality(OldChallenges') \in Nat
        /\ Cardinality(OldChallenges') <= Cardinality(OldChallenges)
    BY <1>4, <1>6, AddedCounts, SubsetCounts DEF TokensOK
  <1>8. CASE requests' = requests \ {c} /\ copies' = copies
    <2>1. /\ StaleRequests' \subseteq StaleRequests
          /\ ~Accepts(c) => c \in StaleRequests /\ StaleRequests' \subseteq StaleRequests \ {c}
      BY <1>1, <1>8 DEF StaleRequests, Accepts
    <2>2. /\ Cardinality(StaleRequests') \in Nat
          /\ Cardinality(StaleRequests') <= Cardinality(StaleRequests)
          /\ ~Accepts(c) => Cardinality(StaleRequests') <= Cardinality(StaleRequests) - 1
      BY <1>4, <2>1, RemovedCounts, SubsetCounts DEF TokensOK
    <2>3. /\ IsFiniteSet(requests') /\ Cardinality(requests') \in Nat
          /\ Cardinality(requests') <= Cardinality(requests) - 1
      BY <1>1, <1>4, <1>8, RemovedCounts DEF TokensOK
    <2>4. SendsToCome' \in Nat /\ SendsToCome' <= SendsToCome
      <3>1. CASE Accepts(c)
        BY <1>4, <1>7, <2>2, <3>1 DEF SendsToCome, TokensOK
      <3>2. CASE ~Accepts(c)
        BY <1>4, <1>7, <2>2, <3>2 DEF SendsToCome, TokensOK
      <3>3. QED
        BY <3>1, <3>2
    <2>5. CountersOK'
      BY <1>1, <1>4, <1>5, <1>8, <2>3 DEF CountersOK, TokensOK
    <2>6. Cardinality(requests') + Cardinality(replies') <= 1 + copies'
      BY <1>4, <1>5, <1>8, <2>3 DEF TokenInv, TokensOK
    <2>7. Budget(rotations', copies') = Budget(rotations, copies)
      BY <1>1, <1>8
    <2>8. sends' + SendsToCome' <= Budget(rotations', copies')
      BY <1>1, <1>4, <2>4, <2>7 DEF TokenInv, TokensOK
    <2>9. QED
      BY <1>1, <2>5, <2>6, <2>8 DEF TokenInv
  <1>9. CASE requests' = requests /\ copies' = copies + 1
    <2>1. StaleRequests' = StaleRequests
      BY <1>1, <1>9 DEF StaleRequests, Accepts
    <2>2. SendsToCome' \in Nat /\ SendsToCome' <= SendsToCome + 1
      BY <1>4, <1>7, <2>1 DEF SendsToCome, TokensOK
    <2>3. Budget(rotations', copies') = Budget(rotations, copies) + 2 + rotations
      BY <1>1, <1>4, <1>9, BudgetGrows DEF TokensOK
    <2>4. CountersOK'
      BY <1>1, <1>4, <1>5, <1>9 DEF CountersOK, TokensOK
    <2>5. Cardinality(requests') + Cardinality(replies') <= 1 + copies'
      BY <1>4, <1>5, <1>9 DEF TokenInv, TokensOK
    <2>6. sends' + SendsToCome' <= Budget(rotations', copies')
      BY <1>1, <1>4, <2>2, <2>3 DEF TokenInv, TokensOK
    <2>7. QED
      BY <1>1, <2>4, <2>5, <2>6 DEF TokenInv
  <1>10. QED
    BY <1>2, <1>8, <1>9

\* The server changes its number.  The tokens that carried the old one weigh
\* one more: a request, a challenge, or with a copy under way both.
LEMMA RotationKeepsTokenInv ==
  ASSUME TokenInv, ExchangeTypeOK, ServerRotates
  PROVE  TokenInv'
  <1> DEFINE m == ChallengeReply(number)
  <1>1. /\ rotations' = rotations + 1
        /\ UNCHANGED <<phase, requests, replies, copies, sends>>
    BY DEF ServerRotates, client_vars, net_vars
  <1>2. /\ StaleRequests' \subseteq StaleRequests \union {number}
        /\ number \notin requests => StaleRequests' \subseteq StaleRequests
    BY <1>1 DEF StaleRequests, Accepts
  <1>3. ChallengesInFlight' = ChallengesInFlight
    BY <1>1 DEF ChallengesInFlight
  <1>4. \A r \in replies : r.type = "challenge" /\ r.number = number => r = m
    BY ReplyTypes DEF ExchangeTypeOK, Replies, ChallengeReply
  <1>5. /\ OldChallenges' \subseteq OldChallenges \union {m}
        /\ m \notin replies => OldChallenges' \subseteq OldChallenges
    BY <1>1, <1>3, <1>4 DEF OldChallenges, ChallengesInFlight
  <1> HIDE DEF m
  <1>6. TokensOK
    BY TokensAreFinite
  <1>7. /\ Cardinality(StaleRequests') \in Nat
        /\ Cardinality(StaleRequests') <= Cardinality(StaleRequests) + 1
        /\ number \notin requests => Cardinality(StaleRequests') <= Cardinality(StaleRequests)
    BY <1>2, <1>6, AddedCounts, SubsetCounts DEF TokensOK
  <1>8. /\ Cardinality(OldChallenges') \in Nat
        /\ Cardinality(OldChallenges') <= Cardinality(OldChallenges) + 1
        /\ m \notin replies => Cardinality(OldChallenges') <= Cardinality(OldChallenges)
    BY <1>5, <1>6, AddedCounts, SubsetCounts DEF TokensOK
  <1>9. number \in requests /\ m \in replies => copies >= 1
    <2>1. number \in requests => Cardinality(requests) >= 1
      <3>1. Cardinality({}) \in Nat
        BY FS_EmptySet
      <3>2. number \in requests => Cardinality({}) <= Cardinality(requests) - 1
        BY <1>6, RemovedCounts DEF TokensOK
      <3>3. QED
        BY <1>6, <3>1, <3>2 DEF TokensOK
    <2>2. m \in replies => Cardinality(replies) >= 1
      <3>1. Cardinality({}) \in Nat
        BY FS_EmptySet
      <3>2. m \in replies => Cardinality({}) <= Cardinality(replies) - 1
        BY <1>6, RemovedCounts DEF TokensOK
      <3>3. QED
        BY <1>6, <3>1, <3>2 DEF TokensOK
    <2>3. QED
      BY <1>6, <2>1, <2>2 DEF TokenInv, TokensOK
  <1>10. SendsToCome' \in Nat /\ SendsToCome' <= SendsToCome + 1 + copies
    <2>1. CASE number \notin requests
      BY <1>3, <1>6, <1>7, <1>8, <2>1 DEF SendsToCome, TokensOK
    <2>2. CASE m \notin replies
      BY <1>3, <1>6, <1>7, <1>8, <2>2 DEF SendsToCome, TokensOK
    <2>3. CASE number \in requests /\ m \in replies
      BY <1>3, <1>6, <1>7, <1>8, <1>9, <2>3 DEF SendsToCome, TokensOK
    <2>4. QED
      BY <2>1, <2>2, <2>3
  <1>11. Budget(rotations', copies') = Budget(rotations, copies) + 1 + copies
    BY <1>1, <1>6, BudgetGrows DEF TokensOK
  <1>12. CountersOK'
    BY <1>1, <1>6 DEF CountersOK, TokensOK
  <1>13. sends' + SendsToCome' <= Budget(rotations', copies')
    BY <1>1, <1>6, <1>10, <1>11 DEF TokenInv, TokensOK
  <1>14. QED
    BY <1>1, <1>12, <1>13 DEF TokenInv

LEMMA StepKeepsTokenInv ==
  TokenInv /\ ExchangeTypeOK /\ [ExchangeNext]_exchange_vars => TokenInv'
  <1> SUFFICES ASSUME TokenInv, ExchangeTypeOK, [ExchangeNext]_exchange_vars
               PROVE  TokenInv'
    OBVIOUS
  <1>1. CASE Start
    BY <1>1, StartKeepsTokenInv
  <1>2. ASSUME NEW n \in Numbers, ReceiveChallenge(n)
        PROVE  TokenInv'
    BY <1>2, ChallengeKeepsTokenInv
  <1>3. ASSUME NEW outcome, RoundEnds(outcome)
        PROVE  TokenInv'
    <2>1. TokensOK
      BY TokensAreFinite
    <2>2. /\ requests' = {} /\ replies' = {}
          /\ UNCHANGED <<sends, rotations, copies>>
      BY <1>3 DEF RoundEnds, server_vars
    <2>3. IsFiniteSet({})
      BY FS_EmptySet
    <2>4. CountersOK'
      BY <2>1, <2>2, <2>3 DEF CountersOK, TokensOK
    <2>5. sends <= Budget(rotations, copies)
      BY <2>1 DEF TokenInv, TokensOK
    <2>6. sends' <= Budget(rotations', copies')
      BY <2>2, <2>5
    <2>7. QED
      BY <2>2, <2>4, <2>6, QuietKeepsTokenInv
  <1>4. ASSUME NEW c \in Numbers \union {RequestChallenge}, ServerHears(c)
        PROVE  TokenInv'
    BY <1>4, HearingKeepsTokenInv
  <1>5. CASE ServerRotates
    BY <1>5, RotationKeepsTokenInv
  <1>6. CASE Tick \/ ServerChanges \/ UNCHANGED exchange_vars
    <2>1. UNCHANGED <<phase, requests, replies, number, sends, rotations, copies>>
      BY <1>6 DEF Tick, ServerChanges, client_vars, net_vars, server_vars, exchange_vars
    <2>2. UNCHANGED <<StaleRequests, ChallengesInFlight, OldChallenges>>
      BY <2>1 DEF StaleRequests, ChallengesInFlight, OldChallenges, Accepts
    <2>3. SendsToCome' = SendsToCome /\ Budget(rotations', copies') = Budget(rotations, copies)
      BY <2>1, <2>2, Zenon DEF SendsToCome
    <2>4. QED
      BY <2>1, <2>3 DEF TokenInv, CountersOK
  <1>7. QED
    BY <1>1, <1>2, <1>3, <1>4, <1>5, <1>6
    DEF ExchangeNext, ReceiveResponse, ReceiveGarbage, TimerFires

\* For any timeout, any numbers, any changes and any copies: challenges do not
\* make client and server chase each other.
THEOREM SendsAreBounded == ExchangeSpec => []RoundsBounded
  <1>1. TokenInv => RoundsBounded
    <2> SUFFICES ASSUME TokenInv
                 PROVE  RoundsBounded
      OBVIOUS
    <2>1. TokensOK
      BY TokensAreFinite
    <2>2. sends <= Budget(rotations, copies)
      BY <2>1 DEF TokenInv, TokensOK
    <2>3. QED
      BY <2>2 DEF RoundsBounded, Budget
  <1>2. QED
    BY <1>1, ExchangeTypes, InitTokenInv, StepKeepsTokenInv, PTL DEF ExchangeSpec
=============================================================================
