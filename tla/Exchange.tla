------------------------------ MODULE Exchange ------------------------------
(***************************************************************************)
(* QueryProxy.send_recv_packet (proxy.py) over UDP, as an update loop uses *)
(* it: round after round, each on a socket of its own.  The server may     *)
(* answer with a challenge; the client then sends the request again with   *)
(* that number and starts its timer anew.  Datagrams get lost (nothing     *)
(* forces a delivery), reordered (they are sets) and duplicated.           *)
(***************************************************************************)
EXTENDS Integers

CONSTANTS
  RequestChallenge,    \* packet.get('challenge'): A2S_EMPTY_CHALLENGE or None
                       \* (A2S_INFO, which has no such field)
  Numbers,             \* the challenge numbers the server gives out
  ServerChecks,        \* whether the server answers such a request without one
  timeout,             \* in ticks, of one wait
  MaxVersion,          \* bound: how often the game server's data changes
  MaxRotations,        \* bound: changes of the server's number within a round
  MaxCopies            \* bound: datagrams duplicated within a round

ASSUME ExchangeAssumption ==
  /\ RequestChallenge \notin Numbers
  /\ ServerChecks \in BOOLEAN
  /\ timeout \in Nat \ {0}
  /\ MaxVersion \in Nat
  /\ MaxRotations \in Nat
  /\ MaxCopies \in Nat

VARIABLES
  phase,            \* "asking" while send_recv_packet runs, else how it ended
  a2s_challenge,
  timer,            \* ticks left of async_timeout.timeout(timeout)
  requests,         \* datagrams on their way to the server: their challenges
  replies,          \* datagrams on their way to the client's socket
  number,           \* the server's challenge for this client
  version,          \* of the server's data
  got,              \* version of the data returned last
  asked,            \* history: version when the round began
  sends,            \* history: requests sent in the round
  rotations,        \* history: changes of `number` in the round
  copies            \* history: duplicates made in the round

client_vars == <<phase, a2s_challenge, timer, got>>
net_vars == <<requests, replies, copies>>
server_vars == <<number, version, rotations>>
exchange_vars == <<client_vars, net_vars, server_vars, asked, sends>>

\* GetChallengeResponse, another response, or what the decoder raises on
ChallengeReply(n) == [type |-> "challenge", number |-> n]
Response(v) == [type |-> "response", version |-> v]
Garbage == [type |-> "garbage"]
Replies ==
  {ChallengeReply(n) : n \in Numbers} \union {Response(v) : v \in 0..MaxVersion}
    \union {Garbage}

ExchangeInit ==
  /\ phase = "idle"
  /\ a2s_challenge = RequestChallenge
  /\ timer = 0
  /\ requests = {}
  /\ replies = {}
  /\ number \in Numbers
  /\ version = 0
  /\ got = 0
  /\ asked = 0
  /\ sends = 0
  /\ rotations = 0
  /\ copies = 0

-----------------------------------------------------------------------------
\* connect() and the first turn of the loop, on a new socket
Start ==
  /\ phase # "asking"
  /\ phase' = "asking"
  /\ a2s_challenge' = RequestChallenge
  /\ requests' = requests \union {RequestChallenge}
  /\ timer' = timeout
  /\ asked' = version
  /\ sends' = 1
  /\ rotations' = 0
  /\ copies' = 0
  /\ UNCHANGED <<replies, number, version, got>>

\* A datagram leaves the network, or a copy of it stays there.
Taken(msgs, m) ==
  \/ msgs' = msgs \ {m} /\ UNCHANGED copies
  \/ copies < MaxCopies /\ copies' = copies + 1 /\ UNCHANGED msgs

\* Faults: the timer is prolonged; the request is repeated as it was.
ProlongTimer(n) ==
  /\ phase = "asking"
  /\ ChallengeReply(n) \in replies
  /\ Taken(replies, ChallengeReply(n))
  /\ a2s_challenge' = n
  /\ requests' = requests \union {n}
  /\ timer' = timer + timeout
  /\ sends' = sends + 1
  /\ UNCHANGED <<phase, got, server_vars, asked>>

RepeatRequest(n) ==
  /\ phase = "asking"
  /\ ChallengeReply(n) \in replies
  /\ Taken(replies, ChallengeReply(n))
  /\ requests' = requests \union {a2s_challenge}
  /\ timer' = timeout
  /\ sends' = sends + 1
  /\ UNCHANGED <<phase, a2s_challenge, got, server_vars, asked>>

\* A challenge: the loop goes on, with a fresh timer.
ReceiveChallenge(n) ==
  /\ phase = "asking"
  /\ ChallengeReply(n) \in replies
  /\ Taken(replies, ChallengeReply(n))
  /\ a2s_challenge' = n
  /\ requests' = requests \union {n}
  /\ timer' = timeout
  /\ sends' = sends + 1
  /\ UNCHANGED <<phase, got, server_vars, asked>>

\* Fault: the socket is kept for the next round.
RoundEndsSocketKept(outcome) ==
  /\ phase' = outcome
  /\ timer' = 0
  /\ UNCHANGED <<a2s_challenge, net_vars, server_vars, asked, sends>>

\* The loop breaks with the response, or an exception leaves it.  The client's
\* `async with` closes the socket: whatever is on its way is lost to it.
RoundEnds(outcome) ==
  /\ phase' = outcome
  /\ requests' = {}
  /\ replies' = {}
  /\ timer' = 0
  /\ UNCHANGED <<a2s_challenge, copies, server_vars, asked, sends>>

ReceiveResponse(v) ==
  /\ phase = "asking"
  /\ Response(v) \in replies
  /\ got' = v
  /\ RoundEnds("answered")

ReceiveGarbage ==
  /\ phase = "asking"
  /\ Garbage \in replies
  /\ RoundEnds("raised")
  /\ UNCHANGED got

Tick ==
  /\ phase = "asking"
  /\ timer > 0
  /\ timer' = timer - 1
  /\ UNCHANGED <<phase, a2s_challenge, got, net_vars, server_vars, asked, sends>>

\* Fault: the timeout is handled in the loop, which waits again.
WaitAgain ==
  /\ phase = "asking"
  /\ timer = 0
  /\ timer' = timeout
  /\ UNCHANGED <<phase, a2s_challenge, got, net_vars, server_vars, asked, sends>>

\* The timer of async_timeout; until it fires a datagram may still win.
TimerFires ==
  /\ phase = "asking"
  /\ timer = 0
  /\ RoundEnds("timed_out")
  /\ UNCHANGED got

\* External, as the code expects it of a game server: a request without the
\* server's number is answered with the number.
Accepts(c) == ~ServerChecks \/ c = number

ServerHears(c) ==
  /\ c \in requests
  /\ Taken(requests, c)
  /\ \E reply \in IF Accepts(c) THEN {Response(version), Garbage}
                                ELSE {ChallengeReply(number)} :
       replies' = replies \union {reply}
  /\ UNCHANGED <<client_vars, server_vars, asked, sends>>

ServerRotates ==
  /\ rotations < MaxRotations
  /\ number' \in Numbers \ {number}
  /\ rotations' = rotations + 1
  /\ UNCHANGED <<client_vars, net_vars, version, asked, sends>>

ServerChanges ==
  /\ version < MaxVersion
  /\ version' = version + 1
  /\ UNCHANGED <<client_vars, net_vars, number, rotations, asked, sends>>

ExchangeNext ==
  \/ Start
  \/ \E n \in Numbers : ReceiveChallenge(n)
  \/ \E v \in 0..MaxVersion : ReceiveResponse(v)
  \/ ReceiveGarbage
  \/ Tick
  \/ TimerFires
  \/ \E c \in Numbers \union {RequestChallenge} : ServerHears(c)
  \/ ServerRotates
  \/ ServerChanges

ExchangeSpec == ExchangeInit /\ [][ExchangeNext]_exchange_vars

\* Only the event loop's clock and timers are relied on, not the network.
FairExchangeSpec ==
  ExchangeSpec /\ WF_exchange_vars(Tick) /\ WF_exchange_vars(TimerFires)

-----------------------------------------------------------------------------
Outcomes == {"answered", "timed_out", "raised"}

ExchangeTypeOK ==
  /\ phase \in Outcomes \union {"idle", "asking"}
  /\ a2s_challenge \in Numbers \union {RequestChallenge}
  /\ timer \in 0..timeout
  /\ requests \subseteq Numbers \union {RequestChallenge}
  /\ replies \subseteq Replies
  /\ number \in Numbers
  /\ {version, got, asked} \subseteq 0..MaxVersion
  /\ sends \in Nat
  /\ rotations \in 0..MaxRotations
  /\ copies \in 0..MaxCopies

\* Challenges do not make client and server chase each other: a round needs a
\* second request, and further ones only for numbers the server changed or
\* datagrams the network duplicated.
RoundsBounded == sends <= (2 + rotations) * (1 + copies)

Contract == INSTANCE ExchangeContract

\* However the challenges, copies and late datagrams fall, a round returns
\* data that is not older than the round, or fails.
ImplementsContract == Contract!Spec

\* While the server's number changes finitely often within a round, the round
\* ends: send_recv_packet does not keep its update loop for ever.
RoundEndsEventually == []<>(phase # "asking")

=============================================================================
