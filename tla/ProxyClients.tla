---------------------------- MODULE ProxyClients ----------------------------
(***************************************************************************)
(* QueryProxy with clients that want something: they ask for info, and     *)
(* they ask for players the way the protocol has it, first with a number   *)
(* of no meaning and, once a GetChallengeResponse has told them one, with  *)
(* that.  A reply that is lost is followed by another request without the  *)
(* number, which is among the requests of ProxyNext at any time.           *)
(***************************************************************************)
EXTENDS QueryProxy

VARIABLE told     \* clients that a GetChallengeResponse was sent to

client_vars == <<proxy_vars, told>>

ClientsInit == ProxyInit /\ told = {}

\* A challenge leaves the proxy when the listener is done with it.
Telling == listener = "sending" /\ outgoing.kind = ChallengeReply /\ listener' = "listening"

Tell == told' = IF Telling THEN told \union {outgoing.to} ELSE told

ClientsNext == ProxyNext /\ Tell

AskForInfo(addr) ==
  \E challenge \in OtherChallenges : HandleRequest(addr, "a2s_info", challenge)

NumberOf(addr) == IF addr \in told THEN {our_a2s_challenge} ELSE OtherChallenges

AskForPlayers(addr) ==
  \E challenge \in NumberOf(addr) : HandleRequest(addr, "a2s_players", challenge)

\* send_packet returns, and clients ask again and again.
ListenerFairness ==
  /\ WF_proxy_vars(SendDone)
  /\ \A addr \in Clients \ ZeroPort :
       /\ SF_proxy_vars(AskForInfo(addr))
       /\ SF_proxy_vars(AskForPlayers(addr))

FairClientsSpec ==
  /\ ClientsInit
  /\ [][ClientsNext]_client_vars
  /\ UpdatersFairness
  /\ ListenerFairness

-----------------------------------------------------------------------------
\* The game server stays up and nothing takes the listener down any more.
AllStaysUp == <>[]server_up /\ <>[](listener \in {"listening", "sending"})

\* Clients that keep asking for info get it.
ClientsGetInfo == AllStaysUp => []<>(outgoing.kind = "a2s_info")

\* The handshake comes to an end for every client, however often the number or
\* the request that carries it is lost: a client that knows nothing is told the
\* number, and with it gets the players, which another task may store late.
HandshakeCompletes ==
  AllStaysUp =>
    \A addr \in Clients \ ZeroPort :
      []<>(outgoing.kind = "a2s_players" /\ outgoing.to = addr)
=============================================================================
