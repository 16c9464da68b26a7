----------------------------- MODULE QueryProxy -----------------------------
(***************************************************************************)
(* class QueryProxy (proxy.py): the update loops of module Updaters and    *)
(* the task that answers clients from their cache,                         *)
(* _listen_client_requests with get_response_for.                          *)
(*                                                                         *)
(* A client's request is any request, with any number, at any time:        *)
(* requests lost, sent twice, delayed or reordered on the way are all      *)
(* among these choices, and so is the proxy's own number from an address   *)
(* that was never told it: there is one number for all addresses.          *)
(***************************************************************************)
EXTENDS Updaters

CONSTANTS
  Clients,              \* the addresses requests come from
  ZeroPort,             \* those with port 0, which the listener ignores
  our_a2s_challenge,    \* random.randint(1, MAX_SIZE_32) in __init__
  OtherChallenges,      \* A2S_EMPTY_CHALLENGE, numbers of an earlier run
  NoOne                 \* no response is being sent

Challenges == OtherChallenges \union {our_a2s_challenge}

ASSUME QueryProxyAssumption ==
  /\ ZeroPort \subseteq Clients
  /\ our_a2s_challenge \notin OtherChallenges
  /\ NoOne \notin Clients

VARIABLES
  listener,      \* what _listen_client_requests is doing
  outgoing,      \* the response its send_packet is sending, and to whom
  served         \* kind -> the last datagram sent to any client, or NoEntry

listener_vars == <<listener, outgoing, served>>
proxy_vars == <<updater_vars, listener_vars>>

\* A response on its way out: cached data of a kind, or a challenge.
ChallengeReply == "challenge"
Idle == [to |-> NoOne, kind |-> ChallengeReply, data |-> NoEntry]

ProxyInit ==
  /\ UpdatersInit
  /\ listener = "binding"
  /\ outgoing = Idle
  /\ served = [k \in Kinds |-> NoEntry]

-----------------------------------------------------------------------------
Bind ==
  /\ listener = "binding"
  /\ listener' = "listening"
  /\ UNCHANGED <<updater_vars, outgoing, served>>

\* bind() raises; a reassembled request does not even have a header and
\* decode_packet raises; send_packet raises, for a response of too many fragments
\* or in the socket.  retry_AnyError starts the task again after a pause.
ListenError ==
  /\ listener \in {"binding", "listening", "sending"}
  /\ listener' = "backoff"
  /\ outgoing' = Idle
  /\ UNCHANGED <<updater_vars, served>>

ListenAgain ==
  /\ listener = "backoff"
  /\ listener' = "binding"
  /\ UNCHANGED <<updater_vars, outgoing, served>>

\* Faults: who does not send the number is not told it; info needs it, too.
ResponseUntold(kind, challenge) ==
  [kind |-> kind,
   data |-> IF kind = "a2s_info" \/ challenge = our_a2s_challenge THEN resp_cache[kind]
                                                                 ELSE NoEntry]

ResponseWithInfoGuarded(kind, challenge) ==
  IF challenge = our_a2s_challenge
  THEN [kind |-> kind, data |-> resp_cache[kind]]
  ELSE [kind |-> ChallengeReply, data |-> NoEntry]

\* Only players and rules need the challenge; NoEntry is the default None.
get_response_for(kind, challenge) ==
  IF kind = "a2s_info" \/ challenge = our_a2s_challenge
  THEN [kind |-> kind, data |-> resp_cache[kind]]
  ELSE [kind |-> ChallengeReply, data |-> NoEntry]

\* Fault: a missing response is not looked for.
AnyResponse(resp) == TRUE

HasResponse(resp) == resp.kind = ChallengeReply \/ resp.data # NoEntry

\* recv_packet returns a request that gets a response; any other request leaves
\* the state as it is, and the loop goes on.  The checks and get_response_for run without
\* an await; only send_packet suspends, holding the bytes it was given.
HandleRequest(addr, kind, challenge) ==
  LET resp == get_response_for(kind, challenge) IN
  /\ listener = "listening"
  /\ addr \notin ZeroPort
  /\ online
  /\ HasResponse(resp)
  /\ listener' = "sending"
  /\ outgoing' = [to |-> addr, kind |-> resp.kind, data |-> resp.data]
  /\ UNCHANGED <<updater_vars, served>>

\* send_packet returns.  The datagrams may or may not get to the client.
SendDone ==
  /\ listener = "sending"
  /\ listener' = "listening"
  /\ outgoing' = Idle
  /\ served' = IF outgoing.kind = ChallengeReply
               THEN served
               ELSE [served EXCEPT ![outgoing.kind] = outgoing.data]
  /\ UNCHANGED updater_vars

\* What SourceDatagramServer decodes: InfoRequest, in both versions, PlayersRequest
\* and RulesRequest, also where rules are not asked for.  All else is None.
decode_request == Kinds

ListenerStep ==
  \/ Bind
  \/ ListenError
  \/ ListenAgain
  \/ \E addr \in Clients, kind \in decode_request, challenge \in Challenges :
       HandleRequest(addr, kind, challenge)
  \/ SendDone

ProxyNext ==
  \/ ListenerStep
  \/ UpdatersNext /\ UNCHANGED listener_vars

ProxySpec == ProxyInit /\ [][ProxyNext]_proxy_vars

-----------------------------------------------------------------------------
ProxyTypeOK ==
  /\ UpdatersTypeOK
  /\ listener \in {"binding", "listening", "sending", "backoff"}
  /\ outgoing \in [to : Clients \union {NoOne}, kind : Kinds \union {ChallengeReply},
                   data : Datagram \union {NoEntry}]
  /\ outgoing.kind \in Kinds => outgoing.data # NoEntry
  /\ served \in [Kinds -> Datagram \union {NoEntry}]

\* Seen at the proxy's socket, the answers of a kind never go back in time,
\* whoever asks and however a slow send_packet falls between two updates.
ServedNeverRegresses ==
  [][\A k \in Kinds : served[k] # NoEntry => NoOlder(served[k], served'[k])]_served
=============================================================================
