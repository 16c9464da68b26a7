------------------------------ MODULE Updaters ------------------------------
(***************************************************************************)
(* The update loops of QueryProxy (proxy.py: _update_info, _update_players *)
(* and _update_rules), the game server they ask, the response cache they   *)
(* fill and the failure counter they share.                                *)
(*                                                                         *)
(* The loops are asyncio tasks: code between two awaits is one action, and *)
(* the tasks interleave at the awaits.  Each round makes a new socket, so  *)
(* `replies` is what may still arrive on the socket a task has open.       *)
(* The round of send_recv_packet is one wait here; module Exchange opens   *)
(* it up.                                                                  *)
(***************************************************************************)
EXTENDS LastOkFailCounter, FiniteSets

CONSTANTS
  no_a2s_rules,     \* settings.no_a2s_rules
  Forms,            \* what the game server's datagrams may be to the decoder
  NoEntry,          \* the cache has no entry for a key
  MaxVersion,       \* bound: how often the game server's data changes
  MaxInFlight       \* bound: datagrams on their way to one socket

AllForms ==
  {"response",      \* a response message of the protocol
   "unknown",       \* decodes to None: recv_packet returns (None, data, addr)
   "raises"}        \* the decoder lets an exception out, e.g. a ValueError

ASSUME UpdatersAssumption ==
  /\ no_a2s_rules \in BOOLEAN
  /\ Forms \subseteq AllForms
  /\ MaxVersion \in Nat
  /\ MaxInFlight \in Nat \ {0}

Kinds == {"a2s_info", "a2s_players", "a2s_rules"}

\* get_tasks: there is no task for rules when the settings turn them off.
UpdaterKinds == IF no_a2s_rules THEN Kinds \ {"a2s_rules"} ELSE Kinds

Datagram == [version : 0..MaxVersion, form : Forms]

ASSUME NoEntryAssumption == NoEntry \notin Datagram

VARIABLES
  pc,            \* task -> the await it is suspended at
  replies,       \* task -> datagrams in flight to its socket
  resp_cache,    \* key -> the datagram last stored, or NoEntry
  version,       \* of the data the game server would answer with
  server_up      \* whether the game server answers at all

task_vars == <<pc, replies, resp_cache>>
env_vars == <<version, server_up>>
updater_vars == <<now, counter_vars, task_vars, env_vars>>

UpdatersInit ==
  /\ CounterInit
  /\ pc = [k \in UpdaterKinds |-> "connect"]
  /\ replies = [k \in UpdaterKinds |-> {}]
  /\ resp_cache = [k \in Kinds |-> NoEntry]
  /\ version = 0
  /\ server_up \in BOOLEAN

At(k, label) == pc[k] = label
Goto(k, label) == pc' = [pc EXCEPT ![k] = label]

\* Fault: one socket for all rounds
KeepSocket(k) == UNCHANGED replies

\* `async with` leaves the block: whatever is on its way to the socket is lost.
CloseSocket(k) == replies' = [replies EXCEPT ![k] = {}]

-----------------------------------------------------------------------------
\* connect() makes the socket and send_recv_packet sends the request.
Connect(k) ==
  /\ At(k, "connect")
  /\ Goto(k, "waiting")
  /\ UNCHANGED <<now, counter_vars, replies, resp_cache, env_vars>>

\* connect() raises: ConnectionRefusedError is retried by retry_ConnError, any
\* other exception by retry_AnyError.  Both start the loop again after a pause.
ConnectError(k) ==
  /\ At(k, "connect")
  /\ Goto(k, "backoff")
  /\ UNCHANGED <<now, counter_vars, replies, resp_cache, env_vars>>

\* Faults: the exception takes the server for down; it ends the task; it counts
\* as an answer.
DecodeErrorIsOffline(k, d) ==
  /\ d.form = "raises"
  /\ Goto(k, "backoff")
  /\ on_offline
  /\ UNCHANGED <<now, last_success_at, fails_in_row, fails_threshold_reached, resp_cache>>

DecodeErrorEndsTask(k, d) ==
  /\ d.form = "raises"
  /\ Goto(k, "ended")
  /\ UNCHANGED <<now, counter_vars, resp_cache>>

DecodeErrorIsOk(k, d) ==
  /\ d.form = "raises"
  /\ Goto(k, "backoff")
  /\ ok
  /\ UNCHANGED resp_cache

\* The decoder raises out of recv_packet: neither fail() nor ok() is called,
\* retry_AnyError starts the task again.
DecodeError(k, d) ==
  /\ d.form = "raises"
  /\ Goto(k, "backoff")
  /\ UNCHANGED <<now, counter_vars, resp_cache>>

\* Anything else counts as an answer and is stored as it came, decoded or not.
StoreAnswer(k, d) ==
  /\ d.form # "raises"
  /\ ok
  /\ resp_cache' = [resp_cache EXCEPT ![k] = d]
  /\ Goto(k, "sleeping")

Receive(k, d) ==
  /\ At(k, "waiting")
  /\ d \in replies[k]
  /\ DecodeError(k, d) \/ StoreAnswer(k, d)
  /\ CloseSocket(k)
  /\ UNCHANGED env_vars

\* Fault: a timeout is not counted.
TimedOutUncounted(k) ==
  /\ At(k, "waiting")
  /\ CloseSocket(k)
  /\ Goto(k, "sleeping")
  /\ UNCHANGED <<now, counter_vars, resp_cache, env_vars>>

\* asyncio.TimeoutError out of send_recv_packet
TimedOut(k) ==
  /\ At(k, "waiting")
  /\ fail
  /\ CloseSocket(k)
  /\ Goto(k, "sleeping")
  /\ UNCHANGED <<resp_cache, env_vars>>

\* The end of asyncio.sleep, and of the pause of the retry decorators
Wake(k) ==
  /\ At(k, "sleeping")
  /\ Goto(k, "connect")
  /\ UNCHANGED <<now, counter_vars, replies, resp_cache, env_vars>>

BackoffElapsed(k) ==
  /\ At(k, "backoff")
  /\ Goto(k, "connect")
  /\ UNCHANGED <<now, counter_vars, replies, resp_cache, env_vars>>

\* The request, or a copy of it, reaches the game server, which answers with
\* the data of that moment.  The datagram may be received, late or never.
ServerAnswers(k, form) ==
  /\ server_up
  /\ At(k, "waiting")
  /\ Cardinality(replies[k]) < MaxInFlight
  /\ replies' = [replies EXCEPT ![k] = @ \union {[version |-> version, form |-> form]}]
  /\ UNCHANGED <<now, counter_vars, pc, resp_cache, env_vars>>

ServerChanges ==
  /\ version < MaxVersion
  /\ version' = version + 1
  /\ UNCHANGED <<now, counter_vars, task_vars, server_up>>

ServerStops ==
  /\ server_up
  /\ server_up' = FALSE
  /\ UNCHANGED <<now, counter_vars, task_vars, version>>

ServerStarts ==
  /\ ~server_up
  /\ server_up' = TRUE
  /\ UNCHANGED <<now, counter_vars, task_vars, version>>

TaskStep(k) ==
  \/ Connect(k)
  \/ ConnectError(k)
  \/ \E d \in Datagram : Receive(k, d)
  \/ TimedOut(k)
  \/ Wake(k)
  \/ BackoffElapsed(k)

ServerStep ==
  \/ \E k \in UpdaterKinds, form \in Forms : ServerAnswers(k, form)
  \/ ServerChanges
  \/ ServerStops
  \/ ServerStarts

UpdatersNext == (\E k \in UpdaterKinds : TaskStep(k)) \/ ServerStep

UpdatersSpec == UpdatersInit /\ [][UpdatersNext]_updater_vars

\* Timers fire and a round ends; a socket can be made now and again; and while
\* the server is up, proper answers get through now and again.
ProperAnswer(k) == ServerAnswers(k, "response")
ProperReceive(k) == \E d \in Datagram : d.form = "response" /\ Receive(k, d)

UpdatersFairness ==
  \A k \in UpdaterKinds :
    /\ WF_updater_vars(Wake(k))
    /\ WF_updater_vars(BackoffElapsed(k))
    /\ WF_updater_vars(TimedOut(k))
    /\ SF_updater_vars(Connect(k))
    /\ SF_updater_vars(ProperAnswer(k))
    /\ SF_updater_vars(ProperReceive(k))

FairUpdatersSpec == UpdatersSpec /\ UpdatersFairness

-----------------------------------------------------------------------------
Labels == {"connect", "waiting", "sleeping", "backoff"}

UpdatersTypeOK ==
  /\ CounterTypeOK
  /\ pc \in [UpdaterKinds -> Labels]
  /\ replies \in [UpdaterKinds -> SUBSET Datagram]
  /\ resp_cache \in [Kinds -> Datagram \union {NoEntry}]
  /\ version \in 0..MaxVersion
  /\ server_up \in BOOLEAN

NoOlder(entry, d) == entry # NoEntry => entry.version <= d.version

\* Nothing on its way to a task's socket is older than what its last round
\* stored, although an unanswered round may have left an answer behind: that
\* one went to a socket that is closed.
RepliesNotOlder ==
  \A k \in UpdaterKinds :
    /\ resp_cache[k] # NoEntry => resp_cache[k].version <= version
    /\ replies[k] # {} => At(k, "waiting")
    /\ \A d \in replies[k] : NoOlder(resp_cache[k], d) /\ d.version <= version

\* A cached response is only ever replaced by one the game server made at the
\* same time or later, and never removed.
CacheNeverRegresses ==
  [][\A k \in Kinds : resp_cache[k] # NoEntry =>
       resp_cache'[k] # NoEntry /\ NoOlder(resp_cache[k], resp_cache'[k])]_resp_cache

\* The proxy only says the server is online when it has something to answer
\* with, whichever of the tasks called ok().
OnlineMeansServable ==
  online => \E k \in UpdaterKinds : resp_cache[k] # NoEntry

\* A server that stops for good is found to be down for good, whatever
\* answers were still on their way and whoever times out first.
DownDetected == <>[]~server_up => <>[]~online

\* While the server stays up the proxy is online again and again.
UpDetected == <>[]server_up => []<>online

\* No task ever ends: after any exception and any timeout it asks again.
EveryTaskKeepsAsking == \A k \in UpdaterKinds : []<>At(k, "waiting")
=============================================================================
