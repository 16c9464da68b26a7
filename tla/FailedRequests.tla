---------------------------- MODULE FailedRequests --------------------------
(***************************************************************************)
(* The proxy with a history of what became of the requests its update      *)
(* loops sent: `unanswered` counts, over all tasks, the rounds in a row    *)
(* that ended without an answer the proxy could use, by a timeout or by an *)
(* exception of the decoder.  It saturates at fails_threshold.             *)
(***************************************************************************)
EXTENDS QueryProxy

VARIABLE unanswered

FailedRequestsInit == ProxyInit /\ unanswered = 0

OneMore == unanswered' = IF unanswered < fails_threshold THEN unanswered + 1 ELSE unanswered

RoundFails(k) ==
  \/ TimedOut(k)
  \/ \E d \in Datagram : d.form = "raises" /\ Receive(k, d)

RoundSucceeds(k) == \E d \in Datagram : d.form # "raises" /\ Receive(k, d)

\* Steps that do not end a round
OtherStep(k) == Connect(k) \/ ConnectError(k) \/ Wake(k) \/ BackoffElapsed(k)

CountedStep ==
  \/ \E k \in UpdaterKinds :
       \/ RoundFails(k) /\ OneMore
       \/ RoundSucceeds(k) /\ unanswered' = 0
       \/ OtherStep(k) /\ UNCHANGED unanswered
  \/ ServerStep /\ UNCHANGED unanswered

FailedRequestsNext ==
  \/ CountedStep /\ UNCHANGED listener_vars
  \/ ListenerStep /\ UNCHANGED unanswered

FailedRequestsSpec ==
  FailedRequestsInit /\ [][FailedRequestsNext]_<<proxy_vars, unanswered>>

\* "How many requests should fail in a row to mark server offline": after that
\* many failed requests the proxy is offline.
OfflineAfterFailsInARow == unanswered = fails_threshold => ~online

\* A server that was online is only taken for down after that many failed
\* requests with no answer among them, to whichever task.
DownOnlyAfterFails ==
  (~online /\ \E k \in Kinds : resp_cache[k] # NoEntry) => unanswered = fails_threshold
=============================================================================
