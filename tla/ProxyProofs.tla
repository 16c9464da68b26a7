----------------------------- MODULE ProxyProofs ----------------------------
(***************************************************************************)
(* The counter's invariant is inductive, and every call of ok() or fail()  *)
(* is a step, or a stutter, of Availability.  The update loops call the    *)
(* counter and nothing else moves it, so they inherit what is proved of    *)
(* it; the cache never goes back in time, for any number of versions and   *)
(* datagrams in flight; and a server that answered once is taken for down  *)
(* only after fails_threshold rounds without an answer.  Answering clients *)
(* leaves the loops alone: for any clients, challenges and number of       *)
(* requests, what clients get never goes back in time.                     *)
(***************************************************************************)
EXTENDS FailedRequests, TLAPS

\* A fresh counter satisfies the invariant (LastOkFailCounter.__init__).
LEMMA CounterInitInv == CounterInit => CounterInv
  <1> SUFFICES ASSUME CounterInit
               PROVE  CounterInv
    OBVIOUS
  <1>1. /\ now \in 0..MaxTime
        /\ last_success_at \in 0..MaxTime
        /\ fails_in_row \in 0..MaxFails
        /\ last_success_at <= now
    BY CounterAssumption DEF CounterInit
  <1>2. CounterTypeOK
    BY <1>1, Zenon DEF CounterInit, CounterTypeOK
  <1>3. StatusFollowsCount
    BY Zenon DEF CounterInit, StatusFollowsCount
  <1>4. QED
    BY <1>1, <1>2, <1>3 DEF CounterInv

\* One call of ok() preserves the invariant.
LEMMA OkPreserves == CounterInv /\ ok => CounterInv'
  <1> SUFFICES ASSUME CounterInv, ok
               PROVE  CounterInv'
    OBVIOUS
  <1> USE CounterAssumption
      DEF CounterInv, CounterTypeOK, StatusFollowsCount
  <1>1. now' \in now..MaxTime /\ now' >= last_success_at
    BY DEF ok, ReadClock
  <1>2. CountOk
    BY <1>1 DEF ok
  <1>3. /\ now' \in 0..MaxTime
        /\ last_success_at' \in 0..MaxTime
        /\ fails_in_row' \in 0..MaxFails
        /\ fails_in_row' < fails_threshold
        /\ last_success_at' <= now'
    BY <1>1, <1>2 DEF CountOk
  <1>4. online' = TRUE /\ fails_threshold_reached' = FALSE
    BY <1>2, Zenon DEF CountOk, on_online
  <1>5. CounterTypeOK' /\ StatusFollowsCount'
    BY <1>3, <1>4, Zenon DEF CounterTypeOK, StatusFollowsCount
  <1>6. QED
    BY <1>3, <1>5

\* One call of fail() preserves the invariant.
LEMMA FailPreserves == CounterInv /\ fail => CounterInv'
  <1> SUFFICES ASSUME CounterInv, fail
               PROVE  CounterInv'
    OBVIOUS
  <1> USE CounterAssumption
      DEF CounterInv, CounterTypeOK, StatusFollowsCount
  <1>1. /\ now' \in now..MaxTime
        /\ now' >= last_success_at
    BY DEF fail, ReadClock
  <1>2. CountFail
    BY <1>1 DEF fail
  <1>3. CASE fails_in_row + 1 = fails_threshold
    <2>1. /\ now' \in 0..MaxTime
          /\ last_success_at' \in 0..MaxTime
          /\ fails_in_row' \in 0..MaxFails
          /\ last_success_at' <= now'
      BY <1>1, <1>2 DEF CountFail, AddFail
    <2>2. online' = FALSE /\ fails_threshold_reached' = TRUE
      BY <1>2, <1>3 DEF CountFail, AddFail, on_offline
    <2>3. CounterTypeOK' /\ StatusFollowsCount'
      BY <2>1, <2>2, Zenon DEF CounterTypeOK, StatusFollowsCount
    <2>4. QED
      BY <2>1, <2>3
  <1>4. CASE fails_in_row + 1 # fails_threshold
    BY <1>1, <1>2, <1>4 DEF CountFail, AddFail
  <1>5. QED
    BY <1>3, <1>4

\* The invariant holds for every threshold, whatever the order of results.
THEOREM CounterInvariant == CounterSpec => []CounterInv
  <1>1. CounterInit => CounterInv
    BY CounterInitInv
  <1>2. CounterInv /\ [CounterNext]_<<now, counter_vars>> => CounterInv'
    <2>1. CounterInv /\ CounterNext => CounterInv'
      BY OkPreserves, FailPreserves DEF CounterNext
    <2>2. CounterInv /\ UNCHANGED <<now, counter_vars>> => CounterInv'
      BY DEF CounterInv, CounterTypeOK, StatusFollowsCount, counter_vars
    <2>3. QED
      BY <2>1, <2>2
  <1>3. QED
    BY <1>1, <1>2, PTL DEF CounterSpec

\* `online` negates the flag and implies a count below the threshold.
THEOREM StatusCorrect == CounterSpec => []StatusFollowsCount
  <1>1. CounterInv => StatusFollowsCount
    BY DEF CounterInv
  <1>2. QED
    BY <1>1, CounterInvariant, PTL

\* LastOkFailCounter refines Availability: no fail() in a row is skipped,
\* none before the threshold-th takes the server down, and one ok() brings
\* it back.
THEOREM CounterImplementsAvailability == CounterSpec => ImplementsAvailability
  <1> USE CounterAssumption DEF CounterInv, CounterTypeOK, StatusFollowsCount
  <1>1. CounterInit => Status!Init
    BY DEF CounterInit, Status!Init
  <1>2. CounterInv /\ ok => Status!Next
    <2> SUFFICES ASSUME CounterInv, ok
                 PROVE  Status!Success
      BY DEF Status!Next
    <2>1. CountOk
      BY DEF ok, ReadClock
    <2>2. QED
      BY <2>1 DEF CountOk, on_online, Status!Success
  <1>3. CounterInv /\ fail => [Status!Next]_<<online,
          IF fails_in_row < fails_threshold THEN fails_in_row ELSE fails_threshold>>
    <2> SUFFICES ASSUME CounterInv, fail
                 PROVE  Status!EarlyMiss \/ Status!LastMiss
      BY DEF Status!Next
    <2>1. CountFail
      BY DEF fail, ReadClock
    <2>2. CASE fails_in_row + 1 < fails_threshold
      BY <2>1, <2>2 DEF CountFail, AddFail, Status!EarlyMiss
    <2>3. CASE fails_in_row + 1 = fails_threshold
      BY <2>1, <2>3 DEF CountFail, AddFail, on_offline, Status!LastMiss
    <2>4. CASE fails_in_row + 1 > fails_threshold
      BY <2>1, <2>4 DEF CountFail, AddFail, Status!LastMiss
    <2>5. QED
      BY <2>2, <2>3, <2>4
  <1>4. CounterInv /\ [CounterNext]_<<now, counter_vars>> => [Status!Next]_<<online,
          IF fails_in_row < fails_threshold THEN fails_in_row ELSE fails_threshold>>
    <2>1. UNCHANGED <<now, counter_vars>> => UNCHANGED <<online,
            IF fails_in_row < fails_threshold THEN fails_in_row ELSE fails_threshold>>
      BY DEF counter_vars
    <2>2. QED
      BY <1>2, <1>3, <2>1 DEF CounterNext
  <1>5. QED
    BY <1>1, <1>4, CounterInvariant, PTL
    DEF CounterSpec, ImplementsAvailability, Status!Spec

-----------------------------------------------------------------------------
\* The update loops.
USE NoEntryAssumption DEF NoOlder

\* Every step of a loop or of the server is a call of ok(), a call of fail(),
\* or none.
LEMMA StepCounts ==
  UpdatersNext => CounterNext \/ UNCHANGED <<now, counter_vars>>
  <1> SUFFICES ASSUME UpdatersNext
               PROVE  CounterNext \/ UNCHANGED <<now, counter_vars>>
    OBVIOUS
  <1>1. ASSUME NEW k \in UpdaterKinds, TaskStep(k)
        PROVE  CounterNext \/ UNCHANGED <<now, counter_vars>>
    BY <1>1, Zenon
    DEF TaskStep, Connect, ConnectError, Receive, DecodeError, StoreAnswer, TimedOut,
        Wake, BackoffElapsed, CounterNext
  <1>2. CASE ServerStep
    BY <1>2, Zenon
    DEF ServerStep, ServerAnswers, ServerChanges, ServerStops, ServerStarts
  <1>3. QED
    BY <1>1, <1>2 DEF UpdatersNext

\* The update loops, whatever their order, use the counter as it is meant to be.
THEOREM UpdatersImplementCounter == UpdatersSpec => CounterSpec
  <1>1. UpdatersInit => CounterInit
    BY DEF UpdatersInit
  <1>2. [UpdatersNext]_updater_vars => [CounterNext]_<<now, counter_vars>>
    <2>1. UNCHANGED updater_vars => UNCHANGED <<now, counter_vars>>
      BY DEF updater_vars
    <2>2. QED
      BY <2>1, StepCounts
  <1>3. QED
    BY <1>1, <1>2, PTL DEF UpdatersSpec, CounterSpec

\* For any number of fails_threshold and any interleaving of the tasks, online
\* and offline follow the merged order of their results.
THEOREM UpdatersImplementAvailability == UpdatersSpec => ImplementsAvailability
  BY UpdatersImplementCounter, CounterImplementsAvailability, PTL

-----------------------------------------------------------------------------
\* The part of the type invariant that is not the counter's
TaskTypeOK ==
  /\ pc \in [UpdaterKinds -> Labels]
  /\ replies \in [UpdaterKinds -> SUBSET Datagram]
  /\ resp_cache \in [Kinds -> Datagram \union {NoEntry}]
  /\ version \in 0..MaxVersion
  /\ server_up \in BOOLEAN

\* Inductive: answers on their way are bounded from below by what is cached,
\* and what is cached by the version the next answer will have.
CacheInv == TaskTypeOK /\ RepliesNotOlder

LEMMA KindsOfUpdaters == UpdaterKinds \subseteq Kinds
  BY DEF UpdaterKinds

LEMMA DatagramFields ==
  ASSUME NEW d \in Datagram
  PROVE  d.version \in 0..MaxVersion /\ d # NoEntry
  BY DEF Datagram

LEMMA InitCacheInv == UpdatersInit => CacheInv
  BY UpdatersAssumption, KindsOfUpdaters
  DEF UpdatersInit, CacheInv, TaskTypeOK, RepliesNotOlder, Labels, At

\* A step of a loop to another await that leaves socket and cache alone
LEMMA MoveKeepsCacheInv ==
  ASSUME CacheInv, NEW k \in UpdaterKinds, NEW label \in Labels, ~At(k, "waiting"),
         Goto(k, label), UNCHANGED <<replies, resp_cache, env_vars>>
  PROVE  CacheInv'
  BY DEF CacheInv, TaskTypeOK, RepliesNotOlder, At, Goto, Labels, env_vars

\* The end of a round that leaves the cache alone
LEMMA CloseKeepsCacheInv ==
  ASSUME CacheInv, NEW k \in UpdaterKinds, NEW label \in Labels,
         Goto(k, label), CloseSocket(k), UNCHANGED <<resp_cache, env_vars>>
  PROVE  CacheInv'
  BY DEF CacheInv, TaskTypeOK, RepliesNotOlder, At, Goto, CloseSocket, Labels, env_vars

\* The end of a round that stores a datagram of the task's socket
LEMMA StoreKeepsCacheInv ==
  ASSUME CacheInv, NEW k \in UpdaterKinds, NEW d \in replies[k],
         resp_cache' = [resp_cache EXCEPT ![k] = d],
         Goto(k, "sleeping"), CloseSocket(k), UNCHANGED env_vars
  PROVE  CacheInv'
  <1>1. d \in Datagram /\ d.version <= version
    BY DEF CacheInv, TaskTypeOK, RepliesNotOlder
  <1>2. TaskTypeOK'
    BY <1>1, KindsOfUpdaters DEF CacheInv, TaskTypeOK, Goto, CloseSocket, Labels, env_vars
  <1>3. RepliesNotOlder'
    BY <1>1, KindsOfUpdaters
    DEF CacheInv, TaskTypeOK, RepliesNotOlder, At, Goto, CloseSocket, env_vars
  <1>4. QED
    BY <1>2, <1>3 DEF CacheInv

\* An answer is made from the version of the moment, the highest so far.
LEMMA AnswerKeepsCacheInv ==
  ASSUME CacheInv, NEW k \in UpdaterKinds, NEW form \in Forms, ServerAnswers(k, form)
  PROVE  CacheInv'
  <1> DEFINE d == [version |-> version, form |-> form]
  <1>1. d \in Datagram /\ d.version = version
    BY DEF CacheInv, TaskTypeOK, Datagram
  <1>2. replies' = [replies EXCEPT ![k] = @ \union {d}]
    BY DEF ServerAnswers
  <1>3. TaskTypeOK'
    BY <1>1, <1>2 DEF CacheInv, TaskTypeOK, ServerAnswers, env_vars
  <1> HIDE DEF d
  <1>4. RepliesNotOlder'
    BY <1>1, <1>2, KindsOfUpdaters
    DEF CacheInv, TaskTypeOK, RepliesNotOlder, At, ServerAnswers, env_vars
  <1>5. QED
    BY <1>3, <1>4 DEF CacheInv

LEMMA ChangeKeepsCacheInv ==
  ASSUME CacheInv, ServerChanges
  PROVE  CacheInv'
  <1>1. version' = version + 1 /\ version' \in 0..MaxVersion
    BY UpdatersAssumption DEF ServerChanges, CacheInv, TaskTypeOK
  <1>2. TaskTypeOK'
    BY <1>1 DEF ServerChanges, CacheInv, TaskTypeOK, task_vars
  <1>3. \A k \in UpdaterKinds : \A e \in replies[k] : e.version \in 0..MaxVersion
    BY DatagramFields DEF CacheInv, TaskTypeOK
  <1>4. \A k \in UpdaterKinds : resp_cache[k] # NoEntry => resp_cache[k].version \in 0..MaxVersion
    BY DatagramFields, KindsOfUpdaters DEF CacheInv, TaskTypeOK
  <1>5. RepliesNotOlder'
    BY <1>1, <1>3, <1>4 DEF ServerChanges, CacheInv, TaskTypeOK, RepliesNotOlder, At, task_vars
  <1>6. QED
    BY <1>2, <1>5 DEF CacheInv

LEMMA StepKeepsCacheInv == CacheInv /\ [UpdatersNext]_updater_vars => CacheInv'
  <1> SUFFICES ASSUME CacheInv, [UpdatersNext]_updater_vars
               PROVE  CacheInv'
    OBVIOUS
  <1>1. ASSUME NEW k \in UpdaterKinds, TaskStep(k)
        PROVE  CacheInv'
    <2>1. CASE Connect(k)
      BY <2>1, MoveKeepsCacheInv, Zenon DEF Connect, At, Labels
    <2>2. CASE ConnectError(k)
      BY <2>2, MoveKeepsCacheInv, Zenon DEF ConnectError, At, Labels
    <2>3. ASSUME NEW d \in Datagram, Receive(k, d)
          PROVE  CacheInv'
      <3>1. CASE DecodeError(k, d)
        BY <2>3, <3>1, CloseKeepsCacheInv DEF Receive, DecodeError, Labels
      <3>2. CASE StoreAnswer(k, d)
        BY <2>3, <3>2, StoreKeepsCacheInv DEF Receive, StoreAnswer
      <3>3. QED
        BY <2>3, <3>1, <3>2 DEF Receive
    <2>4. CASE TimedOut(k)
      BY <2>4, CloseKeepsCacheInv DEF TimedOut, Labels
    <2>5. CASE Wake(k)
      BY <2>5, MoveKeepsCacheInv, Zenon DEF Wake, At, Labels
    <2>6. CASE BackoffElapsed(k)
      BY <2>6, MoveKeepsCacheInv, Zenon DEF BackoffElapsed, At, Labels
    <2>7. QED
      BY <1>1, <2>1, <2>2, <2>3, <2>4, <2>5, <2>6 DEF TaskStep
  <1>2. CASE ServerStep
    <2>1. ASSUME NEW k \in UpdaterKinds, NEW form \in Forms, ServerAnswers(k, form)
          PROVE  CacheInv'
      BY <2>1, AnswerKeepsCacheInv
    <2>2. CASE ServerChanges
      BY <2>2, ChangeKeepsCacheInv
    <2>3. CASE ServerStops \/ ServerStarts
      BY <2>3, Zenon
      DEF ServerStops, ServerStarts, CacheInv, TaskTypeOK, RepliesNotOlder, At, task_vars
    <2>4. QED
      BY <1>2, <2>1, <2>2, <2>3 DEF ServerStep
  <1>3. CASE UNCHANGED updater_vars
    BY <1>3, Zenon DEF updater_vars, task_vars, env_vars, CacheInv, TaskTypeOK, RepliesNotOlder, At
  <1>4. QED
    BY <1>1, <1>2, <1>3 DEF UpdatersNext

\* Nothing on its way to a task is older than what it has stored.
THEOREM UpdatersInvariant == UpdatersSpec => [](UpdatersTypeOK /\ RepliesNotOlder)
  <1>1. UpdatersSpec => []CounterInv
    BY UpdatersImplementCounter, CounterInvariant, PTL
  <1>2. UpdatersSpec => []CacheInv
    BY InitCacheInv, StepKeepsCacheInv, PTL DEF UpdatersSpec
  <1>3. CounterInv /\ CacheInv => UpdatersTypeOK /\ RepliesNotOlder
    BY DEF CounterInv, CacheInv, TaskTypeOK, UpdatersTypeOK
  <1>4. QED
    BY <1>1, <1>2, <1>3, PTL

\* The cache after a step has all it had, or newer.
CacheNewer ==
  \A k \in Kinds : resp_cache[k] # NoEntry =>
    resp_cache'[k] # NoEntry /\ NoOlder(resp_cache[k], resp_cache'[k])

LEMMA StepMakesCacheNewer == CacheInv /\ [UpdatersNext]_updater_vars => CacheNewer
  <1> SUFFICES ASSUME CacheInv, [UpdatersNext]_updater_vars
               PROVE  CacheNewer
    OBVIOUS
  <1>1. ASSUME NEW j \in Kinds, resp_cache[j] # NoEntry
        PROVE  resp_cache[j].version <= resp_cache[j].version
    BY <1>1, DatagramFields DEF CacheInv, TaskTypeOK
  <1>2. CASE resp_cache' = resp_cache
    BY <1>1, <1>2 DEF CacheNewer
  <1>3. CASE resp_cache' # resp_cache
    <2>1. PICK k \in UpdaterKinds : \E d \in replies[k] :
            resp_cache' = [resp_cache EXCEPT ![k] = d]
      BY <1>3, Zenon
      DEF UpdatersNext, updater_vars, task_vars, TaskStep, Connect, ConnectError, Receive,
          DecodeError, StoreAnswer, TimedOut, Wake, BackoffElapsed, ServerStep,
          ServerAnswers, ServerChanges, ServerStops, ServerStarts
    <2>2. PICK d \in replies[k] : resp_cache' = [resp_cache EXCEPT ![k] = d]
      BY <2>1
    <2>3. d \in Datagram /\ (resp_cache[k] # NoEntry => resp_cache[k].version <= d.version)
      BY DEF CacheInv, TaskTypeOK, RepliesNotOlder
    <2>4. QED
      BY <1>1, <2>2, <2>3, KindsOfUpdaters DEF CacheInv, TaskTypeOK, CacheNewer
  <1>4. QED
    BY <1>2, <1>3

\* The inductive invariant holds throughout.
LEMMA CacheInvariant == UpdatersSpec => []CacheInv
  BY InitCacheInv, StepKeepsCacheInv, PTL DEF UpdatersSpec

\* Whatever the network does to the answers, a cached response is only ever
\* replaced by one as recent.
THEOREM CacheMonotone == UpdatersSpec => CacheNeverRegresses
  <1>1. CacheInv /\ [UpdatersNext]_updater_vars => [CacheNewer]_resp_cache
    BY StepMakesCacheNewer
  <1>2. [CacheNewer]_resp_cache =>
          [\A k \in Kinds : resp_cache[k] # NoEntry =>
             resp_cache'[k] # NoEntry /\ NoOlder(resp_cache[k], resp_cache'[k])]_resp_cache
    BY DEF CacheNewer
  <1>3. QED
    BY <1>1, <1>2, CacheInvariant, PTL DEF UpdatersSpec, CacheNeverRegresses

-----------------------------------------------------------------------------
\* Only the end of a round that stores an answer turns online on.
LEMMA StepKeepsServable ==
  CacheInv /\ OnlineMeansServable /\ [UpdatersNext]_updater_vars => OnlineMeansServable'
  <1> SUFFICES ASSUME CacheInv, OnlineMeansServable, [UpdatersNext]_updater_vars
               PROVE  OnlineMeansServable'
    OBVIOUS
  <1>1. ASSUME NEW k \in UpdaterKinds, NEW d \in Datagram, Receive(k, d), StoreAnswer(k, d)
        PROVE  OnlineMeansServable'
    <2>1. resp_cache' = [resp_cache EXCEPT ![k] = d] /\ d # NoEntry
      BY <1>1, DatagramFields DEF StoreAnswer
    <2>2. resp_cache'[k] = d
      BY <2>1, KindsOfUpdaters DEF CacheInv, TaskTypeOK
    <2>3. QED
      BY <2>1, <2>2 DEF OnlineMeansServable
  <1>2. ASSUME NEW k \in UpdaterKinds, TimedOut(k)
        PROVE  OnlineMeansServable'
    <2>1. resp_cache' = resp_cache /\ (online' => online)
      BY <1>2, Zenon DEF TimedOut, fail, CountFail, on_offline, counter_vars
    <2>2. QED
      BY <2>1, Zenon DEF OnlineMeansServable
  <1>3. CASE UNCHANGED <<online, resp_cache>>
    BY <1>3, Zenon DEF OnlineMeansServable
  <1>4. QED
    BY <1>1, <1>2, <1>3, Zenon
    DEF UpdatersNext, updater_vars, counter_vars, task_vars, env_vars, TaskStep, Connect,
        ConnectError, Receive, DecodeError, Wake, BackoffElapsed, ServerStep,
        ServerAnswers, ServerChanges, ServerStops, ServerStarts

\* Whichever task called ok() and whatever came after: while the proxy is online it
\* has a response to answer with.
THEOREM OnlineIsServable == UpdatersSpec => []OnlineMeansServable
  <1>1. UpdatersInit => OnlineMeansServable
    BY DEF UpdatersInit, CounterInit, OnlineMeansServable
  <1>2. QED
    BY <1>1, CacheInvariant, StepKeepsServable, PTL DEF UpdatersSpec

-----------------------------------------------------------------------------
\* The listener.
LEMMA ListenerLeavesUpdaters == ListenerStep => UNCHANGED updater_vars
  BY Zenon DEF ListenerStep, decode_request, Bind, ListenError, ListenAgain, HandleRequest, SendDone

\* Answering clients does not get in the way of the update loops.
THEOREM ProxyImplementsUpdaters == ProxySpec => UpdatersSpec
  <1>1. ProxyInit => UpdatersInit
    BY DEF ProxyInit
  <1>2. [ProxyNext]_proxy_vars => [UpdatersNext]_updater_vars
    BY ListenerLeavesUpdaters, Zenon DEF ProxyNext, proxy_vars
  <1>3. QED
    BY <1>1, <1>2, PTL DEF ProxySpec, UpdatersSpec

-----------------------------------------------------------------------------
\* The rounds without an answer, which FailedRequests counts.
Cached == \E k \in Kinds : resp_cache[k] # NoEntry

\* The count never runs ahead of the rounds that went unanswered, though it may fall
\* behind: exceptions are rounds the counter never hears of.
MissInv ==
  /\ unanswered \in 0..fails_threshold
  /\ fails_in_row <= unanswered \/ unanswered = fails_threshold
  /\ (~online /\ Cached) => fails_in_row >= fails_threshold

LEMMA FailedRequestsSteps ==
  [FailedRequestsNext]_<<proxy_vars, unanswered>> => [ProxyNext]_proxy_vars
  <1>1. CountedStep => UpdatersNext
    BY Zenon DEF CountedStep, RoundFails, RoundSucceeds, OtherStep, UpdatersNext, TaskStep
  <1>2. QED
    BY <1>1, Zenon DEF FailedRequestsNext, ProxyNext

\* What is proved of the proxy holds with the history as well.
LEMMA FailedRequestsImplementProxy == FailedRequestsSpec => ProxySpec
  <1>1. FailedRequestsInit => ProxyInit
    BY DEF FailedRequestsInit
  <1>2. QED
    BY <1>1, FailedRequestsSteps, PTL DEF FailedRequestsSpec, ProxySpec

LEMMA InitMissInv == FailedRequestsInit => MissInv
  BY CounterAssumption
  DEF FailedRequestsInit, ProxyInit, UpdatersInit, CounterInit, MissInv, Cached, Kinds

\* A timeout adds one to both counts, and an answer sets both to 0.
LEMMA TimedOutKeepsMissInv ==
  ASSUME CounterInv, MissInv, NEW k \in UpdaterKinds, TimedOut(k), OneMore
  PROVE  MissInv'
  <1> USE CounterAssumption
      DEF CounterInv, CounterTypeOK, StatusFollowsCount
  <1>1. CountFail /\ resp_cache' = resp_cache
    BY DEF TimedOut, fail, ReadClock
  <1>2. unanswered' \in 0..fails_threshold
    BY DEF MissInv, OneMore
  <1>3. fails_in_row' = AddFail(fails_in_row) /\ fails_in_row \in Nat
    BY <1>1 DEF CountFail
  <1>4. fails_in_row' <= unanswered' \/ unanswered' = fails_threshold
    BY <1>3 DEF MissInv, OneMore, AddFail
  <1>5. (~online /\ Cached) => fails_in_row' >= fails_threshold
    BY <1>3 DEF MissInv, AddFail
  <1>6. (online /\ ~online') => fails_in_row' >= fails_threshold
    <2> SUFFICES ASSUME online, ~online'
                 PROVE  fails_in_row' >= fails_threshold
      OBVIOUS
    <2>1. fails_in_row + 1 = fails_threshold
      BY <1>1, Zenon DEF CountFail
    <2>2. QED
      BY <1>3, <2>1 DEF AddFail
  <1>7. QED
    BY <1>1, <1>2, <1>4, <1>5, <1>6, Zenon DEF MissInv, Cached

LEMMA AnswerKeepsMissInv ==
  ASSUME CounterInv, MissInv, NEW k \in UpdaterKinds, NEW d \in Datagram,
         d.form # "raises", Receive(k, d), unanswered' = 0
  PROVE  MissInv'
  <1>1. CountOk
    BY DEF Receive, DecodeError, StoreAnswer, ok, ReadClock, CounterInv, CounterTypeOK
  <1>2. fails_in_row' = 0
    BY <1>1 DEF CountOk
  <1>3. online'
    BY <1>1, Zenon DEF CountOk, on_online, CounterInv, StatusFollowsCount
  <1>4. QED
    BY <1>2, <1>3, CounterAssumption DEF MissInv

\* A step that leaves the counter and the cache alone
LEMMA QuietKeepsMissInv ==
  ASSUME CounterInv, MissInv, UNCHANGED <<counter_vars, resp_cache>>,
         OneMore \/ UNCHANGED unanswered
  PROVE  MissInv'
  <1>1. /\ fails_in_row' = fails_in_row /\ online' = online
        /\ Cached' = Cached
    BY Zenon DEF counter_vars, Cached
  <1>2. fails_in_row \in Nat
    BY CounterAssumption DEF CounterInv, CounterTypeOK
  <1>3. unanswered' \in 0..fails_threshold /\ unanswered' >= unanswered
    BY CounterAssumption DEF MissInv, OneMore
  <1>4. QED
    BY <1>1, <1>2, <1>3, CounterAssumption, SMT DEF MissInv

LEMMA StepKeepsMissInv ==
  CounterInv /\ MissInv /\ [FailedRequestsNext]_<<proxy_vars, unanswered>> => MissInv'
  <1> SUFFICES ASSUME CounterInv, MissInv, [FailedRequestsNext]_<<proxy_vars, unanswered>>
               PROVE  MissInv'
    OBVIOUS
  <1>1. ASSUME NEW k \in UpdaterKinds, RoundFails(k), OneMore
        PROVE  MissInv'
    <2>1. CASE TimedOut(k)
      BY <1>1, <2>1, TimedOutKeepsMissInv
    <2>2. ASSUME NEW d \in Datagram, d.form = "raises", Receive(k, d)
          PROVE  MissInv'
      <3>1. UNCHANGED <<counter_vars, resp_cache>>
        BY <2>2, Zenon DEF Receive, DecodeError, StoreAnswer
      <3>2. QED
        BY <1>1, <3>1, QuietKeepsMissInv
    <2>3. QED
      BY <1>1, <2>1, <2>2 DEF RoundFails
  <1>2. ASSUME NEW k \in UpdaterKinds, RoundSucceeds(k), unanswered' = 0
        PROVE  MissInv'
    BY <1>2, AnswerKeepsMissInv DEF RoundSucceeds
  <1>3. ASSUME NEW k \in UpdaterKinds, OtherStep(k), UNCHANGED unanswered
        PROVE  MissInv'
    <2>1. UNCHANGED <<counter_vars, resp_cache>>
      BY <1>3, Zenon DEF OtherStep, Connect, ConnectError, Wake, BackoffElapsed
    <2>2. QED
      BY <1>3, <2>1, QuietKeepsMissInv
  <1>4. CASE ServerStep /\ UNCHANGED unanswered
    <2>1. UNCHANGED <<counter_vars, resp_cache>>
      BY <1>4, Zenon
      DEF ServerStep, ServerAnswers, ServerChanges, ServerStops, ServerStarts, task_vars
    <2>2. QED
      BY <1>4, <2>1, QuietKeepsMissInv
  <1>5. CASE UNCHANGED <<updater_vars, unanswered>>
    BY <1>5, QuietKeepsMissInv DEF updater_vars, task_vars
  <1>6. CASE CountedStep
    BY <1>1, <1>2, <1>3, <1>4, <1>6 DEF CountedStep
  <1>7. QED
    BY <1>5, <1>6, ListenerLeavesUpdaters DEF FailedRequestsNext, proxy_vars

\* However the tasks interleave, a server that answered once is only taken for down
\* (LastOkFailCounter.fail) when as many requests as the settings say went
\* unanswered, with no answer to any task among them.
THEOREM DownOnlyWhenUnanswered == FailedRequestsSpec => []DownOnlyAfterFails
  <1>1. FailedRequestsSpec => []CounterInv
    BY FailedRequestsImplementProxy, ProxyImplementsUpdaters, UpdatersImplementCounter,
       CounterInvariant, PTL
  <1>2. FailedRequestsSpec => []MissInv
    BY <1>1, InitMissInv, StepKeepsMissInv, PTL DEF FailedRequestsSpec
  <1>3. CounterInv /\ MissInv => DownOnlyAfterFails
    <2> SUFFICES ASSUME CounterInv, MissInv, ~online, Cached
                 PROVE  unanswered = fails_threshold
      BY DEF DownOnlyAfterFails, Cached
    <2>1. fails_in_row >= fails_threshold
      BY DEF MissInv
    <2>2. QED
      BY <2>1, CounterAssumption DEF MissInv, CounterInv, CounterTypeOK
  <1>4. QED
    BY <1>1, <1>2, <1>3, PTL

-----------------------------------------------------------------------------
USE QueryProxyAssumption

ListenerTypeOK ==
  /\ listener \in {"binding", "listening", "sending", "backoff"}
  /\ outgoing \in [to : Clients \union {NoOne}, kind : Kinds \union {ChallengeReply},
                   data : Datagram \union {NoEntry}]
  /\ outgoing.kind \in Kinds => outgoing.data # NoEntry
  /\ served \in [Kinds -> Datagram \union {NoEntry}]
  /\ listener = "sending" => outgoing.to \in Clients

LEMMA InitListenerTypeOK == ProxyInit => ListenerTypeOK
  BY DEF ProxyInit, ListenerTypeOK, Idle, ChallengeReply, Kinds

LEMMA IdleIsResponse ==
  /\ Idle \in [to : Clients \union {NoOne}, kind : Kinds \union {ChallengeReply},
               data : Datagram \union {NoEntry}]
  /\ Idle.kind \notin Kinds
  BY DEF Idle, ChallengeReply, Kinds

LEMMA HandleKeepsListenerTypeOK ==
  ASSUME ListenerTypeOK, CacheInv,
         NEW addr \in Clients, NEW kind \in Kinds, NEW challenge \in Challenges,
         HandleRequest(addr, kind, challenge)
  PROVE  ListenerTypeOK'
  <1> DEFINE resp == get_response_for(kind, challenge)
  <1>1. /\ resp.kind \in Kinds \union {ChallengeReply}
        /\ resp.data \in Datagram \union {NoEntry}
    BY DEF get_response_for, CacheInv, TaskTypeOK
  <1>2. /\ outgoing' = [to |-> addr, kind |-> resp.kind, data |-> resp.data]
        /\ resp.kind = ChallengeReply \/ resp.data # NoEntry
        /\ listener' = "sending"
        /\ UNCHANGED served
    BY DEF HandleRequest, HasResponse
  <1>3. ChallengeReply \notin Kinds
    BY DEF ChallengeReply, Kinds
  <1> HIDE DEF resp
  <1>4. QED
    BY <1>1, <1>2, <1>3 DEF ListenerTypeOK

LEMMA SendKeepsListenerTypeOK ==
  ASSUME ListenerTypeOK, SendDone
  PROVE  ListenerTypeOK'
  <1>1. outgoing' = Idle /\ listener' = "listening"
    BY DEF SendDone
  <1>2. CASE outgoing.kind = ChallengeReply
    BY <1>1, <1>2, IdleIsResponse DEF SendDone, ListenerTypeOK
  <1>3. CASE outgoing.kind # ChallengeReply
    <2>1. served' = [served EXCEPT ![outgoing.kind] = outgoing.data]
      BY <1>3 DEF SendDone
    <2>2. outgoing.data \in Datagram
      BY <1>3 DEF ListenerTypeOK
    <2>3. QED
      BY <1>1, <2>1, <2>2, IdleIsResponse DEF ListenerTypeOK
  <1>4. QED
    BY <1>2, <1>3

LEMMA StepKeepsListenerTypeOK ==
  ListenerTypeOK /\ CacheInv /\ [ProxyNext]_proxy_vars => ListenerTypeOK'
  <1> SUFFICES ASSUME ListenerTypeOK, CacheInv, [ProxyNext]_proxy_vars
               PROVE  ListenerTypeOK'
    OBVIOUS
  <1>1. CASE UNCHANGED listener_vars
    BY <1>1, Zenon DEF listener_vars, ListenerTypeOK
  <1>2. CASE Bind \/ ListenAgain
    BY <1>2 DEF Bind, ListenAgain, ListenerTypeOK
  <1>3. CASE ListenError
    BY <1>3, IdleIsResponse DEF ListenError, ListenerTypeOK
  <1>4. ASSUME NEW addr \in Clients, NEW kind \in Kinds, NEW challenge \in Challenges,
               HandleRequest(addr, kind, challenge)
        PROVE  ListenerTypeOK'
    BY <1>4, HandleKeepsListenerTypeOK
  <1>5. CASE SendDone
    BY <1>5, SendKeepsListenerTypeOK
  <1>6. QED
    BY <1>1, <1>2, <1>3, <1>4, <1>5, Zenon
    DEF ProxyNext, ListenerStep, decode_request, proxy_vars

LEMMA ListenerInvariant == ProxySpec => []ListenerTypeOK
  <1>1. ProxySpec => []CacheInv
    BY ProxyImplementsUpdaters, CacheInvariant, PTL
  <1>2. QED
    BY <1>1, InitListenerTypeOK, StepKeepsListenerTypeOK, PTL DEF ProxySpec

-----------------------------------------------------------------------------
\* Datagram or NoEntry `e` is, if anything, no newer than `f`.
NotBeyond(e, f) == e # NoEntry => f # NoEntry /\ e.version <= f.version

\* Inductive: what was sent last is no newer than what is being sent, and
\* neither is newer than what is cached, so the next response cannot be older.
ServedInv ==
  /\ \A k \in Kinds : NotBeyond(served[k], resp_cache[k])
  /\ outgoing.kind \in Kinds =>
       /\ NotBeyond(served[outgoing.kind], outgoing.data)
       /\ NotBeyond(outgoing.data, resp_cache[outgoing.kind])

Entry == Datagram \union {NoEntry}

LEMMA NotBeyondTransitive ==
  ASSUME NEW e \in Entry, NEW f \in Entry, NEW g \in Entry, NotBeyond(e, f), NotBeyond(f, g)
  PROVE  NotBeyond(e, g)
  <1>1. CASE e = NoEntry
    BY <1>1 DEF NotBeyond
  <1>2. CASE e # NoEntry
    <2>1. /\ f # NoEntry /\ g # NoEntry
          /\ e.version <= f.version /\ f.version <= g.version
      BY <1>2 DEF NotBeyond
    <2>2. e.version \in Int /\ f.version \in Int /\ g.version \in Int
      BY <1>2, <2>1, DatagramFields, UpdatersAssumption DEF Entry
    <2>3. QED
      BY <2>1, <2>2 DEF NotBeyond
  <1>3. QED
    BY <1>1, <1>2

LEMMA NotBeyondReflexive ==
  ASSUME NEW e \in Entry
  PROVE  NotBeyond(e, e)
  BY DatagramFields, UpdatersAssumption DEF NotBeyond, Entry

\* The cache moves ahead under a listener that does nothing.
LEMMA UpdatersKeepServedInv ==
  ASSUME ListenerTypeOK, CacheInv, CacheInv', ServedInv, CacheNewer, UNCHANGED listener_vars
  PROVE  ServedInv'
  <1>1. \A k \in Kinds : NotBeyond(resp_cache[k], resp_cache'[k])
    BY DEF CacheNewer, NotBeyond, NoOlder
  <1>2. /\ \A k \in Kinds : served[k] \in Entry /\ resp_cache[k] \in Entry
        /\ \A k \in Kinds : resp_cache'[k] \in Entry
        /\ outgoing.data \in Entry
    BY DEF ListenerTypeOK, CacheInv, TaskTypeOK, Entry
  <1>3. UNCHANGED <<outgoing, served>>
    BY DEF listener_vars
  <1>4. \A k \in Kinds : NotBeyond(served[k], resp_cache'[k])
    BY <1>1, <1>2, NotBeyondTransitive DEF ServedInv
  <1>5. outgoing.kind \in Kinds => NotBeyond(outgoing.data, resp_cache'[outgoing.kind])
    BY <1>1, <1>2, NotBeyondTransitive DEF ServedInv
  <1>6. QED
    BY <1>3, <1>4, <1>5, Zenon DEF ServedInv, NotBeyond

LEMMA HandleKeepsServedInv ==
  ASSUME CacheInv, ServedInv,
         NEW addr \in Clients, NEW kind \in Kinds, NEW challenge \in Challenges,
         HandleRequest(addr, kind, challenge)
  PROVE  ServedInv'
  <1>1. /\ outgoing'.kind \in Kinds =>
             outgoing'.kind = kind /\ outgoing'.data = resp_cache[kind]
        /\ UNCHANGED <<resp_cache, served>>
    BY DEF HandleRequest, get_response_for, ChallengeReply, Kinds, updater_vars, task_vars
  <1>2. NotBeyond(resp_cache[kind], resp_cache[kind])
    BY NotBeyondReflexive DEF CacheInv, TaskTypeOK, Entry
  <1>3. QED
    BY <1>1, <1>2 DEF ServedInv, NotBeyond

LEMMA SendKeepsServedInv ==
  ASSUME ListenerTypeOK, ServedInv, SendDone
  PROVE  ServedInv'
  <1>1. /\ outgoing'.kind \notin Kinds
        /\ UNCHANGED resp_cache
        /\ \/ UNCHANGED served
           \/ /\ outgoing.kind \in Kinds
              /\ served' = [served EXCEPT ![outgoing.kind] = outgoing.data]
    BY DEF SendDone, Idle, ChallengeReply, Kinds, updater_vars, task_vars,
           ListenerTypeOK
  <1>2. \A k \in Kinds : NotBeyond(served'[k], resp_cache[k])
    BY <1>1 DEF ServedInv, ListenerTypeOK
  <1>3. QED
    BY <1>1, <1>2 DEF ServedInv, NotBeyond

LEMMA StepKeepsServedInv ==
  ListenerTypeOK /\ CacheInv /\ CacheInv' /\ ServedInv /\ [ProxyNext]_proxy_vars => ServedInv'
  <1> SUFFICES ASSUME ListenerTypeOK, CacheInv, CacheInv', ServedInv, [ProxyNext]_proxy_vars
               PROVE  ServedInv'
    OBVIOUS
  <1>1. CASE [UpdatersNext]_updater_vars /\ UNCHANGED listener_vars
    BY <1>1, StepMakesCacheNewer, UpdatersKeepServedInv
  <1>2. CASE Bind \/ ListenError \/ ListenAgain
    BY <1>2, IdleIsResponse, Zenon
    DEF Bind, ListenError, ListenAgain, ServedInv, NotBeyond, updater_vars, task_vars
  <1>3. ASSUME NEW addr \in Clients, NEW kind \in Kinds, NEW challenge \in Challenges,
               HandleRequest(addr, kind, challenge)
        PROVE  ServedInv'
    BY <1>3, HandleKeepsServedInv
  <1>4. CASE SendDone
    BY <1>4, SendKeepsServedInv
  <1>5. QED
    BY <1>1, <1>2, <1>3, <1>4, Zenon DEF ProxyNext, ListenerStep, decode_request, proxy_vars

LEMMA InitServedInv == ProxyInit => ServedInv
  BY DEF ProxyInit, ServedInv, NotBeyond, Idle, ChallengeReply, Kinds

\* What the listener sends is no older than what it sent before.
ServedNewer == \A k \in Kinds : served[k] # NoEntry => NoOlder(served[k], served'[k])

LEMMA StepServesNewer ==
  ListenerTypeOK /\ ServedInv /\ [ProxyNext]_proxy_vars => [ServedNewer]_served
  <1> SUFFICES ASSUME ListenerTypeOK, ServedInv, [ProxyNext]_proxy_vars, served' # served
               PROVE  ServedNewer
    OBVIOUS
  <1>1. SendDone
    BY Zenon
    DEF ProxyNext, proxy_vars, listener_vars, ListenerStep, Bind, ListenError, ListenAgain,
        HandleRequest
  <1>2. /\ outgoing.kind \in Kinds
        /\ served' = [served EXCEPT ![outgoing.kind] = outgoing.data]
    BY <1>1 DEF SendDone, ListenerTypeOK
  <1>3. /\ \A k \in Kinds : served[k] \in Entry
        /\ NotBeyond(served[outgoing.kind], outgoing.data)
    BY <1>2 DEF ServedInv, ListenerTypeOK, Entry
  <1>4. \A k \in Kinds : NotBeyond(served[k], served'[k])
    BY <1>2, <1>3, NotBeyondReflexive DEF ListenerTypeOK
  <1>5. QED
    BY <1>4 DEF NotBeyond, ServedNewer, NoOlder

\* However slow send_packet is and however many clients ask, answers of a kind
\* leave the proxy in the order of the game server's data.
THEOREM ServedMonotone == ProxySpec => ServedNeverRegresses
  <1>1. ProxySpec => []CacheInv
    BY ProxyImplementsUpdaters, CacheInvariant, PTL
  <1>2. ProxySpec => []ServedInv
    BY <1>1, ListenerInvariant, InitServedInv, StepKeepsServedInv, PTL DEF ProxySpec
  <1>3. [ServedNewer]_served =>
          [\A k \in Kinds : served[k] # NoEntry => NoOlder(served[k], served'[k])]_served
    BY DEF ServedNewer
  <1>4. QED
    BY <1>2, <1>3, ListenerInvariant, StepServesNewer, PTL DEF ProxySpec, ServedNeverRegresses

\* Type correctness of the whole proxy: in particular no empty response is
\* ever handed to send_packet.
THEOREM ProxyInvariant == ProxySpec => []ProxyTypeOK
  <1>1. ProxySpec => []UpdatersTypeOK
    BY ProxyImplementsUpdaters, UpdatersInvariant, PTL
  <1>2. UpdatersTypeOK /\ ListenerTypeOK => ProxyTypeOK
    BY DEF ListenerTypeOK, ProxyTypeOK
  <1>3. QED
    BY <1>1, <1>2, ListenerInvariant, PTL
=============================================================================
