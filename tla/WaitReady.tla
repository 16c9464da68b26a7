------------------------------ MODULE WaitReady -----------------------------
(***************************************************************************)
(* QueryProxy.wait_ready and the AwaitableDict it puts in the place of     *)
(* resp_cache while it waits (proxy.py).  The update tasks go on storing   *)
(* responses; the three awaiting coroutines are tasks of their own, which  *)
(* gather() starts and, when the graceful period ends, cancels.            *)
(***************************************************************************)
EXTENDS FiniteSets

CONSTANTS
  Keys,        \* the keys of resp_cache
  Waited,      \* those wait_ready waits for: without rules if they are off
  Values,      \* responses
  NoEntry      \* resp_cache.get's default

ASSUME WaitReadyAssumption ==
  /\ Waited \subseteq Keys
  /\ NoEntry \notin Values

VARIABLES
  call,        \* how far the call of wait_ready is
  resp_cache,  \* key -> its future; those of a plain dict are all done
  waiter       \* key -> the state of the task that runs get_wait(key)

wait_vars == <<call, resp_cache, waiter>>

\* A future, or the lack of one
Absent == [state |-> "absent", value |-> NoEntry]
Pending == [state |-> "pending", value |-> NoEntry]
Cancelled == [state |-> "cancelled", value |-> NoEntry]
Done(v) == [state |-> "done", value |-> v]

Is(k, state) == resp_cache[k].state = state

WaitInit ==
  /\ call = "not_called"
  /\ resp_cache = [k \in Keys |-> Absent]
  /\ waiter = [k \in Waited |-> "new"]

-----------------------------------------------------------------------------
\* Faults: the value itself is stored; a pending future is replaced, too.
StoreUnwrapped(k, v) ==
  /\ resp_cache' = [resp_cache EXCEPT ![k] = v]
  /\ UNCHANGED <<waiter, call>>

StoreReplacing(k, v) ==
  /\ resp_cache' = [resp_cache EXCEPT ![k] = Done(v)]
  /\ UNCHANGED <<waiter, call>>

\* __setitem__: a pending future gets the result, which wakes the task that
\* made it; any other is replaced.  (In a plain dict none is pending.)
Store(k, v) ==
  /\ resp_cache' = [resp_cache EXCEPT ![k] = Done(v)]
  /\ waiter' = IF Is(k, "pending") THEN [waiter EXCEPT ![k] = "woken"] ELSE waiter
  /\ UNCHANGED call

\* wait_ready: AwaitableDict(self.resp_cache) wraps what is there already.
Call ==
  /\ call = "not_called"
  /\ call' = "gathering"
  /\ UNCHANGED <<resp_cache, waiter>>

\* get_wait(k), when the event loop runs its task
StartGetWait(k) ==
  /\ call = "gathering"
  /\ waiter[k] = "new"
  /\ IF Is(k, "absent")
     THEN /\ resp_cache' = [resp_cache EXCEPT ![k] = Pending]
          /\ waiter' = [waiter EXCEPT ![k] = "pending"]
     ELSE /\ waiter' = [waiter EXCEPT ![k] = "returned"]
          /\ UNCHANGED resp_cache
  /\ UNCHANGED call

Resume(k) ==
  /\ call = "gathering"
  /\ waiter[k] = "woken"
  /\ waiter' = [waiter EXCEPT ![k] = "returned"]
  /\ UNCHANGED <<call, resp_cache>>

\* Faults: the futures are copied as they are; only the awaited keys are.
AsDictOfFutures == resp_cache
AsDictOfWaited == [k \in Keys |-> IF k \in Waited /\ Is(k, "done") THEN resp_cache[k] ELSE Absent]

\* dict(resp_cache): __iter__ leaves out what is pending or cancelled.
AsDict == [k \in Keys |-> IF Is(k, "done") THEN resp_cache[k] ELSE Absent]

\* Fault: the first response is enough.
GatherFirst ==
  /\ call = "gathering"
  /\ \E k \in Waited : waiter[k] = "returned"
  /\ call' = "ready"
  /\ resp_cache' = AsDict
  /\ UNCHANGED waiter

GatherDone ==
  /\ call = "gathering"
  /\ \A k \in Waited : waiter[k] = "returned"
  /\ call' = "ready"
  /\ resp_cache' = AsDict
  /\ UNCHANGED waiter

\* The graceful period ends: every task that has not returned is cancelled,
\* and with it the future it awaits.
TimerFires ==
  /\ call = "gathering"
  /\ call' = "cancelling"
  /\ waiter' = [k \in Waited |-> IF waiter[k] = "returned" THEN "returned" ELSE "cancelled"]
  /\ resp_cache' = [k \in Keys |-> IF Is(k, "pending") THEN Cancelled ELSE resp_cache[k]]

\* wait_ready runs again, later, with the TimeoutError; its finally block.
Unwind ==
  /\ call = "cancelling"
  /\ call' = "exceeded"
  /\ resp_cache' = AsDict
  /\ UNCHANGED waiter

WaitNext ==
  \/ \E k \in Keys, v \in Values : Store(k, v)
  \/ Call
  \/ \E k \in Waited : StartGetWait(k) \/ Resume(k)
  \/ GatherDone
  \/ TimerFires
  \/ Unwind

WaitSpec == WaitInit /\ [][WaitNext]_wait_vars

\* The event loop runs every task that is ready.
FairWaitSpec ==
  /\ WaitSpec
  /\ \A k \in Waited : WF_wait_vars(StartGetWait(k)) /\ WF_wait_vars(Resume(k))
  /\ WF_wait_vars(GatherDone)
  /\ WF_wait_vars(Unwind)

-----------------------------------------------------------------------------
Futures == {Absent, Pending, Cancelled} \union {Done(v) : v \in Values}

Returned == {"ready", "exceeded"}

WaitTypeOK ==
  /\ call \in {"not_called", "gathering", "cancelling"} \union Returned
  /\ resp_cache \in [Keys -> Futures]
  /\ waiter \in [Waited -> {"new", "pending", "woken", "returned", "cancelled"}]

\* __getitem__, and get() of what __getitem__ raises KeyError for
Value(k) == IF Is(k, "done") THEN resp_cache[k].value ELSE NoEntry

\* A plain dict holds no futures that are not done, and while there are some
\* each pending one is what its task waits for: set_result is never called on
\* a future that is done or cancelled, and no task waits for one that was
\* dropped from the dictionary.
FuturesConsistent ==
  /\ call \in {"not_called"} \union Returned =>
       \A k \in Keys : Is(k, "done") \/ Is(k, "absent")
  /\ \A k \in Waited : Is(k, "pending") <=> waiter[k] = "pending"
  /\ \A k \in Keys \ Waited : ~Is(k, "pending")

\* wait_ready returns without the warning only when every response it waits
\* for is in the cache.
ReadyMeansFilled == call = "ready" => \A k \in Waited : Value(k) # NoEntry

Cache == INSTANCE ResponseCache WITH cache <- [k \in Keys |-> Value(k)]

\* For its readers the cache stays a map while wait_ready swaps it, waits, is
\* cancelled and swaps it back: no response stored in between is lost.
ImplementsResponseCache == Cache!Spec

\* wait_ready returns when all it waits for is there, timer or not, and filled
\* or not once the timer fires.
WaitReadyReturns ==
  /\ (call = "gathering" /\ \A k \in Waited : Value(k) # NoEntry) ~> call \in Returned
  /\ WF_wait_vars(TimerFires) => (call = "gathering" ~> call \in Returned)
=============================================================================
