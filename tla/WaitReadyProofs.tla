--------------------------- MODULE WaitReadyProofs --------------------------
(***************************************************************************)
(* For any keys and responses: the exchange of resp_cache under running    *)
(* tasks loses nothing, and "ready" means that all that was awaited came.  *)
(***************************************************************************)
EXTENDS WaitReady, TLAPS

USE WaitReadyAssumption

\* Inductive: who has returned from get_wait, or is about to, has found a
\* response; futures that are not done exist only while wait_ready is at work,
\* pending ones until the timer fires and cancelled ones after that.
WaitInv ==
  /\ WaitTypeOK
  /\ FuturesConsistent
  /\ \A k \in Waited : waiter[k] \in {"woken", "returned"} => Is(k, "done")
  /\ call = "ready" => \A k \in Waited : waiter[k] = "returned"
  /\ call = "gathering" => \A k \in Keys : ~Is(k, "cancelled")
  /\ call = "cancelling" => \A k \in Keys : ~Is(k, "pending")

\* The four kinds of a future, told apart by their state
LEMMA FutureKinds ==
  ASSUME NEW f \in Futures
  PROVE  /\ f.state \in {"absent", "pending", "cancelled", "done"}
         /\ f.state = "absent" => f = Absent
         /\ f.state = "done" => f.value \in Values
  BY DEF Futures, Absent, Pending, Cancelled, Done

LEMMA FutureStates ==
  /\ Absent.state = "absent" /\ Pending.state = "pending" /\ Cancelled.state = "cancelled"
  /\ {Absent, Pending, Cancelled} \subseteq Futures
  /\ \A v : Done(v).state = "done" /\ Done(v).value = v
  /\ \A v \in Values : Done(v) \in Futures
  BY DEF Futures, Absent, Pending, Cancelled, Done

LEMMA InitWaitInv == WaitInit => WaitInv
  BY FutureStates DEF WaitInit, WaitInv, WaitTypeOK, FuturesConsistent, Is, Returned

LEMMA StoreKeepsWaitInv ==
  ASSUME WaitInv, NEW k \in Keys, NEW v \in Values, Store(k, v)
  PROVE  WaitInv'
  <1>1. Done(v) \in Futures /\ Done(v).state = "done"
    BY FutureStates
  <1>2. WaitTypeOK'
    BY <1>1 DEF WaitInv, WaitTypeOK, Store
  <1>3. \A j \in Keys : resp_cache'[j] = IF j = k THEN Done(v) ELSE resp_cache[j]
    BY DEF WaitInv, WaitTypeOK, Store
  <1>4. \A j \in Waited :
          waiter'[j] = IF j = k /\ Is(k, "pending") THEN "woken" ELSE waiter[j]
    BY DEF WaitInv, WaitTypeOK, Store
  <1>5. call' = call
    BY DEF Store
  <1>6. FuturesConsistent'
    BY <1>1, <1>3, <1>4, <1>5 DEF WaitInv, FuturesConsistent, Is, Returned
  <1>7. \A j \in Waited : waiter'[j] \in {"woken", "returned"} => Is(j, "done")'
    BY <1>1, <1>3, <1>4 DEF WaitInv, Is
  <1>8. /\ call = "ready" => \A j \in Waited : waiter'[j] = "returned"
        /\ call = "gathering" => \A j \in Keys : ~Is(j, "cancelled")'
        /\ call = "cancelling" => \A j \in Keys : ~Is(j, "pending")'
    BY <1>1, <1>3, <1>4 DEF WaitInv, FuturesConsistent, Is, Returned
  <1>9. QED
    BY <1>2, <1>5, <1>6, <1>7, <1>8 DEF WaitInv

LEMMA StartKeepsWaitInv ==
  ASSUME WaitInv, NEW k \in Waited, StartGetWait(k)
  PROVE  WaitInv'
  <1>1. k \in Keys /\ call = "gathering" /\ call' = call /\ waiter[k] = "new"
    BY DEF StartGetWait
  <1>2. CASE Is(k, "absent")
    <2>1. /\ resp_cache' = [resp_cache EXCEPT ![k] = Pending]
          /\ waiter' = [waiter EXCEPT ![k] = "pending"]
      BY <1>2 DEF StartGetWait
    <2>2. QED
      BY <1>1, <2>1, FutureStates
      DEF WaitInv, WaitTypeOK, FuturesConsistent, Is, Returned
  <1>3. CASE ~Is(k, "absent")
    <2>1. waiter' = [waiter EXCEPT ![k] = "returned"] /\ resp_cache' = resp_cache
      BY <1>3 DEF StartGetWait
    <2>2. Is(k, "done")
      BY <1>1, <1>3, FutureKinds DEF WaitInv, WaitTypeOK, FuturesConsistent, Is
    <2>3. QED
      BY <1>1, <2>1, <2>2 DEF WaitInv, WaitTypeOK, FuturesConsistent, Is, Returned
  <1>4. QED
    BY <1>2, <1>3

\* The dictionary is made plain: what is not done is left out.
IsPlainCopy(dict) ==
  /\ dict \in [Keys -> Futures]
  /\ \A k \in Keys : dict[k].state = IF Is(k, "done") THEN "done" ELSE "absent"
  /\ \A k \in Keys : Is(k, "done") => dict[k] = resp_cache[k]

LEMMA PlainIsDone ==
  ASSUME WaitTypeOK
  PROVE  IsPlainCopy(AsDict)
  BY FutureStates DEF WaitTypeOK, AsDict, Is, IsPlainCopy

LEMMA LeavingKeepsWaitInv ==
  ASSUME WaitInv, GatherDone \/ Unwind
  PROVE  WaitInv'
  <1>1. /\ resp_cache' = AsDict /\ waiter' = waiter
        /\ call' \in Returned
        /\ call' = "ready" => \A k \in Waited : waiter[k] = "returned"
    BY DEF GatherDone, Unwind, Returned
  <1>2. \A k \in Waited : waiter[k] # "pending"
    <2>1. CASE GatherDone
      BY <2>1 DEF GatherDone
    <2>2. CASE Unwind
      BY <2>2 DEF Unwind, WaitInv, FuturesConsistent
    <2>3. QED
      BY <2>1, <2>2
  <1>3. IsPlainCopy(AsDict)
    BY PlainIsDone DEF WaitInv
  <1>4. WaitTypeOK'
    BY <1>1, <1>3 DEF WaitInv, WaitTypeOK, IsPlainCopy
  <1>5. FuturesConsistent'
    BY <1>1, <1>2, <1>3 DEF FuturesConsistent, Is, IsPlainCopy
  <1>6. QED
    BY <1>1, <1>3, <1>4, <1>5 DEF WaitInv, Is, Returned, IsPlainCopy

LEMMA TimerKeepsWaitInv ==
  ASSUME WaitInv, TimerFires
  PROVE  WaitInv'
  <1>1. /\ call = "gathering" /\ call' = "cancelling"
        /\ waiter' = [k \in Waited |->
             IF waiter[k] = "returned" THEN "returned" ELSE "cancelled"]
        /\ resp_cache' = [k \in Keys |-> IF Is(k, "pending") THEN Cancelled ELSE resp_cache[k]]
    BY DEF TimerFires
  <1>2. WaitTypeOK'
    BY <1>1, FutureStates DEF WaitInv, WaitTypeOK
  <1>3. \A k \in Keys : ~Is(k, "pending")' /\ (Is(k, "done") => Is(k, "done")')
    BY <1>1, FutureStates DEF Is
  <1>4. QED
    BY <1>1, <1>2, <1>3 DEF WaitInv, FuturesConsistent, Returned

LEMMA StepKeepsWaitInv == WaitInv /\ [WaitNext]_wait_vars => WaitInv'
  <1> SUFFICES ASSUME WaitInv, [WaitNext]_wait_vars
               PROVE  WaitInv'
    OBVIOUS
  <1>1. ASSUME NEW k \in Keys, NEW v \in Values, Store(k, v)
        PROVE  WaitInv'
    BY <1>1, StoreKeepsWaitInv
  <1>2. CASE Call
    BY <1>2, FutureStates DEF Call, WaitInv, WaitTypeOK, FuturesConsistent, Is, Returned
  <1>3. ASSUME NEW k \in Waited, StartGetWait(k)
        PROVE  WaitInv'
    BY <1>3, StartKeepsWaitInv
  <1>4. ASSUME NEW k \in Waited, Resume(k)
        PROVE  WaitInv'
    BY <1>4 DEF Resume, WaitInv, WaitTypeOK, FuturesConsistent, Is, Returned
  <1>5. CASE GatherDone \/ Unwind
    BY <1>5, LeavingKeepsWaitInv
  <1>6. CASE TimerFires
    BY <1>6, TimerKeepsWaitInv
  <1>7. CASE UNCHANGED wait_vars
    BY <1>7 DEF wait_vars, WaitInv, WaitTypeOK, FuturesConsistent, Is
  <1>8. QED
    BY <1>1, <1>2, <1>3, <1>4, <1>5, <1>6, <1>7 DEF WaitNext

LEMMA WaitInvariant == WaitSpec => []WaitInv
  BY InitWaitInv, StepKeepsWaitInv, PTL DEF WaitSpec

\* set_result is never called on a future that is done or cancelled, and the
\* dictionary left behind holds only responses.
THEOREM FuturesStayConsistent == WaitSpec => [](WaitTypeOK /\ FuturesConsistent)
  <1>1. WaitInv => WaitTypeOK /\ FuturesConsistent
    BY DEF WaitInv
  <1>2. QED
    BY <1>1, WaitInvariant, PTL

\* Every entry of resp_cache is a future in one of its states, of a response or none
\* (AwaitableDict.__setitem__), and every task one of get_wait's, for any keys.
THEOREM WaitTypes == WaitSpec => []WaitTypeOK
  BY FuturesStayConsistent, PTL

\* wait_ready returns without a warning only over a cache that is filled.
THEOREM ReadyIsFilled == WaitSpec => []ReadyMeansFilled
  <1>1. WaitInv => ReadyMeansFilled
    BY FutureKinds DEF WaitInv, WaitTypeOK, ReadyMeansFilled, Value, Is
  <1>2. QED
    BY <1>1, WaitInvariant, PTL

-----------------------------------------------------------------------------
\* What readers see of the cache
Seen == [k \in Keys |-> Value(k)]

\* The swaps, the waiting and the cancelling do not show.
LEMMA OnlyStoresAreSeen ==
  ASSUME WaitInv, [WaitNext]_wait_vars,
         \A k \in Keys, v \in Values : ~Store(k, v)
  PROVE  \A k \in Keys : Value(k)' = Value(k)
  <1>1. CASE resp_cache' = resp_cache
    BY <1>1 DEF Value, Is
  <1>2. ASSUME NEW k \in Waited, StartGetWait(k)
        PROVE  \A j \in Keys : Value(j)' = Value(j)
    <2>1. CASE Is(k, "absent")
      BY <1>2, <2>1, FutureStates DEF StartGetWait, WaitInv, WaitTypeOK, Value, Is
    <2>2. CASE ~Is(k, "absent")
      BY <1>1, <1>2, <2>2 DEF StartGetWait
    <2>3. QED
      BY <2>1, <2>2
  <1>3. CASE GatherDone \/ Unwind
    <2>1. resp_cache' = AsDict
      BY <1>3 DEF GatherDone, Unwind
    <2>2. IsPlainCopy(AsDict)
      BY PlainIsDone DEF WaitInv
    <2>3. QED
      BY <2>1, <2>2 DEF Value, Is, IsPlainCopy
  <1>4. CASE TimerFires
    BY <1>4, FutureStates DEF TimerFires, Value, Is
  <1>5. QED
    BY <1>1, <1>2, <1>3, <1>4 DEF WaitNext, wait_vars, Call, Resume

LEMMA StoreIsSeen ==
  ASSUME WaitInv, NEW k \in Keys, NEW v \in Values, Store(k, v)
  PROVE  Seen' = [Seen EXCEPT ![k] = v]
  <1>1. \A j \in Keys : Value(j)' = IF j = k THEN v ELSE Value(j)
    BY FutureStates DEF Store, WaitInv, WaitTypeOK, Value, Is
  <1>2. QED
    BY <1>1 DEF Seen

\* Whoever stores and reads, the cache is a map that only stores change: no
\* response is lost while wait_ready replaces it, twice.
THEOREM WaitImplementsResponseCache == WaitSpec => ImplementsResponseCache
  <1>1. WaitInit => Cache!Init
    BY FutureStates DEF WaitInit, Cache!Init, Value, Is
  <1>2. WaitInv /\ [WaitNext]_wait_vars => [Cache!Next]_Seen
    <2> SUFFICES ASSUME WaitInv, [WaitNext]_wait_vars
                 PROVE  [Cache!Next]_Seen
      OBVIOUS
    <2>1. ASSUME NEW k \in Keys, NEW v \in Values, Store(k, v)
          PROVE  [Cache!Next]_Seen
      <3>1. Cache!Store(k, v)
        BY <2>1, StoreIsSeen DEF Cache!Store, Seen
      <3>2. QED
        BY <3>1 DEF Cache!Next
    <2>2. CASE \A k \in Keys, v \in Values : ~Store(k, v)
      <3>1. Seen' = Seen
        BY <2>2, OnlyStoresAreSeen DEF Seen
      <3>2. QED
        BY <3>1
    <2>3. QED
      BY <2>1, <2>2
  <1>3. QED
    BY <1>1, <1>2, WaitInvariant, PTL
    DEF WaitSpec, ImplementsResponseCache, Cache!Spec, Seen
=============================================================================
