-------------------------- MODULE LastOkFailCounter -------------------------
(***************************************************************************)
(* proxy.py, class LastOkFailCounter, with the two callbacks QueryProxy    *)
(* gives it: _on_offline and _on_online, which assign `online`.            *)
(* The methods never suspend, so each call is one action.                  *)
(***************************************************************************)
EXTENDS Integers

CONSTANTS
  fails_threshold,    \* settings.max_a2s_fails_before_offline
  MaxTime,            \* bound: the last reading of the clock
  MaxFails            \* bound: the count stands still here, see AddFail

ASSUME CounterAssumption ==
  /\ fails_threshold \in Nat \ {0}     \* conint(gt=0)
  /\ MaxTime \in Nat
  /\ MaxFails \in Nat
  /\ MaxFails >= fails_threshold

VARIABLES
  now,                        \* latest reading of time.monotonic()
  last_success_at,
  fails_in_row,
  fails_threshold_reached,
  online                      \* QueryProxy.online

counter_vars == <<last_success_at, fails_in_row, fails_threshold_reached, online>>

CounterInit ==
  /\ now \in 0..MaxTime
  /\ last_success_at = 0
  /\ fails_in_row = 0
  /\ fails_threshold_reached = TRUE     \* so that the first ok() goes online
  /\ online = FALSE

\* A later call reads a later clock, or the same one.
ReadClock == now' \in now..MaxTime

\* on_fails_threshold_reset and on_fails_threshold_reached
on_online == online' = TRUE
on_offline == online' = FALSE

\* Faults: the count is not reset; the callback is not called.
CountOkKeepsCount ==
  /\ last_success_at' = now'
  /\ UNCHANGED fails_in_row
  /\ fails_threshold_reached' = FALSE
  /\ IF fails_threshold_reached THEN on_online ELSE UNCHANGED online

CountOkSilent ==
  /\ last_success_at' = now'
  /\ fails_in_row' = 0
  /\ fails_threshold_reached' = FALSE
  /\ UNCHANGED online

CountOk ==
  /\ last_success_at' = now'
  /\ fails_in_row' = 0
  /\ fails_threshold_reached' = FALSE
  /\ IF fails_threshold_reached THEN on_online ELSE UNCHANGED online

\* Beyond the threshold the code only compares the count with it, for equality,
\* and adds to it: all counts from MaxFails on are one value here.
AddFail(n) == IF n < MaxFails THEN n + 1 ELSE MaxFails

\* Fault: the count is compared before it is incremented.
CountFailLate ==
  /\ fails_in_row' = AddFail(fails_in_row)
  /\ UNCHANGED last_success_at
  /\ IF fails_in_row = fails_threshold
     THEN fails_threshold_reached' = TRUE /\ on_offline
     ELSE UNCHANGED <<fails_threshold_reached, online>>

CountFail ==
  /\ fails_in_row' = AddFail(fails_in_row)
  /\ UNCHANGED last_success_at
  /\ IF fails_in_row + 1 = fails_threshold
     THEN fails_threshold_reached' = TRUE /\ on_offline
     ELSE UNCHANGED <<fails_threshold_reached, online>>

\* A result older than the last success is dropped.
ok ==
  /\ ReadClock
  /\ IF now' < last_success_at THEN UNCHANGED counter_vars ELSE CountOk

fail ==
  /\ ReadClock
  /\ IF now' < last_success_at THEN UNCHANGED counter_vars ELSE CountFail

CounterNext == ok \/ fail

CounterSpec == CounterInit /\ [][CounterNext]_<<now, counter_vars>>

-----------------------------------------------------------------------------
CounterTypeOK ==
  /\ now \in 0..MaxTime
  /\ last_success_at \in 0..MaxTime
  /\ fails_in_row \in 0..MaxFails
  /\ fails_threshold_reached \in BOOLEAN
  /\ online \in BOOLEAN

\* The two callbacks keep `online` the negation of the flag, and while the
\* server counts as online the count stays below the threshold: the equality
\* test in fail() cannot step over it.
StatusFollowsCount ==
  /\ online <=> ~fails_threshold_reached
  /\ online => fails_in_row < fails_threshold

\* The inductive invariant.  The last success is in the past, so with this clock
\* the early returns of ok() and fail() are never taken.
CounterInv == CounterTypeOK /\ StatusFollowsCount /\ last_success_at <= now

\* The counter goes on counting beyond the threshold; the promise does not
\* distinguish the misses after the one that took the server down.
Status == INSTANCE Availability WITH
  Threshold <- fails_threshold,
  up <- online,
  misses <- IF fails_in_row < fails_threshold THEN fails_in_row ELSE fails_threshold

\* LastOkFailCounter keeps the promise of Availability: online from an ok()
\* on, offline exactly from the threshold-th fail() in a row on.
ImplementsAvailability == Status!Spec
=============================================================================
