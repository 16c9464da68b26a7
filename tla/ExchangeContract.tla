--------------------------- MODULE ExchangeContract -------------------------
(***************************************************************************)
(* What a round of asking the game server promises the update loop: it     *)
(* ends with data the server had at some moment since the round began, or  *)
(* with TimeoutError, or with the decoder's exception.                     *)
(***************************************************************************)
EXTENDS Naturals

CONSTANT MaxVersion    \* bound: how often the game server's data changes

VARIABLES
  phase,      \* how the latest round stands
  asked,      \* the server's version when it began
  version,    \* the server's version now
  got         \* the version a round returned

vars == <<phase, asked, version, got>>

Phases == {"idle", "asking", "answered", "timed_out", "raised"}

Init ==
  /\ phase = "idle"
  /\ asked = 0
  /\ version = 0
  /\ got = 0

Ask ==
  /\ phase # "asking"
  /\ phase' = "asking"
  /\ asked' = version
  /\ UNCHANGED <<version, got>>

Answer ==
  /\ phase = "asking"
  /\ phase' = "answered"
  /\ got' \in asked..version
  /\ UNCHANGED <<asked, version>>

Fail ==
  /\ phase = "asking"
  /\ phase' \in {"timed_out", "raised"}
  /\ UNCHANGED <<asked, version, got>>

Change ==
  /\ version < MaxVersion
  /\ version' = version + 1
  /\ UNCHANGED <<phase, asked, got>>

Next == Ask \/ Answer \/ Fail \/ Change

Spec == Init /\ [][Next]_vars
=============================================================================
