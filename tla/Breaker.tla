------------------------------ MODULE Breaker ------------------------------
(***************************************************************************)
(* The circuit breaker that MultiRelay (src/vortex-relay/relay.js) keeps   *)
(* per relay and ConnectionRouter (connection.js) per connection: after    *)
(* Threshold failures in a row it is open for Cooldown.  Failures beyond   *)
(* the threshold count for nothing, so the count stops there.              *)
(***************************************************************************)
EXTENDS Integers

CONSTANTS Threshold, Cooldown

ASSUME BreakerAssumption == Threshold \in Nat \ {0} /\ Cooldown \in Nat

Health  == [fails: 0 .. Threshold, openUntil: Nat]
Healthy == [fails |-> 0, openUntil |-> 0]

\* Mutant of IsOpen: the breaker waits for a success, not for the cooldown.
OpenUntilSuccess(h, t) == h.fails >= Threshold

IsOpen(h, t) == h.openUntil > t

RecordSuccess(h) == Healthy

RecordFailure(h, t) ==
  LET n == IF h.fails < Threshold THEN h.fails + 1 ELSE Threshold
  IN  [fails |-> n, openUntil |-> IF n >= Threshold THEN t + Cooldown ELSE h.openUntil]
=============================================================================
