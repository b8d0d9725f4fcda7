---- MODULE MCEscalation ----
(* Escalation on small sets of model values. The calls, the tenants, the
   escalations, the workers and the keys are interchangeable. *)
EXTENDS Escalation, TLC

Symmetry ==
    Permutations(Escalations) \cup Permutations(Tenants)
        \cup Permutations(Workers) \cup Permutations(Calls) \cup Permutations(Keys)

\* The answer of an evaluate call is in Redis only before the first tick.
DecisionsAtStart == now > 0 => \A k \in Keys : cache[k] # Decision

\* Nothing falls due: what goes wrong is between the reviewers.
ClockStands == now = 0

====
