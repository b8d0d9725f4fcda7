---- MODULE MCGovernor ----
(* Governor on small sets of model values. Calls and workers are
   interchangeable. *)
EXTENDS Governor, TLC

Symmetry == Permutations(Calls) \cup Permutations(Workers)

\* At most one of the calls is a batch: two batches have nothing in common but
\* their process.
OneBatch ==
    \A b, c \in Calls : call[b].kind = "batch" /\ call[c].kind = "batch" => b = c

====
