---- MODULE MCAudit ----
(* AuditChain on small sets of model values. Decisions, tenants and workers
   are interchangeable: no definition names one of them. *)
EXTENDS AuditChain, TLC

Symmetry ==
    Permutations(Decisions) \cup Permutations(Tenants) \cup Permutations(Workers)

====
