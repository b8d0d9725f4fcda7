---- MODULE MCRateLimiter ----
(* RateLimiter on small sets of model values. Requests, clients and workers
   are interchangeable. *)
EXTENDS RateLimiter, TLC

Symmetry == Permutations(Requests) \cup Permutations(Clients) \cup Permutations(Workers)

====
