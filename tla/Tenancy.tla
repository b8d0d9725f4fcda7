---- MODULE Tenancy ----
(* What the modules of the service around the decision pipeline share. *)

CONSTANTS
    Tenants,    \* tenant ids
    Null        \* SQL NULL / Python None

====
