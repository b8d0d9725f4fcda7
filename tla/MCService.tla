---- MODULE MCService ----
(***************************************************************************)
(* The parts of the service around the decision pipeline, checked in one   *)
(* run: who gets in, what readers see, and how the schema gets there.      *)
(* They share no variable, so a behaviour picks one of them and runs it    *)
(* alone; the states are their sum, not their product.                     *)
(***************************************************************************)
EXTENDS Access, Listings, Migration, TLC

VARIABLE part   \* the part that runs

Parts == {"access", "listings", "migration"}

serviceVars == <<accessVars, listingVars, migrationVars, part>>

ServiceInit == AccessInit /\ ListingInit /\ MigrationInit /\ part \in Parts

ServiceNext ==
    /\ \/ part = "access" /\ AccessNext /\ UNCHANGED <<listingVars, migrationVars>>
       \/ part = "listings" /\ ListingNext /\ UNCHANGED <<accessVars, migrationVars>>
       \/ part = "migration" /\ MigrationNext /\ UNCHANGED <<accessVars, listingVars>>
    /\ UNCHANGED part

ServiceSpec == ServiceInit /\ [][ServiceNext]_serviceVars

\* Fewer permutations are quicker than fewer states here.
Symmetry == Permutations(Tenants) \cup Permutations(ApiKeys) \cup Permutations(Requests)

====
