-------------------------- MODULE MCTenantResources --------------------------
(* TenantResources for TLC: organizations, projects, names and connections *)
(* are interchangeable, and every property treats them alike.              *)
EXTENDS TenantResources, TLC

Symmetry == Permutations(Orgs) \cup Permutations(Projects) \cup Permutations(Names)
              \cup Permutations(Connections)
=============================================================================
