------------------------------ MODULE MCTenancy ------------------------------
(* Small instances of Tenancy: users, tenants and slots are interchangeable. *)
EXTENDS Tenancy, TLC

Symmetry == Permutations(User) \cup Permutations(Tenant) \cup Permutations(Login)
              \cup Permutations(Accept) \cup Permutations(Removal)
==============================================================================
