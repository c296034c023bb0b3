------------------------------ MODULE MCTenancy ------------------------------
EXTENDS Tenancy, TLC
\* Organisations, databases, admins and requests are interchangeable.
Interchangeable ==
  Permutations(Orgs) \cup Permutations(Databases) \cup Permutations(Admins) \cup Permutations(Requests)
=============================================================================
