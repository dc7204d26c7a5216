---------------------------- MODULE MCDashboard ------------------------------
EXTENDS Dashboard, TLC

Symmetry == Permutations(Invoice)
=============================================================================
