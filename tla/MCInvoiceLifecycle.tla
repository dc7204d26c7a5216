-------------------------- MODULE MCInvoiceLifecycle --------------------------
EXTENDS InvoiceLifecycle, TLC

Symmetry == Permutations(Invoice) \cup Permutations(Edit)
              \cup Permutations(Export) \cup Permutations(Deletion)
==============================================================================
