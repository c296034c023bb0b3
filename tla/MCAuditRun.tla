------------------------------ MODULE MCAuditRun ------------------------------
EXTENDS AuditRun, TLC
\* Workflow slots are interchangeable; pairs are not where Churn singles one out.
SlotsInterchangeable == Permutations(Workflows)
\* People are interchangeable, and so are the pairs whose page no ingest touches.
Alike == Permutations(Users) \cup Permutations(Pairs \ Churn)
===============================================================================
