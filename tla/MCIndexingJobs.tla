--------------------------- MODULE MCIndexingJobs ---------------------------
(* Model values and symmetry for the TLC runs of IndexingJobs.             *)
EXTENDS IndexingJobs, TLC

\* Job ids, tasks without a role and documents are interchangeable.  Used by
\* the runs that check invariants only.
Symmetry == Permutations(Docs) \cup Permutations(Jobs) \cup Permutations(Tasks \ Retriers)
=============================================================================
