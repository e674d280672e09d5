-------------------------- MODULE MCDocumentStores --------------------------
(* Who does what in the TLC runs of DocumentStores.                        *)
EXTENDS DocumentStores, TLC

CONSTANTS admin, worker, worker2, c1, c2

Symmetry == Permutations(Chunks) \cup Permutations(Slots \ {admin})

Admin == Kinds \ {"archive"}

\* The uploaded files give every chunk, or fewer when a file gets shorter
OneSplit == {Chunks}
ShorterSplits == SUBSET Chunks

AnyMeta == Meta
ApprovedMeta == {m \in Meta : m.approval = "approved" /\ m.acl}

\* One caller that waits for each operation, embedding_only excepted
Sequential == admin :> Kinds \ {"embedding_only"}

\* An administrator and the nightly worker
WithWorker == admin :> Admin @@ worker :> {"archive"}

\* Two workers, because nothing but the advisory lock keeps them apart, and an
\* administrator who uploads, reindexes and changes valid_until meanwhile
TwoWorkers == admin :> {"upload", "reindex", "patch"} @@ worker :> {"archive"}
              @@ worker2 :> {"archive"}
=============================================================================
