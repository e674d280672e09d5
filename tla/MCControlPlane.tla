--------------------------- MODULE MCControlPlane ---------------------------
EXTENDS ControlPlane, TLC

\* One table, the collection and the storage: the places of a hard delete
MCDeleteOrder == <<"members", "qdrant", "storage">>

\* The clients of the item bank are interchangeable, and the administrators
Symmetric == Permutations(Clients) \cup Permutations(PlatformAdmins)
=============================================================================
