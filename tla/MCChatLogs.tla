----------------------------- MODULE MCChatLogs -----------------------------
(* Symmetric requests and users for the TLC runs of ChatLogs.              *)
EXTENDS ChatLogs, TLC

Symmetric == Permutations(Requests) \cup Permutations(Users)
=============================================================================
