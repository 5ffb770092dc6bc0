----------------------------- MODULE MCGameScene -----------------------------
(* A small instance of GameScene: two runtimes to tell a map from the one
   before it, and interchangeable addresses. *)
EXTENDS GameScene, TLC

Addresses == Permutations(Runtimes) \cup Permutations(Nodes) \cup Permutations(Proxies)
=============================================================================
