---------------------------- MODULE MCChatServer ----------------------------
(* ChatServer for TLC. Connections and names are interchangeable. *)
EXTENDS ChatServer, TLC

Symmetry == Permutations(Conns) \cup Permutations(Names)
=============================================================================
