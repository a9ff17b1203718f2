---------------------------- MODULE MCWorkspace ----------------------------
(* Two conversations, which are interchangeable.                           *)
EXTENDS Workspace, TLC

Symmetric == Permutations(Chats)
============================================================================
