---------------------------- MODULE MCConversations ----------------------------
(* The instance of Conversations for TLC. *)
EXTENDS Conversations

MCOwners == {"o1", "o2"}

\* Owners differ in nothing but their calls: that conversation 0 is of o1, if it is of a
\* session at all, is no restriction.
MCFirstOwners == {"o1", None}
================================================================================
