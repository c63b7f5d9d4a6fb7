------------------------- MODULE MCConversationStore -------------------------
(* Instances of ConversationStore for TLC.                                 *)
EXTENDS ConversationStore

\* Messages are numbers, and stamped in the order of these numbers.
MCStamp == [m \in Msgs |-> m]
=============================================================================
