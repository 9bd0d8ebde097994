--------------------------- MODULE MCConversationSla ---------------------------
(* Small instances of ConversationSla: one tick to answer, two to resolve; an office   *)
(* that is always open.                                                               *)
EXTENDS ConversationSla

MCResponseDue == [p \in SlaPriorities |-> [t \in Times |-> t + 1]]
MCResolutionDue == [p \in SlaPriorities |-> [t \in Times |-> t + 2]]
=============================================================================
