------------------------- MODULE MCTopicDispatcher -------------------------
(* Small instances of TopicDispatcher.                                     *)
EXTENDS TopicDispatcher, TLC

CONSTANTS m1, m2, m3, ta, tb, ec1, ec2

(* One tenant with a message for each of two communities, and another with *)
(* a message for the first one.                                            *)
MCTenantOf == [m \in Messages |-> IF m \in {m1, m2} THEN ta ELSE tb]

MCEcOf == [m \in Messages |-> IF m = m2 THEN ec2 ELSE ec1]

=============================================================================
