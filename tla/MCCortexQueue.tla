--------------------------- MODULE MCCortexQueue ----------------------------
(* One scheduler and one force-publish task over the rows of a tenant.     *)
EXTENDS CortexQueue

CONSTANTS e1, e2, poller, forcer

OneRow   == {e1}
TwoRows  == {e1, e2}
ThePoller  == {poller}
TheForcer  == {forcer}
NoForcers  == {}
AllRows  == [w \in Workers |-> Events]
\* The force-publish task belongs to an organisation that owns e1 only.
OrgScope == [w \in Workers |-> IF w \in Pollers THEN Events ELSE {e1}]
=============================================================================
