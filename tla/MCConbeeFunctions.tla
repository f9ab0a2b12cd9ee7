------------------------- MODULE MCConbeeFunctions --------------------------
(* Two parameters for TLC, one of two bytes and one of one byte, which the *)
(* stick holds in one byte or, in another firmware, in two.                *)
EXTENDS ConbeeFunctions

MCParameters == {5, 9}
MCWidth      == [p \in {5, 9} |-> IF p = 5 THEN 2 ELSE 1]
WiderStick   == [p \in {5, 9} |-> 2]
NoRequests      == {}
ApsRequest      == {GetApsDataRequest}
NetworkRequests == {NetworkJoinCreateRequest, NetworkLeaveRequest}
=============================================================================
