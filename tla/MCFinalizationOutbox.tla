------------------------ MODULE MCFinalizationOutbox ------------------------
(* Two tracks of one camera, the first the older one.                       *)
EXTENDS FinalizationOutbox

CONSTANT e1

FirstIsOlder == [e \in Events |-> IF e = e1 THEN 1 ELSE 2]
=============================================================================
