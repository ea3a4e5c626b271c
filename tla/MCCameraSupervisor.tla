-------------------------- MODULE MCCameraSupervisor --------------------------
(* Two cameras, a capacity for both or for one.                             *)
EXTENDS CameraSupervisor

CONSTANTS c1, c2

TwoCameras == {c1, c2}
ById == [c \in TwoCameras |-> IF c = c1 THEN 1 ELSE 2]
===============================================================================
