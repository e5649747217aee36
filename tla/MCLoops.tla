-------------------------------- MODULE MCLoops --------------------------------
(* Values for the constants of Loops: the small instances TLC checks.         *)
EXTENDS Loops

MainAndLoop == {"main", "loop"}
OneLoop == {"loop"}
TwoBuffers == {"a", "b"}
OneByte == {1}
================================================================================
