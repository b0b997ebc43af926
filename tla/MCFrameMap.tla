------------------------------ MODULE MCFrameMap ------------------------------
(***************************************************************************)
(* Memory maps of two small regions, apart, adjacent, overlapping or       *)
(* nested, the second one available or not.                                *)
(***************************************************************************)
EXTENDS FrameScan

MCMemoryMaps ==
  {<<[start |-> 0, blocks |-> n, available |-> TRUE],
     [start |-> s, blocks |-> m, available |-> a]>> :
       n \in 3 .. 6, s \in 1 .. 6, m \in 2 .. 4, a \in BOOLEAN}

=============================================================================
