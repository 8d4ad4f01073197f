--------------------------- MODULE MCTaggedMemory ---------------------------
(* An instance of TaggedMemory for TLC: two granules in memory and one that
   is not, and two capabilities. *)
EXTENDS TaggedMemory

MCCaps == {[i \in Offset |-> 1], [i \in Offset |-> i % 2]}
=============================================================================
