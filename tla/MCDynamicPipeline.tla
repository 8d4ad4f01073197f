-------------------------- MODULE MCDynamicPipeline -------------------------
(* Small programs for the out-of-order pipeline: arithmetic that depends on
   itself in a buffer of three entries, and with jumps in one of two. *)
EXTENDS DynamicPipeline

Arithmetic == {Inst("ADDI", 1, 1, 0, 1), Inst("ADDI", 2, 1, 0, 1),
               Inst("MUL", 1, 1, 2, 0), Inst("MUL", 2, 1, 1, 0)}

Control == {Inst("BEQ", 0, 1, 2, 0), Inst("JAL", 1, 2, 0, 1)}

MCConfigs == {[capacity |-> 3, program |-> Arithmetic],
              [capacity |-> 2, program |-> Arithmetic \cup Control]}

(* A jump in a buffer where an instruction can wait for one behind the jump. *)
JumpConfigs == {[capacity |-> 3, program |-> {Inst("MUL", 1, 1, 1, 0), Inst("ADDI", 2, 1, 0, 1),
                                              Inst("JAL", 2, 0, 0, 1)}]}

(* A branch whose bits 11 to 7, part of its offset, name a register. *)
BranchConfigs == {[capacity |-> 2, program |-> Arithmetic \cup {Inst("BEQ", 1, 1, 2, 0)}]}
=============================================================================
