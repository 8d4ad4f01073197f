-------------------------- MODULE MCInstructionBus --------------------------
(* An instance of InstructionBus for TLC. *)
EXTENDS InstructionBus
=============================================================================
