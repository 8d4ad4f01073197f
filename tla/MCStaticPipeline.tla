-------------------------- MODULE MCStaticPipeline --------------------------
(* Small programs for the in-order pipeline, each a set of instructions in
   any order and number: data hazards and stores, branches around loads with
   interrupts, every source of a trap with interrupts, CSR swaps. *)
EXTENDS StaticPipeline

Config(program, interrupts) == [program |-> program, interrupts |-> interrupts]

DataHazards == {Inst("ADDI", 2, 1, 0, 1), Inst("MUL", 1, 1, 2, 0),
                Inst("LW", 1, 0, 0, 0), Inst("SW", 0, 0, 1, 0)}

BranchOnLoad == {Inst("BEQ", 0, 1, 0, 1), Inst("LW", 1, 0, 0, 0), Inst("MRET", 0, 0, 0, 0)}

Traps == {Inst("BEQ", 0, 1, 0, 1), Inst("JAL", 1, 0, 0, 2), Inst("ECALL", 0, 0, 0, 0),
          Inst("ILLEGAL", 0, 0, 0, 0), Inst("MISALIGNED", 1, 0, 0, 0)}

Swaps == {Inst("CSRRW", 1, 2, 0, 0), Inst("ADDI", 2, 1, 0, 1), Inst("BEQ", 0, 1, 2, 1)}

MCConfigs == {Config(DataHazards, FALSE), Config(BranchOnLoad, TRUE),
              Config(Traps, TRUE), Config(Swaps, FALSE)}

(* A store of what a CSR instruction swapped out. *)
SwapThenStore == {Config({Inst("CSRRW", 1, 1, 0, 0), Inst("SW", 0, 0, 1, 0),
                          Inst("ADDI", 1, 1, 0, 1)}, FALSE)}

(* A CSR instruction and interrupts. *)
SwapInterrupted == {Config({Inst("CSRRW", 1, 1, 0, 0), Inst("ADDI", 1, 1, 0, 1),
                            Inst("MRET", 0, 0, 0, 0)}, TRUE)}
=============================================================================
