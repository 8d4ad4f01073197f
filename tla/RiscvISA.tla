------------------------------ MODULE RiscvISA ------------------------------
(***************************************************************************)
(* The instructions the pipelines of the Proteus core are checked with:    *)
(* one of each kind the scheduling code tells apart.  ADDI stands for the  *)
(* operations of IntAlu, MUL for those of MulDiv, BEQ and JAL for those of *)
(* BranchUnit, LW and SW for those of Lsu (MISALIGNED for one that traps), *)
(* CSRRW for the swap of a register with mscratch, ILLEGAL for an encoding *)
(* no plugin decodes.  Result and TakesJump are what the execution units   *)
(* compute; Execute is what an instruction does to the registers when      *)
(* instructions run one at a time.                                         *)
(***************************************************************************)
EXTENDS Naturals

CONSTANTS
    NumRegs,  \* general purpose registers, x0 included
    Values    \* number of register values; arithmetic wraps around

ASSUME ISAAssumption == NumRegs \in Nat \ {0} /\ Values \in Nat \ {0}

Reg == 0 .. NumRegs - 1
Value == 0 .. Values - 1

(* imm is an immediate: the target of a jump.  rs1, rs2 and rd are bits of
   the word whatever the instruction does with them. *)
Instruction == [op : {"ADDI", "MUL", "BEQ", "JAL", "LW", "SW", "MISALIGNED",
                      "CSRRW", "ECALL", "MRET", "ILLEGAL"},
                rd : Reg, rs1 : Reg, rs2 : Reg, imm : Nat]

Inst(op, rd, rs1, rs2, imm) ==
    [op |-> op, rd |-> rd, rs1 |-> rs1, rs2 |-> rs2, imm |-> imm]

(* RS1_TYPE, RS2_TYPE and RD_TYPE are GPR. *)
UsesRs1(i) == i.op \notin {"JAL", "ILLEGAL"}
UsesRs2(i) == i.op \in {"MUL", "BEQ", "SW"}
WritesRd(i) == i.op \notin {"BEQ", "SW", "ILLEGAL"}

ReadReg(regs, r) == IF r = 0 THEN 0 ELSE regs[r]

WriteReg(regs, r, v) == IF r = 0 THEN regs ELSE [regs EXCEPT ![r] = v]

(* What the execute stage computes from the data of the two operands, and
   from NEXT_PC. *)
Result(i, a, b, nextPc) ==
    CASE i.op = "ADDI" -> (a + i.imm) % Values
      [] i.op = "MUL" -> (a * b) % Values
      [] i.op = "JAL" -> nextPc % Values
      [] OTHER -> 0

TakesJump(i, a, b) == i.op = "JAL" \/ (i.op = "BEQ" /\ a = b)

Jumps(i, regs) == TakesJump(i, ReadReg(regs, i.rs1), ReadReg(regs, i.rs2))

(* The registers after i; word and csr are the contents of the memory word
   and of mscratch it reads. *)
Execute(i, regs, nextPc, word, csr) ==
    LET a == ReadReg(regs, i.rs1)
        b == ReadReg(regs, i.rs2)
    IN  IF ~WritesRd(i) THEN regs
        ELSE WriteReg(regs, i.rd, CASE i.op = "LW" -> word
                                    [] i.op = "CSRRW" -> csr
                                    [] OTHER -> Result(i, a, b, nextPc))

(* The same contents of x1 and up; x0 reads as zero whatever it holds. *)
SameRegs(r1, r2) == \A r \in Reg \ {0} : r1[r] = r2[r]
=============================================================================
