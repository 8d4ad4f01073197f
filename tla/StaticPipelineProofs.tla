------------------------ MODULE StaticPipelineProofs ------------------------
(***************************************************************************)
(* Theorems about StaticPipeline: every instruction that retires is the    *)
(* next one of the program and computes from the registers, the memory and *)
(* the CSR that the ones before it left, and no stage waits without a      *)
(* cause, for every number of registers, values and addresses, whatever    *)
(* the latency of multiplier and memory.  Stores are in order and traps    *)
(* precise in programs that do not mix swaps with stores, or swaps and     *)
(* stores with interrupts.                                                 *)
(***************************************************************************)
EXTENDS StaticPipeline, TLAPS

-----------------------------------------------------------------------------
(* What two of the theorems ask of the programs.                           *)

(* No program has both CSR swaps and stores. *)
NoSwapBeforeStore ==
    \A c \in Configs : \A i, j \in c.program : ~ (i.op = "CSRRW" /\ j.op = "SW")

(* A program that is interrupted has neither. *)
NothingToRepeat ==
    \A c \in Configs : c.interrupts = TRUE => \A i \in c.program : i.op \notin {"CSRRW", "SW"}

-----------------------------------------------------------------------------
(* The inductive invariant.  In the names of bound variables w, m, x and d *)
(* are what the stages WB, MEM, EX and ID hold, g is the register file, l  *)
(* the register lastWrittenRd.                                             *)

Program == config.program \cup {NOP}

StageRecord ==
    [isValid : BOOLEAN, pc : Pc, ir : Program, rs1 : Value, rs2 : Value,
     rdValid : BOOLEAN, rdData : Value, trapped : BOOLEAN]

Request == {NoRequest, ReadAt(0)} \cup {WriteAt(0, v) : v \in Value}

Types ==
    /\ config \in Configs
    /\ pc \in Pc /\ archPc \in Pc
    /\ pipe \in [Stage -> StageRecord]
    /\ lastWrittenRd \in [id : Reg, valid : BOOLEAN, data : Value]
    /\ registers \in [Reg -> Value]
    /\ csr \in [mscratch : Value, mepc : Pc, mie : BOOLEAN, mpie : BOOLEAN]
    /\ mip \in BOOLEAN
    /\ currentCmd \in [valid : BOOLEAN, ready : BOOLEAN, cmd : Request]
    /\ memory \in Value /\ answer \in Value \cup {NoAnswer}
    /\ step \in 0 .. MulSteps - 1 /\ waited \in 0 .. BusWait

(* The instruction in x writes register r. *)
Writer(x, r) == r # 0 /\ x.isValid /\ WritesRd(x.ir) /\ x.ir.rd = r

(* The value of r as MEM and EX should see it, and whether it is known yet. *)
Seen1(w, g, r) == IF Writer(w, r) THEN w.rdData ELSE ReadReg(g, r)
Seen2(m, w, g, r) == IF Writer(m, r) THEN m.rdData ELSE Seen1(w, g, r)

Known1(w, r) == Writer(w, r) => w.rdValid
Known2(m, w, r) == Known1(w, r) /\ (Writer(m, r) => m.rdValid)

(* The value v that a stage has of r will do if no later stage writes r. *)
Kept(g, l, r, v) ==
    /\ r = 0 => v = 0
    /\ r # 0 => v = g[r] \/ (l.valid /\ l.id = r)

OperandOK(g, l, r, v, free) == (r = 0 => v = 0) /\ (free => Kept(g, l, r, v))

OperandsWB(w, g, l) ==
    w.isValid => /\ UsesRs1(w.ir) => Kept(g, l, w.ir.rs1, w.rs1)
                 /\ UsesRs2(w.ir) => Kept(g, l, w.ir.rs2, w.rs2)

OperandsMEM(m, w, g, l) ==
    m.isValid =>
      /\ UsesRs1(m.ir) => OperandOK(g, l, m.ir.rs1, m.rs1, ~ Writer(w, m.ir.rs1))
      /\ UsesRs2(m.ir) => OperandOK(g, l, m.ir.rs2, m.rs2, ~ Writer(w, m.ir.rs2))

OperandsEX(x, m, w, g, l) ==
    x.isValid =>
      /\ UsesRs1(x.ir) =>
           OperandOK(g, l, x.ir.rs1, x.rs1, ~ Writer(m, x.ir.rs1) /\ ~ Writer(w, x.ir.rs1))
      /\ UsesRs2(x.ir) =>
           OperandOK(g, l, x.ir.rs2, x.rs2, ~ Writer(m, x.ir.rs2) /\ ~ Writer(w, x.ir.rs2))

LastOK(g, l) == l.valid /\ l.id # 0 => l.data = g[l.id]

(* What the instruction in y has computed from a and b. *)
Produces(y) == y.ir.op \in {"ADDI", "MUL", "JAL"}

Computed(y, a, b) ==
    Produces(y) => y.rdValid /\ y.rdData = Result(y.ir, a, b, nextPc(y.pc))

ResultsMEM(m, w, g) ==
    m.isValid =>
      /\ Computed(m, Seen1(w, g, m.ir.rs1), Seen1(w, g, m.ir.rs2))
      /\ ~ Produces(m) => ~ m.rdValid /\ m.rdData = 0
      /\ UsesRs1(m.ir) => Known1(w, m.ir.rs1)
      /\ UsesRs2(m.ir) /\ m.ir.op # "SW" => Known1(w, m.ir.rs2)

ResultsWB(w, g, word) ==
    w.isValid =>
      /\ Computed(w, ReadReg(g, w.ir.rs1), ReadReg(g, w.ir.rs2))
      /\ w.ir.op = "LW" => w.rdValid /\ w.rdData = word
      /\ ~ Produces(w) /\ w.ir.op # "LW" => ~ w.rdValid /\ w.rdData = 0

(* Who has trapped, and since when. *)
Trapping == {"ILLEGAL", "ECALL", "MISALIGNED"}

TrapsOK ==
    /\ ~ pipe[ID].trapped
    /\ pipe[EX].isValid => (pipe[EX].trapped <=> op(EX) = "ILLEGAL")
    /\ pipe[MEM].isValid => (pipe[MEM].trapped <=> op(MEM) \in {"ILLEGAL", "ECALL"})
    /\ pipe[WB].isValid => (pipe[WB].trapped <=> op(WB) \in Trapping)
    /\ mip => config.interrupts = TRUE

(* The path of the program: where the instruction after the one in y should
   be, if y reads a and b.  Behind one that is bound to be flushed from WB it
   may be anywhere. *)
Goes(y, a, b) == IF TakesJump(y.ir, a, b) THEN y.ir.imm ELSE nextPc(y.pc)

Stops(y) == y.ir.op \in Trapping \cup {"MRET"}

Anywhere == NumPcs

Along(y, e, n) == IF ~ y.isValid THEN e ELSE IF Stops(y) THEN Anywhere ELSE n

PathMEM(w, g, a) ==
    Along(w, a, Goes(w, ReadReg(g, w.ir.rs1), ReadReg(g, w.ir.rs2)))
PathEX(m, w, g, e) ==
    Along(m, e, Goes(m, Seen1(w, g, m.ir.rs1), Seen1(w, g, m.ir.rs2)))
Path(y, e) == Along(y, e, nextPc(y.pc))

On(y, e) == y.isValid => e = Anywhere \/ y.pc = e

PathOK(w, m, x, d, g, a, p) ==
    LET atMEM == PathMEM(w, g, a)
        atEX == PathEX(m, w, g, atMEM)
        atID == Path(x, atEX)
        atIF == Path(d, atID)
    IN  /\ w.isValid => w.pc = a
        /\ On(m, atMEM) /\ On(x, atEX) /\ On(d, atID)
        /\ atIF = Anywhere \/ p = atIF

(* The bus works for the instruction in MEM and for no other. *)
BusOK ==
    \/ currentCmd = NoCmd /\ answer = NoAnswer
    \/ /\ pipe[MEM].isValid /\ ~ pipe[WB].isValid /\ op(MEM) = "LW" /\ currentCmd.cmd = ReadAt(0)
       /\ \/ currentCmd.valid /\ ~ currentCmd.ready /\ answer = NoAnswer
          \/ ~ currentCmd.valid /\ currentCmd.ready /\ answer = memory
    \/ /\ pipe[MEM].isValid /\ ~ pipe[WB].isValid /\ op(MEM) = "SW"
       /\ \E v \in Value : currentCmd.cmd = WriteAt(0, v)
       /\ currentCmd.valid /\ ~ currentCmd.ready /\ answer = NoAnswer

SInv ==
    /\ Types /\ TrapsOK /\ BusOK
    /\ LastOK(registers, lastWrittenRd)
    /\ OperandsWB(pipe[WB], registers, lastWrittenRd)
    /\ OperandsMEM(pipe[MEM], pipe[WB], registers, lastWrittenRd)
    /\ OperandsEX(pipe[EX], pipe[MEM], pipe[WB], registers, lastWrittenRd)
    /\ ResultsMEM(pipe[MEM], pipe[WB], registers)
    /\ ResultsWB(pipe[WB], registers, memory)
    /\ PathOK(pipe[WB], pipe[MEM], pipe[EX], pipe[ID], registers, archPc, pc)

(* In addition, in programs without swaps: the value a store in MEM asks the
   bus to write, and the one that a store in WB has written. *)
StoresOK ==
    /\ pipe[WB].isValid /\ op(WB) = "SW" => memory = ReadReg(registers, pipe[WB].ir.rs2)
    /\ pipe[MEM].isValid /\ op(MEM) = "SW" /\ currentCmd # NoCmd =>
         currentCmd.cmd.wdata = ReadReg(registers, pipe[MEM].ir.rs2)

-----------------------------------------------------------------------------
(* Types of what a stage holds.                                            *)

LEMMA PcFacts ==
  /\ 0 \in Pc /\ Vector \in Pc /\ NumPcs \notin Pc /\ NumPcs \in Nat
  /\ \A p \in Pc : nextPc(p) \in Pc
  BY StaticAssumption DEF Pc, nextPc

LEMMA ValueFacts ==
  /\ 0 \in Value /\ Values \notin Value /\ Values \in Nat \ {0} /\ 0 \in Reg
  /\ \A a \in Nat : a % Values \in Value
  BY ISAAssumption DEF Value, Reg

LEMMA StageFacts ==
  /\ Stage = {ID, EX, MEM, WB} /\ ID = 2 /\ EX = 3 /\ MEM = 4 /\ WB = 5
  BY DEF Stage, ID, EX, MEM, WB

LEMMA InstructionFacts ==
  ASSUME config \in Configs, NEW i \in Program
  PROVE  /\ i \in Instruction /\ i.imm \in Pc /\ i.rd \in Reg /\ i.rs1 \in Reg /\ i.rs2 \in Reg
         /\ i.imm \in Nat
  <1>1. NOP \in Instruction /\ NOP.imm = 0
    BY ValueFacts DEF NOP, Inst, Instruction
  <1>2. i \in Instruction /\ i.imm \in Pc
    BY <1>1, StaticAssumption, PcFacts DEF Program
  <1> QED BY <1>2 DEF Instruction

LEMMA BubbleType == Bubble \in StageRecord /\ ~ Bubble.isValid /\ ~ Bubble.trapped
  <1>1. NOP \in Program
    BY DEF Program
  <1> QED BY <1>1, PcFacts, ValueFacts DEF Bubble, StageRecord

LEMMA ResultType ==
  ASSUME NEW i \in Instruction, NEW a \in Value, NEW b \in Value, NEW p \in Nat
  PROVE  Result(i, a, b, p) \in Value
  <1>1. i.imm \in Nat /\ a \in Nat /\ b \in Nat
    BY DEF Instruction, Value
  <1>2. a + i.imm \in Nat /\ a * b \in Nat /\ p \in Nat
    BY <1>1
  <1> QED BY <1>2, ValueFacts DEF Result

LEMMA ResultSame ==
  ASSUME NEW i, NEW a, NEW b, NEW a2, NEW b2, NEW p,
         UsesRs1(i) => a = a2, UsesRs2(i) => b = b2, i.op \in {"ADDI", "MUL", "JAL"}
  PROVE  Result(i, a, b, p) = Result(i, a2, b2, p)
  BY DEF Result, UsesRs1, UsesRs2

LEMMA GoesSame ==
  ASSUME NEW y, NEW a, NEW b, NEW a2, NEW b2, y.ir.op = "BEQ" => a = a2 /\ b = b2
  PROVE  Goes(y, a, b) = Goes(y, a2, b2)
  BY DEF Goes, TakesJump

LEMMA PipeTypes ==
  ASSUME Types
  PROVE  /\ pipe[ID] \in StageRecord /\ pipe[EX] \in StageRecord
         /\ pipe[MEM] \in StageRecord /\ pipe[WB] \in StageRecord
         /\ \A s \in Stage :
              /\ pipe[s] \in StageRecord /\ pipe[s].ir \in Instruction /\ pipe[s].pc \in Pc
              /\ pipe[s].ir.imm \in Pc /\ pipe[s].ir.rd \in Reg /\ pipe[s].ir.rs1 \in Reg
              /\ pipe[s].ir.rs2 \in Reg /\ pipe[s].ir \in Program
              /\ pipe[s].rs1 \in Value /\ pipe[s].rs2 \in Value /\ pipe[s].rdData \in Value
  <1>1. \A s \in Stage : pipe[s] \in StageRecord
    BY DEF Types
  <1>2. \A s \in Stage : /\ pipe[s].ir \in Program /\ pipe[s].rs1 \in Value /\ pipe[s].rs2 \in Value
                         /\ pipe[s].rdData \in Value /\ pipe[s].pc \in Pc
    BY <1>1 DEF StageRecord
  <1>3. \A s \in Stage : /\ pipe[s].ir \in Instruction /\ pipe[s].ir.imm \in Pc
                         /\ pipe[s].ir.rd \in Reg /\ pipe[s].ir.rs1 \in Reg /\ pipe[s].ir.rs2 \in Reg
    BY <1>2, InstructionFacts DEF Types
  <1> QED BY <1>1, <1>2, <1>3, StageFacts

-----------------------------------------------------------------------------
(* How the stages move.                                                    *)

(* A jump in WB empties the pipeline. *)
LEMMA MoveJump ==
  ASSUME Types, jumpsInWB, NEW in
  PROVE  /\ PipeNext(in)[ID] = Bubble /\ PipeNext(in)[EX] = Bubble
         /\ PipeNext(in)[MEM] = Bubble /\ PipeNext(in)[WB] = Bubble
         /\ request = NoRequest
  <1>1. ~ isValid(ID) /\ ~ isValid(EX) /\ ~ isValid(MEM)
    BY StageFacts DEF isValid
  <1>2. isValid(WB)
    BY StageFacts DEF isValid, jumpsInWB
  <1>3. ~ isValidID(in) /\ ~ isValidIF(in)
    BY <1>1 DEF isValidID, isValidIF
  <1>4. /\ ~ isDone(1, in) /\ ~ isDone(ID, in) /\ ~ isDone(EX, in) /\ ~ isDone(MEM, in)
        /\ isDone(WB, in)
    BY <1>1, <1>2, <1>3, StageFacts DEF isDone
  <1>5. ~ isValidNow(ID, in) /\ ~ isValidNow(EX, in) /\ ~ isValidNow(MEM, in)
    BY <1>1, <1>3, StageFacts DEF isValidNow
  <1>6. request = NoRequest
    BY <1>1 DEF request
  <1> QED BY <1>4, <1>5, <1>6, StageFacts DEF PipeNext

(* Without one, a trapped instruction in MEM empties the stages before it. *)
LEMMA ValidStages ==
  ASSUME Types, TrapsOK, ~ jumpsInWB, NEW in
  PROVE  /\ isValid(WB) <=> pipe[WB].isValid
         /\ isValid(MEM) <=> pipe[MEM].isValid
         /\ isValid(EX) <=> pipe[EX].isValid /\ ~ (pipe[MEM].isValid /\ op(MEM) \in Trapping)
         /\ isValid(ID) <=> pipe[ID].isValid /\ ~ (pipe[MEM].isValid /\ op(MEM) \in Trapping)
         /\ pipe[MEM].isValid => (hasTrapped(MEM) <=> op(MEM) \in Trapping)
         /\ pipe[EX].isValid => (hasTrapped(EX) <=> op(EX) \in {"ILLEGAL", "ECALL"})
         /\ hasTrapped(ID) <=> op(ID) = "ILLEGAL"
         /\ pipe[WB].isValid => ~ hasTrapped(WB) /\ op(WB) \notin Trapping \cup {"MRET"}
  <1>1. pipe[MEM].isValid => (hasTrapped(MEM) <=> op(MEM) \in Trapping)
    BY StageFacts DEF hasTrapped, TrapsOK, Trapping
  <1>2. pipe[EX].isValid => (hasTrapped(EX) <=> op(EX) \in {"ILLEGAL", "ECALL"})
    BY StageFacts DEF hasTrapped, TrapsOK
  <1>3. hasTrapped(ID) <=> op(ID) = "ILLEGAL"
    BY StageFacts DEF hasTrapped, TrapsOK
  <1>4. pipe[WB].isValid => ~ hasTrapped(WB) /\ op(WB) # "MRET"
    BY DEF jumpsInWB
  <1>5. pipe[WB].isValid => op(WB) \notin Trapping
    BY <1>4 DEF hasTrapped, TrapsOK
  <1>6. /\ isValid(WB) <=> pipe[WB].isValid
        /\ isValid(MEM) <=> pipe[MEM].isValid
        /\ isValid(EX) <=> pipe[EX].isValid /\ ~ (pipe[MEM].isValid /\ hasTrapped(MEM))
        /\ isValid(ID) <=> pipe[ID].isValid /\ ~ (pipe[MEM].isValid /\ hasTrapped(MEM))
    BY StageFacts DEF isValid
  <1> QED BY <1>1, <1>2, <1>3, <1>4, <1>5, <1>6

(* The lines that hold MEM back. *)
LEMMA MemoryStage ==
  ASSUME Types, TrapsOK, ~ jumpsInWB, NEW in
  PROVE  /\ pipe[MEM].isValid /\ op(MEM) = "LW" => request = ReadAt(0)
         /\ pipe[MEM].isValid /\ op(MEM) = "SW" => request = WriteAt(0, rs2Data(MEM))
         /\ ~ pipe[MEM].isValid \/ op(MEM) \notin {"LW", "SW"} => request = NoRequest
         /\ request = NoRequest => isReady(MEM, in) /\ ~ hazard(MEM)
         /\ op(MEM) = "LW" => ~ hazard(MEM)
  <1>1. isValid(MEM) <=> pipe[MEM].isValid
    BY ValidStages
  <1>2. /\ pipe[MEM].isValid /\ op(MEM) = "LW" => request = ReadAt(0)
        /\ pipe[MEM].isValid /\ op(MEM) = "SW" => request = WriteAt(0, rs2Data(MEM))
        /\ ~ pipe[MEM].isValid \/ op(MEM) \notin {"LW", "SW"} => request = NoRequest
    BY <1>1 DEF request
  <1>3. request = NoRequest => isReady(MEM, in)
    BY StageFacts DEF isReady, NoRequest
  <1>4. request = NoRequest => ~ pipe[MEM].isValid \/ op(MEM) \notin {"LW", "SW"}
    BY <1>2 DEF NoRequest, ReadAt, WriteAt
  <1>5. ~ rs1Needed(MEM) /\ (rs2Needed(MEM) => op(MEM) = "SW")
    BY StageFacts DEF rs1Needed, rs2Needed
  <1>6. hazard(MEM) => isValid(MEM) /\ op(MEM) = "SW"
    BY <1>5 DEF hazard
  <1> QED BY <1>1, <1>2, <1>3, <1>4, <1>6

(* MEM has to wait, and with it EX, ID and IF. *)
LEMMA MoveHeldMEM ==
  ASSUME Types, TrapsOK, ~ jumpsInWB, NEW in, pipe[MEM].isValid, ~ isDone(MEM, in)
  PROVE  /\ PipeNext(in)[WB] = Bubble /\ PipeNext(in)[MEM] = Held(MEM)
         /\ PipeNext(in)[EX] = (IF pipe[EX].isValid THEN Held(EX) ELSE Bubble)
         /\ PipeNext(in)[ID] = (IF pipe[ID].isValid /\ ~ (pipe[EX].isValid /\ hasTrapped(EX))
                                THEN pipe[ID] ELSE Bubble)
         /\ PcNext(in) = pc /\ op(MEM) \in {"LW", "SW"}
         /\ isValid(EX) <=> pipe[EX].isValid
  <1>1. op(MEM) \in {"LW", "SW"}
    BY MemoryStage, ValidStages, StageFacts DEF isDone, isStalledMEM
  <1>2. isStalledEX(in)
    BY ValidStages, StageFacts DEF isDone, isStalledEX
  <1>3. isStalledID(in) /\ ~ jumpsInEX(in)
    BY <1>2 DEF isStalledID, jumpsInEX
  <1>4. /\ isValid(EX) <=> pipe[EX].isValid
        /\ isValid(ID) <=> pipe[ID].isValid
    BY <1>1, ValidStages DEF Trapping
  <1>5. isValidID(in) <=> pipe[ID].isValid /\ ~ (pipe[EX].isValid /\ hasTrapped(EX))
    BY <1>3, <1>4 DEF isValidID
  <1>6. ~ isDone(1, in) /\ ~ isDone(ID, in) /\ ~ isDone(EX, in)
    BY <1>2, <1>3, StageFacts DEF isDone
  <1>7. isDone(WB, in) \/ ~ isValidNow(WB, in)
    BY StageFacts DEF isDone, isValidNow
  <1>8. /\ isValidNow(MEM, in) /\ (isValidNow(EX, in) <=> pipe[EX].isValid)
        /\ isValidNow(ID, in) <=> isValidID(in)
    BY <1>4, ValidStages, StageFacts DEF isValidNow
  <1>9. Held(ID) = pipe[ID]
    BY DEF Held
  <1>10. PcNext(in) = pc
    BY <1>3, <1>6, StageFacts DEF PcNext
  <1> QED BY <1>1, <1>4, <1>5, <1>6, <1>7, <1>8, <1>9, <1>10, StageFacts DEF PipeNext

(* MEM moves and EX has to wait, and with it ID and IF. *)
LEMMA MoveHeldEX ==
  ASSUME Types, TrapsOK, ~ jumpsInWB, NEW in, pipe[MEM].isValid => isDone(MEM, in),
         isValid(EX), ~ isDone(EX, in)
  PROVE  /\ PipeNext(in)[WB] = (IF pipe[MEM].isValid THEN OutputMEM ELSE Bubble)
         /\ PipeNext(in)[MEM] = Bubble /\ PipeNext(in)[EX] = Held(EX)
         /\ PipeNext(in)[ID] = (IF pipe[ID].isValid /\ ~ hasTrapped(EX)
                                THEN pipe[ID] ELSE Bubble)
         /\ PcNext(in) = pc /\ pipe[EX].isValid
         /\ ~ (pipe[MEM].isValid /\ op(MEM) \in Trapping)
  <1>1. pipe[EX].isValid /\ ~ (pipe[MEM].isValid /\ op(MEM) \in Trapping)
    BY ValidStages
  <1>2. isStalledID(in)
    BY StageFacts DEF isDone, isStalledID
  <1>3. ~ jumpsInEX(in)
    <2>1. isStalledEX(in) \/ op(EX) = "MUL"
      BY StageFacts DEF isDone, isReady
    <2> QED BY <2>1 DEF jumpsInEX, TakesJump, op
  <1>4. isValid(ID) <=> pipe[ID].isValid
    BY <1>1, ValidStages
  <1>5. isValidID(in) <=> pipe[ID].isValid /\ ~ hasTrapped(EX)
    BY <1>3, <1>4 DEF isValidID
  <1>6. ~ isDone(1, in) /\ ~ isDone(ID, in)
    BY <1>2, StageFacts DEF isDone
  <1>7. isDone(WB, in) \/ ~ isValidNow(WB, in)
    BY StageFacts DEF isDone, isValidNow
  <1>8. /\ isDone(MEM, in) \/ ~ isValidNow(MEM, in)
        /\ isDone(MEM, in) <=> pipe[MEM].isValid
        /\ isValidNow(EX, in)
        /\ isValidNow(ID, in) <=> isValidID(in)
    BY ValidStages, StageFacts DEF isValidNow, isDone
  <1>9. Held(ID) = pipe[ID] /\ Output(MEM, in) = OutputMEM
    BY StageFacts DEF Held, Output
  <1>10. PcNext(in) = pc
    BY <1>3, <1>6, StageFacts DEF PcNext
  <1> QED BY <1>1, <1>5, <1>6, <1>7, <1>8, <1>9, <1>10, StageFacts DEF PipeNext

(* All stages move. *)
LEMMA MoveAll ==
  ASSUME Types, TrapsOK, ~ jumpsInWB, NEW in, pipe[MEM].isValid => isDone(MEM, in),
         isValid(EX) => isDone(EX, in)
  PROVE  /\ PipeNext(in)[WB] = (IF pipe[MEM].isValid THEN OutputMEM ELSE Bubble)
         /\ PipeNext(in)[MEM] = (IF isValid(EX) THEN OutputEX ELSE Bubble)
         /\ PipeNext(in)[EX] = (IF isValidID(in) THEN OutputID ELSE Bubble)
         /\ PipeNext(in)[ID] = (IF isDone(1, in) THEN OutputIF(in) ELSE Bubble)
         /\ PcNext(in) = (IF jumpsInEX(in) THEN pipe[EX].ir.imm
                          ELSE IF isDone(1, in) THEN nextPc(pc) ELSE pc)
         /\ isDone(1, in) => isValidIF(in)
         /\ jumpsInEX(in) <=> isValid(EX) /\ TakesJump(pipe[EX].ir, rs1Data(EX), rs2Data(EX))
         /\ isValid(EX) => ~ hazard(EX)
  <1>1. ~ isStalledID(in)
    BY ValidStages, StageFacts DEF isDone, isStalledID, isStalledEX, hazard, isStalledMEM
  <1>2. ~ isStalledEX(in)
    BY <1>1 DEF isStalledID
  <1>3. jumpsInEX(in) <=> isValid(EX) /\ TakesJump(pipe[EX].ir, rs1Data(EX), rs2Data(EX))
    BY <1>2 DEF jumpsInEX
  <1>4. isDone(ID, in) <=> isValidID(in)
    BY <1>1, StageFacts DEF isDone
  <1>5. isDone(1, in) => isValidIF(in)
    BY StageFacts DEF isDone
  <1>6. isDone(EX, in) <=> isValid(EX)
    BY StageFacts DEF isDone
  <1>7. isDone(WB, in) \/ ~ isValidNow(WB, in)
    BY StageFacts DEF isDone, isValidNow
  <1>8. /\ isDone(MEM, in) \/ ~ isValidNow(MEM, in)
        /\ isDone(MEM, in) <=> pipe[MEM].isValid
        /\ isDone(EX, in) \/ ~ isValidNow(EX, in)
        /\ isDone(ID, in) \/ ~ isValidNow(ID, in)
    BY <1>4, <1>6, ValidStages, StageFacts DEF isValidNow, isDone
  <1>9. /\ Output(MEM, in) = OutputMEM /\ Output(EX, in) = OutputEX
        /\ Output(ID, in) = OutputID /\ Output(1, in) = OutputIF(in)
    BY StageFacts DEF Output
  <1>10. PcNext(in) = (IF jumpsInEX(in) THEN pipe[EX].ir.imm
                       ELSE IF isDone(1, in) THEN nextPc(pc) ELSE pc)
    BY StageFacts DEF PcNext
  <1>11. isValid(EX) => ~ hazard(EX)
    BY <1>2 DEF isStalledEX
  <1> QED BY <1>3, <1>4, <1>5, <1>6, <1>7, <1>8, <1>9, <1>10, <1>11, StageFacts DEF PipeNext

-----------------------------------------------------------------------------
(* What is forwarded.                                                      *)

LEMMA ProducersEX ==
  ASSUME Types, TrapsOK, ~ jumpsInWB, isValid(EX), NEW r, r # 0
  PROVE  /\ MEM \in Producers(EX, r) <=> Writer(pipe[MEM], r)
         /\ WB \in Producers(EX, r) <=> Writer(pipe[WB], r)
         /\ Producers(EX, r) \subseteq {MEM, WB}
  <1>1. \A t \in {MEM, WB} :
          t \in Producers(EX, r) <=> /\ isValid(t) /\ ~hasTrapped(t)
                                     /\ WritesRd(pipe[t].ir) /\ pipe[t].ir.rd = r
    BY StageFacts DEF Producers
  <1>2. Producers(EX, r) \subseteq {MEM, WB}
    BY StageFacts DEF Producers
  <1> QED BY <1>1, <1>2, ValidStages DEF Writer

LEMMA ProducersMEM ==
  ASSUME Types, TrapsOK, ~ jumpsInWB, NEW r, r # 0
  PROVE  /\ WB \in Producers(MEM, r) <=> Writer(pipe[WB], r)
         /\ Producers(MEM, r) \subseteq {WB}
  <1>1. WB \in Producers(MEM, r) <=> /\ isValid(WB) /\ ~hasTrapped(WB)
                                     /\ WritesRd(pipe[WB].ir) /\ pipe[WB].ir.rd = r
    BY StageFacts DEF Producers
  <1>2. Producers(MEM, r) \subseteq {WB}
    BY StageFacts DEF Producers
  <1> QED BY <1>1, <1>2, ValidStages DEF Writer

LEMMA ProducersWB ==
  ASSUME NEW r
  PROVE  Producers(WB, r) = {}
  BY StageFacts DEF Producers

(* The values are in range, whoever they come from. *)
LEMMA ForwardType ==
  ASSUME Types, NEW s, Producers(s, pipe[s].ir.rs1) \subseteq Stage,
         Producers(s, pipe[s].ir.rs2) \subseteq Stage,
         pipe[s].rs1 \in Value, pipe[s].rs2 \in Value
  PROVE  rs1Data(s) \in Value /\ rs2Data(s) \in Value
  <1>1. ASSUME NEW r, NEW used, NEW needed, Producers(s, r) \subseteq Stage
        PROVE  forward(s, r, used, needed) \in Value \cup {NotForwarded}
    <2> DEFINE found == {t \in Producers(s, r) : pipe[t].rdValid \/ needed}
               t == CHOOSE t \in found : \A u \in found : t <= u
    <2>1. lastWrittenRd.data \in Value
      BY DEF Types
    <2>2. found # {} => t \in Stage
      <3>1. ASSUME found # {} PROVE \E i \in found : \A u \in found : i <= u
        <4>1. \A i \in found : i = 2 \/ i = 3 \/ i = 4 \/ i = 5
          BY <1>1, StageFacts
        <4> HIDE DEF found
        <4> QED BY <3>1, <4>1
      <3> QED BY <3>1, <1>1
    <2>3. found # {} => pipe[t].rdData \in Value
      BY <2>2, PipeTypes
    <2>4. forward(s, r, used, needed)
            = CASE r = 0 \/ ~used -> NotForwarded
                [] r # 0 /\ used /\ found # {} ->
                     IF pipe[t].rdValid THEN pipe[t].rdData ELSE NotForwarded
                [] OTHER -> IF lastWrittenRd.valid /\ lastWrittenRd.id = r
                            THEN lastWrittenRd.data ELSE NotForwarded
      BY DEF forward
    <2> HIDE DEF found, t
    <2> QED BY <2>1, <2>3, <2>4
  <1>2. /\ rs1Forward(s) \in Value \cup {NotForwarded}
        /\ rs2Forward(s) \in Value \cup {NotForwarded}
    BY <1>1 DEF rs1Forward, rs2Forward
  <1> QED BY <1>2 DEF rs1Data, rs2Data

(* No later stage writes r: the last value written, or the one held. *)
LEMMA FreeRs1 ==
  ASSUME Types, LastOK(registers, lastWrittenRd), NEW s, NEW r \in Reg, r = pipe[s].ir.rs1,
         UsesRs1(pipe[s].ir), r # 0 => Producers(s, r) = {},
         Kept(registers, lastWrittenRd, r, pipe[s].rs1)
  PROVE  rs1Data(s) = ReadReg(registers, r)
  <1>1. CASE r = 0
    <2>1. rs1Forward(s) = NotForwarded
      BY <1>1 DEF rs1Forward, forward
    <2> QED BY <1>1, <2>1 DEF rs1Data, Kept, ReadReg
  <1>2. CASE r # 0
    <2>1. rs1Forward(s) = IF lastWrittenRd.valid /\ lastWrittenRd.id = r
                           THEN lastWrittenRd.data ELSE NotForwarded
      BY <1>2 DEF rs1Forward, forward
    <2>2. lastWrittenRd.data \in Value /\ registers[r] \in Value
      BY DEF Types
    <2>3. CASE lastWrittenRd.valid /\ lastWrittenRd.id = r
      BY <1>2, <2>1, <2>2, <2>3, ValueFacts DEF LastOK, rs1Data, NotForwarded, ReadReg
    <2>4. CASE ~ (lastWrittenRd.valid /\ lastWrittenRd.id = r)
      BY <1>2, <2>1, <2>2, <2>4, ValueFacts DEF Kept, rs1Data, NotForwarded, ReadReg
    <2> QED BY <2>3, <2>4
  <1> QED BY <1>1, <1>2

LEMMA FreeRs2 ==
  ASSUME Types, LastOK(registers, lastWrittenRd), NEW s, NEW r \in Reg, r = pipe[s].ir.rs2,
         UsesRs2(pipe[s].ir), r # 0 => Producers(s, r) = {},
         Kept(registers, lastWrittenRd, r, pipe[s].rs2)
  PROVE  rs2Data(s) = ReadReg(registers, r)
  <1>1. CASE r = 0
    <2>1. rs2Forward(s) = NotForwarded
      BY <1>1 DEF rs2Forward, forward
    <2> QED BY <1>1, <2>1 DEF rs2Data, Kept, ReadReg
  <1>2. CASE r # 0
    <2>1. rs2Forward(s) = IF lastWrittenRd.valid /\ lastWrittenRd.id = r
                           THEN lastWrittenRd.data ELSE NotForwarded
      BY <1>2 DEF rs2Forward, forward
    <2>2. lastWrittenRd.data \in Value /\ registers[r] \in Value
      BY DEF Types
    <2>3. CASE lastWrittenRd.valid /\ lastWrittenRd.id = r
      BY <1>2, <2>1, <2>2, <2>3, ValueFacts DEF LastOK, rs2Data, NotForwarded, ReadReg
    <2>4. CASE ~ (lastWrittenRd.valid /\ lastWrittenRd.id = r)
      BY <1>2, <2>1, <2>2, <2>4, ValueFacts DEF Kept, rs2Data, NotForwarded, ReadReg
    <2> QED BY <2>3, <2>4
  <1> QED BY <1>1, <1>2

(* A later stage writes r, and the nearest one has the value. *)
LEMMA NearestRs1 ==
  ASSUME Types, NEW s, NEW r, r = pipe[s].ir.rs1, r # 0, UsesRs1(pipe[s].ir), rs1Needed(s),
         NEW t \in Producers(s, r), Producers(s, r) \subseteq Stage,
         \A u \in Producers(s, r) : t <= u, pipe[t].rdValid
  PROVE  rs1Data(s) = pipe[t].rdData
  <1> DEFINE found == {i \in Producers(s, r) : pipe[i].rdValid \/ rs1Needed(s)}
             c == CHOOSE i \in found : \A u \in found : i <= u
  <1>1. t \in found /\ \A u \in found : t <= u
    OBVIOUS
  <1>2. c \in found /\ \A u \in found : c <= u
    BY <1>1
  <1>3. c = t
    BY <1>1, <1>2, StageFacts
  <1>4. rs1Forward(s) = IF pipe[c].rdValid THEN pipe[c].rdData ELSE NotForwarded
    BY <1>1 DEF rs1Forward, forward
  <1>5. rs1Forward(s) = pipe[t].rdData
    <2> HIDE DEF c
    <2> QED BY <1>3, <1>4
  <1>6. pipe[t].rdData \in Value
    BY PipeTypes
  <1> QED BY <1>5, <1>6, ValueFacts DEF rs1Data, NotForwarded

LEMMA NearestRs2 ==
  ASSUME Types, NEW s, NEW r, r = pipe[s].ir.rs2, r # 0, UsesRs2(pipe[s].ir), rs2Needed(s),
         NEW t \in Producers(s, r), Producers(s, r) \subseteq Stage,
         \A u \in Producers(s, r) : t <= u, pipe[t].rdValid
  PROVE  rs2Data(s) = pipe[t].rdData
  <1> DEFINE found == {i \in Producers(s, r) : pipe[i].rdValid \/ rs2Needed(s)}
             c == CHOOSE i \in found : \A u \in found : i <= u
  <1>1. t \in found /\ \A u \in found : t <= u
    OBVIOUS
  <1>2. c \in found /\ \A u \in found : c <= u
    BY <1>1
  <1>3. c = t
    BY <1>1, <1>2, StageFacts
  <1>4. rs2Forward(s) = IF pipe[c].rdValid THEN pipe[c].rdData ELSE NotForwarded
    BY <1>1 DEF rs2Forward, forward
  <1>5. rs2Forward(s) = pipe[t].rdData
    <2> HIDE DEF c
    <2> QED BY <1>3, <1>4
  <1>6. pipe[t].rdData \in Value
    BY PipeTypes
  <1> QED BY <1>5, <1>6, ValueFacts DEF rs2Data, NotForwarded

-----------------------------------------------------------------------------
(* The operands of each stage.                                             *)

(* What is used of the invariant in a cycle without a jump in WB. *)
Runs == SInv /\ ~ jumpsInWB

LEMMA DataTypes ==
  ASSUME Types, NEW s \in {EX, MEM, WB}
  PROVE  rs1Data(s) \in Value /\ rs2Data(s) \in Value
  <1>1. \A r : Producers(s, r) \subseteq Stage
    BY StageFacts DEF Producers
  <1>2. pipe[s].rs1 \in Value /\ pipe[s].rs2 \in Value
    BY PipeTypes, StageFacts
  <1> QED BY <1>1, <1>2, ForwardType

LEMMA DataEX ==
  ASSUME Runs, isValid(EX), NEW m, NEW w, NEW i, m = pipe[MEM], w = pipe[WB], i = pipe[EX].ir
  PROVE  /\ UsesRs1(i) /\ ~ Writer(m, i.rs1) /\ ~ Writer(w, i.rs1) =>
              rs1Data(EX) = ReadReg(registers, i.rs1)
         /\ UsesRs2(i) /\ ~ Writer(m, i.rs2) /\ ~ Writer(w, i.rs2) =>
              rs2Data(EX) = ReadReg(registers, i.rs2)
         /\ UsesRs1(i) /\ i.rs1 = 0 => rs1Data(EX) = 0
         /\ UsesRs2(i) /\ i.rs2 = 0 => rs2Data(EX) = 0
  <1>1. /\ Types /\ TrapsOK /\ ~ jumpsInWB /\ LastOK(registers, lastWrittenRd)
        /\ OperandsEX(pipe[EX], m, w, registers, lastWrittenRd)
    BY DEF Runs, SInv
  <1>2. pipe[EX].isValid
    BY <1>1, ValidStages
  <1>3. i.rs1 \in Reg /\ i.rs2 \in Reg
    BY <1>1, PipeTypes, StageFacts
  <1>4. ASSUME NEW r, r # 0, ~ Writer(m, r), ~ Writer(w, r)
        PROVE  Producers(EX, r) = {}
    BY <1>1, <1>4, ProducersEX
  <1>5. ASSUME UsesRs1(i), ~ Writer(m, i.rs1), ~ Writer(w, i.rs1)
        PROVE  rs1Data(EX) = ReadReg(registers, i.rs1)
    <2>1. Kept(registers, lastWrittenRd, i.rs1, pipe[EX].rs1)
      BY <1>1, <1>2, <1>5 DEF OperandsEX, OperandOK
    <2> QED BY <1>1, <1>3, <1>4, <1>5, <2>1, FreeRs1
  <1>6. ASSUME UsesRs2(i), ~ Writer(m, i.rs2), ~ Writer(w, i.rs2)
        PROVE  rs2Data(EX) = ReadReg(registers, i.rs2)
    <2>1. Kept(registers, lastWrittenRd, i.rs2, pipe[EX].rs2)
      BY <1>1, <1>2, <1>6 DEF OperandsEX, OperandOK
    <2> QED BY <1>1, <1>3, <1>4, <1>6, <2>1, FreeRs2
  <1>7. /\ UsesRs1(i) /\ i.rs1 = 0 => rs1Data(EX) = 0
        /\ UsesRs2(i) /\ i.rs2 = 0 => rs2Data(EX) = 0
    BY <1>5, <1>6 DEF Writer, ReadReg
  <1> QED BY <1>5, <1>6, <1>7

LEMMA NeededEX ==
  ASSUME Runs, isValid(EX), ~ hazard(EX), NEW m, NEW w, NEW i,
         m = pipe[MEM], w = pipe[WB], i = pipe[EX].ir
  PROVE  /\ UsesRs1(i) => /\ rs1Data(EX) = Seen2(m, w, registers, i.rs1)
                          /\ Known2(m, w, i.rs1)
         /\ UsesRs2(i) /\ i.op # "SW" => /\ rs2Data(EX) = Seen2(m, w, registers, i.rs2)
                                         /\ Known2(m, w, i.rs2)
  <1>1. /\ Types /\ TrapsOK /\ ~ jumpsInWB
    BY DEF Runs, SInv
  <1>2. /\ UsesRs1(i) => rs1Needed(EX)
        /\ UsesRs2(i) /\ i.op # "SW" => rs2Needed(EX)
    BY StageFacts DEF rs1Needed, rs2Needed, UsesRs1, UsesRs2, op
  <1>3. ASSUME NEW r, r # 0
        PROVE  /\ MEM \in Producers(EX, r) <=> Writer(m, r)
               /\ WB \in Producers(EX, r) <=> Writer(w, r)
               /\ Producers(EX, r) \subseteq {MEM, WB} /\ Producers(EX, r) \subseteq Stage
               /\ Writer(m, r) => \A u \in Producers(EX, r) : MEM <= u
               /\ ~ Writer(m, r) => \A u \in Producers(EX, r) : WB <= u
    <2>1. /\ MEM \in Producers(EX, r) <=> Writer(m, r)
          /\ WB \in Producers(EX, r) <=> Writer(w, r)
          /\ Producers(EX, r) \subseteq {MEM, WB}
      BY <1>1, <1>3, ProducersEX
    <2> QED BY <2>1, StageFacts
  <1>4. ASSUME NEW r, r # 0, \A t \in Producers(EX, r) : pipe[t].rdValid
        PROVE  Known2(m, w, r)
    BY <1>1, <1>4, ProducersEX DEF Known2, Known1
  <1>5. ASSUME UsesRs1(i)
        PROVE  rs1Data(EX) = Seen2(m, w, registers, i.rs1) /\ Known2(m, w, i.rs1)
    <2>1. i.rs1 # 0 => \A t \in Producers(EX, i.rs1) : pipe[t].rdValid
      BY <1>2, <1>5 DEF hazard
    <2>2. CASE Writer(m, i.rs1)
      BY <1>1, <1>2, <1>3, <1>4, <1>5, <2>1, <2>2, NearestRs1 DEF Writer, Seen2
    <2>4. CASE ~ Writer(m, i.rs1) /\ Writer(w, i.rs1)
      BY <1>1, <1>2, <1>3, <1>4, <1>5, <2>1, <2>4, NearestRs1 DEF Writer, Seen2, Seen1
    <2>3. CASE ~ Writer(m, i.rs1) /\ ~ Writer(w, i.rs1)
      BY <1>5, <2>3, DataEX DEF Seen2, Seen1, Known2, Known1
    <2> QED BY <2>2, <2>3, <2>4
  <1>6. ASSUME UsesRs2(i), i.op # "SW"
        PROVE  rs2Data(EX) = Seen2(m, w, registers, i.rs2) /\ Known2(m, w, i.rs2)
    <2>1. i.rs2 # 0 => \A t \in Producers(EX, i.rs2) : pipe[t].rdValid
      BY <1>2, <1>6 DEF hazard
    <2>2. CASE Writer(m, i.rs2)
      BY <1>1, <1>2, <1>3, <1>4, <1>6, <2>1, <2>2, NearestRs2 DEF Writer, Seen2
    <2>4. CASE ~ Writer(m, i.rs2) /\ Writer(w, i.rs2)
      BY <1>1, <1>2, <1>3, <1>4, <1>6, <2>1, <2>4, NearestRs2 DEF Writer, Seen2, Seen1
    <2>3. CASE ~ Writer(m, i.rs2) /\ ~ Writer(w, i.rs2)
      BY <1>6, <2>3, DataEX DEF Seen2, Seen1, Known2, Known1
    <2> QED BY <2>2, <2>3, <2>4
  <1> QED BY <1>5, <1>6

LEMMA DataMEM ==
  ASSUME Runs, pipe[MEM].isValid, NEW w, NEW i, w = pipe[WB], i = pipe[MEM].ir
  PROVE  /\ UsesRs1(i) /\ ~ Writer(w, i.rs1) => rs1Data(MEM) = ReadReg(registers, i.rs1)
         /\ UsesRs2(i) /\ ~ Writer(w, i.rs2) => rs2Data(MEM) = ReadReg(registers, i.rs2)
         /\ UsesRs1(i) /\ i.rs1 = 0 => rs1Data(MEM) = 0
         /\ UsesRs2(i) /\ i.rs2 = 0 => rs2Data(MEM) = 0
         /\ i.op = "SW" /\ ~ hazard(MEM) =>
              rs2Data(MEM) = Seen1(w, registers, i.rs2) /\ Known1(w, i.rs2)
  <1>1. /\ Types /\ TrapsOK /\ ~ jumpsInWB /\ LastOK(registers, lastWrittenRd)
        /\ OperandsMEM(pipe[MEM], w, registers, lastWrittenRd)
    BY DEF Runs, SInv
  <1>2. isValid(MEM)
    BY <1>1, ValidStages
  <1>3. i.rs1 \in Reg /\ i.rs2 \in Reg
    BY <1>1, PipeTypes, StageFacts
  <1>4. ASSUME NEW r, r # 0, ~ Writer(w, r)
        PROVE  Producers(MEM, r) = {}
    BY <1>1, <1>4, ProducersMEM
  <1>5. ASSUME UsesRs1(i), ~ Writer(w, i.rs1)
        PROVE  rs1Data(MEM) = ReadReg(registers, i.rs1)
    <2>1. Kept(registers, lastWrittenRd, i.rs1, pipe[MEM].rs1)
      BY <1>1, <1>2, <1>5 DEF OperandsMEM, OperandOK
    <2> QED BY <1>1, <1>3, <1>4, <1>5, <2>1, FreeRs1
  <1>6. ASSUME UsesRs2(i), ~ Writer(w, i.rs2)
        PROVE  rs2Data(MEM) = ReadReg(registers, i.rs2)
    <2>1. Kept(registers, lastWrittenRd, i.rs2, pipe[MEM].rs2)
      BY <1>1, <1>2, <1>6 DEF OperandsMEM, OperandOK
    <2> QED BY <1>1, <1>3, <1>4, <1>6, <2>1, FreeRs2
  <1>7. /\ UsesRs1(i) /\ i.rs1 = 0 => rs1Data(MEM) = 0
        /\ UsesRs2(i) /\ i.rs2 = 0 => rs2Data(MEM) = 0
    BY <1>5, <1>6 DEF Writer, ReadReg
  <1>8. ASSUME i.op = "SW", ~ hazard(MEM)
        PROVE  rs2Data(MEM) = Seen1(w, registers, i.rs2) /\ Known1(w, i.rs2)
    <2>1. UsesRs2(i) /\ rs2Needed(MEM)
      BY <1>8, StageFacts DEF rs2Needed, UsesRs2, op
    <2>2. i.rs2 # 0 => \A t \in Producers(MEM, i.rs2) : pipe[t].rdValid
      BY <1>2, <1>8, <2>1 DEF hazard
    <2>3. CASE Writer(w, i.rs2)
      <3>1. i.rs2 # 0 /\ WB \in Producers(MEM, i.rs2) /\ Producers(MEM, i.rs2) \subseteq {WB}
        BY <1>1, <2>3, ProducersMEM DEF Writer
      <3>2. \A u \in Producers(MEM, i.rs2) : WB <= u
        BY <3>1, StageFacts
      <3> QED BY <1>1, <2>1, <2>2, <2>3, <3>1, <3>2, StageFacts, NearestRs2
              DEF Seen1, Known1
    <2>4. CASE ~ Writer(w, i.rs2)
      BY <1>6, <2>1, <2>4 DEF Seen1, Known1
    <2> QED BY <2>3, <2>4
  <1> QED BY <1>5, <1>6, <1>7, <1>8

LEMMA DataWB ==
  ASSUME SInv, pipe[WB].isValid, UsesRs1(pipe[WB].ir)
  PROVE  rs1Data(WB) = ReadReg(registers, pipe[WB].ir.rs1)
  <1>1. /\ Types /\ LastOK(registers, lastWrittenRd)
        /\ OperandsWB(pipe[WB], registers, lastWrittenRd)
    BY DEF SInv
  <1>2. pipe[WB].ir.rs1 \in Reg
    BY <1>1, PipeTypes, StageFacts
  <1>3. Kept(registers, lastWrittenRd, pipe[WB].ir.rs1, pipe[WB].rs1)
    BY <1>1 DEF OperandsWB
  <1> QED BY <1>1, <1>2, <1>3, ProducersWB, FreeRs1

(* What WB leaves behind. *)
LEMMA Retire ==
  ASSUME Runs, NEW w, w = pipe[WB], NEW g, g = RegistersNext, NEW l, l = LastWrittenNext
  PROVE  /\ g \in [Reg -> Value] /\ l \in [id : Reg, valid : BOOLEAN, data : Value]
         /\ LastOK(g, l)
         /\ \A r \in Reg : /\ Writer(w, r) => l.valid /\ l.id = r
                           /\ Known1(w, r) => ReadReg(g, r) = Seen1(w, registers, r)
                           /\ ~ Writer(w, r) => ReadReg(g, r) = ReadReg(registers, r)
  <1>1. /\ Types /\ TrapsOK /\ ~ jumpsInWB /\ LastOK(registers, lastWrittenRd)
        /\ ResultsWB(w, registers, memory)
    BY DEF Runs, SInv
  <1>2. /\ isValid(WB) <=> w.isValid
        /\ w.isValid => ~ hasTrapped(WB) /\ w.ir.op \notin Trapping \cup {"MRET"}
    BY <1>1, ValidStages DEF op
  <1>3. /\ w.ir \in Instruction /\ w.ir.rd \in Reg /\ w.rdData \in Value /\ w \in StageRecord
        /\ registers \in [Reg -> Value] /\ csr.mscratch \in Value
        /\ lastWrittenRd \in [id : Reg, valid : BOOLEAN, data : Value]
    BY <1>1, PipeTypes, StageFacts DEF Types
  <1>4. rdOut \in Value /\ (w.ir.op # "CSRRW" => rdOut = w.rdData)
    BY <1>3 DEF rdOut, op
  <1>5. g = IF w.isValid /\ WritesRd(w.ir) THEN WriteReg(registers, w.ir.rd, rdOut) ELSE registers
    BY <1>2 DEF RegistersNext, Writes
  <1>6. g \in [Reg -> Value]
    BY <1>3, <1>4, <1>5 DEF WriteReg
  <1>7. \A r \in Reg : ReadReg(g, r) = IF Writer(w, r) THEN rdOut ELSE ReadReg(registers, r)
    BY <1>3, <1>5 DEF WriteReg, ReadReg, Writer
  <1>8. w.isValid /\ w.rdValid => w.ir.op # "CSRRW"
    BY <1>1 DEF ResultsWB, Produces
  <1>9. w.isValid /\ WritesRd(w.ir) => w.rdValid \/ w.ir.op = "CSRRW"
    BY <1>1, <1>2, <1>3 DEF ResultsWB, Computed, Produces, WritesRd, Trapping, Instruction
  <1>10. PICK v \in BOOLEAN : v = (WritesRd(w.ir) /\ (w.rdValid \/ w.ir.op = "CSRRW"))
    OBVIOUS
  <1>11. l = IF w.isValid THEN [id |-> w.ir.rd, data |-> rdOut, valid |-> v] ELSE lastWrittenRd
    BY <1>2, <1>10 DEF LastWrittenNext, op
  <1>12. w.isValid => l.id = w.ir.rd /\ l.data = rdOut /\ l.valid = v
    BY <1>11
  <1>13. v = TRUE => WritesRd(w.ir)
    BY <1>10
  <1>14. WritesRd(w.ir) /\ (w.rdValid \/ w.ir.op = "CSRRW") => v = TRUE
    BY <1>10
  <1>15. l \in [id : Reg, valid : BOOLEAN, data : Value]
    BY <1>3, <1>4, <1>11
  <1>16. LastOK(g, l)
    <2>1. CASE w.isValid
      BY <2>1, <1>3, <1>5, <1>12, <1>13 DEF LastOK, WriteReg
    <2>2. CASE ~ w.isValid
      BY <2>2, <1>1, <1>5, <1>11
    <2> QED BY <2>1, <2>2
  <1>17. \A r \in Reg : Writer(w, r) => l.valid /\ l.id = r
    BY <1>9, <1>12, <1>14 DEF Writer
  <1>18. \A r \in Reg : Known1(w, r) => ReadReg(g, r) = Seen1(w, registers, r)
    BY <1>4, <1>7, <1>8 DEF Known1, Seen1, Writer
  <1> QED BY <1>6, <1>7, <1>15, <1>16, <1>17, <1>18

(* The operands that a stage passes on or keeps are right for the next cycle. *)
LEMMA KeptEX ==
  ASSUME Runs, isValid(EX), NEW i, i = pipe[EX].ir, NEW m, m = pipe[MEM],
         NEW g, g = RegistersNext, NEW l, l = LastWrittenNext
  PROVE  /\ UsesRs1(i) => OperandOK(g, l, i.rs1, rs1Data(EX), ~ Writer(m, i.rs1))
         /\ UsesRs2(i) => OperandOK(g, l, i.rs2, rs2Data(EX), ~ Writer(m, i.rs2))
  <1> PICK w : w = pipe[WB]
    OBVIOUS
  <1>1. i.rs1 \in Reg /\ i.rs2 \in Reg
    BY PipeTypes, StageFacts DEF Runs, SInv
  <1>2. \A r \in Reg : /\ Writer(w, r) => l.valid /\ l.id = r
                       /\ ~ Writer(w, r) => ReadReg(g, r) = ReadReg(registers, r)
    BY Retire
  <1>3. /\ UsesRs1(i) /\ ~ Writer(m, i.rs1) /\ ~ Writer(w, i.rs1) =>
              rs1Data(EX) = ReadReg(registers, i.rs1)
        /\ UsesRs2(i) /\ ~ Writer(m, i.rs2) /\ ~ Writer(w, i.rs2) =>
              rs2Data(EX) = ReadReg(registers, i.rs2)
        /\ UsesRs1(i) /\ i.rs1 = 0 => rs1Data(EX) = 0
        /\ UsesRs2(i) /\ i.rs2 = 0 => rs2Data(EX) = 0
    BY DataEX
  <1> QED BY <1>1, <1>2, <1>3 DEF OperandOK, Kept, ReadReg

LEMMA KeptMEM ==
  ASSUME Runs, pipe[MEM].isValid, NEW i, i = pipe[MEM].ir,
         NEW g, g = RegistersNext, NEW l, l = LastWrittenNext
  PROVE  /\ UsesRs1(i) => Kept(g, l, i.rs1, rs1Data(MEM))
         /\ UsesRs2(i) => Kept(g, l, i.rs2, rs2Data(MEM))
  <1> PICK w : w = pipe[WB]
    OBVIOUS
  <1>1. i.rs1 \in Reg /\ i.rs2 \in Reg
    BY PipeTypes, StageFacts DEF Runs, SInv
  <1>2. \A r \in Reg : /\ Writer(w, r) => l.valid /\ l.id = r
                       /\ ~ Writer(w, r) => ReadReg(g, r) = ReadReg(registers, r)
    BY Retire
  <1>3. /\ UsesRs1(i) /\ ~ Writer(w, i.rs1) => rs1Data(MEM) = ReadReg(registers, i.rs1)
        /\ UsesRs2(i) /\ ~ Writer(w, i.rs2) => rs2Data(MEM) = ReadReg(registers, i.rs2)
        /\ UsesRs1(i) /\ i.rs1 = 0 => rs1Data(MEM) = 0
        /\ UsesRs2(i) /\ i.rs2 = 0 => rs2Data(MEM) = 0
    BY DataMEM
  <1> QED BY <1>1, <1>2, <1>3 DEF Kept, ReadReg

-----------------------------------------------------------------------------
(* What the stages hand on.                                                *)

LEMMA TrappedBoolean == \A s \in Stage : hasTrapped(s) \in BOOLEAN
  BY DEF hasTrapped

LEMMA BubbleWrites == \A r : ~ Writer(Bubble, r)
  BY BubbleType DEF Writer

LEMMA HeldFacts ==
  ASSUME Types, NEW s \in {EX, MEM}, NEW h, h = Held(s)
  PROVE  /\ h \in StageRecord /\ h.isValid = pipe[s].isValid /\ h.pc = pipe[s].pc
         /\ h.ir = pipe[s].ir /\ h.rs1 = rs1Data(s) /\ h.rs2 = rs2Data(s)
         /\ h.rdValid = pipe[s].rdValid /\ h.rdData = pipe[s].rdData
         /\ h.trapped = pipe[s].trapped
  <1>1. pipe[s] \in StageRecord
    BY PipeTypes
  <1>2. h = [pipe[s] EXCEPT !.rs1 = rs1Data(s), !.rs2 = rs2Data(s)]
    BY StageFacts DEF Held
  <1>3. rs1Data(s) \in Value /\ rs2Data(s) \in Value
    BY DataTypes
  <1> HIDE DEF Types
  <1> QED BY <1>1, <1>2, <1>3 DEF StageRecord

LEMMA OutputMEMFacts ==
  ASSUME Types, NEW o, o = OutputMEM, NEW m, m = pipe[MEM]
  PROVE  /\ o \in StageRecord /\ o.isValid = m.isValid /\ o.pc = m.pc /\ o.ir = m.ir
         /\ o.rs1 = rs1Data(MEM) /\ o.rs2 = rs2Data(MEM)
         /\ o.rdValid <=> m.rdValid \/ m.ir.op = "LW"
         /\ o.rdData = (IF m.ir.op = "LW" THEN rdata ELSE m.rdData)
         /\ o.trapped = hasTrapped(MEM)
  <1>1. m \in StageRecord
    BY PipeTypes
  <1>2. PICK v \in BOOLEAN : v = (m.rdValid \/ m.ir.op = "LW")
    OBVIOUS
  <1>3. PICK b \in Value : b = IF m.ir.op = "LW" THEN rdata ELSE m.rdData
    BY PipeTypes, StageFacts DEF Types, rdata
  <1>4. PICK t \in BOOLEAN : t = hasTrapped(MEM)
    BY TrappedBoolean, StageFacts
  <1>5. rs1Data(MEM) \in Value /\ rs2Data(MEM) \in Value
    BY DataTypes
  <1>6. o = [m EXCEPT !.rs1 = rs1Data(MEM), !.rs2 = rs2Data(MEM), !.rdValid = v, !.rdData = b,
                      !.trapped = t]
    BY <1>2, <1>3, <1>4 DEF OutputMEM, op
  <1>7. /\ o \in StageRecord /\ o.isValid = m.isValid /\ o.pc = m.pc /\ o.ir = m.ir
        /\ o.rs1 = rs1Data(MEM) /\ o.rs2 = rs2Data(MEM) /\ o.rdValid = v /\ o.rdData = b
        /\ o.trapped = t
    BY <1>1, <1>5, <1>6 DEF StageRecord
  <1> QED BY <1>2, <1>3, <1>4, <1>7

LEMMA OutputEXFacts ==
  ASSUME Types, NEW o, o = OutputEX, NEW x, x = pipe[EX]
  PROVE  /\ o \in StageRecord /\ o.isValid = x.isValid /\ o.pc = x.pc /\ o.ir = x.ir
         /\ o.rs1 = rs1Data(EX) /\ o.rs2 = rs2Data(EX)
         /\ o.rdValid <=> Produces(x)
         /\ o.rdData = (IF Produces(x)
                        THEN Result(x.ir, rs1Data(EX), rs2Data(EX), nextPc(x.pc)) ELSE 0)
         /\ o.trapped = hasTrapped(EX)
  <1>1. x \in StageRecord /\ x.ir \in Instruction /\ x.pc \in Pc
    BY PipeTypes, StageFacts
  <1>2. PICK v \in BOOLEAN : v = (x.ir.op = "ADDI" \/ x.ir.op = "MUL" \/ x.ir.op = "JAL")
    OBVIOUS
  <1>3. rs1Data(EX) \in Value /\ rs2Data(EX) \in Value
    BY DataTypes
  <1>4. nextPc(x.pc) \in Nat
    BY <1>1, PcFacts, StaticAssumption DEF Pc
  <1>5. PICK b \in Value :
          b = IF v THEN Result(x.ir, rs1Data(EX), rs2Data(EX), nextPc(x.pc)) ELSE 0
    BY <1>1, <1>3, <1>4, ResultType, ValueFacts
  <1>6. PICK t \in BOOLEAN : t = hasTrapped(EX)
    BY TrappedBoolean, StageFacts
  <1>7. o = [x EXCEPT !.rs1 = rs1Data(EX), !.rs2 = rs2Data(EX), !.rdValid = v, !.rdData = b,
                      !.trapped = t]
    <2>1. v = (op(EX) \in {"ADDI", "MUL", "JAL"})
      BY <1>2 DEF op
    <2> QED BY <1>5, <1>6, <2>1 DEF OutputEX
  <1>8. /\ o \in StageRecord /\ o.isValid = x.isValid /\ o.pc = x.pc /\ o.ir = x.ir
        /\ o.rs1 = rs1Data(EX) /\ o.rs2 = rs2Data(EX) /\ o.rdValid = v /\ o.rdData = b
        /\ o.trapped = t
    BY <1>1, <1>3, <1>7 DEF StageRecord
  <1> QED BY <1>2, <1>5, <1>6, <1>8 DEF Produces

LEMMA OutputIDFacts ==
  ASSUME Types, NEW o, o = OutputID, NEW d, d = pipe[ID], NEW g, g = RegistersNext,
         g \in [Reg -> Value]
  PROVE  /\ o \in StageRecord /\ o.isValid = d.isValid /\ o.pc = d.pc /\ o.ir = d.ir
         /\ o.rs1 = ReadReg(g, d.ir.rs1) /\ o.rs2 = ReadReg(g, d.ir.rs2)
         /\ o.trapped = hasTrapped(ID)
  <1>1. d \in StageRecord /\ d.ir.rs1 \in Reg /\ d.ir.rs2 \in Reg
    BY PipeTypes, StageFacts
  <1>2. ReadReg(g, d.ir.rs1) \in Value /\ ReadReg(g, d.ir.rs2) \in Value
    BY <1>1, ValueFacts DEF ReadReg
  <1>3. PICK t \in BOOLEAN : t = hasTrapped(ID)
    BY TrappedBoolean, StageFacts
  <1>4. o = [d EXCEPT !.rs1 = ReadReg(g, d.ir.rs1), !.rs2 = ReadReg(g, d.ir.rs2), !.trapped = t]
    BY <1>3 DEF OutputID
  <1>5. /\ o \in StageRecord /\ o.isValid = d.isValid /\ o.pc = d.pc /\ o.ir = d.ir
        /\ o.rs1 = ReadReg(g, d.ir.rs1) /\ o.rs2 = ReadReg(g, d.ir.rs2) /\ o.trapped = t
    BY <1>1, <1>2, <1>4 DEF StageRecord
  <1> QED BY <1>3, <1>5

LEMMA OutputIFFacts ==
  ASSUME Types, NEW in, in.fetched \in Program, NEW o, o = OutputIF(in)
  PROVE  o \in StageRecord /\ o.isValid = TRUE /\ o.pc = pc /\ o.ir = in.fetched /\ ~ o.trapped
  <1>1. o = [Bubble EXCEPT !.isValid = TRUE, !.pc = pc, !.ir = in.fetched]
    BY DEF OutputIF
  <1> QED BY <1>1, BubbleType DEF StageRecord, Types, Bubble

(* A value that is known is still the right one when everyone has moved. *)
LEMMA SeenMoved ==
  ASSUME Runs, NEW m, m = pipe[MEM], NEW w, w = pipe[WB], NEW g, g = RegistersNext,
         NEW v, v = (IF m.isValid THEN OutputMEM ELSE Bubble), NEW r \in Reg, Known2(m, w, r)
  PROVE  Seen1(v, g, r) = Seen2(m, w, registers, r) /\ Known1(v, r)
  <1>1. Types /\ ResultsMEM(m, w, registers)
    BY DEF Runs, SInv
  <1>2. CASE Writer(m, r)
    <2>1. m.isValid /\ m.rdValid
      BY <1>2 DEF Known2, Writer
    <2>2. m.ir.op # "LW"
      BY <1>1, <2>1 DEF ResultsMEM, Produces
    <2>3. v.isValid = m.isValid /\ v.ir = m.ir /\ v.rdValid /\ v.rdData = m.rdData
      BY <1>1, <2>1, <2>2, OutputMEMFacts
    <2>4. Writer(v, r)
      BY <1>2, <2>3 DEF Writer
    <2> QED BY <1>2, <2>3, <2>4 DEF Seen1, Seen2, Known1
  <1>3. CASE ~ Writer(m, r)
    <2>1. ~ Writer(v, r)
      <3>1. CASE m.isValid
        <4>1. v.isValid = m.isValid /\ v.ir = m.ir
          BY <1>1, <3>1, OutputMEMFacts
        <4> QED BY <1>3, <4>1 DEF Writer
      <3>2. CASE ~ m.isValid
        BY <3>2, BubbleWrites
      <3> QED BY <3>1, <3>2
    <2>2. ReadReg(g, r) = Seen1(w, registers, r)
      BY Retire DEF Known2
    <2> QED BY <1>3, <2>1, <2>2 DEF Seen1, Seen2, Known1
  <1> QED BY <1>2, <1>3

(* From MEM to WB.  word is the memory after the cycle. *)
LEMMA ToWB ==
  ASSUME Runs, NEW m, m = pipe[MEM], m.isValid, NEW o, o = OutputMEM,
         NEW g, g = RegistersNext, NEW l, l = LastWrittenNext,
         NEW word, m.ir.op = "LW" => rdata = word
  PROVE  ResultsWB(o, g, word) /\ OperandsWB(o, g, l)
  <1> PICK w : w = pipe[WB]
    OBVIOUS
  <1>1. Types /\ ResultsMEM(m, w, registers)
    BY DEF Runs, SInv
  <1>2. /\ o.isValid = m.isValid /\ o.pc = m.pc /\ o.ir = m.ir
        /\ o.rs1 = rs1Data(MEM) /\ o.rs2 = rs2Data(MEM)
        /\ o.rdValid <=> m.rdValid \/ m.ir.op = "LW"
        /\ o.rdData = (IF m.ir.op = "LW" THEN rdata ELSE m.rdData)
    BY <1>1, OutputMEMFacts
  <1>3. OperandsWB(o, g, l)
    BY <1>2, KeptMEM DEF OperandsWB
  <1>4. m.ir.rs1 \in Reg /\ m.ir.rs2 \in Reg
    BY <1>1, PipeTypes, StageFacts
  <1>5. /\ UsesRs1(m.ir) => ReadReg(g, m.ir.rs1) = Seen1(w, registers, m.ir.rs1)
        /\ UsesRs2(m.ir) /\ m.ir.op # "SW" => ReadReg(g, m.ir.rs2) = Seen1(w, registers, m.ir.rs2)
    BY <1>1, <1>4, Retire DEF ResultsMEM
  <1>6. Produces(m) => m.ir.op \notin {"LW", "SW"}
    BY DEF Produces
  <1>7. Produces(o) <=> Produces(m)
    BY <1>2 DEF Produces
  <1>8. Computed(o, ReadReg(g, o.ir.rs1), ReadReg(g, o.ir.rs2))
    <2>1. SUFFICES ASSUME Produces(m)
                   PROVE  /\ o.rdValid
                          /\ o.rdData = Result(o.ir, ReadReg(g, o.ir.rs1), ReadReg(g, o.ir.rs2),
                                               nextPc(o.pc))
      BY <1>7 DEF Computed
    <2>2. m.rdValid /\ m.rdData = Result(m.ir, Seen1(w, registers, m.ir.rs1),
                                         Seen1(w, registers, m.ir.rs2), nextPc(m.pc))
      BY <1>1, <2>1 DEF ResultsMEM, Computed
    <2>3. Result(m.ir, Seen1(w, registers, m.ir.rs1), Seen1(w, registers, m.ir.rs2), nextPc(m.pc))
            = Result(m.ir, ReadReg(g, m.ir.rs1), ReadReg(g, m.ir.rs2), nextPc(m.pc))
      BY <1>5, <1>6, <2>1, ResultSame DEF Produces
    <2> QED BY <1>2, <1>6, <2>1, <2>2, <2>3
  <1>9. /\ o.ir.op = "LW" => o.rdValid /\ o.rdData = word
        /\ ~ Produces(o) /\ o.ir.op # "LW" => ~ o.rdValid /\ o.rdData = 0
    BY <1>1, <1>2, <1>7 DEF ResultsMEM
  <1> QED BY <1>3, <1>8, <1>9 DEF ResultsWB

(* From EX to MEM. *)
LEMMA ToMEM ==
  ASSUME Runs, isValid(EX), ~ hazard(EX), NEW o, o = OutputEX,
         NEW g, g = RegistersNext, NEW l, l = LastWrittenNext,
         NEW v, v = (IF pipe[MEM].isValid THEN OutputMEM ELSE Bubble)
  PROVE  ResultsMEM(o, v, g) /\ OperandsMEM(o, v, g, l)
  <1> PICK x, m, w : x = pipe[EX] /\ m = pipe[MEM] /\ w = pipe[WB]
    OBVIOUS
  <1>1. Types
    BY DEF Runs, SInv
  <1>2. /\ o.isValid = x.isValid /\ o.pc = x.pc /\ o.ir = x.ir
        /\ o.rs1 = rs1Data(EX) /\ o.rs2 = rs2Data(EX)
        /\ o.rdValid <=> Produces(x)
        /\ o.rdData = (IF Produces(x)
                       THEN Result(x.ir, rs1Data(EX), rs2Data(EX), nextPc(x.pc)) ELSE 0)
    BY <1>1, OutputEXFacts
  <1>3. x.ir.rs1 \in Reg /\ x.ir.rs2 \in Reg
    BY <1>1, PipeTypes, StageFacts
  <1>4. /\ UsesRs1(x.ir) => /\ rs1Data(EX) = Seen2(m, w, registers, x.ir.rs1)
                            /\ Known2(m, w, x.ir.rs1)
        /\ UsesRs2(x.ir) /\ x.ir.op # "SW" => /\ rs2Data(EX) = Seen2(m, w, registers, x.ir.rs2)
                                              /\ Known2(m, w, x.ir.rs2)
    BY NeededEX
  <1>5. /\ UsesRs1(x.ir) => rs1Data(EX) = Seen1(v, g, x.ir.rs1) /\ Known1(v, x.ir.rs1)
        /\ UsesRs2(x.ir) /\ x.ir.op # "SW" =>
             rs2Data(EX) = Seen1(v, g, x.ir.rs2) /\ Known1(v, x.ir.rs2)
    BY <1>3, <1>4, SeenMoved
  <1>6. Produces(o) <=> Produces(x)
    BY <1>2 DEF Produces
  <1>7. Computed(o, Seen1(v, g, o.ir.rs1), Seen1(v, g, o.ir.rs2))
    <2>1. SUFFICES ASSUME Produces(x)
                   PROVE  Result(x.ir, rs1Data(EX), rs2Data(EX), nextPc(x.pc))
                            = Result(x.ir, Seen1(v, g, x.ir.rs1), Seen1(v, g, x.ir.rs2),
                                     nextPc(x.pc))
      BY <1>2, <1>6 DEF Computed
    <2> QED BY <1>5, <2>1, ResultSame DEF Produces
  <1>8. ResultsMEM(o, v, g)
    BY <1>2, <1>5, <1>6, <1>7 DEF ResultsMEM
  <1>9. \A r : Writer(m, r) => Writer(v, r)
    <2>1. m.isValid => v.isValid = m.isValid /\ v.ir = m.ir
      BY <1>1, OutputMEMFacts
    <2> QED BY <2>1 DEF Writer
  <1>10. OperandsMEM(o, v, g, l)
    BY <1>2, <1>9, KeptEX DEF OperandsMEM, OperandOK
  <1> QED BY <1>8, <1>10

(* In MEM as before, with nothing in WB. *)
LEMMA StayMEM ==
  ASSUME Runs, NEW m, m = pipe[MEM], m.isValid, NEW h, h = Held(MEM),
         NEW g, g = RegistersNext, NEW l, l = LastWrittenNext
  PROVE  ResultsMEM(h, Bubble, g) /\ OperandsMEM(h, Bubble, g, l)
  <1> PICK w : w = pipe[WB]
    OBVIOUS
  <1>1. Types /\ ResultsMEM(m, w, registers)
    BY DEF Runs, SInv
  <1>2. /\ h.isValid = m.isValid /\ h.pc = m.pc /\ h.ir = m.ir
        /\ h.rs1 = rs1Data(MEM) /\ h.rs2 = rs2Data(MEM)
        /\ h.rdValid = m.rdValid /\ h.rdData = m.rdData
    BY <1>1, HeldFacts
  <1>3. m.ir.rs1 \in Reg /\ m.ir.rs2 \in Reg
    BY <1>1, PipeTypes, StageFacts
  <1>4. \A r : Known1(Bubble, r) /\ Seen1(Bubble, g, r) = ReadReg(g, r)
    BY BubbleWrites DEF Known1, Seen1
  <1>5. /\ UsesRs1(m.ir) => Seen1(Bubble, g, m.ir.rs1) = Seen1(w, registers, m.ir.rs1)
        /\ UsesRs2(m.ir) /\ m.ir.op # "SW" =>
             Seen1(Bubble, g, m.ir.rs2) = Seen1(w, registers, m.ir.rs2)
    BY <1>1, <1>3, <1>4, Retire DEF ResultsMEM
  <1>6. Produces(h) <=> Produces(m)
    BY <1>2 DEF Produces
  <1>7. Computed(h, Seen1(Bubble, g, h.ir.rs1), Seen1(Bubble, g, h.ir.rs2))
    <2>1. SUFFICES ASSUME Produces(m)
                   PROVE  /\ h.rdValid
                          /\ h.rdData = Result(h.ir, Seen1(Bubble, g, h.ir.rs1),
                                               Seen1(Bubble, g, h.ir.rs2), nextPc(h.pc))
      BY <1>6 DEF Computed
    <2>2. m.rdValid /\ m.rdData = Result(m.ir, Seen1(w, registers, m.ir.rs1),
                                         Seen1(w, registers, m.ir.rs2), nextPc(m.pc))
      BY <1>1, <2>1 DEF ResultsMEM, Computed
    <2>3. Result(m.ir, Seen1(w, registers, m.ir.rs1), Seen1(w, registers, m.ir.rs2), nextPc(m.pc))
            = Result(m.ir, Seen1(Bubble, g, m.ir.rs1), Seen1(Bubble, g, m.ir.rs2), nextPc(m.pc))
      BY <1>5, <2>1, ResultSame DEF Produces
    <2> QED BY <1>2, <2>2, <2>3
  <1>8. ResultsMEM(h, Bubble, g)
    BY <1>1, <1>2, <1>4, <1>6, <1>7 DEF ResultsMEM
  <1>9. OperandsMEM(h, Bubble, g, l)
    BY <1>2, KeptMEM DEF OperandsMEM, OperandOK, Kept
  <1> QED BY <1>8, <1>9

(* In EX as before; who was in MEM is there or in WB. *)
LEMMA StayEX ==
  ASSUME Runs, isValid(EX), NEW h, h = Held(EX),
         NEW g, g = RegistersNext, NEW l, l = LastWrittenNext, NEW n, NEW v,
         \A r : Writer(pipe[MEM], r) => Writer(n, r) \/ Writer(v, r)
  PROVE  OperandsEX(h, n, v, g, l)
  <1>1. Types
    BY DEF Runs, SInv
  <1>2. h.ir = pipe[EX].ir /\ h.rs1 = rs1Data(EX) /\ h.rs2 = rs2Data(EX)
    BY <1>1, HeldFacts
  <1> QED BY <1>2, KeptEX DEF OperandsEX, OperandOK

(* From ID to EX. *)
LEMMA ToEX ==
  ASSUME Runs, NEW o, o = OutputID, NEW g, g = RegistersNext, NEW l, NEW n, NEW v
  PROVE  OperandsEX(o, n, v, g, l)
  <1>1. Types /\ g \in [Reg -> Value]
    BY Retire DEF Runs, SInv
  <1>2. o.ir = pipe[ID].ir /\ o.rs1 = ReadReg(g, o.ir.rs1) /\ o.rs2 = ReadReg(g, o.ir.rs2)
    BY <1>1, OutputIDFacts
  <1> QED BY <1>2 DEF OperandsEX, OperandOK, Kept, ReadReg

LEMMA BubbleOK ==
  ASSUME NEW n, NEW v, NEW g, NEW l, NEW word
  PROVE  /\ ResultsWB(Bubble, g, word) /\ OperandsWB(Bubble, g, l)
         /\ ResultsMEM(Bubble, v, g) /\ OperandsMEM(Bubble, v, g, l)
         /\ OperandsEX(Bubble, n, v, g, l)
  BY BubbleType DEF ResultsWB, OperandsWB, ResultsMEM, OperandsMEM, OperandsEX

-----------------------------------------------------------------------------
(* The path of the program.                                                *)

(* Where MEM goes on is the same after the cycle, in MEM or in WB. *)
LEMMA GoesOn ==
  ASSUME Runs, NEW m, m = pipe[MEM], m.isValid, NEW w, w = pipe[WB], NEW g, g = RegistersNext,
         NEW y, y.ir = m.ir, y.pc = m.pc
  PROVE  /\ Goes(y, ReadReg(g, y.ir.rs1), ReadReg(g, y.ir.rs2))
              = Goes(m, Seen1(w, registers, m.ir.rs1), Seen1(w, registers, m.ir.rs2))
         /\ Goes(y, Seen1(Bubble, g, y.ir.rs1), Seen1(Bubble, g, y.ir.rs2))
              = Goes(m, Seen1(w, registers, m.ir.rs1), Seen1(w, registers, m.ir.rs2))
  <1>1. Types /\ ResultsMEM(m, w, registers)
    BY DEF Runs, SInv
  <1>2. m.ir.rs1 \in Reg /\ m.ir.rs2 \in Reg
    BY <1>1, PipeTypes, StageFacts
  <1>3. m.ir.op = "BEQ" => Known1(w, m.ir.rs1) /\ Known1(w, m.ir.rs2)
    BY <1>1 DEF ResultsMEM, UsesRs1, UsesRs2
  <1>4. m.ir.op = "BEQ" => /\ ReadReg(g, m.ir.rs1) = Seen1(w, registers, m.ir.rs1)
                           /\ ReadReg(g, m.ir.rs2) = Seen1(w, registers, m.ir.rs2)
    BY <1>2, <1>3, Retire
  <1>5. \A r : Seen1(Bubble, g, r) = ReadReg(g, r)
    BY BubbleWrites DEF Seen1
  <1>6. \A a, b : Goes(y, a, b) = Goes(m, a, b)
    BY DEF Goes
  <1> QED BY <1>4, <1>5, <1>6, GoesSame

(* Where EX goes on is decided when it leaves. *)
LEMMA GoesOut ==
  ASSUME Runs, isValid(EX), ~ hazard(EX), NEW x, x = pipe[EX], NEW o, o = OutputEX,
         NEW g, g = RegistersNext, NEW v, v = (IF pipe[MEM].isValid THEN OutputMEM ELSE Bubble)
  PROVE  Goes(o, Seen1(v, g, o.ir.rs1), Seen1(v, g, o.ir.rs2))
           = IF TakesJump(x.ir, rs1Data(EX), rs2Data(EX)) THEN x.ir.imm ELSE nextPc(x.pc)
  <1> PICK m, w : m = pipe[MEM] /\ w = pipe[WB]
    OBVIOUS
  <1>1. Types
    BY DEF Runs, SInv
  <1>2. o.ir = x.ir /\ o.pc = x.pc
    BY <1>1, OutputEXFacts
  <1>3. x.ir.rs1 \in Reg /\ x.ir.rs2 \in Reg
    BY <1>1, PipeTypes, StageFacts
  <1>4. x.ir.op = "BEQ" =>
          /\ rs1Data(EX) = Seen2(m, w, registers, x.ir.rs1) /\ Known2(m, w, x.ir.rs1)
          /\ rs2Data(EX) = Seen2(m, w, registers, x.ir.rs2) /\ Known2(m, w, x.ir.rs2)
    BY NeededEX DEF UsesRs1, UsesRs2
  <1>5. x.ir.op = "BEQ" => /\ rs1Data(EX) = Seen1(v, g, x.ir.rs1)
                           /\ rs2Data(EX) = Seen1(v, g, x.ir.rs2)
    BY <1>3, <1>4, SeenMoved
  <1>6. Goes(x, Seen1(v, g, x.ir.rs1), Seen1(v, g, x.ir.rs2)) = Goes(x, rs1Data(EX), rs2Data(EX))
    BY <1>5, GoesSame
  <1> QED BY <1>2, <1>6 DEF Goes

(* What retires is followed by what MEM has, or comes next. *)
LEMMA ArchNext ==
  ASSUME Runs, NEW in, Cycle(in)
  PROVE  archPc' = PathMEM(pipe[WB], registers, archPc) /\ archPc' \in Pc
  <1> PICK w : w = pipe[WB]
    OBVIOUS
  <1>1. Types /\ TrapsOK /\ ~ jumpsInWB
    BY DEF Runs, SInv
  <1>2. /\ isValid(WB) <=> w.isValid
        /\ w.isValid => ~ hasTrapped(WB) /\ w.ir.op \notin Trapping \cup {"MRET"}
    BY <1>1, ValidStages DEF op
  <1>3. archPc' = IF w.isValid
                  THEN IF Jumps(w.ir, registers) THEN w.ir.imm ELSE nextPc(w.pc)
                  ELSE archPc
    BY <1>2 DEF Cycle, op
  <1>4. archPc' = PathMEM(w, registers, archPc)
    BY <1>2, <1>3 DEF PathMEM, Along, Goes, Stops, Jumps
  <1>5. w.ir.imm \in Pc /\ w.pc \in Pc /\ archPc \in Pc
    BY <1>1, PipeTypes, StageFacts DEF Types
  <1> QED BY <1>3, <1>4, <1>5, PcFacts

(* The cycle waits in MEM, or in EX: the path is the same. *)
LEMMA PathStays ==
  ASSUME Runs, NEW w, w = pipe[WB], NEW m, m = pipe[MEM], NEW x, x = pipe[EX], NEW d, d = pipe[ID],
         NEW a \in Pc, a = PathMEM(w, registers, archPc), NEW g, g = RegistersNext,
         NEW w2, NEW m2, NEW x2, NEW d2,
         \/ w2 = Bubble /\ m2.isValid = m.isValid /\ m2.ir = m.ir /\ m2.pc = m.pc /\ m.isValid
         \/ m2 = Bubble /\ m.isValid /\ w2.isValid = m.isValid /\ w2.ir = m.ir /\ w2.pc = m.pc
         \/ m2 = Bubble /\ w2 = Bubble /\ ~ m.isValid,
         \/ x.isValid /\ x2.isValid = x.isValid /\ x2.ir = x.ir /\ x2.pc = x.pc
         \/ ~ x.isValid /\ x2 = Bubble,
         d2 = (IF d.isValid /\ ~ (x.isValid /\ hasTrapped(EX)) THEN d ELSE Bubble)
  PROVE  PathOK(w2, m2, x2, d2, g, a, pc)
  <1>1. /\ Types /\ TrapsOK /\ ~ jumpsInWB
        /\ PathOK(w, m, x, d, registers, archPc, pc)
    BY DEF Runs, SInv
  <1> DEFINE atEX == PathEX(m, w, registers, a)
             atID == Path(x, atEX)
             atIF == Path(d, atID)
             to == Goes(m, Seen1(w, registers, m.ir.rs1), Seen1(w, registers, m.ir.rs2))
  <1>2. a # Anywhere
    BY PcFacts DEF Anywhere
  <1>3. On(m, a) /\ On(x, atEX) /\ On(d, atID) /\ (atIF = Anywhere \/ pc = atIF)
    BY <1>1 DEF PathOK
  <1>4. /\ PathEX(m2, w2, g, PathMEM(w2, g, a)) = atEX
        /\ w2.isValid => w2.pc = a
        /\ On(m2, PathMEM(w2, g, a))
    <2>1. CASE w2 = Bubble /\ m2.isValid = m.isValid /\ m2.ir = m.ir /\ m2.pc = m.pc /\ m.isValid
      <3>1. PathMEM(w2, g, a) = a /\ ~ w2.isValid
        BY <2>1, BubbleType DEF PathMEM, Along
      <3>2. Goes(m2, Seen1(w2, g, m2.ir.rs1), Seen1(w2, g, m2.ir.rs2)) = to
        BY <2>1, GoesOn
      <3>3. Stops(m2) <=> Stops(m)
        BY <2>1 DEF Stops
      <3> QED BY <1>3, <2>1, <3>1, <3>2, <3>3 DEF PathEX, Along, On
    <2>2. CASE m2 = Bubble /\ m.isValid /\ w2.isValid = m.isValid /\ w2.ir = m.ir /\ w2.pc = m.pc
      <3>1. Goes(w2, ReadReg(g, w2.ir.rs1), ReadReg(g, w2.ir.rs2)) = to
        BY <2>2, GoesOn
      <3>2. Stops(w2) <=> Stops(m)
        BY <2>2 DEF Stops
      <3>3. PathMEM(w2, g, a) = atEX
        BY <2>2, <3>1, <3>2 DEF PathMEM, PathEX, Along
      <3>4. \A e : PathEX(m2, w2, g, e) = e
        BY <2>2, BubbleType DEF PathEX, Along
      <3> QED BY <1>2, <1>3, <2>2, <3>3, <3>4, BubbleType DEF On
    <2>3. CASE m2 = Bubble /\ w2 = Bubble /\ ~ m.isValid
      BY <2>3, BubbleType DEF PathEX, PathMEM, Along, On
    <2> QED BY <2>1, <2>2, <2>3
  <1>5. Path(x2, atEX) = atID /\ On(x2, atEX)
    <2>1. x.isValid => (Stops(x2) <=> Stops(x))
      BY BubbleType DEF Stops
    <2> HIDE DEF atEX
    <2> QED BY <1>3, <2>1, BubbleType DEF Path, Along, On
  <1>6. x.isValid /\ hasTrapped(EX) => atID = Anywhere
    <2>1. x.isValid /\ hasTrapped(EX) => Stops(x)
      BY <1>1, ValidStages DEF op, Stops, Trapping
    <2> QED BY <2>1 DEF Path, Along
  <1>7. On(d2, atID) /\ (Path(d2, atID) = Anywhere \/ pc = Path(d2, atID))
    <2>1. CASE d2 = d
      BY <1>3, <2>1
    <2>2. CASE d2 = Bubble /\ ~ d.isValid
      <3>1. Path(d2, atID) = atID /\ atIF = atID
        BY <2>2, BubbleType DEF Path, Along
      <3> QED BY <1>3, <2>2, <3>1, BubbleType DEF On
    <2>3. CASE d2 = Bubble /\ x.isValid /\ hasTrapped(EX)
      <3>1. Path(d2, atID) = atID
        BY <2>3, BubbleType DEF Path, Along
      <3> QED BY <1>6, <2>3, <3>1, BubbleType DEF On
    <2> QED BY <2>1, <2>2, <2>3
  <1> HIDE DEF atEX, atID, atIF
  <1>8. Path(x2, PathEX(m2, w2, g, PathMEM(w2, g, a))) = atID
    BY <1>4, <1>5
  <1> QED BY <1>4, <1>5, <1>7, <1>8 DEF PathOK

(* Everybody moves: the path moves with them, or turns at a jump in EX. *)
LEMMA PathMoves ==
  ASSUME Runs, NEW in, in.fetched \in Program, NEW a \in Pc,
         a = PathMEM(pipe[WB], registers, archPc), NEW g, g = RegistersNext,
         NEW w2, w2 = (IF pipe[MEM].isValid THEN OutputMEM ELSE Bubble),
         NEW m2, m2 = (IF isValid(EX) THEN OutputEX ELSE Bubble),
         NEW x2, x2 = (IF isValidID(in) THEN OutputID ELSE Bubble),
         NEW d2, d2 = (IF isDone(1, in) THEN OutputIF(in) ELSE Bubble),
         NEW p2, p2 = (IF jumpsInEX(in) THEN pipe[EX].ir.imm
                       ELSE IF isDone(1, in) THEN nextPc(pc) ELSE pc),
         isDone(1, in) => isValidIF(in),
         jumpsInEX(in) <=> isValid(EX) /\ TakesJump(pipe[EX].ir, rs1Data(EX), rs2Data(EX)),
         isValid(EX) => ~ hazard(EX)
  PROVE  PathOK(w2, m2, x2, d2, g, a, p2)
  <1> PICK w, m, x, d : w = pipe[WB] /\ m = pipe[MEM] /\ x = pipe[EX] /\ d = pipe[ID]
    OBVIOUS
  <1>1. /\ Types /\ TrapsOK /\ ~ jumpsInWB
        /\ PathOK(w, m, x, d, registers, archPc, pc)
    BY DEF Runs, SInv
  <1> DEFINE atEX == PathEX(m, w, registers, a)
             atID == Path(x, atEX)
             atIF == Path(d, atID)
             to == Goes(m, Seen1(w, registers, m.ir.rs1), Seen1(w, registers, m.ir.rs2))
             atEX2 == PathMEM(w2, g, a)
             atID2 == PathEX(m2, w2, g, atEX2)
             atIF2 == Path(x2, atID2)
  <1>2. a # Anywhere
    BY PcFacts DEF Anywhere
  <1>3. On(m, a) /\ On(x, atEX) /\ On(d, atID) /\ (atIF = Anywhere \/ pc = atIF)
    BY <1>1 DEF PathOK
  <1>4. /\ isValid(MEM) <=> m.isValid
        /\ isValid(EX) <=> x.isValid /\ ~ (m.isValid /\ m.ir.op \in Trapping)
        /\ isValid(ID) <=> d.isValid /\ ~ (m.isValid /\ m.ir.op \in Trapping)
        /\ m.isValid => (hasTrapped(MEM) <=> m.ir.op \in Trapping)
        /\ x.isValid => (hasTrapped(EX) <=> x.ir.op \in {"ILLEGAL", "ECALL"})
    BY <1>1, ValidStages DEF op
  <1>5. w2.isValid => w2.pc = a
    <2>1. m.isValid => w2.pc = m.pc
      BY <1>1, OutputMEMFacts
    <2> QED BY <1>2, <1>3, <2>1, BubbleType DEF On
  <1>6. \A n, e : PathEX(Bubble, n, g, e) = e /\ Path(Bubble, e) = e /\ On(Bubble, e)
    BY BubbleType DEF PathEX, Path, Along, On
  <1>7. atEX2 = atEX
    <2>1. CASE m.isValid
      <3>1. w2.isValid = m.isValid /\ w2.ir = m.ir /\ w2.pc = m.pc
        BY <1>1, <2>1, OutputMEMFacts
      <3>2. Goes(w2, ReadReg(g, w2.ir.rs1), ReadReg(g, w2.ir.rs2)) = to
        BY <2>1, <3>1, GoesOn
      <3>3. Stops(w2) <=> Stops(m)
        BY <3>1 DEF Stops
      <3> QED BY <2>1, <3>1, <3>2, <3>3 DEF PathMEM, PathEX, Along
    <2>2. CASE ~ m.isValid
      BY <2>2, BubbleType DEF PathMEM, PathEX, Along
    <2> QED BY <2>1, <2>2
  <1>8. CASE m.isValid /\ m.ir.op \in Trapping
    <2>1. m2 = Bubble /\ x2 = Bubble /\ d2 = Bubble
      BY <1>4, <1>8 DEF isValidID, isValidIF
    <2>2. atEX = Anywhere
      BY <1>8 DEF PathEX, Along, Stops
    <2> HIDE DEF atEX, atEX2
    <2>3. atID2 = Anywhere /\ atIF2 = Anywhere /\ Path(d2, atIF2) = Anywhere
      BY <1>6, <1>7, <2>1, <2>2
    <2> QED BY <1>5, <1>6, <2>1, <2>3 DEF PathOK, atEX2
  <1>9. CASE ~ (m.isValid /\ m.ir.op \in Trapping)
    <2>1. (isValid(EX) <=> x.isValid) /\ (isValid(ID) <=> d.isValid)
      BY <1>4, <1>9
    <2>2. x.isValid => /\ m2.isValid = x.isValid /\ m2.ir = x.ir /\ m2.pc = x.pc
                       /\ Stops(m2) <=> Stops(x)
      BY <1>1, <2>1, OutputEXFacts DEF Stops
    <2>3. On(m2, atEX2)
      <3> HIDE DEF atEX, atEX2
      <3> QED BY <1>3, <1>6, <1>7, <2>1, <2>2 DEF On
    <2>4. x.isValid => Goes(m2, Seen1(w2, g, m2.ir.rs1), Seen1(w2, g, m2.ir.rs2))
                         = IF jumpsInEX(in) THEN x.ir.imm ELSE nextPc(x.pc)
      BY <2>1, GoesOut
    <2>5. x.isValid => atID2 = (IF Stops(x) THEN Anywhere
                                ELSE IF jumpsInEX(in) THEN x.ir.imm ELSE nextPc(x.pc))
      BY <2>2, <2>4 DEF PathEX, Along
    <2>6. jumpsInEX(in) => x.isValid /\ ~ Stops(x)
      BY <2>1 DEF TakesJump, Stops, Trapping
    <2>7. CASE jumpsInEX(in)
      <3>1. x2 = Bubble /\ d2 = Bubble /\ p2 = x.ir.imm
        BY <2>7 DEF isValidID, isValidIF
      <3>2. atID2 = x.ir.imm
        BY <2>5, <2>6, <2>7
      <3> HIDE DEF atID2, atEX2
      <3>3. atIF2 = x.ir.imm /\ Path(d2, atIF2) = x.ir.imm
        BY <1>6, <3>1, <3>2
      <3> QED BY <1>5, <1>6, <2>3, <3>1, <3>3 DEF PathOK, atID2, atEX2
    <2>8. CASE ~ jumpsInEX(in)
      <3>1. atID2 = atID
        <4>1. CASE x.isValid
          BY <2>5, <2>8, <4>1 DEF Path, Along
        <4>2. CASE ~ x.isValid
          <5>1. m2 = Bubble
            BY <2>1, <4>2
          <5>2. atID2 = atEX2
            BY <1>6, <5>1
          <5> QED BY <1>7, <4>2, <5>2 DEF Path, Along
        <4> QED BY <4>1, <4>2
      <3>2. CASE x.isValid /\ hasTrapped(EX)
        <4>1. x2 = Bubble /\ d2 = Bubble
          BY <2>1, <3>2 DEF isValidID, isValidIF
        <4>2. Stops(x)
          BY <1>4, <3>2 DEF Stops, Trapping
        <4>3. atID2 = Anywhere
          BY <2>5, <3>2, <4>2
        <4> HIDE DEF atID2, atEX2
        <4>4. atIF2 = Anywhere /\ Path(d2, atIF2) = Anywhere
          BY <1>6, <4>1, <4>3
        <4> QED BY <1>5, <1>6, <2>3, <4>1, <4>4 DEF PathOK, atID2, atEX2
      <3>3. CASE ~ (x.isValid /\ hasTrapped(EX))
        <4>1. isValidID(in) <=> d.isValid
          BY <2>1, <2>8, <3>3 DEF isValidID
        <4>2. d.isValid => x2.isValid = d.isValid /\ x2.ir = d.ir /\ x2.pc = d.pc
          <5>1. RegistersNext \in [Reg -> Value]
            BY Retire
          <5> QED BY <1>1, <4>1, <5>1, OutputIDFacts
        <4>3. d.isValid => (Stops(x2) <=> Stops(d))
          BY <4>2 DEF Stops
        <4>4. On(x2, atID2) /\ atIF2 = atIF
          <5> HIDE DEF atID, atID2
          <5> QED BY <1>3, <3>1, <4>1, <4>2, <4>3, BubbleType DEF On, Path, Along
        <4>5. On(d2, atIF2) /\ (Path(d2, atIF2) = Anywhere \/ p2 = Path(d2, atIF2))
          <5>1. CASE isDone(1, in)
            <6>1. d2.isValid = TRUE /\ d2.pc = pc
              BY <1>1, <5>1, OutputIFFacts
            <6>2. On(d2, atIF2)
              BY <1>3, <4>4, <6>1 DEF On
            <6>3. p2 = nextPc(pc)
              BY <2>8, <5>1
            <6> QED BY <6>1, <6>2, <6>3 DEF Path, Along
          <5>2. CASE ~ isDone(1, in)
            <6>1. d2 = Bubble /\ p2 = pc
              BY <2>8, <5>2
            <6> HIDE DEF atIF, atIF2
            <6> QED BY <1>3, <1>6, <4>4, <6>1
          <5> QED BY <5>1, <5>2
        <4> HIDE DEF atID2, atEX2, atIF2
        <4> QED BY <1>5, <2>3, <4>4, <4>5 DEF PathOK, atID2, atEX2, atIF2
      <3> QED BY <3>2, <3>3
    <2> QED BY <2>7, <2>8
  <1> QED BY <1>8, <1>9

(* A jump in WB. *)
LEMMA PathJumps ==
  ASSUME SInv, jumpsInWB, NEW in, Cycle(in)
  PROVE  archPc' = pc' /\ pc' \in Pc
  <1>1. isValid(WB)
    BY StageFacts DEF isValid, jumpsInWB
  <1>2. pc' = IF op(WB) = "MRET" THEN csr.mepc ELSE Vector
    BY DEF Cycle, PcNext
  <1>3. hasTrapped(WB) \/ op(WB) = "MRET"
    BY DEF jumpsInWB
  <1>4. archPc' = IF op(WB) = "MRET" THEN csr.mepc ELSE Vector
    BY <1>1, <1>3 DEF Cycle
  <1> QED BY <1>2, <1>4, PcFacts DEF SInv, Types

-----------------------------------------------------------------------------
(* The bus.                                                                *)

LineRecord == [cmdReady : BOOLEAN, rspValid : BOOLEAN, mulReady : BOOLEAN, fetched : Program]

(* The command register, the memory and the read to be answered after a cycle. *)
MemoryNext(in) ==
    IF CmdFires(in) /\ FiredCmd.op = "write" THEN FiredCmd.wdata ELSE memory

AnswerNext(in) ==
    CASE in.rspValid -> NoAnswer
      [] ~in.rspValid /\ CmdFires(in) /\ FiredCmd.op = "read" -> memory
      [] OTHER -> answer

BusNext(in) == CmdNext(currentCmd, request, in.cmdReady, in.rspValid)

(* Nothing is asked for, and nothing happens. *)
LEMMA BusQuiet ==
  ASSUME Types, NEW in \in LineRecord, BusAllows(in), request = NoRequest,
         currentCmd = NoCmd, answer = NoAnswer
  PROVE  BusNext(in) = NoCmd /\ MemoryNext(in) = memory /\ AnswerNext(in) = NoAnswer
  <1>1. ~ issuedThisCycle(currentCmd, request) /\ ~ busValid(currentCmd, request)
    BY DEF issuedThisCycle, busValid, NoRequest, NoCmd
  <1>2. ~ CmdFires(in)
    BY <1>1 DEF CmdFires
  <1>3. ~ in.rspValid
    BY <1>2 DEF BusAllows
  <1>4. MemoryNext(in) = memory /\ AnswerNext(in) = NoAnswer
    BY <1>2, <1>3 DEF MemoryNext, AnswerNext
  <1>5. BusNext(in) = NoCmd
    BY <1>1, <1>3 DEF BusNext, CmdNext, NoRequest, NoCmd
  <1> QED BY <1>4, <1>5

(* A load in MEM. *)
LEMMA BusLoad ==
  ASSUME Runs, NEW in \in LineRecord, BusAllows(in), pipe[MEM].isValid, op(MEM) = "LW"
  PROVE  /\ MemoryNext(in) = memory
         /\ isDone(MEM, in) => /\ BusNext(in) = NoCmd /\ AnswerNext(in) = NoAnswer
                               /\ rdata = memory
         /\ \/ BusNext(in) = NoCmd /\ AnswerNext(in) = NoAnswer
            \/ /\ BusNext(in) = [valid |-> TRUE, ready |-> FALSE, cmd |-> ReadAt(0)]
               /\ AnswerNext(in) = NoAnswer
            \/ /\ BusNext(in) = [valid |-> FALSE, ready |-> TRUE, cmd |-> ReadAt(0)]
               /\ AnswerNext(in) = memory
  <1>1. Types /\ TrapsOK /\ BusOK /\ ~ jumpsInWB
    BY DEF Runs, SInv
  <1>2. request = ReadAt(0) /\ ~ hazard(MEM) /\ isValid(MEM)
    BY <1>1, MemoryStage, ValidStages
  <1>3. request.op = "read" /\ request.address = 0
    BY <1>2 DEF ReadAt
  <1>4. isDone(MEM, in) <=> readValid(currentCmd, request, in.rspValid)
    BY <1>2, <1>3, StageFacts DEF isDone, isReady, isStalledMEM
  <1>5. memory # NoAnswer /\ in.cmdReady \in BOOLEAN /\ in.rspValid \in BOOLEAN
    BY <1>1, ValueFacts DEF Types, NoAnswer, LineRecord
  <1>6. CASE currentCmd = NoCmd /\ answer = NoAnswer
    <2>1. issuedThisCycle(currentCmd, request)
      BY <1>3, <1>6 DEF issuedThisCycle, isIssued, NoCmd
    <2>2. /\ busValid(currentCmd, request) /\ busCmd(currentCmd, request) = ReadAt(0)
          /\ FiredCmd = ReadAt(0) /\ (CmdFires(in) <=> in.cmdReady)
      BY <1>2, <2>1 DEF busValid, busCmd, FiredCmd, CmdFires
    <2>3. in.rspValid => in.cmdReady
      BY <1>6, <2>2 DEF BusAllows
    <2>4. MemoryNext(in) = memory /\ rdata = memory
      BY <1>6, <2>2 DEF MemoryNext, ReadAt, rdata
    <2>5. AnswerNext(in) = IF in.rspValid \/ ~ in.cmdReady THEN NoAnswer ELSE memory
      BY <1>5, <1>6, <2>2 DEF AnswerNext, ReadAt
    <2>6. BusNext(in) = IF in.rspValid THEN NoCmd
                        ELSE [valid |-> ~ in.cmdReady, ready |-> in.cmdReady, cmd |-> ReadAt(0)]
      BY <1>3, <1>5, <2>1, <2>2 DEF BusNext, CmdNext
    <2>7. isDone(MEM, in) <=> in.rspValid
      BY <1>3, <1>4, <2>1 DEF readValid
    <2> QED BY <1>5, <2>3, <2>4, <2>5, <2>6, <2>7
  <1>7. CASE /\ currentCmd.cmd = ReadAt(0)
             /\ currentCmd.valid /\ ~ currentCmd.ready /\ answer = NoAnswer
    <2>1. ~ issuedThisCycle(currentCmd, request)
      BY <1>7 DEF issuedThisCycle, isIssued
    <2>2. /\ busValid(currentCmd, request) /\ busCmd(currentCmd, request) = ReadAt(0)
          /\ FiredCmd = ReadAt(0) /\ (CmdFires(in) <=> in.cmdReady)
      BY <1>7, <2>1 DEF busValid, busCmd, FiredCmd, CmdFires
    <2>3. in.rspValid => in.cmdReady
      BY <1>7, <2>2 DEF BusAllows
    <2>4. MemoryNext(in) = memory /\ rdata = memory
      BY <1>7, <2>2 DEF MemoryNext, ReadAt, rdata
    <2>5. AnswerNext(in) = IF in.rspValid \/ ~ in.cmdReady THEN NoAnswer ELSE memory
      BY <1>5, <1>7, <2>2 DEF AnswerNext, ReadAt
    <2>6. currentCmd = [valid |-> TRUE, ready |-> FALSE, cmd |-> ReadAt(0)]
      BY <1>1, <1>7 DEF Types
    <2>7. BusNext(in) = IF in.rspValid THEN NoCmd
                        ELSE IF in.cmdReady
                        THEN [valid |-> FALSE, ready |-> TRUE, cmd |-> ReadAt(0)]
                        ELSE currentCmd
      BY <1>3, <1>5, <1>7, <2>1, <2>2 DEF BusNext, CmdNext
    <2>8. isDone(MEM, in) <=> in.rspValid
      BY <1>3, <1>4, <1>7, <2>1 DEF readValid, ReadAt
    <2> QED BY <1>5, <2>3, <2>4, <2>5, <2>6, <2>7, <2>8
  <1>8. CASE /\ currentCmd.cmd = ReadAt(0)
             /\ ~ currentCmd.valid /\ currentCmd.ready /\ answer = memory
    <2>1. ~ issuedThisCycle(currentCmd, request)
      BY <1>8 DEF issuedThisCycle, isIssued
    <2>2. ~ busValid(currentCmd, request) /\ ~ CmdFires(in)
      BY <1>8, <2>1 DEF busValid, CmdFires
    <2>3. MemoryNext(in) = memory /\ rdata = memory
      BY <1>5, <1>8, <2>2 DEF MemoryNext, rdata
    <2>4. AnswerNext(in) = IF in.rspValid THEN NoAnswer ELSE memory
      BY <1>5, <1>8, <2>2 DEF AnswerNext
    <2>5. currentCmd = [valid |-> FALSE, ready |-> TRUE, cmd |-> ReadAt(0)]
      BY <1>1, <1>8 DEF Types
    <2>6. BusNext(in) = IF in.rspValid THEN NoCmd ELSE currentCmd
      BY <1>3, <1>5, <1>8, <2>1 DEF BusNext, CmdNext
    <2>7. isDone(MEM, in) <=> in.rspValid
      BY <1>3, <1>4, <1>8, <2>1 DEF readValid, ReadAt
    <2> QED BY <1>5, <2>3, <2>4, <2>5, <2>6, <2>7
  <1> QED BY <1>1, <1>6, <1>7, <1>8 DEF BusOK

(* The word a store in MEM asks for: what is on the bus already, or its operand. *)
Asked == IF currentCmd = NoCmd THEN rs2Data(MEM) ELSE currentCmd.cmd.wdata

(* A store in MEM. *)
LEMMA BusStore ==
  ASSUME Runs, NEW in \in LineRecord, BusAllows(in), pipe[MEM].isValid, op(MEM) = "SW"
  PROVE  /\ MemoryNext(in) \in Value /\ AnswerNext(in) = NoAnswer /\ Asked \in Value
         /\ isDone(MEM, in) => BusNext(in) = NoCmd /\ MemoryNext(in) = Asked
         /\ \/ BusNext(in) = NoCmd
            \/ BusNext(in) = [valid |-> TRUE, ready |-> FALSE, cmd |-> WriteAt(0, Asked)]
  <1>1. Types /\ TrapsOK /\ BusOK /\ ~ jumpsInWB
    BY DEF Runs, SInv
  <1>2. request = WriteAt(0, rs2Data(MEM)) /\ isValid(MEM) /\ rs2Data(MEM) \in Value
    BY <1>1, MemoryStage, ValidStages, DataTypes
  <1>3. request.op = "write" /\ request.address = 0
    BY <1>2 DEF WriteAt
  <1>4. isDone(MEM, in) => accepted(currentCmd, request, in.cmdReady)
    BY <1>2, <1>3, StageFacts DEF isDone, isReady, isStalledMEM
  <1>5. memory \in Value /\ in.cmdReady \in BOOLEAN /\ in.rspValid \in BOOLEAN
    BY <1>1 DEF Types, LineRecord
  <1>6. CASE currentCmd = NoCmd /\ answer = NoAnswer
    <2>1. issuedThisCycle(currentCmd, request)
      BY <1>3, <1>6 DEF issuedThisCycle, isIssued, NoCmd
    <2>2. /\ busValid(currentCmd, request)
          /\ busCmd(currentCmd, request) = WriteAt(0, Asked) /\ Asked = rs2Data(MEM)
          /\ FiredCmd = WriteAt(0, Asked) /\ (CmdFires(in) <=> in.cmdReady)
      BY <1>2, <1>6, <2>1 DEF busValid, busCmd, FiredCmd, CmdFires, Asked
    <2>3. ~ in.rspValid
      BY <1>6, <2>2 DEF BusAllows, WriteAt
    <2>4. MemoryNext(in) = IF in.cmdReady THEN Asked ELSE memory
      BY <2>2 DEF MemoryNext, WriteAt
    <2>5. AnswerNext(in) = NoAnswer
      BY <1>6, <2>2, <2>3 DEF AnswerNext, WriteAt
    <2>6. BusNext(in) = IF in.cmdReady THEN NoCmd
                        ELSE [valid |-> TRUE, ready |-> FALSE, cmd |-> WriteAt(0, Asked)]
      BY <1>3, <1>5, <2>1, <2>2, <2>3 DEF BusNext, CmdNext
    <2>7. isDone(MEM, in) => in.cmdReady
      BY <1>4 DEF accepted
    <2> QED BY <1>2, <1>5, <2>2, <2>4, <2>5, <2>6, <2>7
  <1>7. CASE /\ \E v \in Value : currentCmd.cmd = WriteAt(0, v)
             /\ currentCmd.valid /\ ~ currentCmd.ready /\ answer = NoAnswer
    <2>1. ~ issuedThisCycle(currentCmd, request) /\ currentCmd # NoCmd
      BY <1>7 DEF issuedThisCycle, isIssued, NoCmd
    <2>2. Asked \in Value /\ currentCmd.cmd = WriteAt(0, Asked)
      BY <1>7, <2>1 DEF Asked, WriteAt
    <2>3. /\ busValid(currentCmd, request)
          /\ busCmd(currentCmd, request) = WriteAt(0, Asked)
          /\ FiredCmd = WriteAt(0, Asked) /\ (CmdFires(in) <=> in.cmdReady)
      BY <1>7, <2>1, <2>2 DEF busValid, busCmd, FiredCmd, CmdFires
    <2>4. ~ in.rspValid
      BY <1>7, <2>3 DEF BusAllows, WriteAt
    <2>5. MemoryNext(in) = IF in.cmdReady THEN Asked ELSE memory
      BY <2>3 DEF MemoryNext, WriteAt
    <2>6. AnswerNext(in) = NoAnswer
      BY <1>7, <2>3, <2>4 DEF AnswerNext, WriteAt
    <2>7. currentCmd = [valid |-> TRUE, ready |-> FALSE, cmd |-> WriteAt(0, Asked)]
      BY <1>1, <1>7, <2>2 DEF Types
    <2>8. BusNext(in) = IF in.cmdReady THEN NoCmd ELSE currentCmd
      BY <1>3, <1>5, <2>1, <2>3, <2>4 DEF BusNext, CmdNext
    <2>9. isDone(MEM, in) => in.cmdReady
      BY <1>4 DEF accepted
    <2> QED BY <1>5, <2>2, <2>5, <2>6, <2>7, <2>8, <2>9
  <1> QED BY <1>1, <1>6, <1>7 DEF BusOK

-----------------------------------------------------------------------------
(* A cycle keeps the invariant.                                            *)

Flags(w, m, x, d) ==
    /\ ~ d.trapped
    /\ x.isValid => (x.trapped <=> x.ir.op = "ILLEGAL")
    /\ m.isValid => (m.trapped <=> m.ir.op \in {"ILLEGAL", "ECALL"})
    /\ w.isValid => (w.trapped <=> w.ir.op \in Trapping)

(* The part of the invariant about what the stages hold. *)
Fits(w, m, x, d, g, l, word, a, p) ==
    /\ w \in StageRecord /\ m \in StageRecord /\ x \in StageRecord /\ d \in StageRecord
    /\ Flags(w, m, x, d)
    /\ OperandsWB(w, g, l) /\ OperandsMEM(m, w, g, l) /\ OperandsEX(x, m, w, g, l)
    /\ ResultsMEM(m, w, g) /\ ResultsWB(w, g, word)
    /\ PathOK(w, m, x, d, g, a, p)

LEMMA FlagsNow == ASSUME TrapsOK PROVE Flags(pipe[WB], pipe[MEM], pipe[EX], pipe[ID])
  BY DEF TrapsOK, Flags, op

(* What WB leaves behind when it jumps. *)
LEMMA RetireJump ==
  ASSUME SInv, jumpsInWB, NEW g, g = RegistersNext, NEW l, l = LastWrittenNext
  PROVE  /\ g \in [Reg -> Value] /\ l \in [id : Reg, valid : BOOLEAN, data : Value]
         /\ LastOK(g, l)
  <1> PICK w : w = pipe[WB]
    OBVIOUS
  <1>1. /\ Types /\ LastOK(registers, lastWrittenRd) /\ ResultsWB(w, registers, memory)
        /\ w.isValid /\ isValid(WB)
    BY StageFacts DEF SInv, jumpsInWB, isValid
  <1>2. /\ w.ir.rd \in Reg /\ w.rdData \in Value /\ registers \in [Reg -> Value]
        /\ csr.mscratch \in Value
        /\ lastWrittenRd \in [id : Reg, valid : BOOLEAN, data : Value]
    BY <1>1, PipeTypes, StageFacts DEF Types
  <1>3. CASE hasTrapped(WB)
    BY <1>1, <1>2, <1>3 DEF RegistersNext, Writes, LastWrittenNext
  <1>4. CASE ~ hasTrapped(WB)
    <2>1. op(WB) = "MRET" /\ w.ir.op = "MRET"
      BY <1>4 DEF jumpsInWB, op
    <2>2. ~ w.rdValid
      BY <1>1, <2>1 DEF ResultsWB, Produces
    <2>3. rdOut = w.rdData
      BY <2>1 DEF rdOut
    <2>4. g \in [Reg -> Value]
      BY <1>2, <2>3 DEF RegistersNext, WriteReg
    <2>5. l = [id |-> w.ir.rd, data |-> rdOut, valid |-> FALSE]
      BY <1>1, <1>4, <2>1, <2>2 DEF LastWrittenNext
    <2> QED BY <1>2, <2>3, <2>4, <2>5 DEF LastOK
  <1> QED BY <1>3, <1>4

LEMMA FitsJump ==
  ASSUME NEW g, NEW l, NEW word, NEW a
  PROVE  Fits(Bubble, Bubble, Bubble, Bubble, g, l, word, a, a)
  <1>1. PathOK(Bubble, Bubble, Bubble, Bubble, g, a, a)
    BY BubbleType DEF PathOK, PathMEM, PathEX, Path, Along, On
  <1> QED BY <1>1, BubbleType, BubbleOK DEF Fits, Flags

LEMMA FitsHeldMEM ==
  ASSUME Runs, NEW in, pipe[MEM].isValid, ~ isDone(MEM, in), NEW P, P = PipeNext(in),
         NEW a \in Pc, a = PathMEM(pipe[WB], registers, archPc), NEW word
  PROVE  Fits(P[WB], P[MEM], P[EX], P[ID], RegistersNext, LastWrittenNext, word, a, PcNext(in))
  <1> PICK w, m, x, d, g, l : /\ w = pipe[WB] /\ m = pipe[MEM] /\ x = pipe[EX] /\ d = pipe[ID]
                              /\ g = RegistersNext /\ l = LastWrittenNext
    OBVIOUS
  <1>1. Types /\ TrapsOK /\ ~ jumpsInWB
    BY DEF Runs, SInv
  <1>2. PICK hm, hx : hm = Held(MEM) /\ hx = Held(EX)
    OBVIOUS
  <1>3. PICK w2, m2, x2, d2 :
          /\ w2 = Bubble /\ m2 = hm /\ x2 = (IF x.isValid THEN hx ELSE Bubble)
          /\ d2 = (IF d.isValid /\ ~ (x.isValid /\ hasTrapped(EX)) THEN d ELSE Bubble)
    OBVIOUS
  <1>4. /\ P[WB] = w2 /\ P[MEM] = m2 /\ P[EX] = x2 /\ P[ID] = d2 /\ PcNext(in) = pc
        /\ isValid(EX) <=> x.isValid
    BY <1>1, <1>2, <1>3, MoveHeldMEM
  <1>5. /\ hm \in StageRecord /\ hm.isValid = m.isValid /\ hm.pc = m.pc /\ hm.ir = m.ir
        /\ hm.trapped = m.trapped
        /\ hx \in StageRecord /\ hx.isValid = x.isValid /\ hx.pc = x.pc /\ hx.ir = x.ir
        /\ hx.trapped = x.trapped
    BY <1>1, <1>2, HeldFacts
  <1>6. w2 \in StageRecord /\ m2 \in StageRecord /\ x2 \in StageRecord /\ d2 \in StageRecord
    BY <1>1, <1>3, <1>5, PipeTypes, BubbleType
  <1>7. Flags(w2, m2, x2, d2)
    BY <1>1, <1>3, <1>5, FlagsNow, BubbleType DEF Flags
  <1>8. /\ ResultsMEM(m2, w2, g) /\ OperandsMEM(m2, w2, g, l)
        /\ ResultsWB(w2, g, word) /\ OperandsWB(w2, g, l)
    BY <1>2, <1>3, StayMEM, BubbleOK
  <1>9. OperandsEX(x2, m2, w2, g, l)
    <2>1. \A r : Writer(m, r) => Writer(m2, r)
      BY <1>3, <1>5 DEF Writer
    <2> QED BY <1>2, <1>3, <1>4, <2>1, StayEX, BubbleOK
  <1>10. PathOK(w2, m2, x2, d2, g, a, pc)
    <2>1. w2 = Bubble /\ m2.isValid = m.isValid /\ m2.ir = m.ir /\ m2.pc = m.pc /\ m.isValid
      BY <1>3, <1>5
    <2>2. \/ x.isValid /\ x2.isValid = x.isValid /\ x2.ir = x.ir /\ x2.pc = x.pc
          \/ ~ x.isValid /\ x2 = Bubble
      BY <1>3, <1>5
    <2> QED BY <1>3, <2>1, <2>2, PathStays
  <1> QED BY <1>4, <1>6, <1>7, <1>8, <1>9, <1>10 DEF Fits

LEMMA FitsHeldEX ==
  ASSUME Runs, NEW in, pipe[MEM].isValid => isDone(MEM, in), isValid(EX), ~ isDone(EX, in),
         NEW P, P = PipeNext(in),
         NEW a \in Pc, a = PathMEM(pipe[WB], registers, archPc),
         NEW word, pipe[MEM].isValid /\ op(MEM) = "LW" => rdata = word
  PROVE  Fits(P[WB], P[MEM], P[EX], P[ID], RegistersNext, LastWrittenNext, word, a, PcNext(in))
  <1> PICK w, m, x, d, g, l : /\ w = pipe[WB] /\ m = pipe[MEM] /\ x = pipe[EX] /\ d = pipe[ID]
                              /\ g = RegistersNext /\ l = LastWrittenNext
    OBVIOUS
  <1>1. Types /\ TrapsOK /\ ~ jumpsInWB
    BY DEF Runs, SInv
  <1>2. PICK o, hx : o = OutputMEM /\ hx = Held(EX)
    OBVIOUS
  <1>3. PICK w2, m2, x2, d2 :
          /\ w2 = (IF m.isValid THEN o ELSE Bubble) /\ m2 = Bubble /\ x2 = hx
          /\ d2 = (IF d.isValid /\ ~ hasTrapped(EX) THEN d ELSE Bubble)
    OBVIOUS
  <1>4. /\ P[WB] = w2 /\ P[MEM] = m2 /\ P[EX] = x2 /\ P[ID] = d2 /\ PcNext(in) = pc
        /\ x.isValid
    BY <1>1, <1>2, <1>3, MoveHeldEX
  <1>5. /\ o \in StageRecord /\ o.isValid = m.isValid /\ o.pc = m.pc /\ o.ir = m.ir
        /\ o.trapped = hasTrapped(MEM)
        /\ hx \in StageRecord /\ hx.isValid = x.isValid /\ hx.pc = x.pc /\ hx.ir = x.ir
        /\ hx.trapped = x.trapped
    BY <1>1, <1>2, HeldFacts, OutputMEMFacts
  <1>6. w2 \in StageRecord /\ m2 \in StageRecord /\ x2 \in StageRecord /\ d2 \in StageRecord
    BY <1>1, <1>3, <1>5, PipeTypes, BubbleType
  <1>7. Flags(w2, m2, x2, d2)
    <2>1. m.isValid => (hasTrapped(MEM) <=> m.ir.op \in Trapping)
      BY <1>1, ValidStages DEF op
    <2> QED BY <1>1, <1>3, <1>5, <2>1, FlagsNow, BubbleType DEF Flags
  <1>8. /\ ResultsMEM(m2, w2, g) /\ OperandsMEM(m2, w2, g, l)
        /\ ResultsWB(w2, g, word) /\ OperandsWB(w2, g, l)
    <2>1. m.isValid => ResultsWB(o, g, word) /\ OperandsWB(o, g, l)
      BY <1>2, ToWB DEF op
    <2> QED BY <1>3, <2>1, BubbleOK
  <1>9. OperandsEX(x2, m2, w2, g, l)
    <2>1. \A r : Writer(m, r) => Writer(w2, r)
      BY <1>3, <1>5 DEF Writer
    <2> QED BY <1>2, <1>3, <2>1, StayEX
  <1>10. PathOK(w2, m2, x2, d2, g, a, pc)
    <2>1. \/ m2 = Bubble /\ m.isValid /\ w2.isValid = m.isValid /\ w2.ir = m.ir /\ w2.pc = m.pc
          \/ m2 = Bubble /\ w2 = Bubble /\ ~ m.isValid
      BY <1>3, <1>5
    <2>2. x.isValid /\ x2.isValid = x.isValid /\ x2.ir = x.ir /\ x2.pc = x.pc
      BY <1>3, <1>4, <1>5
    <2> QED BY <1>3, <2>1, <2>2, PathStays
  <1> QED BY <1>4, <1>6, <1>7, <1>8, <1>9, <1>10 DEF Fits

LEMMA FitsMoved ==
  ASSUME Runs, NEW in, in.fetched \in Program, pipe[MEM].isValid => isDone(MEM, in),
         isValid(EX) => isDone(EX, in), NEW P, P = PipeNext(in),
         NEW a \in Pc, a = PathMEM(pipe[WB], registers, archPc),
         NEW word, pipe[MEM].isValid /\ op(MEM) = "LW" => rdata = word
  PROVE  Fits(P[WB], P[MEM], P[EX], P[ID], RegistersNext, LastWrittenNext, word, a, PcNext(in))
  <1> PICK w, m, x, d, g, l : /\ w = pipe[WB] /\ m = pipe[MEM] /\ x = pipe[EX] /\ d = pipe[ID]
                              /\ g = RegistersNext /\ l = LastWrittenNext
    OBVIOUS
  <1>1. Types /\ TrapsOK /\ ~ jumpsInWB
    BY DEF Runs, SInv
  <1>2. PICK om, ox, od, of : om = OutputMEM /\ ox = OutputEX /\ od = OutputID /\ of = OutputIF(in)
    OBVIOUS
  <1>3. PICK w2, m2, x2, d2 :
          /\ w2 = (IF m.isValid THEN om ELSE Bubble) /\ m2 = (IF isValid(EX) THEN ox ELSE Bubble)
          /\ x2 = (IF isValidID(in) THEN od ELSE Bubble)
          /\ d2 = (IF isDone(1, in) THEN of ELSE Bubble)
    OBVIOUS
  <1>4. /\ P[WB] = w2 /\ P[MEM] = m2 /\ P[EX] = x2 /\ P[ID] = d2
        /\ PcNext(in) = (IF jumpsInEX(in) THEN pipe[EX].ir.imm
                         ELSE IF isDone(1, in) THEN nextPc(pc) ELSE pc)
        /\ isDone(1, in) => isValidIF(in)
        /\ jumpsInEX(in) <=> isValid(EX) /\ TakesJump(pipe[EX].ir, rs1Data(EX), rs2Data(EX))
        /\ isValid(EX) => ~ hazard(EX)
    BY <1>1, <1>2, <1>3, MoveAll
  <1>5. /\ om \in StageRecord /\ om.ir = m.ir /\ om.trapped = hasTrapped(MEM)
        /\ ox \in StageRecord /\ ox.ir = x.ir /\ ox.trapped = hasTrapped(EX)
    BY <1>1, <1>2, OutputMEMFacts, OutputEXFacts
  <1>6. /\ od \in StageRecord /\ od.ir = d.ir /\ od.trapped = hasTrapped(ID)
        /\ of \in StageRecord /\ ~ of.trapped
    BY <1>1, <1>2, OutputIDFacts, OutputIFFacts, Retire
  <1>7. w2 \in StageRecord /\ m2 \in StageRecord /\ x2 \in StageRecord /\ d2 \in StageRecord
    BY <1>3, <1>5, <1>6, BubbleType
  <1>8. Flags(w2, m2, x2, d2)
    <2>1. /\ m.isValid => (hasTrapped(MEM) <=> m.ir.op \in Trapping)
          /\ isValid(EX) => (hasTrapped(EX) <=> x.ir.op \in {"ILLEGAL", "ECALL"})
          /\ hasTrapped(ID) <=> d.ir.op = "ILLEGAL"
      BY <1>1, ValidStages DEF op
    <2> QED BY <1>3, <1>5, <1>6, <2>1, BubbleType DEF Flags
  <1>9. ResultsWB(w2, g, word) /\ OperandsWB(w2, g, l)
    <2>1. m.isValid => ResultsWB(om, g, word) /\ OperandsWB(om, g, l)
      BY <1>2, ToWB DEF op
    <2> QED BY <1>3, <2>1, BubbleOK
  <1>10. ResultsMEM(m2, w2, g) /\ OperandsMEM(m2, w2, g, l)
    BY <1>2, <1>3, <1>4, ToMEM, BubbleOK
  <1>11. OperandsEX(x2, m2, w2, g, l)
    BY <1>2, <1>3, ToEX, BubbleOK
  <1>12. PathOK(w2, m2, x2, d2, g, a, PcNext(in))
    BY <1>2, <1>3, <1>4, PathMoves
  <1> QED BY <1>4, <1>7, <1>8, <1>9, <1>10, <1>11, <1>12 DEF Fits

(* The lines in a cycle. *)
LEMMA NextLines ==
  ASSUME Types, Next
  PROVE  \E in \in LineRecord : BusAllows(in) /\ MulAllows(in) /\ Cycle(in)
  <1>0. PICK k \in Lines : /\ BusAllows(k) /\ MulAllows(k)
                          /\ \E ir \in Fetches(k) : Cycle([k EXCEPT !.fetched = ir])
    BY DEF Next
  <1>1. PICK ir \in Fetches(k) : Cycle([k EXCEPT !.fetched = ir])
    BY <1>0
  <1>2. ir \in Program
    BY <1>1 DEF Fetches, Program
  <1>3. PICK in : in = [k EXCEPT !.fetched = ir]
    OBVIOUS
  <1>4. /\ in \in LineRecord /\ in.cmdReady = k.cmdReady /\ in.rspValid = k.rspValid
        /\ in.mulReady = k.mulReady
    BY <1>0, <1>2, <1>3 DEF Lines, LineRecord
  <1>5. CmdFires(in) = CmdFires(k)
    BY <1>4 DEF CmdFires
  <1>6. BusAllows(in)
    BY <1>0, <1>4, <1>5 DEF BusAllows
  <1>7. isStalledEX(in) <=> isStalledEX(k)
    <2>1. isReady(MEM, in) <=> isReady(MEM, k)
      BY <1>4, StageFacts DEF isReady
    <2> QED BY <2>1 DEF isStalledEX
  <1>8. MulAllows(in)
    BY <1>0, <1>4, <1>7 DEF MulAllows
  <1> QED BY <1>1, <1>3, <1>4, <1>6, <1>8

(* The bus works for the instruction that is in MEM after the cycle. *)
BusFits(w, m, c, ans, word) ==
    \/ c = NoCmd /\ ans = NoAnswer
    \/ /\ m.isValid /\ ~ w.isValid /\ m.ir.op = "LW"
       /\ \/ c = [valid |-> TRUE, ready |-> FALSE, cmd |-> ReadAt(0)] /\ ans = NoAnswer
          \/ c = [valid |-> FALSE, ready |-> TRUE, cmd |-> ReadAt(0)] /\ ans = word
    \/ /\ m.isValid /\ ~ w.isValid /\ m.ir.op = "SW" /\ ans = NoAnswer
       /\ \E v \in Value : c = [valid |-> TRUE, ready |-> FALSE, cmd |-> WriteAt(0, v)]

LEMMA BusFitsNext ==
  ASSUME Runs, NEW in \in LineRecord, BusAllows(in), NEW P, P = PipeNext(in)
  PROVE  /\ BusFits(P[WB], P[MEM], BusNext(in), AnswerNext(in), MemoryNext(in))
         /\ MemoryNext(in) \in Value
         /\ pipe[MEM].isValid /\ op(MEM) = "LW" /\ isDone(MEM, in) => rdata = MemoryNext(in)
         /\ MemoryNext(in) # memory => isValid(MEM) /\ op(MEM) = "SW"
  <1>1. Types /\ TrapsOK /\ BusOK /\ ~ jumpsInWB
    BY DEF Runs, SInv
  <1>2. memory \in Value /\ (isValid(MEM) <=> pipe[MEM].isValid)
    BY <1>1, ValidStages DEF Types
  <1>3. CASE ~ (pipe[MEM].isValid /\ op(MEM) \in {"LW", "SW"})
    <2>1. request = NoRequest
      BY <1>1, <1>3, MemoryStage
    <2>2. currentCmd = NoCmd /\ answer = NoAnswer
      BY <1>1, <1>3 DEF BusOK
    <2> QED BY <1>1, <1>2, <1>3, <2>1, <2>2, BusQuiet DEF BusFits
  <1>4. ASSUME pipe[MEM].isValid, ~ isDone(MEM, in)
        PROVE  P[MEM].isValid /\ ~ P[WB].isValid /\ P[MEM].ir = pipe[MEM].ir
    <2>1. P[WB] = Bubble /\ P[MEM] = Held(MEM)
      BY <1>1, <1>4, MoveHeldMEM
    <2> QED BY <1>1, <1>4, <2>1, HeldFacts, BubbleType
  <1>5. CASE pipe[MEM].isValid /\ op(MEM) = "LW"
    BY <1>2, <1>4, <1>5, BusLoad DEF BusFits, op
  <1>6. CASE pipe[MEM].isValid /\ op(MEM) = "SW"
    BY <1>2, <1>4, <1>6, BusStore DEF BusFits, op
  <1> QED BY <1>3, <1>5, <1>6

(* The pipeline after the cycle. *)
LEMMA CycleFits ==
  ASSUME SInv, NEW in \in LineRecord, BusAllows(in), Cycle(in)
  PROVE  /\ Fits(pipe'[WB], pipe'[MEM], pipe'[EX], pipe'[ID], registers', lastWrittenRd',
                 memory', archPc', pc')
         /\ BusFits(pipe'[WB], pipe'[MEM], currentCmd', answer', memory')
         /\ memory' \in Value /\ archPc' \in Pc /\ pc' \in Pc
         /\ registers' \in [Reg -> Value]
         /\ lastWrittenRd' \in [id : Reg, valid : BOOLEAN, data : Value]
         /\ LastOK(registers', lastWrittenRd')
         /\ memory' # memory => isValid(MEM) /\ op(MEM) = "SW"
  <1>1. /\ pipe' = PipeNext(in) /\ pc' = PcNext(in) /\ registers' = RegistersNext
        /\ lastWrittenRd' = LastWrittenNext
        /\ currentCmd' = BusNext(in) /\ memory' = MemoryNext(in) /\ answer' = AnswerNext(in)
    BY DEF Cycle, BusNext, MemoryNext, AnswerNext
  <1>2. in.fetched \in Program /\ Types /\ TrapsOK /\ BusOK
    BY DEF LineRecord, SInv
  <1>3. CASE jumpsInWB
    <2>1. /\ pipe'[ID] = Bubble /\ pipe'[EX] = Bubble /\ pipe'[MEM] = Bubble
          /\ pipe'[WB] = Bubble /\ request = NoRequest
      BY <1>1, <1>2, <1>3, MoveJump
    <2>2. currentCmd = NoCmd /\ answer = NoAnswer
      BY <1>2, <1>3 DEF BusOK, jumpsInWB
    <2>3. currentCmd' = NoCmd /\ memory' = memory /\ answer' = NoAnswer
      BY <1>1, <1>2, <2>1, <2>2, BusQuiet
    <2>4. archPc' = pc' /\ pc' \in Pc
      BY <1>3, PathJumps
    <2>5. memory \in Value
      BY <1>2 DEF Types
    <2> QED BY <1>1, <1>3, <2>1, <2>3, <2>4, <2>5, FitsJump, RetireJump DEF BusFits
  <1>4. CASE ~ jumpsInWB
    <2>1. Runs
      BY <1>4 DEF Runs
    <2>2. archPc' \in Pc /\ archPc' = PathMEM(pipe[WB], registers, archPc)
      BY <2>1, ArchNext
    <2>3. /\ BusFits(pipe'[WB], pipe'[MEM], currentCmd', answer', memory') /\ memory' \in Value
          /\ pipe[MEM].isValid /\ op(MEM) = "LW" /\ isDone(MEM, in) => rdata = memory'
          /\ memory' # memory => isValid(MEM) /\ op(MEM) = "SW"
      BY <1>1, <2>1, BusFitsNext
    <2>4. /\ registers' \in [Reg -> Value] /\ LastOK(registers', lastWrittenRd')
          /\ lastWrittenRd' \in [id : Reg, valid : BOOLEAN, data : Value]
      BY <1>1, <2>1, Retire
    <2>5. Fits(pipe'[WB], pipe'[MEM], pipe'[EX], pipe'[ID], registers', lastWrittenRd',
               memory', archPc', pc')
      <3>1. CASE pipe[MEM].isValid /\ ~ isDone(MEM, in)
        BY <1>1, <2>1, <2>2, <3>1, FitsHeldMEM
      <3>2. CASE (pipe[MEM].isValid => isDone(MEM, in)) /\ isValid(EX) /\ ~ isDone(EX, in)
        BY <1>1, <2>1, <2>2, <2>3, <3>2, FitsHeldEX
      <3>3. CASE (pipe[MEM].isValid => isDone(MEM, in)) /\ (isValid(EX) => isDone(EX, in))
        BY <1>1, <1>2, <2>1, <2>2, <2>3, <3>3, FitsMoved
      <3> QED BY <3>1, <3>2, <3>3
    <2>6. pc' \in Pc
      <3>1. pc \in Pc /\ pipe[EX].ir.imm \in Pc
        BY <1>2, PipeTypes, StageFacts DEF Types
      <3>2. pc' \in {pc, pipe[EX].ir.imm, nextPc(pc)}
        BY <1>1, <1>4 DEF PcNext
      <3> QED BY <3>1, <3>2, PcFacts
    <2> QED BY <2>2, <2>3, <2>4, <2>5, <2>6
  <1> QED BY <1>3, <1>4

LEMMA CycleKeepsInvariant ==
  ASSUME SInv, NEW in \in LineRecord, BusAllows(in), MulAllows(in), Cycle(in)
  PROVE  SInv'
  <1>1. Types /\ config' = config
    BY DEF SInv, Cycle
  <1>2. /\ Fits(pipe'[WB], pipe'[MEM], pipe'[EX], pipe'[ID], registers', lastWrittenRd',
                memory', archPc', pc')
        /\ BusFits(pipe'[WB], pipe'[MEM], currentCmd', answer', memory')
        /\ memory' \in Value /\ archPc' \in Pc /\ pc' \in Pc
        /\ registers' \in [Reg -> Value]
        /\ lastWrittenRd' \in [id : Reg, valid : BOOLEAN, data : Value]
        /\ LastOK(registers', lastWrittenRd')
    BY CycleFits
  <1>3. StageRecord' = StageRecord
    BY <1>1 DEF StageRecord, Program
  <1>4. pipe' \in [Stage -> StageRecord]
    <2>1. \A s \in Stage : pipe'[s] \in StageRecord
      BY <1>2, StageFacts DEF Fits
    <2>2. pipe' = [s \in Stage |-> pipe'[s]]
      BY DEF Cycle, PipeNext
    <2> QED BY <2>1, <2>2
  <1>5. csr' \in [mscratch : Value, mepc : Pc, mie : BOOLEAN, mpie : BOOLEAN]
    <2>1. rs1Data(WB) \in Value /\ pipe[WB].pc \in Pc
      BY <1>1, DataTypes, PipeTypes, StageFacts
    <2>2. csr \in [mscratch : Value, mepc : Pc, mie : BOOLEAN, mpie : BOOLEAN]
      BY <1>1 DEF Types
    <2>3. csr' = CsrNext
      BY DEF Cycle
    <2> QED BY <2>1, <2>2, <2>3 DEF CsrNext
  <1>6. mip' \in BOOLEAN /\ (mip' => config'.interrupts = TRUE)
    <2>1. config.interrupts \in BOOLEAN
      BY <1>1, StaticAssumption DEF Types
    <2>2. mip' \in IF config.interrupts THEN BOOLEAN ELSE {FALSE}
      BY DEF Cycle
    <2> QED BY <1>1, <2>1, <2>2
  <1>7. currentCmd' \in [valid : BOOLEAN, ready : BOOLEAN, cmd : Request]
        /\ answer' \in Value \cup {NoAnswer}
    <2>1. NoRequest \in Request /\ ReadAt(0) \in Request /\ \A v \in Value : WriteAt(0, v) \in Request
      BY DEF Request
    <2>2. NoCmd = [valid |-> FALSE, ready |-> FALSE, cmd |-> NoRequest]
      BY DEF NoCmd
    <2>3. \E v, r \in BOOLEAN, q \in Request : currentCmd' = [valid |-> v, ready |-> r, cmd |-> q]
      BY <1>2, <2>1, <2>2 DEF BusFits
    <2>4. answer' \in {NoAnswer, memory'}
      BY <1>2 DEF BusFits
    <2> QED BY <1>2, <2>3, <2>4
  <1>8. step' \in 0 .. MulSteps - 1
    <2>1. step \in 0 .. MulSteps - 1 /\ MulSteps \in Nat \ {0}
      BY <1>1, StaticAssumption DEF Types
    <2>2. step' = 0 \/ (step' = step + 1 /\ step # MulSteps - 1)
      BY DEF Cycle, MulAllows
    <2> QED BY <2>1, <2>2
  <1>9. waited' \in 0 .. BusWait
    <2>1. waited \in 0 .. BusWait /\ BusWait \in Nat
      BY <1>1, StaticAssumption DEF Types
    <2>2. waited' = 0 \/ (waited' = waited + 1 /\ waited < BusWait)
      BY DEF Cycle
    <2> QED BY <2>1, <2>2
  <1>10. Types'
    BY <1>1, <1>2, <1>3, <1>4, <1>5, <1>6, <1>7, <1>8, <1>9 DEF Types, Request
  <1>11. TrapsOK'
    BY <1>2, <1>6 DEF TrapsOK, Fits, Flags, op
  <1>12. BusOK'
    BY <1>2 DEF BusFits, BusOK, op
  <1>13. /\ OperandsWB(pipe'[WB], registers', lastWrittenRd')
         /\ OperandsMEM(pipe'[MEM], pipe'[WB], registers', lastWrittenRd')
         /\ OperandsEX(pipe'[EX], pipe'[MEM], pipe'[WB], registers', lastWrittenRd')
         /\ ResultsMEM(pipe'[MEM], pipe'[WB], registers')
         /\ ResultsWB(pipe'[WB], registers', memory')
         /\ PathOK(pipe'[WB], pipe'[MEM], pipe'[EX], pipe'[ID], registers', archPc', pc')
    BY <1>2 DEF Fits
  <1> QED BY <1>2, <1>10, <1>11, <1>12, <1>13 DEF SInv

LEMMA InitInvariant == Init => SInv
  <1> SUFFICES ASSUME Init PROVE SInv
    OBVIOUS
  <1>1. \A s \in Stage : pipe[s] = Bubble
    BY DEF Init
  <1>2. /\ pipe[ID] = Bubble /\ pipe[EX] = Bubble /\ pipe[MEM] = Bubble /\ pipe[WB] = Bubble
    BY <1>1, StageFacts
  <1>3. Fits(Bubble, Bubble, Bubble, Bubble, registers, lastWrittenRd, memory, archPc, archPc)
    BY FitsJump
  <1>4. Types
    <2>1. pipe \in [Stage -> StageRecord]
      BY BubbleType DEF Init
    <2>2. currentCmd \in [valid : BOOLEAN, ready : BOOLEAN, cmd : Request]
      BY DEF Init, NoCmd, Request
    <2>3. lastWrittenRd \in [id : Reg, valid : BOOLEAN, data : Value]
      BY DEF Init
    <2>4. csr \in [mscratch : Value, mepc : Pc, mie : BOOLEAN, mpie : BOOLEAN]
      BY PcFacts, ValueFacts, StaticAssumption DEF Init
    <2>5. config \in Configs /\ pc \in Pc /\ archPc \in Pc /\ registers \in [Reg -> Value]
      BY PcFacts DEF Init
    <2>6. mip \in BOOLEAN /\ memory \in Value /\ answer \in Value \cup {NoAnswer}
      BY ValueFacts DEF Init
    <2>7. step \in 0 .. MulSteps - 1 /\ waited \in 0 .. BusWait
      BY StaticAssumption DEF Init
    <2> QED BY <2>1, <2>2, <2>3, <2>4, <2>5, <2>6, <2>7 DEF Types
  <1>5. LastOK(registers, lastWrittenRd)
    BY DEF Init, LastOK
  <1>6. TrapsOK /\ BusOK
    BY <1>2, BubbleType DEF Init, TrapsOK, BusOK
  <1>7. pc = archPc
    BY DEF Init
  <1> QED BY <1>2, <1>3, <1>4, <1>5, <1>6, <1>7 DEF SInv, Fits

LEMMA StepKeepsInvariant == SInv /\ [Next]_vars => SInv'
  <1> SUFFICES ASSUME SInv, [Next]_vars PROVE SInv'
    OBVIOUS
  <1>1. CASE Next
    BY <1>1, NextLines, CycleKeepsInvariant DEF SInv
  <1>2. CASE UNCHANGED vars
    <2>1. Types'
      BY <1>2 DEF vars, SInv, Types, StageRecord, Program, Request
    <2>2. TrapsOK' /\ BusOK'
      BY <1>2 DEF vars, SInv, TrapsOK, BusOK, op
    <2> QED BY <1>2, <2>1, <2>2 DEF vars, SInv
  <1> QED BY <1>1, <1>2

-----------------------------------------------------------------------------
(* What the invariant means.                                               *)

LEMMA InvariantImpliesOrder == SInv => PipeInOrder
  <1> SUFFICES ASSUME SInv PROVE PipeInOrder
    OBVIOUS
  <1>1. Types /\ PathOK(pipe[WB], pipe[MEM], pipe[EX], pipe[ID], registers, archPc, pc)
    BY DEF SInv
  <1>2. RetiresInOrder
    BY <1>1 DEF PathOK, RetiresInOrder
  <1>3. TypeOK
    <2>1. \A s \in Stage : pipe[s] \in StageRecord
      BY <1>1 DEF Types
    <2>2. currentCmd.valid \in BOOLEAN /\ currentCmd.ready \in BOOLEAN
      BY <1>1 DEF Types
    <2> QED BY <1>1, <2>1, <2>2 DEF Types, TypeOK, StageRecord, Program
  <1> QED BY <1>2, <1>3 DEF PipeInOrder

(* WB writes what its instruction computes. *)
LEMMA WriteStep ==
  ASSUME SInv, NEW in, Cycle(in), isValid(WB), ~ hasTrapped(WB)
  PROVE  /\ SameRegs(registers', Execute(pipe[WB].ir, registers, nextPc(pipe[WB].pc),
                                         memory, csr.mscratch))
         /\ op(WB) = "CSRRW" => csr'.mscratch = ReadReg(registers, pipe[WB].ir.rs1)
  <1> PICK w : w = pipe[WB]
    OBVIOUS
  <1>1. /\ Types /\ TrapsOK /\ ResultsWB(w, registers, memory) /\ w.isValid
        /\ w.ir \in Instruction
    BY PipeTypes, StageFacts DEF SInv, isValid
  <1>2. w.ir.op \notin Trapping
    BY <1>1 DEF TrapsOK, hasTrapped, op
  <1>3. WritesRd(w.ir) => w.ir.op \in {"ADDI", "MUL", "JAL", "LW", "CSRRW", "MRET"}
    BY <1>1, <1>2 DEF Instruction, Trapping, WritesRd
  <1> DEFINE a == ReadReg(registers, w.ir.rs1)
             b == ReadReg(registers, w.ir.rs2)
             res == CASE w.ir.op = "LW" -> memory
                      [] w.ir.op = "CSRRW" -> csr.mscratch
                      [] OTHER -> Result(w.ir, a, b, nextPc(w.pc))
  <1>4. WritesRd(w.ir) => rdOut = res
    <2>1. CASE Produces(w)
      <3>1. w.rdData = Result(w.ir, a, b, nextPc(w.pc))
        BY <1>1, <2>1 DEF ResultsWB, Computed
      <3>2. rdOut = w.rdData
        BY <2>1 DEF rdOut, Produces, op
      <3> QED BY <2>1, <3>1, <3>2 DEF Produces
    <2>2. CASE w.ir.op = "LW"
      BY <1>1, <2>2 DEF ResultsWB, rdOut, op
    <2>3. CASE w.ir.op = "CSRRW"
      BY <2>3 DEF rdOut, op
    <2>4. CASE w.ir.op = "MRET"
      <3>1. w.rdData = 0
        BY <1>1, <2>4 DEF ResultsWB, Produces
      <3>2. Result(w.ir, a, b, nextPc(w.pc)) = 0
        BY <2>4 DEF Result
      <3> QED BY <2>4, <3>1, <3>2 DEF rdOut, op
    <2> QED BY <1>3, <2>1, <2>2, <2>3, <2>4 DEF Produces
  <1>5. registers' = IF WritesRd(w.ir) THEN WriteReg(registers, w.ir.rd, rdOut) ELSE registers
    BY DEF Cycle, RegistersNext, Writes
  <1>6. Execute(w.ir, registers, nextPc(w.pc), memory, csr.mscratch)
          = IF WritesRd(w.ir) THEN WriteReg(registers, w.ir.rd, res) ELSE registers
    BY DEF Execute
  <1> HIDE DEF res
  <1>7. registers' = Execute(w.ir, registers, nextPc(w.pc), memory, csr.mscratch)
    BY <1>4, <1>5, <1>6
  <1>8. op(WB) = "CSRRW" => csr'.mscratch = ReadReg(registers, w.ir.rs1)
    <2>1. op(WB) = "CSRRW" => UsesRs1(w.ir)
      BY DEF UsesRs1, op
    <2>2. op(WB) = "CSRRW" => csr'.mscratch = rs1Data(WB)
      BY DEF Cycle, CsrNext
    <2> QED BY <1>1, <2>1, <2>2, DataWB
  <1> QED BY <1>7, <1>8 DEF SameRegs

(* In programs without swaps the word that a store asks for is its operand. *)
LEMMA StoreValue ==
  ASSUME NoSwapBeforeStore, Runs, StoresOK, pipe[MEM].isValid, op(MEM) = "SW"
  PROVE  Asked = ReadReg(RegistersNext, pipe[MEM].ir.rs2)
  <1> PICK w, m : w = pipe[WB] /\ m = pipe[MEM]
    OBVIOUS
  <1>1. /\ Types /\ TrapsOK /\ BusOK /\ ~ jumpsInWB /\ ResultsWB(w, registers, memory)
    BY DEF Runs, SInv
  <1>2. /\ m.ir.rs2 \in Reg /\ m.ir \in Program /\ w.ir \in Program /\ w.ir \in Instruction
        /\ m.ir.op = "SW"
    BY <1>1, PipeTypes, StageFacts DEF op
  <1>3. w.ir.op # "CSRRW"
    BY <1>1, <1>2 DEF NoSwapBeforeStore, Program, NOP, Inst, Types
  <1>4. \A r : Known1(w, r)
    <2>1. w.isValid => w.ir.op \notin Trapping \cup {"MRET"}
      BY <1>1, ValidStages DEF op
    <2>2. w.isValid /\ WritesRd(w.ir) => w.rdValid
      BY <1>1, <1>2, <1>3, <2>1 DEF ResultsWB, Computed, Produces, WritesRd, Trapping, Instruction
    <2> QED BY <2>2 DEF Known1, Writer
  <1>5. /\ Seen1(w, registers, m.ir.rs2) = ReadReg(RegistersNext, m.ir.rs2)
        /\ ~ Writer(w, m.ir.rs2) => ReadReg(RegistersNext, m.ir.rs2) = ReadReg(registers, m.ir.rs2)
    BY <1>2, <1>4, Retire
  <1>6. CASE currentCmd = NoCmd
    <2>1. ~ hazard(MEM)
      <3>1. ~ rs1Needed(MEM)
        BY StageFacts DEF rs1Needed
      <3>2. m.ir.rs2 # 0 => \A t \in Producers(MEM, m.ir.rs2) : pipe[t].rdValid
        BY <1>1, <1>4, ProducersMEM DEF Known1
      <3> QED BY <3>1, <3>2 DEF hazard
    <2>2. rs2Data(MEM) = Seen1(w, registers, m.ir.rs2)
      BY <1>2, <2>1, DataMEM
    <2> QED BY <1>5, <1>6, <2>2 DEF Asked
  <1>7. CASE currentCmd # NoCmd
    <2>1. ~ w.isValid
      BY <1>1, <1>7 DEF BusOK
    <2>2. currentCmd.cmd.wdata = ReadReg(registers, m.ir.rs2)
      BY <1>7 DEF StoresOK
    <2> QED BY <1>5, <1>7, <2>1, <2>2 DEF Asked, Writer
  <1> QED BY <1>6, <1>7

LEMMA StoresStep ==
  ASSUME NoSwapBeforeStore, SInv, StoresOK, [Next]_vars
  PROVE  StoresOK'
  <1>1. CASE UNCHANGED vars
    BY <1>1 DEF vars, StoresOK, op
  <1>2. CASE Next
    <2>1. PICK in \in LineRecord : BusAllows(in) /\ MulAllows(in) /\ Cycle(in)
      BY <1>2, NextLines DEF SInv
    <2>2. /\ pipe' = PipeNext(in) /\ registers' = RegistersNext
          /\ currentCmd' = BusNext(in) /\ memory' = MemoryNext(in)
      BY <2>1 DEF Cycle, BusNext, MemoryNext
    <2>3. Types /\ TrapsOK
      BY DEF SInv
    <2>4. CASE jumpsInWB
      <3>1. pipe'[MEM] = Bubble /\ pipe'[WB] = Bubble
        BY <2>2, <2>3, <2>4, MoveJump
      <3> QED BY <3>1, BubbleType DEF StoresOK
    <2>5. CASE ~ jumpsInWB
      <3>1. Runs
        BY <2>5 DEF Runs
      <3>2. CASE pipe[MEM].isValid /\ ~ isDone(MEM, in)
        <4>1. pipe'[WB] = Bubble /\ pipe'[MEM] = Held(MEM)
          BY <2>2, <2>3, <2>5, <3>2, MoveHeldMEM
        <4>2. ~ pipe'[WB].isValid /\ pipe'[MEM].ir = pipe[MEM].ir
          BY <2>3, <4>1, HeldFacts, BubbleType
        <4>3. ASSUME op(MEM) = "SW", currentCmd' # NoCmd
              PROVE  currentCmd'.cmd.wdata = ReadReg(registers', pipe'[MEM].ir.rs2)
          <5>1. currentCmd' = [valid |-> TRUE, ready |-> FALSE, cmd |-> WriteAt(0, Asked)]
            BY <2>1, <2>2, <3>1, <3>2, <4>3, BusStore
          <5>2. currentCmd'.cmd.wdata = Asked
            BY <5>1 DEF WriteAt
          <5> QED BY <2>2, <3>1, <3>2, <4>2, <4>3, <5>2, StoreValue
        <4> QED BY <4>2, <4>3 DEF StoresOK, op
      <3>3. CASE pipe[MEM].isValid => isDone(MEM, in)
        <4>1. pipe'[WB] = IF pipe[MEM].isValid THEN OutputMEM ELSE Bubble
          BY <2>2, <2>3, <2>5, <3>3, MoveHeldEX, MoveAll
        <4>2. currentCmd' = NoCmd
          <5>1. CASE pipe[MEM].isValid /\ op(MEM) = "LW"
            BY <2>1, <2>2, <3>1, <3>3, <5>1, BusLoad
          <5>2. CASE pipe[MEM].isValid /\ op(MEM) = "SW"
            BY <2>1, <2>2, <3>1, <3>3, <5>2, BusStore
          <5>3. CASE ~ (pipe[MEM].isValid /\ op(MEM) \in {"LW", "SW"})
            <6>1. request = NoRequest
              BY <2>3, <2>5, <5>3, MemoryStage
            <6>2. currentCmd = NoCmd /\ answer = NoAnswer
              BY <5>3 DEF SInv, BusOK
            <6> QED BY <2>1, <2>2, <2>3, <6>1, <6>2, BusQuiet
          <5> QED BY <5>1, <5>2, <5>3
        <4>3. ASSUME pipe'[WB].isValid, pipe'[WB].ir.op = "SW"
              PROVE  memory' = ReadReg(registers', pipe'[WB].ir.rs2)
          <5>1. pipe[MEM].isValid
            BY <4>1, <4>3, BubbleType
          <5>2. pipe'[WB].ir = pipe[MEM].ir
            BY <2>3, <4>1, <5>1, OutputMEMFacts
          <5>3. op(MEM) = "SW"
            BY <4>3, <5>2 DEF op
          <5>4. memory' = Asked
            BY <2>1, <2>2, <3>1, <3>3, <5>1, <5>3, BusStore
          <5> QED BY <2>2, <3>1, <5>1, <5>2, <5>3, <5>4, StoreValue
        <4> QED BY <4>2, <4>3 DEF StoresOK, op
      <3> QED BY <3>2, <3>3
    <2> QED BY <2>4, <2>5
  <1> QED BY <1>1, <1>2

(* Lines with which memory and multiplier answer as soon as they may. *)
LEMMA EagerLines ==
  ASSUME Types
  PROVE  \E in \in Lines : /\ BusAllows(in) /\ MulAllows(in)
                           /\ in.cmdReady <=> busValid(currentCmd, request)
                           /\ in.rspValid <=> \/ answer # NoAnswer
                                              \/ busValid(currentCmd, request) /\ FiredCmd.op = "read"
                           /\ isValid(EX) /\ op(EX) = "MUL" /\ ~ isStalledEX(in) => in.mulReady
  <1>1. PICK r \in BOOLEAN : r <=> busValid(currentCmd, request)
    OBVIOUS
  <1>2. PICK v \in BOOLEAN : v <=> \/ answer # NoAnswer
                                   \/ busValid(currentCmd, request) /\ FiredCmd.op = "read"
    OBVIOUS
  <1>3. PICK k : k = [cmdReady |-> r, rspValid |-> v, mulReady |-> FALSE, fetched |-> NOP]
    OBVIOUS
  <1>4. PICK q \in BOOLEAN : q <=> isValid(EX) /\ op(EX) = "MUL" /\ ~ isStalledEX(k)
    OBVIOUS
  <1>5. PICK in : in = [cmdReady |-> r, rspValid |-> v, mulReady |-> q, fetched |-> NOP]
    OBVIOUS
  <1>6. /\ in \in Lines /\ in.cmdReady = r /\ in.rspValid = v /\ in.mulReady = q
        /\ k.cmdReady = r /\ k.rspValid = v
    BY <1>3, <1>5 DEF Lines
  <1>7. isStalledEX(in) <=> isStalledEX(k)
    <2>1. isReady(MEM, in) <=> isReady(MEM, k)
      BY <1>6, StageFacts DEF isReady
    <2> QED BY <2>1 DEF isStalledEX
  <1>8. BusAllows(in)
    BY <1>1, <1>2, <1>6 DEF BusAllows, CmdFires
  <1>9. MulAllows(in)
    BY <1>4, <1>6, <1>7 DEF MulAllows
  <1> QED BY <1>1, <1>2, <1>4, <1>6, <1>7, <1>8, <1>9

LEMMA InvariantImpliesStallsEnd == SInv => StallsEnd
  <1> SUFFICES ASSUME SInv PROVE StallsEnd
    OBVIOUS
  <1>1. Types /\ TrapsOK /\ BusOK
    BY DEF SInv
  <1> DEFINE held == {s \in Stage : pipe[s].isValid}
             oldest == CHOOSE s \in held : \A t \in held : t <= s
  <1>2. SUFFICES ASSUME held # {}
                 PROVE  \E in \in Lines : BusAllows(in) /\ MulAllows(in) /\ isDone(oldest, in)
    BY DEF StallsEnd
  <1>3. oldest \in held /\ \A t \in held : t <= oldest
    <2>1. \E s \in held : \A t \in held : t <= s
      <3>1. \A s \in held : s = 2 \/ s = 3 \/ s = 4 \/ s = 5
        BY StageFacts
      <3> HIDE DEF held
      <3> QED BY <1>2, <3>1
    <2> QED BY <2>1
  <1>4. PICK s : s = oldest
    OBVIOUS
  <1>5. s \in Stage /\ pipe[s].isValid /\ \A t \in Stage : pipe[t].isValid => t <= s
    BY <1>3, <1>4
  <1>6. PICK in \in Lines : /\ BusAllows(in) /\ MulAllows(in)
                            /\ in.cmdReady <=> busValid(currentCmd, request)
                            /\ in.rspValid <=> \/ answer # NoAnswer
                                               \/ /\ busValid(currentCmd, request)
                                                  /\ FiredCmd.op = "read"
                            /\ isValid(EX) /\ op(EX) = "MUL" /\ ~ isStalledEX(in) => in.mulReady
    BY <1>1, EagerLines
  <1>7. isDone(s, in)
    <2>1. CASE s = WB
      <3>1. isValid(WB)
        BY <1>5, <2>1, StageFacts DEF isValid
      <3> QED BY <2>1, <3>1, StageFacts DEF isDone
    <2>2. ASSUME s # WB PROVE ~ pipe[WB].isValid /\ ~ jumpsInWB /\ ~ isValid(WB)
      <3>1. ~ pipe[WB].isValid
        BY <1>5, <2>2, StageFacts
      <3> QED BY <3>1 DEF jumpsInWB, isValid
    <2>3. ASSUME s # WB, s # MEM PROVE ~ pipe[MEM].isValid /\ ~ isValid(MEM)
      <3>1. ~ pipe[MEM].isValid
        BY <1>5, <2>3, StageFacts
      <3> QED BY <3>1 DEF isValid
    <2>4. CASE s = MEM
      <3>1. ~ pipe[WB].isValid /\ ~ jumpsInWB /\ pipe[MEM].isValid
        BY <1>5, <2>2, <2>4, StageFacts
      <3>2. isValid(MEM)
        BY <1>1, <3>1, ValidStages
      <3>3. ~ hazard(MEM)
        <4>1. \A r : r # 0 => Producers(MEM, r) = {}
          BY <1>1, <3>1, ProducersMEM DEF Writer
        <4> QED BY <4>1 DEF hazard
      <3>4. isReady(MEM, in)
        <4>1. CASE op(MEM) = "LW"
          <5>1. request = ReadAt(0) /\ request.op = "read" /\ request.address = 0
            BY <1>1, <3>1, <4>1, MemoryStage DEF ReadAt
          <5>2. readValid(currentCmd, request, in.rspValid)
            <6>1. CASE currentCmd = NoCmd
              <7>1. issuedThisCycle(currentCmd, request)
                BY <5>1, <6>1 DEF issuedThisCycle, isIssued, NoCmd
              <7>2. busValid(currentCmd, request) /\ FiredCmd = request
                BY <7>1 DEF busValid, FiredCmd, busCmd
              <7> QED BY <1>6, <5>1, <7>1, <7>2 DEF readValid
            <6>2. CASE currentCmd # NoCmd
              <7>1. /\ currentCmd.cmd = ReadAt(0)
                    /\ (currentCmd.valid /\ ~ currentCmd.ready) \/ answer = memory
                BY <1>1, <4>1, <6>2 DEF BusOK
              <7>2. currentCmd.cmd.address = 0 /\ currentCmd.cmd.op = "read"
                BY <7>1 DEF ReadAt
              <7>3. memory # NoAnswer
                BY <1>1, ValueFacts DEF Types, NoAnswer
              <7>4. currentCmd.valid => busValid(currentCmd, request) /\ FiredCmd = ReadAt(0)
                BY <7>1 DEF busValid, FiredCmd, busCmd, issuedThisCycle, isIssued
              <7>5. in.rspValid
                BY <1>6, <7>1, <7>3, <7>4 DEF ReadAt
              <7> QED BY <5>1, <7>2, <7>5 DEF readValid
            <6> QED BY <6>1, <6>2
          <5> QED BY <5>1, <5>2, StageFacts DEF isReady
        <4>2. CASE op(MEM) = "SW"
          <5>1. request.op = "write" /\ request.address = 0
            BY <1>1, <3>1, <4>2, MemoryStage DEF WriteAt
          <5>2. accepted(currentCmd, request, in.cmdReady)
            <6>1. CASE currentCmd = NoCmd
              <7>1. issuedThisCycle(currentCmd, request)
                BY <5>1, <6>1 DEF issuedThisCycle, isIssued, NoCmd
              <7> QED BY <1>6, <5>1, <7>1 DEF accepted, busValid
            <6>2. CASE currentCmd # NoCmd
              <7>1. currentCmd.valid /\ \E v \in Value : currentCmd.cmd = WriteAt(0, v)
                BY <1>1, <4>2, <6>2 DEF BusOK
              <7>2. currentCmd.cmd.address = 0 /\ currentCmd.cmd.op = "write"
                BY <7>1 DEF WriteAt
              <7> QED BY <1>6, <5>1, <7>1, <7>2 DEF accepted, busValid
            <6> QED BY <6>1, <6>2
          <5> QED BY <5>1, <5>2, StageFacts DEF isReady
        <4>3. CASE op(MEM) \notin {"LW", "SW"}
          BY <1>1, <3>1, <4>3, MemoryStage
        <4> QED BY <4>1, <4>2, <4>3
      <3> QED BY <2>4, <3>2, <3>3, <3>4, StageFacts DEF isDone, isStalledMEM
    <2>5. CASE s = EX
      <3>1. ~ pipe[WB].isValid /\ ~ jumpsInWB /\ ~ pipe[MEM].isValid /\ ~ isValid(MEM)
        BY <2>2, <2>3, <2>5, StageFacts
      <3>2. isValid(EX)
        BY <1>1, <1>5, <2>5, <3>1, ValidStages
      <3>3. ~ hazard(EX) /\ ~ hazard(MEM)
        <4>1. \A r : r # 0 => Producers(EX, r) = {}
          BY <1>1, <3>1, <3>2, ProducersEX DEF Writer
        <4> QED BY <3>1, <4>1 DEF hazard
      <3>4. ~ isStalledEX(in)
        BY <3>1, <3>3 DEF isStalledEX, isStalledMEM
      <3>5. isReady(EX, in)
        BY <1>6, <3>2, <3>4, StageFacts DEF isReady
      <3> QED BY <2>5, <3>2, <3>4, <3>5, StageFacts DEF isDone
    <2>6. CASE s = ID
      <3>1. ~ pipe[WB].isValid /\ ~ jumpsInWB /\ ~ pipe[MEM].isValid /\ ~ isValid(MEM)
        BY <2>2, <2>3, <2>6, StageFacts
      <3>2. ~ pipe[EX].isValid
        BY <1>5, <2>6, StageFacts
      <3>3. ~ isValid(EX) /\ isValid(ID)
        BY <1>1, <1>5, <2>6, <3>1, <3>2, ValidStages
      <3>4. ~ isStalledID(in) /\ ~ jumpsInEX(in)
        BY <3>1, <3>3 DEF isStalledID, isStalledEX, isStalledMEM, hazard, jumpsInEX
      <3> QED BY <2>6, <3>3, <3>4, StageFacts DEF isDone, isValidID
    <2> QED BY <1>5, <2>1, <2>4, <2>5, <2>6, StageFacts
  <1> QED BY <1>4, <1>6, <1>7

-----------------------------------------------------------------------------
(* The theorems.                                                           *)

LEMMA InitStores == Init => StoresOK
  <1> SUFFICES ASSUME Init PROVE ~ pipe[WB].isValid /\ ~ pipe[MEM].isValid
    BY DEF StoresOK
  <1>1. pipe[WB] = Bubble /\ pipe[MEM] = Bubble
    BY StageFacts DEF Init
  <1> QED BY <1>1, BubbleType

(* The stages hold instructions of the right type, and every instruction that
   reaches WB is the one the program executes next, after taken branches,
   traps, interrupts and returns have flushed what was fetched behind them
   (BranchUnit, TrapHandler, Scheduler, PcManager). *)
THEOREM InOrderPipeline == Spec => []PipeInOrder
  <1>1. Init => SInv
    BY InitInvariant
  <1>2. SInv /\ [Next]_vars => SInv'
    BY StepKeepsInvariant
  <1>3. SInv => PipeInOrder
    BY InvariantImpliesOrder
  <1> QED BY <1>1, <1>2, <1>3, PTL DEF Spec

(* An instruction that retires has read its operands as the instructions
   before it left them, from the register file, a later stage or the register
   lastWrittenRd (DataHazardResolver.resolveHazard). *)
THEOREM OperandsAreRight == Spec => OperandsForwarded
  <1>1. Init => SInv
    BY InitInvariant
  <1>2. SInv /\ [Next]_vars => SInv'
    BY StepKeepsInvariant
  <1> DEFINE Right ==
        isValid(WB) /\ ~hasTrapped(WB) =>
         /\ SameRegs(registers', Execute(pipe[WB].ir, registers, nextPc(pipe[WB].pc),
                                         memory, csr.mscratch))
         /\ op(WB) = "CSRRW" => csr'.mscratch = ReadReg(registers, pipe[WB].ir.rs1)
  <1>3. SInv /\ [Next]_vars => [Right]_vars
    <2> SUFFICES ASSUME SInv, Next PROVE Right
      BY Zenon
    <2>1. PICK in \in LineRecord : Cycle(in)
      BY NextLines DEF SInv
    <2> QED BY <2>1, WriteStep
  <1> HIDE DEF Right
  <1>4. Spec => [][Right]_vars
    BY <1>1, <1>2, <1>3, PTL DEF Spec
  <1> QED BY <1>4 DEF OperandsForwarded, Right

(* Memory changes only for a store in MEM, and a store that retires has left
   the value of its register there, however long the bus made it wait
   (Lsu.build, MemBusControl.write), in programs without CSR swaps. *)
THEOREM StoresAreInOrder ==
  ASSUME NoSwapBeforeStore
  PROVE  Spec => StoresInOrder
  <1> DEFINE Inv == SInv /\ StoresOK
             Right == /\ memory' # memory => isValid(MEM) /\ op(MEM) = "SW"
                      /\ isValid(WB) /\ ~hasTrapped(WB) /\ op(WB) = "SW" =>
                           memory = ReadReg(registers, pipe[WB].ir.rs2)
  <1>1. Init => Inv
    BY InitInvariant, InitStores
  <1>2. Inv /\ [Next]_vars => Inv'
    BY StepKeepsInvariant, StoresStep
  <1>3. Inv /\ [Next]_vars => [Right]_vars
    <2> SUFFICES ASSUME Inv, Next PROVE Right
      BY Zenon
    <2>1. PICK in \in LineRecord : BusAllows(in) /\ Cycle(in)
      BY NextLines DEF SInv
    <2>2. memory' # memory => isValid(MEM) /\ op(MEM) = "SW"
      BY <2>1, CycleFits
    <2>3. isValid(WB) => pipe[WB].isValid
      BY DEF isValid
    <2> QED BY <2>2, <2>3 DEF StoresOK
  <1> HIDE DEF Right, Inv
  <1>4. Spec => [][Right]_vars
    BY <1>1, <1>2, <1>3, PTL DEF Spec
  <1> QED BY <1>4 DEF StoresInOrder, Right

(* The instruction at which a trap is taken, and which runs again after the
   handler, has written no register, CSR or memory (TrapHandler, CsrFile,
   RegisterFileAccessor), in programs that are not interrupted at swaps or
   stores. *)
THEOREM TrapsArePrecise ==
  ASSUME NothingToRepeat
  PROVE  Spec => TrapsPrecise
  <1> DEFINE Right == isValid(WB) /\ hasTrapped(WB) =>
                        /\ SameRegs(registers', registers)
                        /\ csr'.mscratch = csr.mscratch
                        /\ op(WB) # "SW"
  <1>1. Init => SInv
    BY InitInvariant
  <1>2. SInv /\ [Next]_vars => SInv'
    BY StepKeepsInvariant
  <1>3. SInv /\ [Next]_vars => [Right]_vars
    <2> SUFFICES ASSUME SInv, Next, isValid(WB), hasTrapped(WB)
                 PROVE  /\ SameRegs(registers', registers)
                        /\ csr'.mscratch = csr.mscratch
                        /\ op(WB) # "SW"
      BY Zenon
    <2>1. PICK in \in LineRecord : Cycle(in)
      BY NextLines DEF SInv
    <2>2. registers' = registers
      BY <2>1 DEF Cycle, RegistersNext, Writes
    <2>3. Types /\ TrapsOK /\ pipe[WB].isValid
      BY DEF SInv, isValid
    <2>4. pipe[WB].ir \in Program
      BY <2>3, PipeTypes DEF StageRecord
    <2>5. op(WB) \notin {"CSRRW", "SW"}
      <3>1. CASE pipe[WB].trapped
        BY <2>3, <3>1 DEF TrapsOK, Trapping
      <3>2. CASE ~ pipe[WB].trapped
        <4>1. config.interrupts = TRUE /\ config \in Configs
          BY <2>3, <3>2, StageFacts DEF hasTrapped, TrapsOK, Types
        <4>2. NOP.op \notin {"CSRRW", "SW"}
          BY DEF NOP, Inst
        <4> QED BY <2>4, <4>1, <4>2 DEF NothingToRepeat, Program, op
      <3> QED BY <3>1, <3>2
    <2>6. csr'.mscratch = csr.mscratch
      BY <2>1, <2>3, <2>5 DEF Cycle, CsrNext, Types
    <2> QED BY <2>2, <2>5, <2>6 DEF SameRegs
  <1> HIDE DEF Right
  <1>4. Spec => [][Right]_vars
    BY <1>1, <1>2, <1>3, PTL DEF Spec
  <1> QED BY <1>4 DEF TrapsPrecise, Right

(* The oldest instruction in the pipeline moves on as soon as the memory and
   the multiplier let it: no stages wait for each other
   (Scheduler.build, DataHazardResolver.build). *)
THEOREM StallsAlwaysEnd == Spec => []StallsEnd
  <1>1. Init => SInv
    BY InitInvariant
  <1>2. SInv /\ [Next]_vars => SInv'
    BY StepKeepsInvariant
  <1>3. SInv => StallsEnd
    BY InvariantImpliesStallsEnd
  <1> QED BY <1>1, <1>2, <1>3, PTL DEF Spec

=============================================================================
