--------------------------- MODULE StaticPipeline ---------------------------
(***************************************************************************)
(* The in-order pipeline of the Proteus core: IF, ID, EX, MEM and WB with  *)
(* the plugins that schedule it: Scheduler, DataHazardResolver, PcManager, *)
(* TrapHandler and Interrupts, the register file, and Lsu with its bus     *)
(* controller.  Cycle is one clock cycle.  isValid, isStalled, isReady and *)
(* isDone of a stage are wires, computed from WB backwards.                *)
(*                                                                         *)
(* A fetch returns any instruction of the configuration.  Memory is one    *)
(* word; the memory behind the bus takes a command and answers a read when *)
(* it likes, within BusWait cycles.                                        *)
(***************************************************************************)
EXTENDS RiscvISA, MemBusControl

CONSTANTS
    Configs,   \* [program, interrupts]: what may be fetched, and whether mip changes
    NumPcs,    \* number of program counters; the last is followed by the first
    Vector,    \* mtvec
    MulSteps,  \* bound: cycles MulDiv takes at most
    BusWait    \* bound: cycles the memory makes the core wait at most

Pc == 0 .. NumPcs - 1

ID == 2
EX == 3
MEM == 4
WB == 5
Stage == ID .. WB

ASSUME StaticAssumption ==
    /\ \A c \in Configs : c.program \subseteq Instruction /\ c.interrupts \in BOOLEAN
    /\ NumPcs \in Nat \ {0} /\ Vector \in Pc
    /\ \A c \in Configs : \A i \in c.program : i.imm \in Pc
    /\ MulSteps \in Nat \ {0} /\ BusWait \in Nat

VARIABLES
    config,         \* the configuration, fixed
    pc,             \* register of PcManager
    pipe,           \* pipe[s]: isValidReg of stage s and the pipeline registers before it
    lastWrittenRd,  \* the last value written by WB
    registers,      \* the register file
    csr,            \* mscratch, mepc, and mie, mpie of mstatus
    mip,            \* an enabled interrupt is pending
    currentCmd,     \* register of the bus controller
    memory,         \* the word of memory
    answer,         \* the read the memory still has to answer: none, or its value
    step,           \* cycles the multiplier has run
    waited,         \* cycles the memory has made the core wait
    archPc          \* history: what the next instruction to retire should be

vars == <<config, pc, pipe, lastWrittenRd, registers, csr, mip, currentCmd, memory,
          answer, step, waited, archPc>>

NOP == Inst("ADDI", 0, 0, 0, 0)
NoAnswer == Values

(* What an invalid stage holds is never read. *)
Bubble == [isValid |-> FALSE, pc |-> 0, ir |-> NOP, rs1 |-> 0, rs2 |-> 0,
           rdValid |-> FALSE, rdData |-> 0, trapped |-> FALSE]

nextPc(p) == (p + 1) % NumPcs

(* A moment after boot: the register file and lastWrittenRd, which have no
   reset value, have been written. *)
Init ==
    /\ config \in Configs
    /\ pc = Vector /\ archPc = Vector
    /\ pipe = [s \in Stage |-> Bubble]
    /\ registers \in [Reg -> Value] /\ registers[0] = 0
    /\ \E r \in Reg : lastWrittenRd = [id |-> r, valid |-> TRUE, data |-> registers[r]]
    /\ csr = [mscratch |-> 0, mepc |-> Vector, mie |-> config.interrupts, mpie |-> FALSE]
    /\ mip = FALSE
    /\ currentCmd = NoCmd /\ memory = 0 /\ answer = NoAnswer
    /\ step = 0 /\ waited = 0

----------------------------------------------------------------------------
(* Traps and flushes. *)

op(s) == pipe[s].ir.op

(* output(HAS_TRAPPED): an exception raised in the stage or before, or an
   interrupt in WB. *)
hasTrapped(s) ==
    \/ pipe[s].trapped
    \/ s = ID /\ op(s) = "ILLEGAL"
    \/ s = EX /\ op(s) = "ECALL"
    \/ s = MEM /\ op(s) = "MISALIGNED"
    \/ s = WB /\ csr.mie /\ mip

(* WB jumps: to the handler, or back from it. *)
jumpsInWB == pipe[WB].isValid /\ (hasTrapped(WB) \/ op(WB) = "MRET")

(* Mutant: a jump in WB does not empty the stages behind it. *)
isValidKept(s) ==
    /\ pipe[s].isValid
    /\ s < MEM => ~(pipe[MEM].isValid /\ hasTrapped(MEM))

(* isValid of EX, MEM and WB: no trapped instruction in a later stage, and
   no jump in WB. *)
isValid(s) ==
    /\ pipe[s].isValid
    /\ s < WB => ~jumpsInWB
    /\ s < MEM => ~(pipe[MEM].isValid /\ ~jumpsInWB /\ hasTrapped(MEM))

----------------------------------------------------------------------------
(* Forwarding: DataHazardResolver, for the stages from EX on. *)

(* arbitration.rs1Needed and rs2Needed. *)
rs1Needed(s) == CASE s = EX -> op(s) # "JAL"
                  [] s = WB -> op(s) = "CSRRW"
                  [] OTHER -> FALSE
rs2Needed(s) == CASE s = EX -> op(s) \in {"MUL", "BEQ"}
                  [] s = MEM -> op(s) = "SW"
                  [] OTHER -> FALSE

(* Mutant: a stage waits for its own instruction. *)
ProducersSelf(s, r) ==
    {t \in s .. WB : /\ isValid(t) /\ ~hasTrapped(t)
                     /\ WritesRd(pipe[t].ir) /\ pipe[t].ir.rd = r}

(* The later stages whose instruction writes register r. *)
Producers(s, r) ==
    {t \in s + 1 .. WB : /\ isValid(t) /\ ~hasTrapped(t)
                         /\ WritesRd(pipe[t].ir) /\ pipe[t].ir.rd = r}

NotForwarded == Values

(* The value forwarded for r: of the nearest stage that has it, or that will
   have it when it is needed now; of lastWrittenRd if there is no such stage. *)
forward(s, r, used, needed) ==
    LET found == {t \in Producers(s, r) : pipe[t].rdValid \/ needed}
        t == CHOOSE t \in found : \A u \in found : t <= u
    IN  CASE r = 0 \/ ~used -> NotForwarded
          [] r # 0 /\ used /\ found # {} ->
               IF pipe[t].rdValid THEN pipe[t].rdData ELSE NotForwarded
          [] OTHER -> IF lastWrittenRd.valid /\ lastWrittenRd.id = r
                      THEN lastWrittenRd.data ELSE NotForwarded

rs1Forward(s) == forward(s, pipe[s].ir.rs1, UsesRs1(pipe[s].ir), rs1Needed(s))
rs2Forward(s) == forward(s, pipe[s].ir.rs2, UsesRs2(pipe[s].ir), rs2Needed(s))

rs1Data(s) == IF rs1Forward(s) = NotForwarded THEN pipe[s].rs1 ELSE rs1Forward(s)
rs2Data(s) == IF rs2Forward(s) = NotForwarded THEN pipe[s].rs2 ELSE rs2Forward(s)

(* A stage needs a value a later stage has yet to produce. *)
hazard(s) ==
    /\ isValid(s)
    /\ \/ /\ pipe[s].ir.rs1 # 0 /\ UsesRs1(pipe[s].ir) /\ rs1Needed(s)
          /\ \E t \in Producers(s, pipe[s].ir.rs1) : ~pipe[t].rdValid
       \/ /\ pipe[s].ir.rs2 # 0 /\ rs2Needed(s)
          /\ \E t \in Producers(s, pipe[s].ir.rs2) : ~pipe[t].rdValid

----------------------------------------------------------------------------
(* The memory stage.  Lsu asks the bus controller whenever its instruction
   is valid.  The lines of the bus and of MulDiv in a cycle are a record
   in: cmdReady, rspValid, mulReady, fetched. *)

(* Mutant: a store takes the value its register had when it entered MEM. *)
requestUnforwarded ==
    CASE ~isValid(MEM) -> NoRequest
      [] isValid(MEM) /\ op(MEM) = "LW" -> ReadAt(0)
      [] isValid(MEM) /\ op(MEM) = "SW" -> WriteAt(0, pipe[MEM].rs2)
      [] OTHER -> NoRequest

request ==
    CASE ~isValid(MEM) -> NoRequest
      [] isValid(MEM) /\ op(MEM) = "LW" -> ReadAt(0)
      [] isValid(MEM) /\ op(MEM) = "SW" -> WriteAt(0, rs2Data(MEM))
      [] OTHER -> NoRequest

CmdFires(in) == busValid(currentCmd, request) /\ in.cmdReady
FiredCmd == busCmd(currentCmd, request)

(* The data of a response: of the pending read, or of this cycle's. *)
rdata == IF answer # NoAnswer THEN answer ELSE memory

isReady(s, in) ==
    CASE s = MEM /\ request.op = "read" -> readValid(currentCmd, request, in.rspValid)
      [] s = MEM /\ request.op = "write" -> accepted(currentCmd, request, in.cmdReady)
      [] s = EX /\ op(EX) = "MUL" -> in.mulReady
      [] OTHER -> TRUE

(* isStalled of MEM, EX and ID. *)
isStalledMEM == hazard(MEM)
isStalledEX(in) == isStalledMEM \/ (isValid(MEM) /\ ~isReady(MEM, in)) \/ hazard(EX)
isStalledID(in) == isStalledEX(in) \/ (isValid(EX) /\ ~isReady(EX, in))

(* BranchUnit redirects the fetch. *)
jumpsInEX(in) ==
    /\ isValid(EX) /\ ~isStalledEX(in)
    /\ TakesJump(pipe[EX].ir, rs1Data(EX), rs2Data(EX))

(* ID and IF are also emptied by a jump or a trapped instruction in EX, IF by
   a trapped instruction in ID. *)
isValidID(in) == isValid(ID) /\ ~(isValid(EX) /\ hasTrapped(EX)) /\ ~jumpsInEX(in)
isValidIF(in) ==
    /\ ~jumpsInWB /\ ~jumpsInEX(in)
    /\ ~ \E s \in {EX, MEM} : isValid(s) /\ hasTrapped(s)
    /\ ~(isValidID(in) /\ hasTrapped(ID))

isDone(s, in) ==
    CASE s = WB -> isValid(WB)
      [] s = MEM -> isValid(MEM) /\ ~isStalledMEM /\ isReady(MEM, in)
      [] s = EX -> isValid(EX) /\ ~isStalledEX(in) /\ isReady(EX, in)
      [] s = ID -> isValidID(in) /\ ~isStalledID(in)
      [] OTHER -> isValidIF(in) /\ ~isStalledID(in) /\ in.fetched # NOP

isValidNow(s, in) == IF s = ID THEN isValidID(in) ELSE isValid(s)
isStalled(s, in) == CASE s = WB -> FALSE
                      [] s = MEM -> isStalledMEM
                      [] s = EX -> isStalledEX(in)
                      [] OTHER -> isStalledID(in)

----------------------------------------------------------------------------
(* The write of WB, and what it leaves in the register file. *)

rdOut == IF op(WB) = "CSRRW" THEN csr.mscratch ELSE pipe[WB].rdData

(* Mutant: a trapped instruction writes too. *)
WritesTrapped == isValid(WB) /\ WritesRd(pipe[WB].ir)

Writes == isValid(WB) /\ ~hasTrapped(WB) /\ WritesRd(pipe[WB].ir)

RegistersNext == IF Writes THEN WriteReg(registers, pipe[WB].ir.rd, rdOut) ELSE registers

(* The outputs of a stage that is done, which go into the registers of the
   next.  ID reads the register file as WB leaves it in this cycle. *)
OutputIF(in) == [Bubble EXCEPT !.isValid = TRUE, !.pc = pc, !.ir = in.fetched]

OutputID ==
    [pipe[ID] EXCEPT !.rs1 = ReadReg(RegistersNext, pipe[ID].ir.rs1),
                     !.rs2 = ReadReg(RegistersNext, pipe[ID].ir.rs2),
                     !.trapped = hasTrapped(ID)]

OutputEX ==
    LET produces == op(EX) \in {"ADDI", "MUL", "JAL"}
    IN  [pipe[EX] EXCEPT !.rs1 = rs1Data(EX), !.rs2 = rs2Data(EX),
                         !.rdValid = produces,
                         !.rdData = IF produces
                                    THEN Result(pipe[EX].ir, rs1Data(EX), rs2Data(EX),
                                                nextPc(pipe[EX].pc))
                                    ELSE 0,
                         !.trapped = hasTrapped(EX)]

OutputMEM ==
    [pipe[MEM] EXCEPT !.rs1 = rs1Data(MEM), !.rs2 = rs2Data(MEM),
                      !.rdValid = @ \/ op(MEM) = "LW",
                      !.rdData = IF op(MEM) = "LW" THEN rdata ELSE @,
                      !.trapped = hasTrapped(MEM)]

Output(s, in) == CASE s = ID -> OutputID
                   [] s = EX -> OutputEX
                   [] s = MEM -> OutputMEM
                   [] OTHER -> OutputIF(in)

(* Mutant: a value forwarded to a stage that has to wait is not kept. *)
HeldDropped(s) == pipe[s]

(* A stage that has to wait keeps the values forwarded to it. *)
Held(s) == IF s = ID THEN pipe[s]
           ELSE [pipe[s] EXCEPT !.rs1 = rs1Data(s), !.rs2 = rs2Data(s)]

PipeNext(in) ==
    [s \in Stage |->
        IF isDone(s, in) \/ ~isValidNow(s, in)
        THEN IF isDone(s - 1, in) THEN Output(s - 1, in) ELSE Bubble
        ELSE Held(s)]

LastWrittenNext ==
    IF isValid(WB) /\ ~hasTrapped(WB)
    THEN [id |-> pipe[WB].ir.rd, data |-> rdOut,
          valid |-> WritesRd(pipe[WB].ir) /\ (pipe[WB].rdValid \/ op(WB) = "CSRRW")]
    ELSE lastWrittenRd

(* CSRs: the swap happens whenever WB is valid; an MRET has the last word
   over a trap in the same cycle. *)
CsrNext ==
    LET traps == isValid(WB) /\ hasTrapped(WB)
        mret == isValid(WB) /\ op(WB) = "MRET"
    IN  [mscratch |-> IF isValid(WB) /\ op(WB) = "CSRRW"
                      THEN rs1Data(WB) ELSE csr.mscratch,
         mepc |-> IF traps THEN pipe[WB].pc ELSE csr.mepc,
         mie |-> IF mret THEN csr.mpie ELSE ~traps /\ csr.mie,
         mpie |-> mret \/ (IF traps THEN csr.mie ELSE csr.mpie)]

(* PcManager. *)
PcNext(in) ==
    CASE jumpsInWB -> IF op(WB) = "MRET" THEN csr.mepc ELSE Vector
      [] ~jumpsInWB /\ jumpsInEX(in) -> pipe[EX].ir.imm
      [] OTHER -> IF isDone(ID - 1, in) THEN nextPc(pc) ELSE pc

----------------------------------------------------------------------------
(* The memory behind the bus answers a read it has taken, in the same cycle
   at the earliest, and does not make the core wait for ever. *)
BusAllows(in) ==
    LET reads == CmdFires(in) /\ FiredCmd.op = "read"
    IN  /\ in.cmdReady => busValid(currentCmd, request) \/ request # NoRequest
        /\ in.rspValid => answer # NoAnswer \/ reads
        /\ waited = BusWait => /\ busValid(currentCmd, request) => in.cmdReady
                               /\ answer # NoAnswer \/ reads => in.rspValid

MulAllows(in) ==
    LET runs == isValid(EX) /\ op(EX) = "MUL" /\ ~isStalledEX(in)
    IN  /\ in.mulReady => runs
        /\ runs /\ step = MulSteps - 1 => in.mulReady

(* One clock cycle. *)
Cycle(in) ==
    LET reads == CmdFires(in) /\ FiredCmd.op = "read"
    IN  /\ pipe' = PipeNext(in)
        /\ pc' = PcNext(in)
        /\ lastWrittenRd' = LastWrittenNext
        /\ registers' = RegistersNext
        /\ csr' = CsrNext
        /\ mip' \in IF config.interrupts THEN BOOLEAN ELSE {FALSE}
        /\ currentCmd' = CmdNext(currentCmd, request, in.cmdReady, in.rspValid)
        /\ memory' = IF CmdFires(in) /\ FiredCmd.op = "write" THEN FiredCmd.wdata ELSE memory
        /\ answer' = CASE in.rspValid -> NoAnswer
                       [] ~in.rspValid /\ reads -> memory
                       [] OTHER -> answer
        /\ step' = IF isValid(EX) /\ op(EX) = "MUL" /\ ~isStalledEX(in) /\ ~in.mulReady
                   THEN step + 1 ELSE 0
        /\ waited' = IF isValid(MEM) /\ ~isReady(MEM, in) /\ waited < BusWait
                     THEN waited + 1 ELSE 0
        /\ archPc' = CASE ~isValid(WB) -> archPc
                       [] isValid(WB) /\ op(WB) = "MRET" -> csr.mepc
                       [] isValid(WB) /\ op(WB) # "MRET" /\ hasTrapped(WB) -> Vector
                       [] OTHER -> IF Jumps(pipe[WB].ir, registers)
                                   THEN pipe[WB].ir.imm ELSE nextPc(pipe[WB].pc)
        /\ UNCHANGED config

(* The lines in a cycle, before the instruction bus answers. *)
Lines == [cmdReady : BOOLEAN, rspValid : BOOLEAN, mulReady : BOOLEAN, fetched : {NOP}]

(* What IF can hand to ID in the cycle. *)
Fetches(in) ==
    IF isValidIF(in) /\ ~isStalledID(in) THEN config.program \cup {NOP} ELSE {NOP}

Next ==
    \E in \in {l \in Lines : BusAllows(l) /\ MulAllows(l)} :
        \E ir \in Fetches(in) : Cycle([in EXCEPT !.fetched = ir])

Spec == Init /\ [][Next]_vars

----------------------------------------------------------------------------
(* Type correctness: the registers of every stage stay in their ranges, in
   whichever cycles the buses and the multiplier answer. *)
TypeOK ==
    /\ pc \in Pc /\ archPc \in Pc
    /\ \A s \in Stage :
         pipe[s] \in [isValid : BOOLEAN, pc : Pc, ir : config.program \cup {NOP},
                     rs1 : Value, rs2 : Value, rdValid : BOOLEAN, rdData : Value,
                     trapped : BOOLEAN]
    /\ lastWrittenRd \in [id : Reg, valid : BOOLEAN, data : Value]
    /\ registers \in [Reg -> Value]
    /\ csr \in [mscratch : Value, mepc : Pc, mie : BOOLEAN, mpie : BOOLEAN]
    /\ currentCmd.valid \in BOOLEAN /\ currentCmd.ready \in BOOLEAN
    /\ memory \in Value /\ answer \in Value \cup {NoAnswer}
    /\ step \in 0 .. MulSteps - 1 /\ waited \in 0 .. BusWait

(* An instruction that reaches WB is the next one of the program: branches,
   traps, returns and interrupts, each found in a different stage, flush
   exactly the instructions behind them (PcManager.finish, TrapHandler). *)
RetiresInOrder == pipe[WB].isValid => pipe[WB].pc = archPc

(* Every register is in its range, and the stages hold the program in order. *)
PipeInOrder == TypeOK /\ RetiresInOrder

(* What WB writes is what the instruction computes from the registers and
   the memory as the instructions before it left them, whichever of its
   operands were read in ID, forwarded to EX, MEM or WB, or kept while it
   was stalled (DataHazardResolver.resolveHazard). *)
OperandsForwarded ==
    [][isValid(WB) /\ ~hasTrapped(WB) =>
         /\ SameRegs(registers', Execute(pipe[WB].ir, registers, nextPc(pipe[WB].pc),
                                         memory, csr.mscratch))
         /\ op(WB) = "CSRRW" => csr'.mscratch = ReadReg(registers, pipe[WB].ir.rs1)]_vars

(* Memory is as the stores of the program leave it: it changes only for a
   store in MEM, and a store that retires has left it the value its register
   has then, whichever instructions before it produced that value, and
   however long the bus made it wait (Lsu.build, MemBusControl.write). *)
StoresInOrder ==
    [][/\ memory' # memory => isValid(MEM) /\ op(MEM) = "SW"
       /\ isValid(WB) /\ ~hasTrapped(WB) /\ op(WB) = "SW" =>
            memory = ReadReg(registers, pipe[WB].ir.rs2)]_vars

(* A trap is precise: the instruction whose address goes into mepc, and which
   runs again after the handler, has written no register, CSR or memory. *)
TrapsPrecise ==
    [][isValid(WB) /\ hasTrapped(WB) =>
         /\ SameRegs(registers', registers)
         /\ csr'.mscratch = csr.mscratch
         /\ op(WB) # "SW"]_vars

(* No stall without a cause: the oldest instruction in the pipeline moves on
   as soon as the memory and the multiplier let it.  Stages that waited for
   each other, or for themselves, would stand still for ever
   (Scheduler.build, DataHazardResolver.build). *)
StallsEnd ==
    LET held == {s \in Stage : pipe[s].isValid}
        oldest == CHOOSE s \in held : \A t \in held : t <= s
    IN  held # {} => \E in \in Lines :
            BusAllows(in) /\ MulAllows(in) /\ isDone(oldest, in)

=============================================================================
