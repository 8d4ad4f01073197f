-------------------------- MODULE DynamicPipeline --------------------------
(***************************************************************************)
(* The out-of-order pipeline of the Proteus core: the issue pipeline IF,   *)
(* ID, the reservation stations of EX_ALU and EX_MUL, the common data bus  *)
(* and the reorder buffer.  Cycle is one clock cycle: every wire is a      *)
(* function of the registers and of what the fetch and the multiplier do   *)
(* in the cycle, and all registers change together.                        *)
(*                                                                         *)
(* The program is not fixed: a fetch returns any instruction of the        *)
(* configuration, so every run of every program without a trap is one of   *)
(* the behaviours.  Program counters are left out: the immediate of a JAL  *)
(* stands for its return address.                                          *)
(***************************************************************************)
EXTENDS RiscvISA, Sequences

CONSTANTS
    Configs,   \* [capacity, program]: robCapacity, and what may be fetched
    MulSteps   \* bound: cycles MulDiv takes at most

Station == {"EX_ALU", "EX_MUL"}

ASSUME DynamicAssumption ==
    /\ \A c \in Configs : c.capacity \in Nat \ {0} /\ c.program \subseteq Instruction
    /\ MulSteps \in Nat \ {0}

VARIABLES
    config,     \* the configuration, fixed
    decode,     \* isValidReg of ID, and the instruction
    rob,        \* entries, oldestIndex, newestIndex, isFull
    rs,         \* registers of the reservation stations
    maskLocked, \* the station the bus served last
    step,       \* cycles the multiplier has run
    registers,  \* registerFile
    order       \* history: the instructions in the reorder buffer, in order

vars == <<config, decode, rob, rs, maskLocked, step, registers, order>>

Index == 0 .. config.capacity - 1

Message == [robIndex : Nat, writesRegister : BOOLEAN, performsJump : BOOLEAN,
            writeValue : Value]

RobEntry == [writesRegister : BOOLEAN, performsJump : BOOLEAN,
             writeDestination : Reg, writeValue : Value, ready : BOOLEAN]

ZeroEntry == [writesRegister |-> FALSE, performsJump |-> FALSE,
              writeDestination |-> 0, writeValue |-> 0, ready |-> FALSE]

(* An operand is its data, or waits for an entry of the reorder buffer. *)
Data(v) == [waiting |-> FALSE, index |-> 0, data |-> v]
Waits(i) == [waiting |-> TRUE, index |-> i, data |-> 0]

NOP == Inst("ADDI", 0, 0, 0, 0)

NoMessage == [robIndex |-> 0, writesRegister |-> FALSE, performsJump |-> FALSE,
              writeValue |-> 0]

(* What an idle station still holds is never read. *)
IdleStation == [state |-> "IDLE", ir |-> NOP, rs1 |-> Data(0), rs2 |-> Data(0),
                robEntryIndex |-> 0, resultCdbMessage |-> NoMessage]

Init ==
    /\ config \in Configs
    /\ decode = [isValid |-> FALSE, ir |-> NOP]
    /\ rob = [entries |-> [i \in Index |-> ZeroEntry],
              oldestIndex |-> 0, newestIndex |-> 0, isFull |-> FALSE]
    /\ rs = [s \in Station |-> IdleStation]
    /\ maskLocked = "EX_MUL"
    /\ step = 0
    /\ registers \in [Reg -> Value] /\ registers[0] = 0
    /\ order = <<>>

----------------------------------------------------------------------------
(* The reorder buffer. *)

isEmpty == rob.oldestIndex = rob.newestIndex /\ ~rob.isFull

nextIndex(i) == IF i + 1 = config.capacity THEN 0 ELSE i + 1

indexForNth(n) == (n + rob.oldestIndex) % config.capacity

isValidIndex(i) ==
    CASE isEmpty -> FALSE
      [] ~isEmpty /\ rob.oldestIndex = rob.newestIndex -> TRUE
      [] rob.newestIndex > rob.oldestIndex ->
           i >= rob.oldestIndex /\ i < rob.newestIndex
      [] OTHER -> i >= rob.oldestIndex \/ i < rob.newestIndex

(* The places, counted from the oldest, whose entry names r. *)
Named(r) ==
    {n \in Index : LET i == indexForNth(n) IN
        isValidIndex(i) /\ rob.entries[i].writeDestination = r /\ r # 0}

(* Mutant: the oldest entry that names r, not the freshest. *)
getValueOldest(r) ==
    indexForNth(CHOOSE n \in Named(r) : \A m \in Named(r) : n <= m)

getValue(r) ==
    indexForNth(CHOOSE n \in Named(r) : \A m \in Named(r) : m <= n)

oldestEntry == rob.entries[rob.oldestIndex]

(* The oldest instruction retires in this cycle; globalTarget is valid. *)
Retires == ~isEmpty /\ oldestEntry.ready
GlobalJump == Retires /\ oldestEntry.performsJump

robAvailable == ~rob.isFull \/ (Retires /\ ~oldestEntry.performsJump)

----------------------------------------------------------------------------
(* The execute stages and the common data bus.  mulReady: MulDiv finishes. *)

(* exeStage.arbitration.isDone; a jump makes the stage invalid. *)
isDone(s, mulReady) ==
    /\ rs[s].state = "EXECUTING" /\ ~GlobalJump
    /\ s = "EX_ALU" \/ mulReady

cdbValid(s, mulReady) ==
    isDone(s, mulReady) \/ rs[s].state = "BROADCASTING_RESULT"

(* What a finished instruction sends; junk is an unassigned writeValue. *)
Outcome(s, junk) ==
    LET i == rs[s].ir
        a == rs[s].rs1.data
        b == rs[s].rs2.data
    IN  [robIndex |-> rs[s].robEntryIndex,
         writesRegister |-> WritesRd(i),
         performsJump |-> TakesJump(i, a, b),
         writeValue |-> IF WritesRd(i) THEN Result(i, a, b, i.imm) ELSE junk]

payload(s, junk) ==
    IF rs[s].state = "BROADCASTING_RESULT" THEN rs[s].resultCdbMessage
                                           ELSE Outcome(s, junk)

(* StreamArbiterFactory.roundRobin: the station after the last one served. *)
Granted(s, mulReady) ==
    /\ cdbValid(s, mulReady)
    /\ s # maskLocked \/ ~ \E t \in Station \ {s} : cdbValid(t, mulReady)

(* Mutant: a station is free as soon as its result is ready, sent or not. *)
isAvailableEarly(s, mulReady) ==
    rs[s].state = "IDLE" \/ cdbValid(s, mulReady)

isAvailable(s, mulReady) ==
    \/ rs[s].state = "IDLE"
    \/ rs[s].state = "EXECUTING" /\ GlobalJump
    \/ Granted(s, mulReady)

----------------------------------------------------------------------------
(* Dispatch: the instruction in ID goes to the station of its DEST_FU. *)

DestFu(i) == CASE i.op = "MUL" -> {"EX_MUL"}
               [] i.op = "ILLEGAL" -> {}
               [] OTHER -> {"EX_ALU"}

(* ID is valid: a jump makes it invalid. *)
Issues == decode.isValid /\ ~GlobalJump

Dispatches(s, mulReady) ==
    /\ Issues /\ s \in DestFu(decode.ir)
    /\ isAvailable(s, mulReady) /\ robAvailable

(* An operand as execute() finds it: from the buffer if an entry names the
   register, from the register file otherwise. *)
Operand(r, used) ==
    IF Named(r) = {} THEN Data(ReadReg(registers, r))
    ELSE LET i == getValue(r) IN
         IF rob.entries[i].ready \/ ~used THEN Data(rob.entries[i].writeValue)
                                          ELSE Waits(i)

(* RS1 waits whether or not the instruction uses it. *)
Dispatched ==
    [IdleStation EXCEPT
        !.state = IF Operand(decode.ir.rs1, TRUE).waiting
                     \/ Operand(decode.ir.rs2, UsesRs2(decode.ir)).waiting
                  THEN "WAITING_FOR_ARGS" ELSE "EXECUTING",
        !.ir = decode.ir,
        !.rs1 = Operand(decode.ir.rs1, TRUE),
        !.rs2 = Operand(decode.ir.rs2, UsesRs2(decode.ir)),
        !.robEntryIndex = rob.newestIndex]

(* Mutant: of two operands one station waits for, one message is heard. *)
onCdbMessageOnce(st, msg) ==
    IF st.state # "WAITING_FOR_ARGS" THEN st
    ELSE IF st.rs1.waiting /\ st.rs1.index = msg.robIndex
    THEN [st EXCEPT !.rs1 = Data(msg.writeValue),
                    !.state = IF st.rs2.waiting THEN @ ELSE "EXECUTING"]
    ELSE IF st.rs2.waiting /\ st.rs2.index = msg.robIndex
    THEN [st EXCEPT !.rs2 = Data(msg.writeValue),
                    !.state = IF st.rs1.waiting THEN @ ELSE "EXECUTING"]
    ELSE st

(* A waiting station hears a message: st is what it holds, or what it has
   just been dispatched with. *)
onCdbMessage(st, msg) ==
    LET Hear(o) == IF o.waiting /\ o.index = msg.robIndex THEN Data(msg.writeValue) ELSE o
        r1 == Hear(st.rs1)
        r2 == Hear(st.rs2)
    IN  IF st.state # "WAITING_FOR_ARGS" THEN st
        ELSE [st EXCEPT !.rs1 = r1, !.rs2 = r2,
                        !.state = IF r1.waiting \/ r2.waiting THEN @ ELSE "EXECUTING"]

(* A station at the end of the cycle, before it hears the message.  A jump
   stops what executes; a station that waits stays as it is. *)
StationNext(s, mulReady, junk) ==
    CASE Dispatches(s, mulReady) -> Dispatched
      [] ~Dispatches(s, mulReady) /\ isAvailable(s, mulReady) -> IdleStation
      [] isDone(s, mulReady) /\ ~isAvailable(s, mulReady) ->
           [rs[s] EXCEPT !.state = "BROADCASTING_RESULT",
                         !.rs1 = Data(0), !.rs2 = Data(0),
                         !.resultCdbMessage = Outcome(s, junk)]
      [] OTHER -> rs[s]

----------------------------------------------------------------------------
(* The registers of the reorder buffer at the end of the cycle: the push of
   a dispatch, then the message, which has the last word. *)
EntriesNext(push, msgs) ==
    [i \in Index |->
        LET e == IF push /\ i = rob.newestIndex
                 THEN [ZeroEntry EXCEPT !.writeDestination = decode.ir.rd]
                 ELSE rob.entries[i]
        IN  IF \E m \in msgs : m.robIndex = i
            THEN LET m == CHOOSE m \in msgs : m.robIndex = i IN
                 [e EXCEPT !.writesRegister = m.writesRegister,
                           !.performsJump = m.performsJump,
                           !.writeValue = m.writeValue, !.ready = TRUE]
            ELSE e]

RobNext(push, msgs) ==
    LET newest == IF push THEN nextIndex(rob.newestIndex) ELSE rob.newestIndex
        oldest == IF Retires THEN nextIndex(rob.oldestIndex) ELSE rob.oldestIndex
    IN  [entries |-> EntriesNext(push, msgs),
         oldestIndex |-> IF GlobalJump THEN 0 ELSE oldest,
         newestIndex |-> IF GlobalJump THEN 0 ELSE newest,
         isFull |-> \/ push /\ oldest = newest
                    \/ ~push /\ ~Retires /\ rob.isFull]

(* IF delivers fetched when ID can take it. *)
DecodeNext(stalled, fetched) ==
    CASE GlobalJump -> [isValid |-> FALSE, ir |-> NOP]
      [] ~GlobalJump /\ stalled -> decode
      [] OTHER -> IF fetched = NOP THEN [isValid |-> FALSE, ir |-> NOP]
                                   ELSE [isValid |-> TRUE, ir |-> fetched]

OrderNext(push) ==
    IF GlobalJump THEN <<>>
    ELSE LET kept == IF Retires THEN Tail(order) ELSE order
         IN  IF push THEN Append(kept, decode.ir) ELSE kept

(* One clock cycle.  fetched = NOP: the instruction bus has not answered. *)
Cycle(fetched, mulReady, junk) ==
    LET push == \E s \in Station : Dispatches(s, mulReady)
        msgs == {payload(s, junk) : s \in {t \in Station : Granted(t, mulReady)}}
        Heard(st) == IF msgs = {} THEN st ELSE onCdbMessage(st, CHOOSE m \in msgs : TRUE)
        executing == rs["EX_MUL"].state = "EXECUTING" /\ ~GlobalJump
    IN  /\ mulReady => executing
        /\ junk # 0 => \E s \in Station : isDone(s, mulReady) /\ ~WritesRd(rs[s].ir)
        /\ executing /\ step = MulSteps - 1 => mulReady
        /\ rs' = [s \in Station |-> Heard(StationNext(s, mulReady, junk))]
        /\ rob' = RobNext(push, msgs)
        /\ decode' = DecodeNext(Issues /\ ~push, fetched)
        /\ maskLocked' = IF msgs = {} THEN maskLocked
                         ELSE CHOOSE s \in Station : Granted(s, mulReady)
        /\ step' = IF executing /\ ~mulReady THEN step + 1 ELSE 0
        /\ registers' = IF Retires /\ oldestEntry.writesRegister
                        THEN [registers EXCEPT ![oldestEntry.writeDestination] =
                                                   oldestEntry.writeValue]
                        ELSE registers
        /\ order' = OrderNext(push)
        /\ UNCHANGED config

Next ==
    \E fetched \in config.program \cup {NOP}, mulReady \in BOOLEAN, junk \in Value :
        Cycle(fetched, mulReady, junk)

Spec == Init /\ [][Next]_vars

(* The clock runs. *)
FairSpec == Spec /\ WF_vars(Next)
----------------------------------------------------------------------------
(* Type correctness: every register of the pipeline stays in its range, in
   whichever order instructions are dispatched, finish and retire. *)
TypeOK ==
    /\ config \in Configs
    /\ decode \in [isValid : BOOLEAN, ir : config.program \cup {NOP}]
    /\ rob \in [entries : [Index -> RobEntry], oldestIndex : Index,
                newestIndex : Index, isFull : BOOLEAN]
    /\ \A s \in Station :
         /\ rs[s].state \in {"IDLE", "WAITING_FOR_ARGS", "EXECUTING", "BROADCASTING_RESULT"}
         /\ rs[s].ir \in config.program \cup {NOP}
         /\ \A o \in {rs[s].rs1, rs[s].rs2} :
              o \in [waiting : BOOLEAN, index : Index, data : Value]
         /\ rs[s].robEntryIndex \in Index
         /\ rs[s].resultCdbMessage \in Message
    /\ maskLocked \in Station
    /\ step \in 0 .. MulSteps - 1
    /\ registers \in [Reg -> Value]

(* The entries between oldestIndex and newestIndex, isFull telling a full
   buffer from an empty one, are the instructions dispatched and not yet
   retired, in program order (ReorderBuffer.build, isValidIndex). *)
RobInOrder ==
    /\ Len(order) <= config.capacity
    /\ {i \in Index : isValidIndex(i)} = {indexForNth(n) : n \in 0 .. Len(order) - 1}
    /\ \A n \in 1 .. Len(order) :
         rob.entries[indexForNth(n - 1)].writeDestination = order[n].rd

Busy == {s \in Station : rs[s].state # "IDLE"}

(* The place of an entry in the order. *)
Age(i) == CHOOSE n \in Index : indexForNth(n) = i

(* Every station in use works for an entry of the buffer that is not ready,
   no two for the same one, and on that entry's instruction; every entry that
   is not ready has a station; an operand waits for an older entry that is
   not ready.  A station that missed its message, or kept running for an
   instruction a jump removed, breaks it (ReservationStation.onCdbMessage,
   reset). *)
StationsOwnEntries ==
    /\ \A s, t \in Busy : s # t => rs[s].robEntryIndex # rs[t].robEntryIndex
    /\ \A s \in Busy :
         LET i == rs[s].robEntryIndex IN
         /\ isValidIndex(i) /\ ~rob.entries[i].ready
         /\ order[Age(i) + 1] = rs[s].ir
         /\ \A o \in {rs[s].rs1, rs[s].rs2} : o.waiting =>
              /\ isValidIndex(o.index) /\ ~rob.entries[o.index].ready
              /\ Age(o.index) < Age(i)
    /\ \A i \in Index : isValidIndex(i) /\ ~rob.entries[i].ready =>
         \E s \in Busy : rs[s].robEntryIndex = i

(* The buffer and the stations agree, whichever way instructions are
   dispatched, finish and retire. *)
RobConsistent == TypeOK /\ RobInOrder /\ StationsOwnEntries

(* Instructions finish out of order, but what retires is what the program
   does one instruction at a time: the registers change as the oldest
   instruction would change them, and fetching is redirected exactly when it
   jumps (ReorderBuffer.build, ReservationStation.execute). *)
RetiresInOrder ==
    [][Retires => /\ SameRegs(registers', Execute(Head(order), registers, Head(order).imm, 0, 0))
                  /\ oldestEntry.performsJump = Jumps(Head(order), registers)]_vars

(* An instruction in the buffer is not there for ever: the oldest one
   retires (or the buffer is emptied by a jump).  Everyone waiting on
   everyone else would keep the buffer full. *)
Progress == [](~isEmpty => <>Retires)

=============================================================================
