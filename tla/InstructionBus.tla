--------------------------- MODULE InstructionBus ---------------------------
(***************************************************************************)
(* The fetch stage (Fetcher.scala) and its bus controller (MemBus.scala,   *)
(* IBusControl), which prefetches the words behind the last command and    *)
(* starts over when the stage asks for another address.  Cycle is one      *)
(* clock cycle.  An address is a word number, and the instruction at an    *)
(* address is the address itself.                                          *)
(*                                                                         *)
(* The memory is external: it takes commands and answers them in order,    *)
(* after an arbitrary time.  A stall lasts, and a jump or a slow answer    *)
(* comes, as long as the system is not settled; from then on the stage     *)
(* runs, the memory takes a command in every cycle, and since the          *)
(* controller always has one, holding ibusLatency of them is answering     *)
(* each ibusLatency cycles later.                                          *)
(***************************************************************************)
EXTENDS Naturals, Sequences

CONSTANTS
    Words,        \* the address space, in words; addresses wrap around
    ibusLatency,
    irQueueSize,
    MaxInFlight,  \* commands the memory holds
    Targets,      \* where jumps go
    None

Address == 0 .. Words - 1

(* Mutant: no entry for a push while the queue is popped. *)
depthExact == ibusLatency

(* The depth of cmdFifo. *)
depth == ibusLatency + 1

ASSUME BusAssumption ==
    /\ Words \in Nat \ {0} /\ ibusLatency \in 1 .. 14
    /\ irQueueSize \in Nat \ {0} /\ MaxInFlight \in Nat \ {0}
    /\ Targets \subseteq Address /\ None \notin Address

VARIABLES
    pc,                 \* of the instruction in the fetch stage
    fetched,            \* the instruction delivered in the last cycle
    cmdFifo,            \* addresses of the commands in flight
    rspFifo,            \* responses not yet consumed
    currentCmd,
    restartCmdsToFlush,
    inflight,           \* what the memory has taken and not answered
    settled

vars == <<pc, fetched, cmdFifo, rspFifo, currentCmd, restartCmdsToFlush, inflight, settled>>

Rsp == [address : Address, ir : Address]

(* Type correctness: no queue holds more than its depth. *)
TypeOK ==
    /\ pc \in Address /\ fetched \in Address \cup {None}
    /\ cmdFifo \in Seq(Address) /\ Len(cmdFifo) <= depth
    /\ rspFifo \in Seq(Rsp) /\ Len(rspFifo) <= irQueueSize
    /\ currentCmd \in [valid : BOOLEAN, accepted : BOOLEAN, address : Address]
    /\ restartCmdsToFlush \in 0 .. depth
    /\ inflight \in Seq(Address) /\ Len(inflight) <= MaxInFlight
    /\ settled \in BOOLEAN

Init ==
    /\ pc = 0 /\ fetched = None
    /\ cmdFifo = <<>> /\ rspFifo = <<>> /\ inflight = <<>>
    /\ currentCmd = [valid |-> FALSE, accepted |-> FALSE, address |-> 0]
    /\ restartCmdsToFlush = 0
    /\ settled = FALSE

nextAddress(a) == (a + 1) % Words

(* StreamFifoLowLatency: a push into a full queue is lost. *)
Popped(fifo) == IF fifo = <<>> THEN fifo ELSE Tail(fifo)

(* restartCmdsToFlush has log2Up(depth + 1) bits. *)
FlushValues == CHOOSE v \in {2, 4, 8, 16} : v > depth /\ v <= 2 * depth

restarting == restartCmdsToFlush # 0

(* The head of cmdFifo is the address of the response on the bus; an empty
   queue shows whatever its memory holds. *)
Labels(rspValid) == IF ~rspValid THEN {0} ELSE IF cmdFifo = <<>> THEN Address ELSE {Head(cmdFifo)}

BusRsp(label) == [address |-> label, ir |-> Head(inflight)]

(* popRsp: the oldest response, from the queue or else from the bus; ignored
   while restarting. *)
popRsp(rspValid, label) ==
    IF restarting THEN {}
    ELSE IF rspFifo # <<>> THEN {Head(rspFifo)}
    ELSE IF rspValid THEN {BusRsp(label)} ELSE {}

(* The command that is on the bus and not taken yet. *)
pending == currentCmd.valid /\ ~currentCmd.accepted

(* Mutant: the command that waits for the bus is forgotten. *)
CmdsToFlushTaken(rspValid) == (Len(cmdFifo) - (IF rspValid THEN 1 ELSE 0)) % FlushValues

(* Mutant: the command that is answered now is counted. *)
CmdsToFlushAnswered(rspValid) == (Len(cmdFifo) + (IF pending THEN 1 ELSE 0)) % FlushValues

(* Commands to ignore when fetching restarts: those in cmdFifo, but for the
   one that is answered now, and the one that waits for the bus. *)
CmdsToFlush(rspValid) ==
    (Len(cmdFifo) - (IF rspValid THEN 1 ELSE 0) + (IF pending THEN 1 ELSE 0)) % FlushValues

(* The controller in a cycle.  restart is an address to restart from or None;
   popping says that the stage takes the oldest response. *)
Bus(restart, popping, rspValid, cmdReady, label) ==
    LET nextCmd == IF restart # None THEN restart ELSE nextAddress(currentCmd.address)
        busValid == restart # None \/ currentCmd.valid
        busAddress == IF pending THEN currentCmd.address ELSE nextCmd
        taken == busValid /\ cmdReady
        cmds == IF rspValid THEN Popped(cmdFifo) ELSE cmdFifo
        rsps == IF popping THEN Popped(rspFifo) ELSE rspFifo
        pushRsp == rspValid /\ ~(popping /\ rspFifo = <<>>)
        left == IF rspValid THEN Tail(inflight) ELSE inflight
    IN  /\ currentCmd' =
             IF busValid /\ (~pending \/ cmdReady)
             THEN [valid |-> TRUE, accepted |-> ~pending /\ cmdReady, address |-> nextCmd]
             ELSE currentCmd
        /\ restartCmdsToFlush' =
             IF restarting THEN restartCmdsToFlush - (IF rspValid THEN 1 ELSE 0)
             ELSE IF restart # None /\ (~pending \/ cmdReady) THEN CmdsToFlush(rspValid)
             ELSE 0
        /\ cmdFifo' = IF taken /\ Len(cmdFifo) < depth THEN Append(cmds, busAddress) ELSE cmds
        /\ rspFifo' =
             IF restart # None THEN <<>>
             ELSE IF pushRsp /\ Len(rspFifo) < irQueueSize THEN Append(rsps, BusRsp(label))
             ELSE rsps
        /\ inflight' = IF taken THEN Append(left, busAddress) ELSE left

(* The cycle of a stage that runs: it delivers the instruction it asked for,
   waits, or has the bus start over. *)
Read(rspValid, cmdReady, label) ==
    LET rsp == popRsp(rspValid, label)
        valid == \E r \in rsp : r.address = pc
        restartNeeded == /\ ~valid
                         /\ (rsp # {} \/ cmdFifo = <<>> \/ Head(cmdFifo) # pc)
        restart == IF restartNeeded /\ ~restarting THEN pc ELSE None
    IN  /\ Bus(restart, TRUE, rspValid, cmdReady, label)
        /\ fetched' = IF valid THEN (CHOOSE r \in rsp : TRUE).ir ELSE None
        /\ pc' = IF valid THEN nextAddress(pc) ELSE pc

(* A cycle in which the stage does not run: it is stalled, or a later stage
   jumps and it holds nothing valid. *)
Idle(rspValid, cmdReady, label) ==
    /\ Bus(None, FALSE, rspValid, cmdReady, label)
    /\ fetched' = None
    /\ pc' \in {pc} \cup Targets

(* The lines of the external memory. *)
MayTake == Len(inflight) < MaxInFlight
MayAnswer == inflight # <<>>
Answers == Len(inflight) >= ibusLatency

Unsettled ==
    /\ ~settled
    /\ \E rspValid \in {FALSE, MayAnswer}, cmdReady \in {FALSE, MayTake} :
         \E label \in Labels(rspValid) :
            Read(rspValid, cmdReady, label) \/ Idle(rspValid, cmdReady, label)
    /\ settled' \in BOOLEAN

Settled ==
    /\ settled
    /\ \E label \in Labels(Answers) : Read(Answers, MayTake, label)
    /\ UNCHANGED settled

Next == Unsettled \/ Settled

Spec == Init /\ [][Next]_vars /\ WF_vars(Next)

(***************************************************************************)
(* Properties                                                              *)
(***************************************************************************)

(* What the stage is given is the instruction at the address it asked for,
   whatever was in flight, queued, dropped or ignored before. *)
FetchesRight == [][fetched' # None => fetched' = pc /\ pc' = nextAddress(pc)]_vars

(* The commands that are not to be ignored, the waiting one included, are for
   consecutive words: a restart leaves nothing of the old stream behind. *)
PrefetchConsecutive ==
    LET stream == SubSeq(cmdFifo, restartCmdsToFlush + 1, Len(cmdFifo))
                  \o (IF pending /\ restartCmdsToFlush <= Len(cmdFifo)
                      THEN <<currentCmd.address>> ELSE <<>>)
    IN  \A i \in 1 .. Len(stream) - 1 : stream[i + 1] = nextAddress(stream[i])

(* The queues hold what their widths allow, and one stream of words. *)
PrefetchInOrder == TypeOK /\ PrefetchConsecutive

(* Once nothing stalls and the memory keeps up, every instruction that is
   waited for is delivered, whatever state the queues were left in. *)
Fetches == \A a \in Address : settled /\ pc = a ~> pc # a
=============================================================================
