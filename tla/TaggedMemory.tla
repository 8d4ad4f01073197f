---------------------------- MODULE TaggedMemory ----------------------------
(***************************************************************************)
(* The tagged memory of the Proteus core: the memory stage's bus           *)
(* controller, the tagger behind it (MemoryTagger.scala) with a controller *)
(* of its own, and the external memory, which takes a command and answers  *)
(* a read when it likes.  Cycle is one clock cycle.                        *)
(*                                                                         *)
(* The memory stage is the one client of both buses.  It holds a request   *)
(* until it is answered, but for a load, which it may drop when it is      *)
(* invalidated.  Capabilities are addressed by granule: the checks of      *)
(* Lsu.scala have passed, and the address is a multiple of their length.   *)
(***************************************************************************)
EXTENDS TaggedWords, MemBusControl

VARIABLES
    mem,          \* the external memory
    reading,      \* the read it has taken, or None
    tags,         \* of the granules in memory
    state,        \* PASS_THROUGH or CAP_OP
    cbusWordCtr,
    cbusReadWords,
    dbusCtrl,     \* currentCmd of the stage's controller
    dbusControl,  \* currentCmd of the tagger's controller
    request,      \* what the memory stage asks for
    answer        \* what the load returned that was its last request

vars == <<mem, reading, tags, state, cbusWordCtr, cbusReadWords, dbusCtrl, dbusControl,
          request, answer>>

(* What cbusReadWords holds after a load is not read again. *)
NoWords == [i \in 0 .. CapWords - 2 |-> 0]

Init ==
    /\ mem = [a \in Word |-> 0] /\ reading = None
    /\ tags = [g \in InMemory |-> FALSE]
    /\ state = "PASS_THROUGH" /\ cbusWordCtr = 0
    /\ cbusReadWords = NoWords
    /\ dbusCtrl = NoCmd /\ dbusControl = NoCmd
    /\ request = Idle /\ answer = <<>>

(* What the memory stage puts on the data bus, and on the capability bus. *)
dataRequest ==
    CASE request.op = "load" -> ReadAt(request.address)
      [] request.op = "store" -> WriteAt(request.address, request.data)
      [] OTHER -> NoRequest

dbusValid == busValid(dbusCtrl, dataRequest)
dbusCmd == busCmd(dbusCtrl, dataRequest)
cbusValid == request.op \in {"loadcap", "storecap"}

(* The word of the capability that is next. *)
wordRequest ==
    LET a == wordOf(request.granule, cbusWordCtr)
    IN  IF request.op = "storecap" THEN WriteAt(a, request.cap[cbusWordCtr]) ELSE ReadAt(a)

(* What the tagger asks of its controller: data goes first, except within a
   capability. *)
passesData == state = "PASS_THROUGH" /\ dbusValid

busRequest ==
    IF passesData THEN dbusCmd
    ELSE IF cbusValid THEN wordRequest ELSE NoRequest

lastWord == state = "CAP_OP" /\ cbusWordCtr = CapWords - 1

(* The granule whose tag is read or written. *)
tagIndex == IF dbusValid THEN granuleOf(dbusCmd.address) ELSE request.granule

(* Mutant: a data store keeps the tag. *)
tagsKept(done) ==
    IF done /\ ~passesData /\ request.op = "storecap" /\ lastWord
    THEN WithTag(tags, tagIndex, request.tag) ELSE tags

(* The tags after a cycle in which the word on the bus was done or not. *)
tagsNext(done) ==
    CASE done /\ passesData /\ dbusCmd.op = "write" -> WithTag(tags, tagIndex, FALSE)
      [] done /\ ~passesData /\ request.op = "storecap" /\ lastWord ->
           WithTag(tags, tagIndex, request.tag)
      [] OTHER -> tags

ctrNext == (cbusWordCtr + 1) % CapWords

(* What a load of a capability returns; a granule that is not in memory shows
   some tag of those that are. *)
capRead(rdata) ==
    {<<[i \in Offset |-> IF i = CapWords - 1 THEN rdata ELSE cbusReadWords[i]], t>> :
        t \in IF tagIndex \in InMemory THEN {tags[tagIndex]} ELSE BOOLEAN}

Cycle(cmdReady, rspValid) ==
    LET done == \/ accepted(dbusControl, busRequest, cmdReady)
                \/ readValid(dbusControl, busRequest, rspValid)
        dbusReady == passesData /\ done
        dbusRsp == dbusReady /\ dbusCmd.op = "read"
        capWord == ~passesData /\ cbusValid /\ done
        taken == busValid(dbusControl, busRequest) /\ cmdReady
        cmd == busCmd(dbusControl, busRequest)
        rdata == IF rspValid THEN mem[reading] ELSE 0
        loaded == request.op = "load" /\ readValid(dbusCtrl, dataRequest, dbusRsp)
        stored == accepted(dbusCtrl, dataRequest, dbusReady)
    IN  /\ dbusCtrl' = CmdNext(dbusCtrl, dataRequest, dbusReady, dbusRsp)
        /\ dbusControl' = CmdNext(dbusControl, busRequest, cmdReady, rspValid)
        /\ mem' = IF taken /\ cmd.op = "write" THEN [mem EXCEPT ![cmd.address] = cmd.wdata] ELSE mem
        /\ reading' = IF taken /\ cmd.op = "read" THEN cmd.address
                      ELSE IF rspValid THEN None ELSE reading
        /\ tags' = tagsNext(done)
        /\ state' = IF capWord THEN IF lastWord THEN "PASS_THROUGH" ELSE "CAP_OP" ELSE state
        /\ cbusWordCtr' = IF capWord THEN ctrNext ELSE cbusWordCtr
        /\ cbusReadWords' = IF capWord /\ request.op = "loadcap"
                            THEN IF lastWord THEN NoWords
                                 ELSE [cbusReadWords EXCEPT ![cbusWordCtr] = rdata]
                            ELSE cbusReadWords
        /\ request' = IF loaded \/ stored \/ (capWord /\ lastWord) THEN Idle ELSE request
        /\ IF loaded THEN answer' = <<rdata>>
           ELSE IF capWord /\ lastWord /\ request.op = "loadcap" THEN answer' \in capRead(rdata)
           ELSE answer' = answer

(* The external memory takes one command at a time. *)
Ready == reading = None
Responds == reading # None

Clock ==
    \E cmdReady \in {FALSE, Ready}, rspValid \in {FALSE, Responds} :
        Cycle(cmdReady, rspValid)

(* The next instruction reaches the memory stage. *)
Issue ==
    /\ request = Idle /\ request' \in DataOp \cup CapOp /\ answer' = <<>>
    /\ UNCHANGED <<mem, reading, tags, state, cbusWordCtr, cbusReadWords, dbusCtrl, dbusControl>>

(* The stage is invalidated while it waits for a load. *)
Abandon ==
    /\ request.op = "load" /\ request' = Idle
    /\ UNCHANGED <<mem, reading, tags, state, cbusWordCtr, cbusReadWords, dbusCtrl, dbusControl, answer>>

Next == Clock \/ Issue \/ Abandon

(* The memory takes the command it is offered and answers it. *)
Spec == Init /\ [][Next]_vars /\ WF_vars(Cycle(Ready, Responds))

(***************************************************************************)
(* Properties                                                              *)
(***************************************************************************)

(* A store of a capability takes effect with its first word: what the memory
   and the tags will be once the words under way are written. *)
performed == state = "CAP_OP" /\ request.op = "storecap"

Atomic == INSTANCE AtomicTaggedMemory WITH
    words <- IF performed THEN WithCap(mem, request.granule, request.cap) ELSE mem,
    tags <- IF performed THEN WithTag(tags, request.granule, request.tag) ELSE tags

(* The word by word accesses of the tagger, the commands the two controllers
   buffer and the loads that are dropped amount to an atomic tagged memory. *)
RefinesAtomic == Atomic!Spec

(* Every access is answered: no command buffered for a load that was dropped,
   and no word counter left behind, blocks the next one. *)
Answered == request # Idle ~> request = Idle
=============================================================================
