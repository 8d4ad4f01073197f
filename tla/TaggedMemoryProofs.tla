------------------------- MODULE TaggedMemoryProofs -------------------------
(***************************************************************************)
(* Theorems about TaggedMemory: the tagger and the two bus controllers     *)
(* implement the atomic tagged memory, for every capability length, memory *)
(* size, set of values and latency of the external memory.                 *)
(***************************************************************************)
EXTENDS TaggedMemory, Integers, TLAPS

-----------------------------------------------------------------------------
(* The inductive invariant.                                                *)

(* A controller whose command waits for the bus, and one whose command was
   taken and is not answered. *)
Buffered(cmd) == [valid |-> TRUE, ready |-> FALSE, cmd |-> cmd]
Sent(cmd) == [valid |-> FALSE, ready |-> TRUE, cmd |-> cmd]

Types ==
    /\ mem \in [Word -> Value] /\ tags \in [InMemory -> BOOLEAN]
    /\ reading \in Word \cup {None}
    /\ state \in {"PASS_THROUGH", "CAP_OP"} /\ cbusWordCtr \in Offset
    /\ cbusReadWords \in [0 .. CapWords - 2 -> Value]
    /\ request \in DataOp \cup CapOp \cup {Idle}

(* The stage's controller holds a read, maybe of a load that was dropped, or
   the write of the store under way. *)
StageCtrl ==
    \/ dbusCtrl = NoCmd
    \/ \E a \in DataAddresses : dbusCtrl = Buffered(ReadAt(a))
    \/ (request.op = "store" /\ dbusCtrl = Buffered(dataRequest))

(* What the tagger's controller holds is what the tagger still asks for, and
   the external memory works on that and nothing else. *)
TaggerCtrl ==
    \/ (dbusControl = NoCmd /\ reading = None)
    \/ /\ busRequest.op \in {"read", "write"} /\ dbusControl = Buffered(busRequest)
       /\ reading = None
    \/ /\ busRequest.op = "read" /\ dbusControl = Sent(busRequest)
       /\ reading = busRequest.address

(* A data request the stage's controller has not buffered has not reached
   the tagger's: dropping it leaves nothing behind. *)
Owned == dbusCtrl = NoCmd /\ request.op \in {"load", "store"} => dbusControl = NoCmd

(* Within a capability the counter says how many of its words are done. *)
WordByWord ==
    /\ state = "PASS_THROUGH" => cbusWordCtr = 0
    /\ state = "CAP_OP" => cbusWordCtr > 0 /\ request \in CapOp /\ dbusCtrl = NoCmd
    /\ state = "CAP_OP" => \A i \in 0 .. cbusWordCtr - 1 :
         mem[wordOf(request.granule, i)] =
           IF request.op = "storecap" THEN request.cap[i] ELSE cbusReadWords[i]

TInv == Types /\ StageCtrl /\ TaggerCtrl /\ Owned /\ WordByWord

-----------------------------------------------------------------------------
(* Words and granules.                                                     *)

(* The sizes. *)
LEMMA MemoryFacts ==
    /\ CapWords \in Nat /\ CapWords >= 2 /\ Granules \in Nat /\ Granules >= 1
    /\ Offset \subseteq Nat /\ Granule \subseteq Nat /\ Word \subseteq Nat
    /\ InMemory \subseteq Granule /\ DataAddresses \subseteq Word
    /\ None \notin Word /\ 0 \in Value
  BY MemoryAssumption DEF Offset, Granule, Word

(* A product grows with its factors. *)
LEMMA ProductGrows == \A n, a, b \in Nat : a <= b => a * n <= b * n
  OBVIOUS

(* Quotient and remainder. *)
LEMMA Division ==
    \A n, a \in Nat : n > 0 =>
        a \div n \in Nat /\ a % n \in 0 .. n - 1 /\ a = n * (a \div n) + (a % n)
<1>1. \A n, a \in Nat : n > 0 => a \div n \in Int /\ a % n \in 0 .. n - 1 
  OBVIOUS
<1>2. \A n, a \in Nat : n > 0 => a = n * (a \div n) + (a % n)
  OBVIOUS
<1>3. \A n, a \in Nat : n > 0 => a \div n >= 0
  OBVIOUS
<1> QED
  BY <1>1, <1>2, <1>3

(* The words of a granule are in the memory, and know the granule and their
   place in it. *)
LEMMA WordOfGranule ==
    \A g \in Granule : \A i \in Offset :
        /\ wordOf(g, i) \in Word /\ granuleOf(wordOf(g, i)) = g
        /\ wordOf(g, i) % CapWords = i
<1> SUFFICES ASSUME NEW g \in Granule, NEW i \in Offset
             PROVE  /\ wordOf(g, i) \in Word /\ granuleOf(wordOf(g, i)) = g
                    /\ wordOf(g, i) % CapWords = i
  OBVIOUS
<1>1. /\ CapWords \in Nat /\ CapWords > 0 /\ Granules \in Nat
      /\ g \in Nat /\ g + 1 <= Granules /\ i \in Nat /\ i < CapWords
  BY MemoryFacts DEF Offset, Granule
<1>3. (g + 1) * CapWords <= Granules * CapWords
  BY <1>1, ProductGrows, g + 1 \in Nat, Zenon
<1>4. (g + 1) * CapWords = g * CapWords + CapWords /\ Granules * CapWords = CapWords * Granules
      /\ g * CapWords \in Nat /\ CapWords * Granules \in Nat
  BY <1>1
<1>5. wordOf(g, i) \in Word
  BY <1>1, <1>3, <1>4 DEF wordOf, Word
<1>6. \A n, q, r \in Nat : n > 0 /\ r < n => (q * n + r) \div n = q /\ (q * n + r) % n = r
  OBVIOUS
<1> QED
  BY <1>1, <1>5, <1>6 DEF wordOf, granuleOf

(* Every word has its place in one granule. *)
LEMMA GranuleOfWord ==
    \A a \in Word :
        granuleOf(a) \in Granule /\ a % CapWords \in Offset /\ a = wordOf(granuleOf(a), a % CapWords)
<1> SUFFICES ASSUME NEW a \in Word
             PROVE  /\ granuleOf(a) \in Granule /\ a % CapWords \in Offset
                    /\ a = wordOf(granuleOf(a), a % CapWords)
  OBVIOUS
<1>1. CapWords \in Nat /\ CapWords > 0 /\ Granules \in Nat /\ a \in Nat /\ a < CapWords * Granules
  BY MemoryFacts DEF Word
<1>2. a \div CapWords \in Nat /\ a % CapWords \in 0 .. CapWords - 1
      /\ a = CapWords * (a \div CapWords) + (a % CapWords)
  BY <1>1, Division
<1>4. CapWords * (a \div CapWords) <= a /\ CapWords * (a \div CapWords) = (a \div CapWords) * CapWords
  BY <1>1, <1>2
<1>5. CapWords * (a \div CapWords) < CapWords * Granules
  BY <1>1, <1>2, <1>4
<1>6. a \div CapWords < Granules
  <2>1. CapWords * Granules \in Nat /\ CapWords * (a \div CapWords) \in Nat
        /\ CapWords * Granules = Granules * CapWords
    BY <1>1, <1>2
  <2>2. ~ (Granules * CapWords <= (a \div CapWords) * CapWords)
    BY <1>4, <1>5, <2>1
  <2>3. ~ (Granules <= a \div CapWords)
    BY <1>1, <1>2, ProductGrows, <2>2, Zenon
  <2> QED
    BY <1>1, <1>2, <2>3
<1> QED
  BY <1>1, <1>2, <1>4, <1>6 DEF granuleOf, Granule, Offset, wordOf

-----------------------------------------------------------------------------
(* The bus controller.                                                     *)

(* A controller that holds nothing passes the request on. *)
LEMMA FreeController ==
    ASSUME NEW req, NEW cmdReady \in BOOLEAN, NEW rspValid \in BOOLEAN,
           req.op \in {"none", "read", "write"}
    PROVE  /\ busValid(NoCmd, req) <=> req.op # "none"
           /\ req.op # "none" => busCmd(NoCmd, req) = req
           /\ accepted(NoCmd, req, cmdReady) <=> req.op = "write" /\ cmdReady
           /\ readValid(NoCmd, req, rspValid) <=> req.op = "read" /\ rspValid
           /\ CmdNext(NoCmd, req, FALSE, FALSE) = IF req.op # "none" THEN Buffered(req) ELSE NoCmd
           /\ CmdNext(NoCmd, req, TRUE, FALSE) = IF req.op = "read" THEN Sent(req) ELSE NoCmd
           /\ req.op = "read" => CmdNext(NoCmd, req, TRUE, TRUE) = NoCmd
<1>1. ~ NoCmd.valid /\ ~ NoCmd.ready /\ (issuedThisCycle(NoCmd, req) <=> req.op # "none")
  BY DEF NoCmd, issuedThisCycle, isIssued
<1>2. /\ busValid(NoCmd, req) <=> req.op # "none"
      /\ req.op # "none" => busCmd(NoCmd, req) = req
  BY <1>1 DEF busValid, busCmd
<1>3. /\ accepted(NoCmd, req, cmdReady) <=> req.op = "write" /\ cmdReady
      /\ readValid(NoCmd, req, rspValid) <=> req.op = "read" /\ rspValid
  BY <1>1 DEF accepted, readValid, NoCmd, NoRequest
<1>4. CmdNext(NoCmd, req, FALSE, FALSE) = IF req.op # "none" THEN Buffered(req) ELSE NoCmd
  BY <1>1, <1>2 DEF CmdNext, Buffered
<1>5. CmdNext(NoCmd, req, TRUE, FALSE) = IF req.op = "read" THEN Sent(req) ELSE NoCmd
  BY <1>1, <1>2 DEF CmdNext, Sent
<1>6. req.op = "read" => CmdNext(NoCmd, req, TRUE, TRUE) = NoCmd
  BY <1>1 DEF CmdNext
<1> QED
  BY <1>2, <1>3, <1>4, <1>5, <1>6

(* A controller whose command waits puts it on the bus, whatever is asked. *)
LEMMA BufferedController ==
    ASSUME NEW cmd, NEW req, NEW cmdReady \in BOOLEAN, NEW rspValid \in BOOLEAN
    PROVE  LET c == Buffered(cmd) IN
           /\ busValid(c, req) /\ busCmd(c, req) = cmd
           /\ accepted(c, req, cmdReady) <=> /\ req.op = "write" /\ cmdReady
                                             /\ cmd.address = req.address /\ cmd.op = "write"
           /\ readValid(c, req, rspValid) <=> /\ req.op = "read" /\ rspValid
                                              /\ cmd.address = req.address /\ cmd.op # "write"
           /\ CmdNext(c, req, FALSE, FALSE) = c
           /\ CmdNext(c, req, TRUE, FALSE) = IF req.op = "write" THEN NoCmd ELSE Sent(cmd)
           /\ CmdNext(c, req, cmdReady, TRUE) = NoCmd
<1> DEFINE c == Buffered(cmd)
<1>1. c.valid = TRUE /\ c.ready = FALSE /\ c.cmd = cmd
  BY DEF Buffered
<1> HIDE DEF c
<1>2. ~ issuedThisCycle(c, req)
  BY <1>1 DEF issuedThisCycle, isIssued
<1>3. busValid(c, req) /\ busCmd(c, req) = cmd
  BY <1>1, <1>2 DEF busValid, busCmd
<1>4. /\ accepted(c, req, cmdReady) <=> /\ req.op = "write" /\ cmdReady
                                        /\ cmd.address = req.address /\ cmd.op = "write"
      /\ readValid(c, req, rspValid) <=> /\ req.op = "read" /\ rspValid
                                         /\ cmd.address = req.address /\ cmd.op # "write"
  BY <1>1, <1>2 DEF accepted, readValid
<1>5. CmdNext(c, req, FALSE, FALSE) = c
  BY <1>1, <1>2 DEF CmdNext
<1>6. CmdNext(c, req, TRUE, FALSE) = IF req.op = "write" THEN NoCmd ELSE Sent(cmd)
  BY <1>1, <1>2, <1>3 DEF CmdNext, Sent
<1>7. CmdNext(c, req, cmdReady, TRUE) = NoCmd
  BY <1>1, <1>2 DEF CmdNext
<1> QED
  BY <1>3, <1>4, <1>5, <1>6, <1>7 DEF c

(* A controller whose command was taken waits for the answer. *)
LEMMA SentController ==
    ASSUME NEW cmd, NEW req, NEW rspValid \in BOOLEAN
    PROVE  LET c == Sent(cmd) IN
           /\ ~ busValid(c, req) /\ ~ accepted(c, req, FALSE)
           /\ readValid(c, req, rspValid) <=> /\ req.op = "read" /\ rspValid
                                              /\ cmd.address = req.address /\ cmd.op # "write"
           /\ CmdNext(c, req, FALSE, FALSE) = c
           /\ CmdNext(c, req, FALSE, TRUE) = NoCmd
<1> DEFINE c == Sent(cmd)
<1>1. c.valid = FALSE /\ c.ready = TRUE /\ c.cmd = cmd
  BY DEF Sent
<1> HIDE DEF c
<1>2. ~ issuedThisCycle(c, req)
  BY <1>1 DEF issuedThisCycle, isIssued
<1>3. ~ busValid(c, req) /\ ~ accepted(c, req, FALSE)
  BY <1>1, <1>2 DEF busValid, accepted
<1>4. readValid(c, req, rspValid) <=> /\ req.op = "read" /\ rspValid
                                      /\ cmd.address = req.address /\ cmd.op # "write"
  BY <1>1, <1>2 DEF readValid
<1>5. CmdNext(c, req, FALSE, FALSE) = c
  BY <1>1, <1>2 DEF CmdNext
<1>6. CmdNext(c, req, FALSE, TRUE) = NoCmd
  BY <1>1, <1>2 DEF CmdNext
<1> QED
  BY <1>3, <1>4, <1>5, <1>6 DEF c

-----------------------------------------------------------------------------
(* The memory stage and its controller.                                    *)

(* The requests there are. *)
LEMMA RequestFacts ==
    ASSUME Types
    PROVE  /\ request.op \in {"idle", "load", "store", "loadcap", "storecap"}
           /\ request.op = "idle" => request = Idle
           /\ request.op \in {"load", "store"} =>
                request.address \in DataAddresses /\ request.address \in Word
           /\ request.op = "store" => request.data \in Value
           /\ request.op \in {"loadcap", "storecap"} => request \in CapOp /\ request.granule \in Granule
           /\ request.op = "storecap" => request.cap \in [Offset -> Value] /\ request.tag \in BOOLEAN
           /\ request \in CapOp => request.op \in {"loadcap", "storecap"}
<1>1. request \in DataOp \/ request \in CapOp \/ request = Idle
  BY DEF Types
<1>2. Caps \subseteq [Offset -> Value] /\ DataAddresses \subseteq Word
  BY MemoryAssumption
<1>3. CASE request \in DataOp
  BY <1>2, <1>3 DEF DataOp, CapOp
<1>4. CASE request \in CapOp
  BY <1>2, <1>4 DEF CapOp
<1>5. CASE request = Idle
  BY <1>5 DEF Idle, CapOp
<1> QED
  BY <1>1, <1>3, <1>4, <1>5

(* What the stage asks of its controller. *)
LEMMA DataRequestFacts ==
    ASSUME Types
    PROVE  /\ request.op = "load" => dataRequest = ReadAt(request.address)
           /\ request.op = "store" => dataRequest = WriteAt(request.address, request.data)
           /\ request.op \notin {"load", "store"} => dataRequest = NoRequest
           /\ dataRequest.op \in {"none", "read", "write"}
           /\ dataRequest.op # "none" <=> request.op \in {"load", "store"}
           /\ dataRequest.op = "read" <=> request.op = "load"
           /\ dataRequest.op = "write" <=> request.op = "store"
<1>1. /\ request.op = "load" => dataRequest = ReadAt(request.address)
      /\ request.op = "store" => dataRequest = WriteAt(request.address, request.data)
      /\ request.op \notin {"load", "store"} => dataRequest = NoRequest
  BY DEF dataRequest
<1>2. /\ \A a : ReadAt(a).op = "read" /\ \A d : WriteAt(a, d).op = "write"
      /\ NoRequest.op = "none"
  BY DEF ReadAt, WriteAt, NoRequest
<1> QED
  BY <1>1, <1>2, RequestFacts

(* The controller after a cycle in which the tagger takes nothing. *)
stageWaits == IF dbusCtrl = NoCmd /\ dataRequest.op # "none" THEN Buffered(dataRequest) ELSE dbusCtrl

(* What the controller puts on the data bus, and what it answers. *)
LEMMA StageFacts ==
    ASSUME Types, StageCtrl
    PROVE  /\ dbusValid <=> dbusCtrl # NoCmd \/ request.op \in {"load", "store"}
           /\ dbusValid => dbusCmd.op \in {"read", "write"} /\ dbusCmd.address \in Word
           /\ dbusValid /\ dbusCmd.op = "write" => request.op = "store" /\ dbusCmd = dataRequest
           /\ dbusCtrl # NoCmd => dbusCmd = dbusCtrl.cmd /\ dbusCtrl = Buffered(dbusCmd)
           /\ CmdNext(dbusCtrl, dataRequest, FALSE, FALSE) = stageWaits
           /\ ~ readValid(dbusCtrl, dataRequest, FALSE) /\ ~ accepted(dbusCtrl, dataRequest, FALSE)
           /\ dbusValid /\ dbusCmd.op = "read" =>
                /\ CmdNext(dbusCtrl, dataRequest, TRUE, TRUE) = NoCmd
                /\ ~ accepted(dbusCtrl, dataRequest, TRUE)
                /\ request.op = "load" /\ readValid(dbusCtrl, dataRequest, TRUE)
                     <=> request.op = "load" /\ request.address = dbusCmd.address
           /\ dbusValid /\ dbusCmd.op = "write" =>
                /\ CmdNext(dbusCtrl, dataRequest, TRUE, FALSE) = NoCmd
                /\ accepted(dbusCtrl, dataRequest, TRUE)
<1>1. /\ \A a : ReadAt(a).op = "read" /\ ReadAt(a).address = a
      /\ \A a, d : WriteAt(a, d).op = "write" /\ WriteAt(a, d).address = a
      /\ \A cmd : Buffered(cmd) # NoCmd /\ Buffered(cmd).cmd = cmd
  BY DEF ReadAt, WriteAt, Buffered, NoCmd
<1>2. ~ readValid(dbusCtrl, dataRequest, FALSE) /\ ~ accepted(dbusCtrl, dataRequest, FALSE)
  BY DEF readValid, accepted
<1>3. CASE dbusCtrl = NoCmd
  <2>1. /\ dbusValid <=> request.op \in {"load", "store"}
        /\ dbusValid => dbusCmd = dataRequest
    BY <1>3, DataRequestFacts, FreeController DEF dbusValid, dbusCmd
  <2>2. CmdNext(dbusCtrl, dataRequest, FALSE, FALSE) = stageWaits
    BY <1>3, DataRequestFacts, FreeController DEF stageWaits
  <2>3. ASSUME dbusValid, dbusCmd.op = "read"
        PROVE  /\ CmdNext(dbusCtrl, dataRequest, TRUE, TRUE) = NoCmd
               /\ ~ accepted(dbusCtrl, dataRequest, TRUE)
               /\ readValid(dbusCtrl, dataRequest, TRUE) /\ request.op = "load"
               /\ request.address = dbusCmd.address
    <3>1. dbusCmd = dataRequest /\ dataRequest.op = "read" /\ request.op = "load"
      BY <2>1, <2>3, DataRequestFacts
    <3>2. request.address = dbusCmd.address
      BY <1>1, <3>1, DataRequestFacts
    <3>3. /\ CmdNext(NoCmd, dataRequest, TRUE, TRUE) = NoCmd
          /\ ~ accepted(NoCmd, dataRequest, TRUE)
      BY <3>1, FreeController
    <3>4. readValid(NoCmd, dataRequest, TRUE)
      BY <3>1, FreeController
    <3> QED
      BY <1>3, <3>1, <3>2, <3>3, <3>4
  <2>4. ASSUME dbusValid, dbusCmd.op = "write"
        PROVE  /\ CmdNext(dbusCtrl, dataRequest, TRUE, FALSE) = NoCmd
               /\ accepted(dbusCtrl, dataRequest, TRUE)
    BY <1>1, <1>3, <2>1, <2>4, DataRequestFacts, FreeController
  <2>5. dbusValid => dbusCmd.op \in {"read", "write"} /\ dbusCmd.address \in Word
    BY <1>1, <2>1, DataRequestFacts, RequestFacts
  <2>6. dbusValid /\ dbusCmd.op = "write" => request.op = "store" /\ dbusCmd = dataRequest
    BY <2>1, DataRequestFacts
  <2> QED
    BY <1>2, <1>3, <2>1, <2>2, <2>3, <2>4, <2>5, <2>6
<1>4. ASSUME NEW a \in DataAddresses, dbusCtrl = Buffered(ReadAt(a))
      PROVE  /\ dbusValid /\ dbusCmd = ReadAt(a)
             /\ CmdNext(dbusCtrl, dataRequest, FALSE, FALSE) = stageWaits
             /\ CmdNext(dbusCtrl, dataRequest, TRUE, TRUE) = NoCmd
             /\ ~ accepted(dbusCtrl, dataRequest, TRUE)
             /\ request.op = "load" /\ readValid(dbusCtrl, dataRequest, TRUE)
                     <=> request.op = "load" /\ request.address = dbusCmd.address
  <2>1. dbusValid /\ dbusCmd = ReadAt(a)
    BY <1>4, BufferedController DEF dbusValid, dbusCmd
  <2>2. CmdNext(dbusCtrl, dataRequest, FALSE, FALSE) = stageWaits
    BY <1>1, <1>4, BufferedController DEF stageWaits
  <2>3. CmdNext(dbusCtrl, dataRequest, TRUE, TRUE) = NoCmd
    BY <1>4, BufferedController
  <2>4. ~ accepted(dbusCtrl, dataRequest, TRUE)
    BY <1>1, <1>4, BufferedController
  <2>5. readValid(dbusCtrl, dataRequest, TRUE) <=> dataRequest.op = "read" /\ a = dataRequest.address
    <3>1. readValid(Buffered(ReadAt(a)), dataRequest, TRUE) <=>
             /\ dataRequest.op = "read" /\ TRUE
             /\ ReadAt(a).address = dataRequest.address /\ ReadAt(a).op # "write"
      BY BufferedController
    <3>2. ReadAt(a).address = a /\ ReadAt(a).op # "write"
      BY <1>1
    <3> QED
      BY <1>4, <3>1, <3>2
  <2>6. request.op = "load" => dataRequest.op = "read" /\ dataRequest.address = request.address
    BY <1>1, DataRequestFacts
  <2> QED
    BY <1>1, <2>1, <2>2, <2>3, <2>4, <2>5, <2>6
<1>5. CASE \E a \in DataAddresses : dbusCtrl = Buffered(ReadAt(a))
  <2> PICK a \in DataAddresses : dbusCtrl = Buffered(ReadAt(a))
    BY <1>5
  <2>1. a \in Word
    BY MemoryFacts
  <2> QED
    BY <1>1, <1>2, <1>4, <2>1
<1>6. CASE request.op = "store" /\ dbusCtrl = Buffered(dataRequest)
  <2>1. dbusValid /\ dbusCmd = dataRequest
    BY <1>6, BufferedController DEF dbusValid, dbusCmd
  <2>2. dataRequest.op = "write" /\ dataRequest.address \in Word
    BY <1>1, <1>6, DataRequestFacts, RequestFacts
  <2>3. CmdNext(dbusCtrl, dataRequest, FALSE, FALSE) = stageWaits
    BY <1>1, <1>6, BufferedController DEF stageWaits
  <2>4. CmdNext(dbusCtrl, dataRequest, TRUE, FALSE) = NoCmd /\ accepted(dbusCtrl, dataRequest, TRUE)
    BY <1>6, <2>2, BufferedController
  <2> QED
    BY <1>1, <1>2, <1>6, <2>1, <2>2, <2>3, <2>4
<1> QED
  BY <1>3, <1>5, <1>6 DEF StageCtrl

-----------------------------------------------------------------------------
(* The tagger and its controller.                                          *)

(* What the tagger asks of its controller is a word of the memory. *)
LEMMA TaggerFacts ==
    ASSUME Types, StageCtrl
    PROVE  /\ busRequest.op \in {"none", "read", "write"}
           /\ busRequest.op # "none" => busRequest.address \in Word /\ busRequest.address # None
           /\ busRequest.op # "none" => passesData \/ cbusValid
           /\ passesData => busRequest = dbusCmd /\ dbusCmd.op # "none"
           /\ ~ passesData /\ cbusValid => busRequest = wordRequest /\ wordRequest.op # "none"
<1>1. CASE passesData
  <2>1. busRequest = dbusCmd /\ dbusValid
    BY <1>1 DEF busRequest, passesData
  <2>2. dbusCmd.op \in {"read", "write"} /\ dbusCmd.address \in Word
    BY <2>1, StageFacts
  <2> QED
    BY <1>1, <2>1, <2>2, MemoryFacts
<1>2. CASE ~ passesData /\ cbusValid
  <2>1. busRequest = wordRequest /\ request.op \in {"loadcap", "storecap"}
    BY <1>2 DEF busRequest, cbusValid
  <2>2. wordOf(request.granule, cbusWordCtr) \in Word
    BY <2>1, RequestFacts, WordOfGranule DEF Types
  <2>3. wordRequest.op \in {"read", "write"} /\ wordRequest.address \in Word
    BY <2>2 DEF wordRequest, WriteAt, ReadAt
  <2> QED
    BY <1>2, <2>1, <2>3, MemoryFacts
<1>3. CASE ~ passesData /\ ~ cbusValid
  BY <1>3 DEF busRequest, NoRequest
<1> QED
  BY <1>1, <1>2, <1>3

(* The word on the bus is done in a cycle. *)
Done(cmdReady, rspValid) ==
    \/ accepted(dbusControl, busRequest, cmdReady)
    \/ readValid(dbusControl, busRequest, rspValid)

(* The controller holds nothing, and nor does the external memory. *)
Frees == dbusControl' = NoCmd /\ reading' = None

(* The controller keeps to what it is asked. *)
Keeps ==
    \/ busRequest.op = "none" /\ dbusControl' = NoCmd /\ reading' = None
    \/ busRequest.op # "none" /\ dbusControl' = Buffered(busRequest) /\ reading' = None
    \/ busRequest.op = "read" /\ dbusControl' = Sent(busRequest) /\ reading' = busRequest.address

(* A cycle of the controller and the external memory: the word asked for is
   done or kept. *)
LEMMA TaggerCycle ==
    ASSUME Types, StageCtrl, TaggerCtrl,
           NEW cmdReady \in {FALSE, Ready}, NEW rspValid \in {FALSE, Responds},
           Cycle(cmdReady, rspValid)
    PROVE  /\ cmdReady \in BOOLEAN /\ rspValid \in BOOLEAN
           /\ ~ Done(cmdReady, rspValid) => Keeps /\ mem' = mem
           /\ Done(cmdReady, rspValid) => Frees /\ busRequest.op \in {"read", "write"}
           /\ Done(cmdReady, rspValid) /\ busRequest.op = "write" =>
                mem' = [mem EXCEPT ![busRequest.address] = busRequest.wdata]
           /\ Done(cmdReady, rspValid) /\ busRequest.op = "read" =>
                mem' = mem /\ rspValid = TRUE /\ reading = busRequest.address
<1> DEFINE r == busRequest
           taken == busValid(dbusControl, r) /\ cmdReady
           cmd == busCmd(dbusControl, r)
<1>1. /\ dbusControl' = CmdNext(dbusControl, r, cmdReady, rspValid)
      /\ mem' = IF taken /\ cmd.op = "write" THEN [mem EXCEPT ![cmd.address] = cmd.wdata] ELSE mem
      /\ reading' = IF taken /\ cmd.op = "read" THEN cmd.address
                    ELSE IF rspValid THEN None ELSE reading
  BY DEF Cycle
<1>2. /\ r.op \in {"none", "read", "write"}
      /\ r.op # "none" => r.address # None
  BY TaggerFacts
<1>3. cmdReady \in BOOLEAN /\ rspValid \in BOOLEAN
  BY DEF Ready, Responds
<1>4. (cmdReady => reading = None) /\ (rspValid => reading # None)
  BY DEF Ready, Responds
<1> HIDE DEF r
<1>5. CASE dbusControl = NoCmd /\ reading = None
  <2>1. rspValid = FALSE
    BY <1>3, <1>4, <1>5
  <2>2. CASE cmdReady = TRUE
    <3>1. /\ dbusControl' = IF r.op = "read" THEN Sent(r) ELSE NoCmd
          /\ taken <=> r.op # "none"
          /\ r.op # "none" => cmd = r
          /\ accepted(dbusControl, r, cmdReady) <=> r.op = "write"
          /\ ~ readValid(dbusControl, r, rspValid)
      BY <1>1, <1>2, <1>5, <2>1, <2>2, FreeController
    <3> HIDE DEF taken, cmd
    <3>2. CASE r.op = "none"
      BY <1>1, <1>3, <1>5, <2>1, <3>1, <3>2 DEF Done, Keeps, r
    <3>3. CASE r.op = "read"
      BY <1>1, <1>3, <1>5, <2>1, <3>1, <3>3 DEF Done, Keeps, r
    <3>4. CASE r.op = "write"
      BY <1>1, <1>3, <1>5, <2>1, <3>1, <3>4 DEF Done, Frees, r
    <3> QED
      BY <1>2, <3>2, <3>3, <3>4
  <2>3. CASE cmdReady = FALSE
    <3>1. /\ dbusControl' = IF r.op # "none" THEN Buffered(r) ELSE NoCmd
          /\ ~ taken
          /\ ~ accepted(dbusControl, r, cmdReady)
          /\ ~ readValid(dbusControl, r, rspValid)
      BY <1>1, <1>2, <1>5, <2>1, <2>3, FreeController
    <3> HIDE DEF taken, cmd
    <3> QED
      BY <1>1, <1>2, <1>3, <1>5, <2>1, <2>3, <3>1 DEF Done, Keeps, Frees, r
  <2> QED
    BY <1>3, <2>2, <2>3
<1>6. CASE r.op \in {"read", "write"} /\ dbusControl = Buffered(r) /\ reading = None
  <2>1. rspValid = FALSE
    BY <1>3, <1>4, <1>6
  <2>2. CASE cmdReady = TRUE
    <3>1. /\ dbusControl' = IF r.op = "write" THEN NoCmd ELSE Sent(r)
          /\ taken /\ cmd = r
          /\ accepted(dbusControl, r, cmdReady) <=> r.op = "write"
          /\ ~ readValid(dbusControl, r, rspValid)
      BY <1>1, <1>6, <2>1, <2>2, BufferedController
    <3> HIDE DEF taken, cmd
    <3> QED
      BY <1>1, <1>2, <1>3, <1>6, <2>1, <2>2, <3>1 DEF Done, Keeps, Frees, r
  <2>3. CASE cmdReady = FALSE
    <3>1. /\ dbusControl' = Buffered(r) /\ ~ taken
          /\ ~ accepted(dbusControl, r, cmdReady)
          /\ ~ readValid(dbusControl, r, rspValid)
      BY <1>1, <1>6, <2>1, <2>3, BufferedController
    <3> HIDE DEF taken, cmd
    <3> QED
      BY <1>1, <1>2, <1>3, <1>6, <2>1, <2>3, <3>1 DEF Done, Keeps, Frees, r
  <2> QED
    BY <1>3, <2>2, <2>3
<1>7. CASE r.op = "read" /\ dbusControl = Sent(r) /\ reading = r.address
  <2>1. cmdReady = FALSE
    BY <1>2, <1>3, <1>4, <1>7
  <2>2. ~ taken /\ ~ accepted(dbusControl, r, cmdReady)
    BY <1>7, <2>1, SentController
  <2>3. CASE rspValid = TRUE
    <3>1. dbusControl' = NoCmd /\ readValid(dbusControl, r, rspValid)
      BY <1>1, <1>7, <2>1, <2>3, SentController
    <3> HIDE DEF taken, cmd
    <3> QED
      BY <1>1, <1>2, <1>3, <1>7, <2>1, <2>2, <2>3, <3>1 DEF Done, Keeps, Frees, r
  <2>4. CASE rspValid = FALSE
    <3>1. dbusControl' = Sent(r) /\ ~ readValid(dbusControl, r, rspValid)
      BY <1>1, <1>7, <2>1, <2>4, SentController
    <3> HIDE DEF taken, cmd
    <3> QED
      BY <1>1, <1>2, <1>3, <1>7, <2>1, <2>2, <2>4, <3>1 DEF Done, Keeps, Frees, r
  <2> QED
    BY <1>3, <2>3, <2>4
<1> QED
  BY <1>5, <1>6, <1>7 DEF TaggerCtrl, r

-----------------------------------------------------------------------------
(* The four kinds of cycles.                                               *)

(* No word is done. *)
Waits ==
    /\ Keeps /\ dbusCtrl' = stageWaits
    /\ UNCHANGED <<mem, tags, state, cbusWordCtr, cbusReadWords, request, answer>>

(* The stage's controller gets the word it reads; it is passed on if the
   load is still the one it was read for. *)
DataLoaded ==
    /\ passesData /\ Frees /\ dbusCtrl' = NoCmd
    /\ UNCHANGED <<mem, tags, state, cbusWordCtr, cbusReadWords>>
    /\ \/ request.op = "load" /\ request' = Idle /\ answer' = <<mem[request.address]>>
       \/ UNCHANGED <<request, answer>>

DataStored ==
    /\ passesData /\ Frees /\ dbusCtrl' = NoCmd
    /\ request.op = "store" /\ request' = Idle
    /\ mem' = [mem EXCEPT ![request.address] = request.data]
    /\ tags' = WithTag(tags, granuleOf(request.address), FALSE)
    /\ UNCHANGED <<state, cbusWordCtr, cbusReadWords, answer>>

(* A word of a capability is read or written. *)
WordDone ==
    /\ ~ dbusValid /\ cbusValid /\ Frees /\ dbusCtrl' = NoCmd
    /\ cbusWordCtr' = ctrNext
    /\ mem' = IF request.op = "storecap"
              THEN [mem EXCEPT ![wordOf(request.granule, cbusWordCtr)] = request.cap[cbusWordCtr]]
              ELSE mem
    /\ \/ /\ ~ lastWord /\ state' = "CAP_OP" /\ UNCHANGED <<tags, request, answer>>
          /\ cbusReadWords' = IF request.op = "loadcap"
               THEN [cbusReadWords EXCEPT ![cbusWordCtr] = mem[wordOf(request.granule, cbusWordCtr)]]
               ELSE cbusReadWords
       \/ /\ lastWord /\ state' = "PASS_THROUGH" /\ request' = Idle
          /\ cbusReadWords' = IF request.op = "loadcap" THEN NoWords ELSE cbusReadWords
          /\ tags' = IF request.op = "storecap" THEN WithTag(tags, request.granule, request.tag) ELSE tags
          /\ IF request.op = "loadcap"
             THEN answer' \in capRead(mem[wordOf(request.granule, cbusWordCtr)])
             ELSE answer' = answer

(* A cycle is of one of these kinds. *)
LEMMA CycleKinds ==
    ASSUME TInv, NEW cmdReady \in {FALSE, Ready}, NEW rspValid \in {FALSE, Responds},
           Cycle(cmdReady, rspValid)
    PROVE  Waits \/ DataLoaded \/ DataStored \/ WordDone
<1> DEFINE done == Done(cmdReady, rspValid)
           dbusReady == passesData /\ done
           dbusRsp == dbusReady /\ dbusCmd.op = "read"
           capWord == ~ passesData /\ cbusValid /\ done
           rdata == IF rspValid THEN mem[reading] ELSE 0
           loaded == request.op = "load" /\ readValid(dbusCtrl, dataRequest, dbusRsp)
           stored == accepted(dbusCtrl, dataRequest, dbusReady)
<1>1. /\ dbusCtrl' = CmdNext(dbusCtrl, dataRequest, dbusReady, dbusRsp)
      /\ tags' = tagsNext(done)
      /\ state' = IF capWord THEN IF lastWord THEN "PASS_THROUGH" ELSE "CAP_OP" ELSE state
      /\ cbusWordCtr' = IF capWord THEN ctrNext ELSE cbusWordCtr
      /\ cbusReadWords' = IF capWord /\ request.op = "loadcap"
                          THEN IF lastWord THEN NoWords
                               ELSE [cbusReadWords EXCEPT ![cbusWordCtr] = rdata]
                          ELSE cbusReadWords
      /\ request' = IF loaded \/ stored \/ (capWord /\ lastWord) THEN Idle ELSE request
      /\ IF loaded THEN answer' = <<rdata>>
         ELSE IF capWord /\ lastWord /\ request.op = "loadcap" THEN answer' \in capRead(rdata)
         ELSE answer' = answer
  BY DEF Cycle, Done
<1>2. Types /\ StageCtrl /\ TaggerCtrl
  BY DEF TInv
<1>3. /\ ~ done => Keeps /\ mem' = mem
      /\ done => Frees /\ busRequest.op \in {"read", "write"}
      /\ done /\ busRequest.op = "write" =>
           mem' = [mem EXCEPT ![busRequest.address] = busRequest.wdata]
      /\ done /\ busRequest.op = "read" =>
           mem' = mem /\ rspValid = TRUE /\ reading = busRequest.address
  BY <1>2, TaggerCycle
<1>4. done => passesData \/ cbusValid
  BY <1>2, <1>3, TaggerFacts
<1> HIDE DEF done
<1>5. CASE ~ done
  <2>1. dbusReady = FALSE /\ dbusRsp = FALSE
    BY <1>5
  <2>2. dbusCtrl' = stageWaits /\ ~ loaded /\ ~ stored
    BY <1>1, <1>2, <2>1, StageFacts
  <2>3. tags' = tags
    BY <1>1, <1>5 DEF tagsNext
  <2> HIDE DEF loaded, stored
  <2> QED
    BY <1>1, <1>3, <1>5, <2>2, <2>3 DEF Waits
<1>6. CASE done /\ passesData
  <2>1. busRequest = dbusCmd /\ dbusValid /\ dbusReady = TRUE /\ dbusCmd.op \in {"read", "write"}
    BY <1>2, <1>3, <1>6, TaggerFacts DEF passesData
  <2>2. UNCHANGED <<state, cbusWordCtr, cbusReadWords>>
    BY <1>1, <1>6
  <2>3. CASE dbusCmd.op = "read"
    <3>1. dbusRsp = TRUE
      BY <2>1, <2>3
    <3>2. dbusCtrl' = NoCmd /\ ~ stored
      BY <1>1, <1>2, <2>1, <2>3, <3>1, StageFacts
    <3>3. loaded => request.op = "load" /\ request.address = dbusCmd.address
      BY <1>2, <2>1, <2>3, <3>1, StageFacts
    <3>4. mem' = mem /\ rdata = mem[dbusCmd.address]
      BY <1>3, <1>6, <2>1, <2>3
    <3>5. tags' = tags
      BY <1>1, <1>6, <2>3 DEF tagsNext
    <3> HIDE DEF loaded, stored, rdata
    <3>6. CASE loaded
      <4>1. request' = Idle /\ answer' = <<rdata>>
        BY <1>1, <3>6
      <4> QED
        BY <1>3, <1>6, <2>2, <3>2, <3>3, <3>4, <3>5, <3>6, <4>1 DEF DataLoaded
    <3>7. CASE ~ loaded
      <4>1. request' = request /\ answer' = answer
        BY <1>1, <1>6, <3>2, <3>7
      <4> QED
        BY <1>3, <1>6, <2>2, <3>2, <3>4, <3>5, <4>1 DEF DataLoaded
    <3> QED
      BY <3>6, <3>7
  <2>4. CASE dbusCmd.op = "write"
    <3>1. dbusRsp = FALSE /\ dbusReady = TRUE
      BY <2>1, <2>4
    <3>2. /\ dbusCtrl' = NoCmd /\ stored /\ ~ loaded
          /\ request.op = "store" /\ dbusCmd = dataRequest
      BY <1>1, <1>2, <2>1, <2>4, <3>1, StageFacts
    <3>3. dbusCmd.address = request.address /\ dbusCmd.wdata = request.data
      BY <1>2, <3>2, DataRequestFacts DEF WriteAt
    <3>4. mem' = [mem EXCEPT ![request.address] = request.data]
      BY <1>3, <1>6, <2>1, <2>4, <3>3
    <3>5. tags' = WithTag(tags, granuleOf(request.address), FALSE)
      BY <1>1, <1>6, <2>1, <2>4, <3>3 DEF tagsNext, tagIndex
    <3> HIDE DEF loaded, stored, rdata
    <3>6. request' = Idle /\ answer' = answer
      BY <1>1, <1>6, <3>2
    <3> QED
      BY <1>3, <1>6, <2>2, <3>2, <3>4, <3>5, <3>6 DEF DataStored
  <2> QED
    BY <2>1, <2>3, <2>4
<1>7. CASE done /\ ~ passesData
  <2>1. cbusValid /\ request.op \in {"loadcap", "storecap"} /\ busRequest = wordRequest
    BY <1>2, <1>4, <1>7, TaggerFacts DEF cbusValid
  <2>2. dbusCtrl = NoCmd /\ ~ dbusValid
    <3>1. CASE state = "CAP_OP"
      BY <1>2, <2>1, <3>1, StageFacts DEF TInv, WordByWord
    <3>2. CASE state # "CAP_OP"
      BY <1>2, <1>7, <3>2, StageFacts DEF passesData, Types
    <3> QED
      BY <3>1, <3>2
  <2>3. dbusReady = FALSE /\ dbusRsp = FALSE /\ capWord
    BY <1>7, <2>1
  <2>4. dbusCtrl' = NoCmd /\ ~ loaded /\ ~ stored
    BY <1>1, <1>2, <2>1, <2>2, <2>3, StageFacts, DataRequestFacts DEF stageWaits
  <2>5. tagIndex = request.granule
    BY <2>2 DEF tagIndex
  <2>6. /\ request.op = "storecap" =>
              mem' = [mem EXCEPT ![wordOf(request.granule, cbusWordCtr)] = request.cap[cbusWordCtr]]
        /\ request.op = "loadcap" =>
              mem' = mem /\ rdata = mem[wordOf(request.granule, cbusWordCtr)]
    BY <1>3, <1>7, <2>1 DEF wordRequest, WriteAt, ReadAt
  <2>7. tags' = IF request.op = "storecap" /\ lastWord
                THEN WithTag(tags, request.granule, request.tag) ELSE tags
    BY <1>1, <1>7, <2>5 DEF tagsNext
  <2> HIDE DEF loaded, stored, rdata, capWord
  <2>8. CASE lastWord
    <3>1. /\ state' = "PASS_THROUGH" /\ request' = Idle /\ cbusWordCtr' = ctrNext
          /\ cbusReadWords' = IF request.op = "loadcap" THEN NoWords ELSE cbusReadWords
          /\ IF request.op = "loadcap" THEN answer' \in capRead(rdata) ELSE answer' = answer
      BY <1>1, <2>3, <2>4, <2>8
    <3> QED
      BY <1>3, <1>7, <2>1, <2>2, <2>4, <2>6, <2>7, <2>8, <3>1 DEF WordDone
  <2>9. CASE ~ lastWord
    <3>1. /\ state' = "CAP_OP" /\ request' = request /\ cbusWordCtr' = ctrNext /\ answer' = answer
          /\ cbusReadWords' = IF request.op = "loadcap"
                              THEN [cbusReadWords EXCEPT ![cbusWordCtr] = rdata] ELSE cbusReadWords
      BY <1>1, <2>3, <2>4, <2>9
    <3> QED
      BY <1>3, <1>7, <2>1, <2>2, <2>4, <2>6, <2>7, <2>9, <3>1 DEF WordDone
  <2> QED
    BY <2>8, <2>9
<1> QED
  BY <1>5, <1>6, <1>7

-----------------------------------------------------------------------------
(* The invariant is inductive.                                             *)

LEMMA InitInv == Init => TInv
<1> SUFFICES ASSUME Init PROVE TInv
  OBVIOUS
<1>1. Types
  <2>1. 0 \in Offset /\ 0 \in Value
    BY MemoryFacts DEF Offset
  <2> QED
    BY <2>1 DEF Init, Types, NoWords
<1>2. StageCtrl /\ TaggerCtrl /\ Owned /\ WordByWord
  BY DEF Init, StageCtrl, TaggerCtrl, Owned, WordByWord
<1> QED
  BY <1>1, <1>2 DEF TInv

(* With nothing held by either controller only the registers of the tagger
   matter. *)
LEMMA NothingHeld == dbusCtrl' = NoCmd /\ Frees => StageCtrl' /\ TaggerCtrl' /\ Owned'
  BY DEF Frees, StageCtrl, TaggerCtrl, Owned

(* The counter after a word that is not the last, and after the last. *)
LEMMA CounterNext ==
    ASSUME TInv
    PROVE  /\ ~ lastWord => /\ ctrNext = cbusWordCtr + 1 /\ ctrNext \in Offset /\ ctrNext > 0
                            /\ cbusWordCtr \in 0 .. CapWords - 2
           /\ lastWord => ctrNext = 0 /\ 0 \in Offset /\ cbusWordCtr = CapWords - 1
<1>1. /\ CapWords \in Nat /\ CapWords >= 2
      /\ cbusWordCtr \in Nat /\ cbusWordCtr < CapWords
      /\ state = "PASS_THROUGH" => cbusWordCtr = 0
      /\ state \in {"PASS_THROUGH", "CAP_OP"}
  BY MemoryFacts DEF TInv, Types, WordByWord, Offset
<1>2. CASE ~ lastWord
  <2>1. cbusWordCtr + 1 < CapWords
    BY <1>1, <1>2 DEF lastWord
  <2>2. \A n, m \in Nat : n < m => n % m = n
    OBVIOUS
  <2>3. (cbusWordCtr + 1) % CapWords = cbusWordCtr + 1
    BY <1>1, <2>1, <2>2, cbusWordCtr + 1 \in Nat
  <2> QED
    BY <1>1, <1>2, <2>1, <2>3 DEF ctrNext, Offset
<1>3. CASE lastWord
  <2>1. cbusWordCtr = CapWords - 1 /\ cbusWordCtr + 1 = CapWords
    BY <1>1, <1>3 DEF lastWord
  <2>2. \A n \in Nat : n > 0 => n % n = 0
    OBVIOUS
  <2> QED
    BY <1>1, <1>3, <2>1, <2>2 DEF ctrNext, Offset
<1> QED
  BY <1>2, <1>3

LEMMA WaitsInv == TInv /\ Waits => TInv'
<1> SUFFICES ASSUME TInv, Waits PROVE TInv'
  OBVIOUS
<1>1. Types /\ StageCtrl /\ TaggerCtrl /\ WordByWord
  BY DEF TInv
<1>2. UNCHANGED <<mem, tags, state, cbusWordCtr, cbusReadWords, request, answer>>
      /\ Keeps /\ dbusCtrl' = stageWaits
  BY DEF Waits
<1>3. dataRequest' = dataRequest /\ cbusValid' = cbusValid /\ wordRequest' = wordRequest
  BY <1>2 DEF dataRequest, cbusValid, wordRequest
<1>4. StageCtrl'
  <2>1. CASE dbusCtrl = NoCmd /\ dataRequest.op # "none"
    <3>1. dbusCtrl' = Buffered(dataRequest)
      BY <1>2, <2>1 DEF stageWaits
    <3>2. CASE request.op = "load"
      BY <1>1, <3>1, <3>2, DataRequestFacts, RequestFacts DEF StageCtrl
    <3>3. CASE request.op = "store"
      BY <1>2, <1>3, <3>1, <3>3 DEF StageCtrl
    <3> QED
      BY <1>1, <2>1, <3>2, <3>3, DataRequestFacts
  <2>2. CASE ~ (dbusCtrl = NoCmd /\ dataRequest.op # "none")
    BY <1>1, <1>2, <1>3, <2>2 DEF stageWaits, StageCtrl
  <2> QED
    BY <2>1, <2>2
<1>5. Types'
  <2>1. reading' \in Word \cup {None}
    BY <1>1, <1>2, TaggerFacts DEF Keeps
  <2> QED
    BY <1>1, <1>2, <2>1 DEF Types
<1>6. (dbusValid' <=> dbusValid) /\ (dbusValid => dbusCmd' = dbusCmd)
  <2>1. CASE dbusCtrl = NoCmd /\ dataRequest.op # "none"
    <3>1. dbusCtrl' = Buffered(dataRequest)
      BY <1>2, <2>1 DEF stageWaits
    <3>2. dbusValid' /\ dbusCmd' = dataRequest
      BY <1>3, <3>1, BufferedController DEF dbusValid, dbusCmd
    <3>3. dbusValid /\ dbusCmd = dataRequest
      BY <1>1, <2>1, FreeController, DataRequestFacts DEF dbusValid, dbusCmd
    <3> QED
      BY <3>2, <3>3
  <2>2. CASE ~ (dbusCtrl = NoCmd /\ dataRequest.op # "none")
    BY <1>2, <1>3, <2>2 DEF stageWaits, dbusValid, dbusCmd
  <2> QED
    BY <2>1, <2>2
<1>7. busRequest' = busRequest
  BY <1>2, <1>3, <1>6 DEF busRequest, passesData
<1>8. TaggerCtrl'
  <2>1. busRequest.op \in {"none", "read", "write"}
    BY <1>1, TaggerFacts
  <2> QED
    BY <1>2, <1>7, <2>1 DEF Keeps, TaggerCtrl
<1>9. Owned'
  <2>1. dbusCtrl' = NoCmd => request.op \notin {"load", "store"}
    <3>1. Buffered(dataRequest) # NoCmd
      BY DEF Buffered, NoCmd
    <3> QED
      BY <1>1, <1>2, <3>1, DataRequestFacts DEF stageWaits
  <2> QED
    BY <1>2, <2>1 DEF Owned
<1>10. WordByWord'
  <2>1. state = "CAP_OP" => dbusCtrl' = NoCmd
    BY <1>1, <1>2, DataRequestFacts, RequestFacts DEF WordByWord, stageWaits
  <2> QED
    BY <1>1, <1>2, <2>1 DEF WordByWord
<1> QED
  BY <1>4, <1>5, <1>8, <1>9, <1>10 DEF TInv

LEMMA DataLoadedInv == TInv /\ DataLoaded => TInv'
<1> SUFFICES ASSUME TInv, DataLoaded PROVE TInv'
  OBVIOUS
<1>1. StageCtrl' /\ TaggerCtrl' /\ Owned'
  BY NothingHeld DEF DataLoaded
<1>2. Types'
  BY DEF TInv, Types, DataLoaded, Frees
<1>3. WordByWord'
  BY DEF TInv, WordByWord, DataLoaded, passesData
<1> QED
  BY <1>1, <1>2, <1>3 DEF TInv

LEMMA DataStoredInv == TInv /\ DataStored => TInv'
<1> SUFFICES ASSUME TInv, DataStored PROVE TInv'
  OBVIOUS
<1>1. StageCtrl' /\ TaggerCtrl' /\ Owned'
  BY NothingHeld DEF DataStored
<1>2. Types'
  <2>1. mem' \in [Word -> Value]
    BY RequestFacts DEF TInv, Types, DataStored
  <2>2. tags' \in [InMemory -> BOOLEAN]
    BY DEF TInv, Types, DataStored, WithTag
  <2> QED
    BY <2>1, <2>2 DEF TInv, Types, DataStored, Frees
<1>3. WordByWord'
  BY DEF TInv, WordByWord, DataStored, passesData
<1> QED
  BY <1>1, <1>2, <1>3 DEF TInv

(* The words of a granule before the one that is written or read. *)
LEMMA WordDoneInv == TInv /\ WordDone => TInv'
<1> SUFFICES ASSUME TInv, WordDone PROVE TInv'
  OBVIOUS
<1>1. StageCtrl' /\ TaggerCtrl' /\ Owned'
  BY NothingHeld DEF WordDone
<1>2. Types /\ WordByWord
  BY DEF TInv
<1>3. /\ request.op \in {"loadcap", "storecap"} /\ request.granule \in Granule
      /\ request \in CapOp
      /\ request.op = "storecap" => request.cap \in [Offset -> Value] /\ request.tag \in BOOLEAN
  BY <1>2, RequestFacts DEF WordDone, cbusValid
<1> DEFINE w == wordOf(request.granule, cbusWordCtr)
<1>4. cbusWordCtr \in Offset /\ w \in Word /\ mem \in [Word -> Value]
  BY <1>2, <1>3, WordOfGranule DEF Types
<1>5. mem' = IF request.op = "storecap" THEN [mem EXCEPT ![w] = request.cap[cbusWordCtr]] ELSE mem
  BY DEF WordDone
<1> HIDE DEF w
<1>6. mem' \in [Word -> Value]
  BY <1>3, <1>4, <1>5
<1>7. Types'
  <2>1. tags' \in [InMemory -> BOOLEAN]
    BY <1>2, <1>3 DEF Types, WordDone, WithTag
  <2>2. cbusReadWords' \in [0 .. CapWords - 2 -> Value]
    <3>1. CASE lastWord
      BY <1>2, <3>1, MemoryFacts DEF Types, WordDone, NoWords
    <3>2. CASE ~ lastWord
      <4>1. cbusReadWords' = IF request.op = "loadcap"
                             THEN [cbusReadWords EXCEPT ![cbusWordCtr] = mem[w]] ELSE cbusReadWords
        BY <3>2 DEF WordDone, w
      <4>2. mem[w] \in Value
        BY <1>4
      <4> QED
        BY <1>2, <4>1, <4>2 DEF Types
    <3> QED
      BY <3>1, <3>2
  <2>3. cbusWordCtr' \in Offset
    BY CounterNext DEF WordDone
  <2>4. /\ state' \in {"PASS_THROUGH", "CAP_OP"} /\ reading' \in Word \cup {None}
        /\ request' \in DataOp \cup CapOp \cup {Idle}
    BY <1>3 DEF WordDone, Frees
  <2> QED
    BY <1>6, <2>1, <2>2, <2>3, <2>4 DEF Types
<1>8. WordByWord'
  <2>1. CASE lastWord
    BY <2>1, CounterNext DEF WordDone, WordByWord
  <2>2. CASE ~ lastWord
    <3>1. /\ state' = "CAP_OP" /\ request' = request /\ dbusCtrl' = NoCmd
          /\ cbusWordCtr' = cbusWordCtr + 1 /\ cbusWordCtr' > 0
          /\ cbusWordCtr \in 0 .. CapWords - 2
          /\ cbusReadWords' = IF request.op = "loadcap"
                              THEN [cbusReadWords EXCEPT ![cbusWordCtr] = mem[w]] ELSE cbusReadWords
      BY <2>2, CounterNext DEF WordDone, w
    <3>2. ASSUME NEW i \in 0 .. cbusWordCtr
          PROVE  mem'[wordOf(request.granule, i)] =
                   IF request.op = "storecap" THEN request.cap[i] ELSE cbusReadWords'[i]
      <4>1. i \in Offset /\ wordOf(request.granule, i) \in Word
            /\ wordOf(request.granule, i) % CapWords = i /\ w % CapWords = cbusWordCtr
        <5>1. i \in Offset
          BY <3>1, MemoryFacts DEF Offset
        <5> QED
          BY <1>3, <1>4, <5>1, WordOfGranule DEF w
      <4>2. CASE i = cbusWordCtr
        <5>1. wordOf(request.granule, i) = w
          BY <4>2 DEF w
        <5>2. cbusReadWords \in [0 .. CapWords - 2 -> Value]
          BY <1>2 DEF Types
        <5> QED
          BY <1>3, <1>4, <1>5, <3>1, <4>2, <5>1, <5>2
      <4>3. CASE i # cbusWordCtr
        <5>1. wordOf(request.granule, i) # w
          BY <4>1, <4>3
        <5>2. mem'[wordOf(request.granule, i)] = mem[wordOf(request.granule, i)]
          BY <1>4, <1>5, <4>1, <5>1
        <5>3. cbusReadWords'[i] = cbusReadWords[i]
          BY <1>2, <3>1, <4>3 DEF Types
        <5>4. cbusWordCtr \in Nat /\ cbusWordCtr # 0 /\ i \in 0 .. cbusWordCtr - 1
          BY <1>4, <4>3, MemoryFacts
        <5>5. state = "CAP_OP"
          BY <1>2, <5>4 DEF Types, WordByWord
        <5> QED
          BY <1>2, <5>2, <5>3, <5>4, <5>5 DEF WordByWord
      <4> QED
        BY <4>2, <4>3
    <3>3. cbusWordCtr' - 1 = cbusWordCtr
      BY <1>4, <3>1, MemoryFacts
    <3> QED
      BY <1>3, <3>1, <3>2, <3>3 DEF WordByWord
  <2> QED
    BY <2>1, <2>2
<1> QED
  BY <1>1, <1>7, <1>8 DEF TInv

(* Between requests the tagger is between capabilities, and what its
   controller holds is a read of the stage's controller. *)
LEMMA BetweenRequests ==
    ASSUME TInv, request.op \in {"idle", "load"}
    PROVE  /\ state = "PASS_THROUGH"
           /\ \/ dbusCtrl = NoCmd
              \/ /\ \E a \in DataAddresses : dbusCtrl = Buffered(ReadAt(a))
                 /\ busRequest = dbusCtrl.cmd
           /\ dbusCtrl = NoCmd => dbusControl = NoCmd /\ reading = None
<1>1. Types /\ StageCtrl /\ TaggerCtrl /\ Owned /\ WordByWord
  BY DEF TInv
<1>2. state = "PASS_THROUGH"
  BY <1>1, RequestFacts DEF Types, WordByWord
<1>3. ASSUME dbusCtrl # NoCmd
      PROVE  /\ \E a \in DataAddresses : dbusCtrl = Buffered(ReadAt(a))
             /\ busRequest = dbusCtrl.cmd
  <2>1. dbusValid /\ dbusCmd = dbusCtrl.cmd
    BY <1>1, <1>3, StageFacts
  <2> QED
    BY <1>1, <1>2, <1>3, <2>1 DEF StageCtrl, busRequest, passesData
<1>4. ASSUME dbusCtrl = NoCmd PROVE dbusControl = NoCmd /\ reading = None
  <2>1. CASE request.op = "idle"
    <3>1. ~ dbusValid /\ ~ cbusValid
      BY <1>1, <1>4, <2>1, StageFacts DEF cbusValid
    <3>2. busRequest = NoRequest
      BY <3>1 DEF busRequest, passesData
    <3> QED
      BY <1>1, <3>2 DEF TaggerCtrl, NoRequest
  <2>2. CASE request.op = "load"
    <3>1. dbusControl = NoCmd
      BY <1>1, <1>4, <2>2 DEF Owned
    <3>2. \A cmd : Buffered(cmd) # NoCmd /\ Sent(cmd) # NoCmd
      BY DEF Buffered, Sent, NoCmd
    <3> QED
      BY <1>1, <3>1, <3>2 DEF TaggerCtrl
  <2> QED
    BY <2>1, <2>2
<1> QED
  BY <1>2, <1>3, <1>4

(* A new request, or none in place of a load, leaves what the controllers
   hold as it was. *)
LEMMA RequestInv ==
    ASSUME TInv, request.op \in {"idle", "load"}, request' \in DataOp \cup CapOp \cup {Idle},
           UNCHANGED <<mem, reading, tags, state, cbusWordCtr, cbusReadWords, dbusCtrl, dbusControl>>
    PROVE  TInv'
<1>1. Types /\ StageCtrl /\ TaggerCtrl /\ Owned /\ WordByWord
  BY DEF TInv
<1>2. Types'
  BY <1>1 DEF Types
<1>3. WordByWord'
  BY <1>1, BetweenRequests DEF WordByWord
<1>4. CASE dbusCtrl = NoCmd
  <2>1. dbusCtrl' = NoCmd /\ dbusControl' = NoCmd /\ reading' = None
    BY <1>4, BetweenRequests
  <2> QED
    BY <1>2, <1>3, <2>1, NothingHeld DEF TInv, Frees
<1>5. ASSUME NEW a \in DataAddresses, dbusCtrl = Buffered(ReadAt(a)), busRequest = dbusCtrl.cmd
      PROVE  TInv'
  <2>1. dbusCtrl' = Buffered(ReadAt(a)) /\ busRequest = ReadAt(a)
    BY <1>5 DEF Buffered
  <2>2. StageCtrl'
    BY <2>1 DEF StageCtrl
  <2>3. dbusValid' /\ dbusCmd' = ReadAt(a)
    BY <2>1, BufferedController DEF dbusValid, dbusCmd
  <2>4. busRequest' = busRequest
    BY <2>1, <2>3, BetweenRequests DEF busRequest, passesData
  <2>5. TaggerCtrl'
    BY <1>1, <2>4 DEF TaggerCtrl
  <2>6. dbusCtrl' # NoCmd
    BY <2>1 DEF Buffered, NoCmd
  <2>7. Owned'
    BY <2>6 DEF Owned
  <2> QED
    BY <1>2, <1>3, <2>2, <2>5, <2>7 DEF TInv
<1> QED
  BY <1>4, <1>5, BetweenRequests

LEMMA NextInv == TInv /\ [Next]_vars => TInv'
<1> SUFFICES ASSUME TInv, [Next]_vars PROVE TInv'
  OBVIOUS
<1>1. CASE Clock
  <2> PICK cmdReady \in {FALSE, Ready}, rspValid \in {FALSE, Responds} : Cycle(cmdReady, rspValid)
    BY <1>1 DEF Clock
  <2> QED
    BY CycleKinds, WaitsInv, DataLoadedInv, DataStoredInv, WordDoneInv
<1>2. CASE Issue
  <2>1. request.op = "idle"
    BY <1>2 DEF Issue, Idle
  <2> QED
    BY <1>2, <2>1, RequestInv DEF Issue
<1>3. CASE Abandon
  BY <1>3, RequestInv DEF Abandon
<1>4. CASE UNCHANGED vars
  <2>1. /\ dataRequest' = dataRequest /\ busRequest' = busRequest
    BY <1>4 DEF vars, dataRequest, busRequest, passesData, dbusValid, dbusCmd, cbusValid, wordRequest
  <2>2. Types' /\ WordByWord'
    BY <1>4 DEF TInv, vars, Types, WordByWord
  <2>3. StageCtrl' /\ TaggerCtrl' /\ Owned'
    BY <1>4, <2>1 DEF TInv, vars, StageCtrl, TaggerCtrl, Owned
  <2> QED
    BY <2>2, <2>3 DEF TInv
<1> QED
  BY <1>1, <1>2, <1>3, <1>4 DEF Next

(* What the controllers hold is always what is asked for, and the words of a
   capability under way are those done so far. *)
THEOREM TaggedMemoryInvariant == Spec => []TInv
  BY InitInv, NextInv, PTL DEF Spec

-----------------------------------------------------------------------------
(* Refinement of the atomic memory.                                        *)

(* The abstract contents and tags. *)
Contents == IF performed THEN WithCap(mem, request.granule, request.cap) ELSE mem
Tags == IF performed THEN WithTag(tags, request.granule, request.tag) ELSE tags

(* The operators of the abstract memory are those of this one. *)
LEMMA AtomicOperators ==
    /\ Atomic!Word = Word /\ Atomic!Idle = Idle /\ Atomic!DataOp = DataOp /\ Atomic!CapOp = CapOp
    /\ \A a : Atomic!granuleOf(a) = granuleOf(a)
    /\ \A m, g : Atomic!CapAt(m, g) = CapAt(m, g)
    /\ \A m, g, cap : Atomic!WithCap(m, g, cap) = WithCap(m, g, cap)
    /\ \A m, g, t : Atomic!WithTag(m, g, t) = WithTag(m, g, t)
<1>1. Atomic!Word = Word /\ Atomic!Offset = Offset /\ Atomic!Granule = Granule
      /\ Atomic!Idle = Idle
  BY DEF Atomic!Word, Word, Atomic!Offset, Offset, Atomic!Granule, Granule, Atomic!Idle, Idle
<1>2. Atomic!DataOp = DataOp /\ Atomic!CapOp = CapOp
  BY <1>1 DEF Atomic!DataOp, DataOp, Atomic!CapOp, CapOp
<1>3. \A a : Atomic!granuleOf(a) = granuleOf(a)
  BY DEF Atomic!granuleOf, granuleOf
<1>4. \A g, i : Atomic!wordOf(g, i) = wordOf(g, i)
  BY DEF Atomic!wordOf, wordOf
<1>5. \A m, g : Atomic!CapAt(m, g) = CapAt(m, g)
  BY <1>1, <1>4 DEF Atomic!CapAt, CapAt
<1>6. \A m, g, cap : Atomic!WithCap(m, g, cap) = WithCap(m, g, cap)
  BY <1>1, <1>3 DEF Atomic!WithCap, WithCap
<1>7. \A m, g, t : Atomic!WithTag(m, g, t) = WithTag(m, g, t)
  BY DEF Atomic!WithTag, WithTag
<1> QED
  BY <1>1, <1>2, <1>3, <1>5, <1>6, <1>7

(* An abstract step, or a stutter. *)
AtomicStep == [Atomic!Next]_(Atomic!vars)

LEMMA AtomicStutters ==
    Contents' = Contents /\ Tags' = Tags /\ request' = request /\ (performed' <=> performed)
      /\ answer' = answer => AtomicStep
<1>1. performed \in BOOLEAN /\ performed' \in BOOLEAN
  BY DEF performed
<1> QED
  BY <1>1 DEF AtomicStep, Atomic!vars, Contents, Tags

LEMMA InitRefines == Init => Atomic!Init
<1> SUFFICES ASSUME Init PROVE Atomic!Init
  OBVIOUS
<1>1. performed = FALSE
  BY DEF performed, Init
<1> QED
  BY <1>1, AtomicOperators DEF Init, Atomic!Init

(* Outside capability stores the abstract memory is the memory. *)
LEMMA NotPerformed ==
    /\ ~ performed => Contents = mem /\ Tags = tags /\ performed = FALSE
    /\ ~ performed' => Contents' = mem' /\ Tags' = tags' /\ performed' = FALSE
  BY DEF Contents, Tags, performed

LEMMA WaitsRefines == Waits => AtomicStep
<1> SUFFICES ASSUME Waits PROVE AtomicStep
  OBVIOUS
<1>1. UNCHANGED <<mem, tags, state, request, answer>>
  BY DEF Waits
<1>2. performed' <=> performed
  BY <1>1 DEF performed
<1>3. Contents' = Contents /\ Tags' = Tags
  BY <1>1, <1>2 DEF Contents, Tags
<1> QED
  BY <1>1, <1>2, <1>3, AtomicStutters

LEMMA DataLoadedRefines == TInv /\ DataLoaded => AtomicStep
<1> SUFFICES ASSUME TInv, DataLoaded PROVE AtomicStep
  OBVIOUS
<1>1. state = "PASS_THROUGH" /\ state' = state /\ mem' = mem /\ tags' = tags
  BY DEF DataLoaded, passesData
<1>2. performed = FALSE /\ performed' = FALSE
  BY <1>1 DEF performed
<1>3. Contents = mem /\ Tags = tags /\ Contents' = mem /\ Tags' = tags
  BY <1>1, <1>2, NotPerformed
<1>4. CASE request.op = "load" /\ request' = Idle /\ answer' = <<mem[request.address]>>
  <2>1. Atomic!Load
    BY <1>2, <1>3, <1>4, AtomicOperators DEF Atomic!Load, Contents, Tags
  <2> QED
    BY <2>1 DEF AtomicStep, Atomic!Next
<1>5. CASE UNCHANGED <<request, answer>>
  BY <1>2, <1>3, <1>5, AtomicStutters
<1> QED
  BY <1>4, <1>5 DEF DataLoaded

LEMMA DataStoredRefines == TInv /\ DataStored => AtomicStep
<1> SUFFICES ASSUME TInv, DataStored PROVE AtomicStep
  OBVIOUS
<1>1. state = "PASS_THROUGH" /\ state' = state
  BY DEF DataStored, passesData
<1>2. performed = FALSE /\ performed' = FALSE
  BY <1>1 DEF performed
<1>3. Contents = mem /\ Tags = tags /\ Contents' = mem' /\ Tags' = tags'
  BY <1>2, NotPerformed
<1>4. Atomic!Store
  BY <1>2, <1>3, AtomicOperators DEF Atomic!Store, Contents, Tags, DataStored
<1> QED
  BY <1>4 DEF AtomicStep, Atomic!Next

(* What is written within the granule of a capability does not show once the
   capability is written. *)
LEMMA WriteUnderCap ==
    ASSUME NEW m, NEW n, NEW g, NEW cap, \A a \in Word : granuleOf(a) # g => n[a] = m[a]
    PROVE  WithCap(n, g, cap) = WithCap(m, g, cap)
  BY DEF WithCap

(* The words of the granule are all written when the last one is. *)
LEMMA LastWordWritten ==
    ASSUME TInv, request.op = "storecap", lastWord,
           mem' = [mem EXCEPT ![wordOf(request.granule, cbusWordCtr)] = request.cap[cbusWordCtr]]
    PROVE  mem' = WithCap(mem, request.granule, request.cap)
<1> DEFINE g == request.granule
           w == wordOf(g, cbusWordCtr)
<1>1. /\ Types /\ WordByWord /\ state = "CAP_OP" /\ cbusWordCtr = CapWords - 1
      /\ g \in Granule /\ cbusWordCtr \in Offset
  BY RequestFacts DEF TInv, lastWord, Types
<1>2. /\ w \in Word /\ granuleOf(w) = g /\ w % CapWords = cbusWordCtr /\ mem \in [Word -> Value]
  BY <1>1, WordOfGranule DEF Types
<1>3. \A i \in 0 .. cbusWordCtr - 1 : mem[wordOf(g, i)] = request.cap[i]
  BY <1>1 DEF WordByWord
<1>4. mem' = [mem EXCEPT ![w] = request.cap[cbusWordCtr]]
  OBVIOUS
<1> HIDE DEF w, g
<1>5. ASSUME NEW a \in Word
      PROVE  mem'[a] = IF granuleOf(a) = g THEN request.cap[a % CapWords] ELSE mem[a]
  <2>1. CASE a = w
    BY <1>2, <1>4, <2>1
  <2>2. CASE a # w /\ granuleOf(a) = g
    <3>1. a % CapWords \in Offset /\ a = wordOf(g, a % CapWords)
      BY <2>2, GranuleOfWord
    <3>2. a % CapWords # cbusWordCtr
      BY <2>2, <3>1 DEF w
    <3>3. a % CapWords \in 0 .. cbusWordCtr - 1
      <4>1. \A n \in Nat : \A i \in 0 .. n - 1 : i # n - 1 => i \in 0 .. (n - 1) - 1
        OBVIOUS
      <4> QED
        BY <1>1, <3>1, <3>2, <4>1, MemoryFacts, Zenon DEF Offset
    <3>4. mem[a] = request.cap[a % CapWords]
      BY <1>3, <3>1, <3>3
    <3> QED
      BY <1>2, <1>4, <2>2, <3>4
  <2>3. CASE a # w /\ granuleOf(a) # g
    BY <1>2, <1>4, <2>3
  <2> QED
    BY <2>1, <2>2, <2>3
<1>6. mem' = [a \in Word |-> mem'[a]]
  BY <1>2, <1>4
<1> QED
  BY <1>5, <1>6 DEF WithCap, g

(* The words of a capability that is loaded are those of the memory. *)
LEMMA LastWordRead ==
    ASSUME TInv, request.op = "loadcap", lastWord
    PROVE  CapAt(mem, request.granule) =
             [i \in Offset |-> IF i = CapWords - 1 THEN mem[wordOf(request.granule, cbusWordCtr)]
                               ELSE cbusReadWords[i]]
<1>1. WordByWord /\ state = "CAP_OP" /\ cbusWordCtr = CapWords - 1 /\ cbusWordCtr \in Offset
  BY DEF TInv, lastWord, Types
<1>2. \A i \in 0 .. cbusWordCtr - 1 : mem[wordOf(request.granule, i)] = cbusReadWords[i]
  BY <1>1 DEF WordByWord
<1>3. ASSUME NEW i \in Offset, i # CapWords - 1 PROVE i \in 0 .. cbusWordCtr - 1
  BY <1>1, <1>3, MemoryFacts DEF Offset
<1> QED
  BY <1>1, <1>2, <1>3 DEF CapAt

LEMMA WordDoneRefines == TInv /\ WordDone => AtomicStep
<1> SUFFICES ASSUME TInv, WordDone PROVE AtomicStep
  OBVIOUS
<1> DEFINE g == request.granule
           w == wordOf(g, cbusWordCtr)
<1>1. /\ request.op \in {"loadcap", "storecap"} /\ g \in Granule /\ cbusWordCtr \in Offset
      /\ mem \in [Word -> Value]
  BY RequestFacts DEF WordDone, cbusValid, TInv, Types
<1>2. CASE request.op = "loadcap"
  <2>1. mem' = mem /\ tags' = tags
    BY <1>2 DEF WordDone
  <2>2. performed = FALSE
    BY <1>2 DEF performed
  <2>3. CASE ~ lastWord
    <3>1. request' = request /\ answer' = answer
      BY <2>3 DEF WordDone
    <3>2. performed' = FALSE
      BY <1>2, <3>1 DEF performed
    <3> QED
      BY <2>1, <2>2, <3>1, <3>2, NotPerformed, AtomicStutters
  <2>4. CASE lastWord
    <3>1. state' = "PASS_THROUGH" /\ request' = Idle /\ answer' \in capRead(mem[w])
      BY <1>2, <2>4 DEF WordDone
    <3>2. performed' = FALSE
      BY <3>1 DEF performed
    <3>3. tagIndex = g
      BY DEF WordDone, tagIndex
    <3>4. tags \in [InMemory -> BOOLEAN]
      BY DEF TInv, Types
    <3> HIDE DEF g
    <3>5. PICK t \in BOOLEAN : /\ g \in InMemory => t = tags[g]
                               /\ answer' = <<CapAt(mem, g), t>>
      <4>1. PICK t \in (IF g \in InMemory THEN {tags[g]} ELSE BOOLEAN) :
               answer' = <<[i \in Offset |-> IF i = CapWords - 1 THEN mem[w] ELSE cbusReadWords[i]], t>>
        BY <3>1, <3>3 DEF capRead
      <4>2. t \in BOOLEAN /\ (g \in InMemory => t = tags[g])
        BY <3>4, <4>1
      <4>3. CapAt(mem, g) = [i \in Offset |-> IF i = CapWords - 1 THEN mem[w] ELSE cbusReadWords[i]]
        BY <1>2, <2>4, LastWordRead DEF g
      <4> QED
        BY <4>1, <4>2, <4>3
    <3>6. Contents = mem /\ Tags = tags /\ Contents' = mem /\ Tags' = tags
      BY <2>1, <2>2, <3>2, NotPerformed
    <3>7. Atomic!LoadCap
      BY <1>2, <2>2, <3>1, <3>2, <3>5, <3>6, AtomicOperators DEF Atomic!LoadCap, Contents, Tags, g
    <3> QED
      BY <3>7 DEF AtomicStep, Atomic!Next
  <2> QED
    BY <2>3, <2>4
<1>3. CASE request.op = "storecap"
  <2>1. mem' = [mem EXCEPT ![w] = request.cap[cbusWordCtr]]
    BY <1>3 DEF WordDone
  <2>2. WithCap(mem', g, request.cap) = WithCap(mem, g, request.cap)
    <3>1. granuleOf(w) = g
      BY <1>1, WordOfGranule
    <3>2. \A a \in Word : granuleOf(a) # g => mem'[a] = mem[a]
      BY <1>1, <2>1, <3>1
    <3> HIDE DEF g
    <3> QED
      BY <3>2, WriteUnderCap
  <2>3. CASE ~ lastWord
    <3>1. request' = request /\ answer' = answer /\ tags' = tags /\ state' = "CAP_OP"
      BY <2>3 DEF WordDone
    <3>2. performed' = TRUE
      BY <1>3, <3>1 DEF performed
    <3>3. Contents' = WithCap(mem, g, request.cap) /\ Tags' = WithTag(tags, g, request.tag)
      BY <2>2, <3>1, <3>2 DEF Contents, Tags
    <3>4. CASE performed
      <4>1. Contents' = Contents /\ Tags' = Tags
        BY <3>3, <3>4 DEF Contents, Tags
      <4> QED
        BY <3>1, <3>2, <3>4, <4>1, AtomicStutters
    <3>5. CASE ~ performed
      <4>1. performed = FALSE /\ Contents = mem /\ Tags = tags
        BY <3>5, NotPerformed
      <4>2. Atomic!StoreCap
        BY <1>3, <3>1, <3>2, <3>3, <4>1, AtomicOperators DEF Atomic!StoreCap, Contents, Tags
      <4> QED
        BY <4>2 DEF AtomicStep, Atomic!Next
    <3> QED
      BY <3>4, <3>5
  <2>4. CASE lastWord
    <3>1. /\ state' = "PASS_THROUGH" /\ request' = Idle /\ answer' = answer
          /\ tags' = WithTag(tags, g, request.tag)
      BY <1>3, <2>4 DEF WordDone
    <3>2. performed = TRUE /\ performed' = FALSE
      BY <1>3, <2>4, <3>1 DEF performed, lastWord
    <3>3. mem' = WithCap(mem, g, request.cap)
      BY <1>3, <2>1, <2>4, LastWordWritten
    <3>4. Contents' = Contents /\ Tags' = Tags
      BY <3>1, <3>2, <3>3, NotPerformed DEF Contents, Tags
    <3>5. Atomic!StoreCapDone
      BY <1>3, <3>1, <3>2, <3>4, AtomicOperators DEF Atomic!StoreCapDone, Contents, Tags
    <3> QED
      BY <3>5 DEF AtomicStep, Atomic!Next
  <2> QED
    BY <2>3, <2>4
<1> QED
  BY <1>1, <1>2, <1>3

LEMMA NextRefines == TInv /\ [Next]_vars => AtomicStep
<1> SUFFICES ASSUME TInv, [Next]_vars PROVE AtomicStep
  OBVIOUS
<1>1. CASE Clock
  <2> PICK cmdReady \in {FALSE, Ready}, rspValid \in {FALSE, Responds} : Cycle(cmdReady, rspValid)
    BY <1>1 DEF Clock
  <2> QED
    BY CycleKinds, WaitsRefines, DataLoadedRefines, DataStoredRefines, WordDoneRefines
<1>2. ASSUME request.op \in {"idle", "load"}, UNCHANGED <<mem, tags, state>>
      PROVE  /\ performed = FALSE /\ performed' = FALSE
             /\ Contents' = Contents /\ Tags' = Tags
  <2>1. state = "PASS_THROUGH"
    BY <1>2, BetweenRequests
  <2>2. performed = FALSE /\ performed' = FALSE
    BY <1>2, <2>1 DEF performed
  <2> QED
    BY <1>2, <2>2, NotPerformed
<1>3. CASE Issue
  <2>1. request.op = "idle" /\ UNCHANGED <<mem, tags, state>>
    BY <1>3 DEF Issue, Idle
  <2>2. Atomic!Issue
    BY <1>2, <1>3, <2>1, AtomicOperators DEF Issue, Atomic!Issue, Contents, Tags
  <2> QED
    BY <2>2 DEF AtomicStep, Atomic!Next
<1>4. CASE Abandon
  <2>1. request.op = "load" /\ UNCHANGED <<mem, tags, state>>
    BY <1>4 DEF Abandon
  <2>2. Atomic!Abandon
    BY <1>2, <1>4, <2>1, AtomicOperators DEF Abandon, Atomic!Abandon, Contents, Tags
  <2> QED
    BY <2>2 DEF AtomicStep, Atomic!Next
<1>5. CASE UNCHANGED vars
  <2>1. UNCHANGED <<mem, tags, state, request, answer>>
    BY <1>5 DEF vars
  <2>2. performed' <=> performed
    BY <2>1 DEF performed
  <2>3. Contents' = Contents /\ Tags' = Tags
    BY <2>1, <2>2 DEF Contents, Tags
  <2> QED
    BY <2>1, <2>2, <2>3, AtomicStutters
<1> QED
  BY <1>1, <1>3, <1>4, <1>5 DEF Next

(* MemoryTagger.scala with the two controllers of MemBus.scala implements the
   atomic tagged memory: what the memory stage sees of loads, stores,
   capability loads and capability stores is what a memory would show that
   performs each of them in one step, with the tag set by a capability store
   and cleared by a data store, whatever the latency of the external memory
   and whenever a load is dropped. *)
THEOREM TaggedMemoryRefinesAtomic == Spec => RefinesAtomic
<1>1. Spec => []TInv
  BY TaggedMemoryInvariant
<1>2. TInv /\ [Next]_vars => [Atomic!Next]_(Atomic!vars)
  BY NextRefines DEF AtomicStep
<1>3. Spec => Atomic!Init /\ [][Atomic!Next]_(Atomic!vars)
  BY <1>1, <1>2, InitRefines, PTL DEF Spec
<1> QED
  BY <1>3 DEF RefinesAtomic, Atomic!Spec
=============================================================================
