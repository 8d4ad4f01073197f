------------------------ MODULE DynamicPipelineProofs -----------------------
(***************************************************************************)
(* Theorems about DynamicPipeline: buffer and stations agree, and what     *)
(* retires is what the program does one instruction at a time, for every   *)
(* number of registers and values, every latency of the multiplier and     *)
(* every capacity of the buffer, as long as no jump leaves an instruction  *)
(* waiting and no instruction names a register that it does not write.     *)
(***************************************************************************)
EXTENDS DynamicPipeline, TLAPS

-----------------------------------------------------------------------------
(* What the theorems ask of the programs.                                  *)

(* With jumps there are at most two instructions in the buffer. *)
NoneLeftWaiting ==
    \A c \in Configs : c.capacity <= 2 \/ \A i \in c.program : i.op \notin {"BEQ", "JAL"}

(* Of the instructions that are dispatched, one that writes no register names
   none. *)
NamesWhatItWrites ==
    \A c \in Configs : \A i \in c.program : WritesRd(i) \/ i.op = "ILLEGAL" \/ i.rd = 0

-----------------------------------------------------------------------------
(* The inductive invariant.                                                *)

(* The buffer as a record: capacity, oldest index, instructions in order,
   entries and register file.  Place n is the n-th one from the oldest. *)
Buffer == [c |-> config.capacity, o |-> rob.oldestIndex, q |-> order, e |-> rob.entries,
           g |-> registers]

Ring(c, o, n) == IF o + n < c THEN o + n ELSE o + n - c
Pos(B, n) == Ring(B.c, B.o, n)
Entry(B, n) == B.e[Pos(B, n)]
Ready(B, n) == Entry(B, n).ready = TRUE
Places(B) == 0 .. Len(B.q) - 1
Rd(B, n) == B.q[n + 1].rd

(* The last instruction before place n that names r. *)
Writer(B, m, n, r) ==
    m \in 0 .. n - 1 /\ Rd(B, m) = r /\ \A k \in m + 1 .. n - 1 : Rd(B, k) # r

(* Register r has the value a when the instruction at place n runs. *)
Sourced(B, n, r, a) ==
    /\ r = 0 => a = 0
    /\ r # 0 =>
         /\ \A m \in 0 .. n - 1 : Writer(B, m, n, r) => Ready(B, m) /\ a = Entry(B, m).writeValue
         /\ (\A m \in 0 .. n - 1 : Rd(B, m) # r) => a = B.g[r]

(* It is not known yet: entry i will have it. *)
Awaits(B, n, r, i) ==
    r # 0 /\ \E m \in 0 .. n - 1 : Writer(B, m, n, r) /\ i = Pos(B, m) /\ ~ Ready(B, m)

(* Operand x of the instruction at place n, which names r. *)
Op(B, n, r, used, x) ==
    /\ x.waiting = TRUE => Awaits(B, n, r, x.index)
    /\ x.waiting = FALSE /\ used => Sourced(B, n, r, x.data)

(* What the instruction at place n sends. *)
Right(B, n, m) ==
    LET i == B.q[n + 1] IN
    /\ m.writesRegister = WritesRd(i)
    /\ \E a, b \in Value : /\ UsesRs1(i) => Sourced(B, n, i.rs1, a)
                           /\ UsesRs2(i) => Sourced(B, n, i.rs2, b)
                           /\ m.performsJump = TakesJump(i, a, b)
                           /\ WritesRd(i) => m.writeValue = Result(i, a, b, i.imm)

(* Station x works on the instruction at place n. *)
Operands(B, x, n) ==
    Op(B, n, x.ir.rs1, TRUE, x.rs1) /\ Op(B, n, x.ir.rs2, UsesRs2(x.ir), x.rs2)

Sends(B, x, n) ==
    x.resultCdbMessage.robIndex = Pos(B, n) /\ Right(B, n, x.resultCdbMessage)

Works(B, x, n) ==
    /\ n \in Places(B) /\ x.robEntryIndex = Pos(B, n) /\ ~ Ready(B, n) /\ x.ir = B.q[n + 1]
    /\ \/ x.state = "WAITING_FOR_ARGS" /\ Operands(B, x, n)
          /\ (x.rs1.waiting = TRUE \/ x.rs2.waiting = TRUE)
       \/ x.state = "EXECUTING" /\ Operands(B, x, n)
          /\ x.rs1.waiting = FALSE /\ x.rs2.waiting = FALSE
       \/ x.state = "BROADCASTING_RESULT" /\ Sends(B, x, n)
          /\ x.rs1.waiting = FALSE /\ x.rs2.waiting = FALSE

(* The buffer: places are in order, ready entries are right, and the last
   instruction that names a register can be found. *)
InOrder(B) ==
    /\ Len(B.q) <= B.c
    /\ \A n \in Places(B) : Entry(B, n).writeDestination = Rd(B, n)

Results(B) ==
    \A n \in Places(B) : Ready(B, n) => Right(B, n, Entry(B, n))

Freshest(B) ==
    \A k \in Places(B) : \E m \in Places(B) : Writer(B, m, Len(B.q), Rd(B, k))

BufferOK(B) == InOrder(B) /\ Results(B) /\ Freshest(B)

(* The stations x of the buffer. *)
Idle(x) == x.state = "IDLE"

StationsOK(B, x) ==
    /\ \A s \in Station : Idle(x[s]) \/ \E n \in Places(B) : Works(B, x[s], n)
    /\ \A n \in Places(B) : ~ Ready(B, n) => \E s \in Station : Works(B, x[s], n)
    /\ \A s, t \in Station : ~ Idle(x[s]) /\ ~ Idle(x[t])
                               /\ x[s].robEntryIndex = x[t].robEntryIndex => s = t

(* Types. *)
Program == config.program \cup {NOP}
OperandOf(I) == [waiting : BOOLEAN, index : I, data : Value]
StationOf(P, I) ==
    [state : {"IDLE", "WAITING_FOR_ARGS", "EXECUTING", "BROADCASTING_RESULT"}, ir : P,
     rs1 : OperandOf(I), rs2 : OperandOf(I), robEntryIndex : I, resultCdbMessage : Message]
StationRecord == StationOf(Program, Index)

(* The instructions that may be in the buffer. *)
Issuable == {i \in Instruction : i.op # "ILLEGAL" /\ (WritesRd(i) \/ i.rd = 0)}

BufferT(B) ==
    /\ B.c \in Nat \ {0} /\ B.o \in 0 .. B.c - 1 /\ B.q \in Seq(Issuable)
    /\ B.e \in [0 .. B.c - 1 -> RobEntry] /\ B.g \in [Reg -> Value]

Types ==
    /\ config \in Configs
    /\ decode \in [isValid : BOOLEAN, ir : Program]
    /\ rob \in [entries : [Index -> RobEntry], oldestIndex : Index, newestIndex : Index,
                isFull : BOOLEAN]
    /\ rs \in [Station -> StationRecord]
    /\ maskLocked \in Station /\ step \in 0 .. MulSteps - 1 /\ registers \in [Reg -> Value]
    /\ order \in Seq(Issuable)

(* newestIndex and isFull tell how many instructions there are. *)
Counted ==
    /\ rob.newestIndex = Pos(Buffer, Len(order))
    /\ rob.isFull = (Len(order) = config.capacity)

(* A station that waits for the bus is the next to be served. *)
Served == \A s \in Station : rs[s].state = "BROADCASTING_RESULT" => s # maskLocked

(* The buffer holds instructions of the program. *)
Fetched == \A n \in 1 .. Len(order) : order[n] \in Program

DInv == /\ Types /\ Counted /\ Served /\ Fetched
        /\ BufferOK(Buffer) /\ StationsOK(Buffer, rs)
-----------------------------------------------------------------------------
(* Places and positions in the ring.                                       *)

(* The ring: nextIndex goes to the next place, and the places seen from the
   next entry are one less. *)
LEMMA RingSteps ==
  ASSUME NEW c \in Nat \ {0}, NEW o \in 0 .. c - 1, NEW n \in 0 .. c - 1
  PROVE  /\ Ring(c, o, n + 1) = IF Ring(c, o, n) + 1 = c THEN 0 ELSE Ring(c, o, n) + 1
         /\ Ring(c, IF o + 1 = c THEN 0 ELSE o + 1, n) = Ring(c, o, n + 1)
         /\ Ring(c, o, n) \in 0 .. c - 1
         /\ Ring(c, o, c) = o /\ Ring(c, o, 0) = o
         /\ n # 0 => Ring(c, o, n) # o
  <1>1. CASE o + n + 1 < c
    <2>1. Ring(c, o, n) = o + n /\ Ring(c, o, n + 1) = o + n + 1
      BY <1>1 DEF Ring
    <2>2. Ring(c, IF o + 1 = c THEN 0 ELSE o + 1, n) = o + 1 + n
      BY <1>1 DEF Ring
    <2> QED BY <1>1, <2>1, <2>2 DEF Ring
  <1>2. CASE o + n + 1 = c
    <2>1. Ring(c, o, n) = o + n /\ Ring(c, o, n + 1) = 0
      BY <1>2 DEF Ring
    <2>2. Ring(c, IF o + 1 = c THEN 0 ELSE o + 1, n) = 0
      BY <1>2 DEF Ring
    <2> QED BY <1>2, <2>1, <2>2 DEF Ring
  <1>3. CASE o + n + 1 > c
    <2>1. Ring(c, o, n) = o + n - c /\ Ring(c, o, n + 1) = o + n + 1 - c
      BY <1>3 DEF Ring
    <2>2. Ring(c, IF o + 1 = c THEN 0 ELSE o + 1, n) = o + 1 + n - c
      BY <1>3 DEF Ring
    <2> QED BY <1>3, <2>1, <2>2 DEF Ring
  <1> QED BY <1>1, <1>2, <1>3

(* Two places have two positions, and every entry has a place. *)
LEMMA RingInjective ==
  ASSUME NEW c \in Nat \ {0}, NEW o \in 0 .. c - 1, NEW m \in 0 .. c - 1, NEW n \in 0 .. c - 1,
         Ring(c, o, m) = Ring(c, o, n)
  PROVE  m = n
  BY DEF Ring

LEMMA RingOnto ==
  ASSUME NEW c \in Nat \ {0}, NEW o \in 0 .. c - 1, NEW i \in 0 .. c - 1
  PROVE  \E n \in 0 .. c - 1 : i = Ring(c, o, n)
  <1>1. CASE i >= o
    <2>1. i - o \in 0 .. c - 1 /\ Ring(c, o, i - o) = i
      BY <1>1 DEF Ring
    <2> QED BY <2>1
  <1>2. CASE i < o
    <2>1. i - o + c \in 0 .. c - 1 /\ Ring(c, o, i - o + c) = i
      BY <1>2 DEF Ring
    <2> QED BY <2>1
  <1> QED BY <1>1, <1>2

(* isValidIndex: of N instructions from o on, the entries in use. *)
LEMMA RingUsed ==
  ASSUME NEW c \in Nat \ {0}, NEW o \in 0 .. c - 1, NEW N \in 0 .. c, NEW n \in 0 .. c - 1,
         NEW w, w = Ring(c, o, N), NEW p, p = Ring(c, o, n)
  PROVE  /\ (o = w /\ N # c) <=> N = 0
         /\ N = c => o = w
         /\ w > o /\ N # 0 => ((p >= o /\ p < w) <=> n < N)
         /\ ~(w > o) /\ o # w => ((p >= o \/ p < w) <=> n < N)
  <1>1. CASE o + N < c
    <2>1. w = o + N
      BY <1>1 DEF Ring
    <2> QED BY <1>1, <2>1 DEF Ring
  <1>2. CASE ~(o + N < c)
    <2>1. w = o + N - c
      BY <1>2 DEF Ring
    <2> QED BY <1>2, <2>1 DEF Ring
  <1> QED BY <1>1, <1>2

LEMMA PosType ==
  ASSUME NEW B, BufferT(B), NEW n \in 0 .. B.c
  PROVE  Pos(B, n) \in 0 .. B.c - 1
  <1>1. B.c \in Nat \ {0} /\ B.o \in 0 .. B.c - 1
    BY DEF BufferT
  <1>2. CASE n = B.c
    BY <1>1, <1>2, 0 \in 0 .. B.c - 1, RingSteps DEF Pos
  <1>3. CASE n \in 0 .. B.c - 1
    BY <1>1, <1>3, RingSteps DEF Pos
  <1> QED BY <1>1, <1>2, <1>3

LEMMA PosInjective ==
  ASSUME NEW B, BufferT(B), NEW m \in 0 .. B.c - 1, NEW n \in 0 .. B.c - 1, Pos(B, m) = Pos(B, n)
  PROVE  m = n
  BY RingInjective DEF BufferT, Pos

LEMMA PosNext ==
  ASSUME NEW B, BufferT(B), NEW n \in 0 .. B.c - 1
  PROVE  Pos(B, n + 1) = IF Pos(B, n) + 1 = B.c THEN 0 ELSE Pos(B, n) + 1
  <1>1. PICK c, o : c = B.c /\ o = B.o
    OBVIOUS
  <1>2. c \in Nat \ {0} /\ o \in 0 .. c - 1 /\ n \in 0 .. c - 1
    BY <1>1 DEF BufferT
  <1>3. Ring(c, o, n + 1) = IF Ring(c, o, n) + 1 = c THEN 0 ELSE Ring(c, o, n) + 1
    BY <1>2, RingSteps
  <1> QED BY <1>1, <1>3 DEF Pos

(* indexForNth is the position of a place. *)
LEMMA ModWraps ==
  ASSUME NEW c \in Nat \ {0}, NEW z \in 0 .. c + c - 1
  PROVE  z % c = IF z < c THEN z ELSE z - c
  OBVIOUS

(* What is in a place. *)
LEMMA PlaceType ==
  ASSUME NEW B, BufferT(B), InOrder(B), NEW n \in Places(B)
  PROVE  /\ n \in 0 .. B.c - 1 /\ n + 1 \in 1 .. Len(B.q) /\ Len(B.q) \in 0 .. B.c
         /\ B.q[n + 1] \in Issuable /\ Rd(B, n) \in Reg
         /\ Pos(B, n) \in 0 .. B.c - 1 /\ Entry(B, n) \in RobEntry
  <1>1. Len(B.q) \in Nat /\ B.c \in Nat /\ Len(B.q) <= B.c
    BY DEF BufferT, InOrder
  <1>2. n \in 0 .. B.c - 1 /\ n + 1 \in 1 .. Len(B.q) /\ Len(B.q) \in 0 .. B.c
    BY <1>1 DEF Places
  <1>3. B.q[n + 1] \in Issuable
    BY <1>2 DEF BufferT
  <1>4. Rd(B, n) \in Reg
    BY <1>3 DEF Rd, Issuable, Instruction
  <1>5. Pos(B, n) \in 0 .. B.c - 1
    BY <1>2, <1>1, PosType
  <1>6. Entry(B, n) \in RobEntry
    BY <1>5 DEF Entry, BufferT
  <1> QED BY <1>2, <1>3, <1>4, <1>5, <1>6

(* There is one last writer. *)
LEMMA WriterUnique ==
  ASSUME NEW B, NEW n \in Nat, NEW r, NEW m, NEW k, Writer(B, m, n, r), Writer(B, k, n, r)
  PROVE  m = k
  BY DEF Writer

-----------------------------------------------------------------------------
(* A message: the entry at place k becomes ready.                          *)

Marks(B, D, k, z) ==
    /\ D.c = B.c /\ D.o = B.o /\ D.q = B.q /\ D.g = B.g
    /\ D.e = [B.e EXCEPT ![Pos(B, k)] = [B.e[Pos(B, k)] EXCEPT
                  !.writesRegister = z.writesRegister, !.performsJump = z.performsJump,
                  !.writeValue = z.writeValue, !.ready = TRUE]]

(* Places, positions and writers stay; of the entries, one changes. *)
LEMMA MarksFrame ==
  ASSUME NEW B, BufferT(B), InOrder(B), NEW k \in Places(B), NEW D,
         NEW z \in Message, Marks(B, D, k, z)
  PROVE  /\ BufferT(D) /\ Places(D) = Places(B) /\ D.q = B.q /\ D.g = B.g /\ D.c = B.c
         /\ \A n \in Nat : Pos(D, n) = Pos(B, n)
         /\ \A n \in Nat : Rd(D, n) = Rd(B, n)
         /\ \A n \in Places(B) : n # k => Entry(D, n) = Entry(B, n)
         /\ \A n \in Places(B) : Entry(D, n).writeDestination = Entry(B, n).writeDestination
         /\ Entry(D, k).writesRegister = z.writesRegister
         /\ Entry(D, k).performsJump = z.performsJump
         /\ Entry(D, k).writeValue = z.writeValue /\ Ready(D, k)
         /\ \A m, n \in Nat : \A r : Writer(D, m, n, r) <=> Writer(B, m, n, r)
  <1> DEFINE q == [B.e[Pos(B, k)] EXCEPT
                     !.writesRegister = z.writesRegister, !.performsJump = z.performsJump,
                     !.writeValue = z.writeValue, !.ready = TRUE]
  <1>1. Pos(B, k) \in 0 .. B.c - 1 /\ B.e[Pos(B, k)] \in RobEntry
    BY PlaceType DEF Entry
  <1>2. /\ q \in RobEntry /\ q.writesRegister = z.writesRegister
        /\ q.performsJump = z.performsJump /\ q.writeValue = z.writeValue /\ q.ready = TRUE
        /\ q.writeDestination = B.e[Pos(B, k)].writeDestination
    BY <1>1 DEF RobEntry, Message
  <1>3. D.e = [B.e EXCEPT ![Pos(B, k)] = q]
    BY DEF Marks
  <1> HIDE DEF q
  <1>4. B.e \in [0 .. B.c - 1 -> RobEntry]
    BY DEF BufferT
  <1>5. D.e \in [0 .. B.c - 1 -> RobEntry] /\ D.e[Pos(B, k)] = q
        /\ \A p \in 0 .. B.c - 1 : p # Pos(B, k) => D.e[p] = B.e[p]
    BY <1>1, <1>2, <1>3, <1>4
  <1>6. D.c = B.c /\ D.o = B.o /\ D.q = B.q /\ D.g = B.g
    BY DEF Marks
  <1>7. BufferT(D)
    BY <1>5, <1>6 DEF BufferT
  <1>8. \A n \in Nat : Pos(D, n) = Pos(B, n)
    BY <1>6 DEF Pos
  <1>9. \A n \in Nat : Rd(D, n) = Rd(B, n)
    BY <1>6 DEF Rd
  <1>10. Places(D) = Places(B)
    BY <1>6 DEF Places
  <1>11. \A n \in Places(B) : n # k => Entry(D, n) = Entry(B, n)
    <2> TAKE n \in Places(B)
    <2> HAVE n # k
    <2>1. n \in 0 .. B.c - 1 /\ k \in 0 .. B.c - 1 /\ Pos(B, n) \in 0 .. B.c - 1 /\ n \in Nat
      BY PlaceType, B.c \in Nat DEF BufferT
    <2>2. Pos(B, n) # Pos(B, k)
      BY <2>1, PosInjective
    <2> QED BY <2>1, <2>2, <1>5, <1>8 DEF Entry
  <1>12. Entry(D, k) = q /\ k \in Nat
    <2>1. k \in Nat
      BY PlaceType, B.c \in Nat DEF BufferT
    <2> QED BY <2>1, <1>5, <1>8 DEF Entry
  <1>13. \A n \in Places(B) : Entry(D, n).writeDestination = Entry(B, n).writeDestination
    BY <1>11, <1>12, <1>2 DEF Entry
  <1>14. ASSUME NEW m \in Nat, NEW n \in Nat, NEW r
         PROVE  Writer(D, m, n, r) <=> Writer(B, m, n, r)
    <2>1. \A l \in m + 1 .. n - 1 : Rd(D, l) = Rd(B, l)
      BY <1>9
    <2>2. Rd(D, m) = Rd(B, m)
      BY <1>9
    <2> QED BY <2>1, <2>2 DEF Writer
  <1>15. Ready(D, k)
    BY <1>2, <1>12 DEF Ready
  <1>16. /\ Entry(D, k).writesRegister = z.writesRegister
         /\ Entry(D, k).performsJump = z.performsJump /\ Entry(D, k).writeValue = z.writeValue
    BY <1>2, <1>12
  <1> QED BY <1>6, <1>7, <1>8, <1>9, <1>10, <1>11, <1>13, <1>14, <1>15, <1>16

(* What is known of a register stays known. *)
LEMMA MarksSourced ==
  ASSUME NEW B, BufferT(B), InOrder(B), NEW k \in Places(B), ~ Ready(B, k), NEW D,
         NEW z \in Message, Marks(B, D, k, z),
         NEW n \in 0 .. Len(B.q), NEW r, NEW a, Sourced(B, n, r, a)
  PROVE  Sourced(D, n, r, a)
  <1>1. ASSUME r # 0, NEW m \in 0 .. n - 1, Writer(D, m, n, r)
        PROVE  Ready(D, m) /\ a = Entry(D, m).writeValue
    <2>1. Writer(B, m, n, r)
      BY <1>1, MarksFrame
    <2>2. Ready(B, m) /\ a = Entry(B, m).writeValue
      BY <2>1, <1>1 DEF Sourced
    <2>3. m \in Places(B) /\ m # k
      BY <2>2, Len(B.q) \in Nat DEF Places, BufferT
    <2> QED BY <2>2, <2>3, MarksFrame DEF Ready
  <1>2. ASSUME r # 0, \A m \in 0 .. n - 1 : Rd(D, m) # r
        PROVE  a = D.g[r]
    <2>1. D.g = B.g /\ \A m \in Nat : Rd(D, m) = Rd(B, m)
      BY MarksFrame
    <2> QED BY <1>2, <2>1 DEF Sourced
  <1>3. r = 0 => a = 0
    BY DEF Sourced
  <1> QED BY <1>1, <1>2, <1>3 DEF Sourced

LEMMA MarksRight ==
  ASSUME NEW B, BufferT(B), InOrder(B), NEW k \in Places(B), ~ Ready(B, k), NEW D,
         NEW z \in Message, Marks(B, D, k, z),
         NEW n \in Places(B), NEW y, Right(B, n, y)
  PROVE  Right(D, n, y)
  <1>1. D.q = B.q
    BY MarksFrame
  <1>2. n \in 0 .. Len(B.q)
    BY DEF Places, BufferT
  <1>3. \A r, a : Sourced(B, n, r, a) => Sourced(D, n, r, a)
    BY <1>2, MarksSourced
  <1> QED BY <1>1, <1>3 DEF Right

(* A message keeps the buffer right. *)
LEMMA MarksBuffer ==
  ASSUME NEW B, BufferT(B), BufferOK(B), NEW k \in Places(B), ~ Ready(B, k), NEW D,
         NEW z \in Message, Marks(B, D, k, z),
         Right(B, k, z)
  PROVE  BufferT(D) /\ BufferOK(D)
  <1>0. InOrder(B) /\ Results(B) /\ Freshest(B)
    BY DEF BufferOK
  <1>00. /\ D.q = B.q /\ D.c = B.c /\ Places(D) = Places(B) /\ Places(B) \subseteq Nat
         /\ Len(B.q) \in Nat
         /\ \A n \in Nat : Rd(D, n) = Rd(B, n)
         /\ \A n \in Places(B) : Entry(D, n).writeDestination = Entry(B, n).writeDestination
    <2>1. Len(B.q) \in Nat /\ Places(B) \subseteq Nat
      BY DEF BufferT, Places
    <2> QED BY <2>1, <1>0, MarksFrame
  <1>1. InOrder(D)
    BY <1>0, <1>00 DEF InOrder
  <1>2. Results(D)
    <2> SUFFICES ASSUME NEW n \in Places(B), Ready(D, n)
                 PROVE  Right(D, n, Entry(D, n))
      BY <1>0, MarksFrame DEF Results
    <2>1. CASE n = k
      <3>1. Right(D, k, z)
        BY <1>0, MarksRight
      <3>2. /\ Entry(D, k).writesRegister = z.writesRegister
            /\ Entry(D, k).performsJump = z.performsJump /\ Entry(D, k).writeValue = z.writeValue
        BY <1>0, MarksFrame
      <3> QED BY <3>1, <3>2, <2>1 DEF Right
    <2>2. CASE n # k
      <3>1. Entry(D, n) = Entry(B, n)
        BY <2>2, <1>0, MarksFrame
      <3>2. Right(B, n, Entry(B, n))
        BY <3>1, <1>0 DEF Results, Ready
      <3> QED BY <3>1, <3>2, <1>0, MarksRight
    <2> QED BY <2>1, <2>2
  <1>3. Freshest(D)
    <2> SUFFICES ASSUME NEW n \in Places(B)
                 PROVE  \E m \in Places(B) : Writer(D, m, Len(B.q), Rd(B, n))
      BY <1>00 DEF Freshest
    <2>1. PICK m \in Places(B) : Writer(B, m, Len(B.q), Rd(B, n))
      BY <1>0 DEF Freshest
    <2>2. Writer(D, m, Len(B.q), Rd(B, n))
      BY <2>1, <1>0, <1>00, MarksFrame
    <2> QED BY <2>2
  <1> QED BY <1>0, <1>1, <1>2, <1>3, MarksFrame DEF BufferOK

MayWait(x) == x.waiting \in BOOLEAN

Heard(x, i, v) == IF x.waiting /\ x.index = i THEN Data(v) ELSE x

(* An operand that hears the message is right after it. *)
LEMMA MarksOperand ==
  ASSUME NEW B, BufferT(B), InOrder(B), NEW k \in Places(B), ~ Ready(B, k), NEW D,
         NEW z \in Message, Marks(B, D, k, z),
         NEW n \in 0 .. Len(B.q), NEW r, NEW u, NEW x, MayWait(x), Op(B, n, r, u, x)
  PROVE  Op(D, n, r, u, Heard(x, Pos(B, k), z.writeValue))
  <1>1. CASE x.waiting = FALSE
    <2>1. Heard(x, Pos(B, k), z.writeValue) = x
      BY <1>1 DEF Heard
    <2> QED BY <2>1, <1>1, MarksSourced DEF Op
  <1>2. CASE x.waiting = TRUE
    <2>1. PICK m \in 0 .. n - 1 : r # 0 /\ Writer(B, m, n, r) /\ x.index = Pos(B, m) /\ ~ Ready(B, m)
      BY <1>2 DEF Op, Awaits
    <2>2. m \in Places(B) /\ m \in 0 .. B.c - 1 /\ k \in 0 .. B.c - 1
      <3>1. m \in Places(B)
        BY Len(B.q) \in Nat DEF Places, BufferT
      <3> QED BY <3>1, PlaceType
    <2>3. Writer(D, m, n, r)
      BY <2>1, MarksFrame
    <2>4. CASE m = k
      <3>1. Heard(x, Pos(B, k), z.writeValue) = Data(z.writeValue)
        BY <1>2, <2>1, <2>4 DEF Heard
      <3>2. Data(z.writeValue).waiting = FALSE /\ Data(z.writeValue).data = z.writeValue
        BY DEF Data
      <3>3. ASSUME NEW l \in 0 .. n - 1, Writer(D, l, n, r)
            PROVE  Ready(D, l) /\ z.writeValue = Entry(D, l).writeValue
        <4>1. l = k
          BY <3>3, <2>3, <2>4, WriterUnique, n \in Nat
        <4>2. Ready(D, k) /\ Entry(D, k).writeValue = z.writeValue
          BY MarksFrame
        <4> QED BY <4>1, <4>2
      <3>4. Rd(D, m) = r
        BY <2>3 DEF Writer
      <3>5. Sourced(D, n, r, z.writeValue)
        BY <3>3, <3>4, <2>1 DEF Sourced
      <3> QED BY <3>1, <3>2, <3>5 DEF Op
    <2>5. CASE m # k
      <3>1. Pos(B, m) # Pos(B, k)
        BY <2>2, <2>5, PosInjective
      <3>2. Heard(x, Pos(B, k), z.writeValue) = x
        BY <3>1, <2>1 DEF Heard
      <3>3. ~ Ready(D, m)
        <4>1. Entry(D, m) = Entry(B, m)
          BY <2>2, <2>5, MarksFrame
        <4> QED BY <4>1, <2>1 DEF Ready
      <3>4. Pos(D, m) = Pos(B, m)
        BY MarksFrame
      <3>5. Awaits(D, n, r, x.index)
        BY <3>3, <3>4, <2>1, <2>3 DEF Awaits
      <3> QED BY <3>2, <3>5, <1>2 DEF Op
    <2> QED BY <2>4, <2>5
  <1> QED BY <1>1, <1>2 DEF MayWait

-----------------------------------------------------------------------------
(* The oldest instruction retires: every place moves up by one.            *)

Drops(B, D) ==
    /\ D.c = B.c /\ D.o = (IF B.o + 1 = B.c THEN 0 ELSE B.o + 1)
    /\ D.q = Tail(B.q) /\ D.e = B.e
    /\ D.g = IF Entry(B, 0).writesRegister
             THEN [B.g EXCEPT ![Entry(B, 0).writeDestination] = Entry(B, 0).writeValue]
             ELSE B.g

LEMMA DropsFrame ==
  ASSUME NEW B, BufferT(B), InOrder(B), B.q # <<>>, NEW D, Drops(B, D)
  PROVE  /\ BufferT(D) /\ D.c = B.c /\ 0 \in Places(B)
         /\ Len(D.q) = Len(B.q) - 1 /\ Len(B.q) \in 1 .. B.c
         /\ \A n \in Places(D) : n + 1 \in Places(B) /\ D.q[n + 1] = B.q[n + 2]
         /\ \A n \in 0 .. B.c - 1 : Pos(D, n) = Pos(B, n + 1) /\ Entry(D, n) = Entry(B, n + 1)
         /\ \A n \in Places(D) : Rd(D, n) = Rd(B, n + 1)
  <1>1. Len(B.q) \in Nat /\ Len(B.q) # 0 /\ Len(B.q) <= B.c /\ B.c \in Nat
    BY DEF BufferT, InOrder
  <1>2. Len(B.q) \in 1 .. B.c /\ 0 \in Places(B)
    BY <1>1 DEF Places
  <1>3. D.q \in Seq(Issuable) /\ Len(D.q) = Len(B.q) - 1
        /\ \A n \in 1 .. Len(D.q) : D.q[n] = B.q[n + 1]
    BY <1>1 DEF Drops, BufferT
  <1>4. D.c = B.c /\ D.e = B.e
    BY DEF Drops
  <1>5. D.o \in 0 .. D.c - 1
    BY DEF Drops, BufferT
  <1>6. D.g \in [Reg -> Value]
    <2>1. Entry(B, 0) \in RobEntry
      BY <1>2, PlaceType
    <2>2. Entry(B, 0).writeDestination \in Reg /\ Entry(B, 0).writeValue \in Value
      BY <2>1 DEF RobEntry
    <2> HIDE DEF Entry
    <2> QED BY <2>2 DEF Drops, BufferT
  <1>7. BufferT(D)
    BY <1>3, <1>4, <1>5, <1>6 DEF BufferT
  <1>8. \A n \in 0 .. B.c - 1 : Pos(D, n) = Pos(B, n + 1)
    <2>1. PICK c, o : c = B.c /\ o = B.o
      OBVIOUS
    <2>2. c \in Nat \ {0} /\ o \in 0 .. c - 1
      BY <2>1 DEF BufferT
    <2>3. \A n \in 0 .. c - 1 : Ring(c, IF o + 1 = c THEN 0 ELSE o + 1, n) = Ring(c, o, n + 1)
      BY <2>2, RingSteps
    <2> QED BY <2>1, <2>3 DEF Drops, Pos
  <1>9. \A n \in 0 .. B.c - 1 : Entry(D, n) = Entry(B, n + 1)
    BY <1>4, <1>8 DEF Entry
  <1>10. \A n \in Places(D) : n + 1 \in Places(B) /\ D.q[n + 1] = B.q[n + 2]
    <2> TAKE n \in Places(D)
    <2>1. n \in 0 .. Len(B.q) - 2
      BY <1>1, <1>3 DEF Places
    <2>2. n + 1 \in 1 .. Len(D.q) /\ (n + 1) + 1 = n + 2
      BY <2>1, <1>1, <1>3
    <2>3. D.q[n + 1] = B.q[(n + 1) + 1]
      BY <2>2, <1>3
    <2> QED BY <2>1, <2>2, <2>3, <1>1 DEF Places
  <1>11. \A n \in Places(D) : Rd(D, n) = Rd(B, n + 1)
    <2> TAKE n \in Places(D)
    <2>1. (n + 1) + 1 = n + 2
      BY <1>1, <1>3 DEF Places
    <2> QED BY <2>1, <1>10 DEF Rd
  <1> QED BY <1>2, <1>3, <1>4, <1>7, <1>8, <1>9, <1>10, <1>11

LEMMA DropsWriter ==
  ASSUME NEW B, BufferT(B), InOrder(B), B.q # <<>>, NEW D, Drops(B, D),
         NEW n \in 0 .. Len(D.q), NEW r, NEW m \in 0 .. n - 1
  PROVE  Writer(D, m, n, r) <=> Writer(B, m + 1, n + 1, r)
  <1>1. Len(D.q) \in Nat /\ Places(D) = 0 .. Len(D.q) - 1
    BY DropsFrame DEF Places, BufferT
  <1>2. \A k \in 0 .. n - 1 : Rd(D, k) = Rd(B, k + 1)
    BY <1>1, DropsFrame
  <1>3. m + 1 \in 0 .. (n + 1) - 1 /\ Rd(D, m) = Rd(B, m + 1)
    BY <1>1, <1>2
  <1>4. ASSUME \A k \in m + 1 .. n - 1 : Rd(D, k) # r, NEW l \in (m + 1) + 1 .. (n + 1) - 1
        PROVE  Rd(B, l) # r
    <2>1. l - 1 \in m + 1 .. n - 1 /\ l - 1 \in 0 .. n - 1 /\ (l - 1) + 1 = l
      BY <1>1
    <2> QED BY <2>1, <1>2, <1>4
  <1>5. ASSUME \A l \in (m + 1) + 1 .. (n + 1) - 1 : Rd(B, l) # r, NEW k \in m + 1 .. n - 1
        PROVE  Rd(D, k) # r
    <2>1. k + 1 \in (m + 1) + 1 .. (n + 1) - 1 /\ k \in 0 .. n - 1
      BY <1>1
    <2> QED BY <2>1, <1>2, <1>5
  <1> QED BY <1>3, <1>4, <1>5 DEF Writer

(* The oldest entry is what its instruction writes, and no other register. *)
LEMMA DropsRegisters ==
  ASSUME NEW B, BufferT(B), BufferOK(B), B.q # <<>>, Ready(B, 0), NEW D, Drops(B, D),
         NEW r \in Reg, r # 0
  PROVE  D.g[r] = IF Rd(B, 0) = r THEN Entry(B, 0).writeValue ELSE B.g[r]
  <1>0. InOrder(B) /\ Results(B)
    BY DEF BufferOK
  <1>1. 0 \in Places(B)
    BY <1>0, DropsFrame
  <1>2. /\ Entry(B, 0).writeDestination = Rd(B, 0) /\ Entry(B, 0) \in RobEntry
        /\ B.q[0 + 1] \in Issuable
    BY <1>0, <1>1, PlaceType DEF InOrder
  <1>3. Entry(B, 0).writesRegister = WritesRd(B.q[0 + 1])
    BY <1>0, <1>1 DEF Results, Right
  <1>4. Rd(B, 0) = r => WritesRd(B.q[0 + 1])
    BY <1>2 DEF Rd, Issuable
  <1>5. Rd(B, 0) = r => Entry(B, 0).writesRegister
    BY <1>3, <1>4
  <1>6. B.g \in [Reg -> Value]
    BY DEF BufferT
  <1> QED BY <1>2, <1>5, <1>6 DEF Drops

LEMMA DropsSourced ==
  ASSUME NEW B, BufferT(B), BufferOK(B), B.q # <<>>, Ready(B, 0), NEW D, Drops(B, D),
         NEW n \in 0 .. Len(D.q), NEW r \in Reg, NEW a, Sourced(B, n + 1, r, a)
  PROVE  Sourced(D, n, r, a)
  <1>0. InOrder(B)
    BY DEF BufferOK
  <1>1. /\ Len(D.q) \in Nat /\ Len(D.q) = Len(B.q) - 1 /\ Len(B.q) \in 1 .. B.c /\ B.c \in Nat
        /\ Places(D) = 0 .. Len(D.q) - 1
    BY <1>0, DropsFrame DEF Places, BufferT
  <1>2. ASSUME r # 0, NEW m \in 0 .. n - 1, Writer(D, m, n, r)
        PROVE  Ready(D, m) /\ a = Entry(D, m).writeValue
    <2>1. Writer(B, m + 1, n + 1, r)
      BY <1>0, <1>2, DropsWriter
    <2>2. m + 1 \in 0 .. (n + 1) - 1 /\ m \in 0 .. B.c - 1
      BY <1>1
    <2>3. Ready(B, m + 1) /\ a = Entry(B, m + 1).writeValue
      BY <1>2, <2>1, <2>2 DEF Sourced
    <2> QED BY <2>2, <2>3, <1>0, DropsFrame DEF Ready
  <1>3. ASSUME r # 0, \A m \in 0 .. n - 1 : Rd(D, m) # r
        PROVE  a = D.g[r]
    <2>1. \A l \in 1 .. n : Rd(B, l) # r
      <3> TAKE l \in 1 .. n
      <3>1. l - 1 \in 0 .. n - 1 /\ l - 1 \in Places(D) /\ (l - 1) + 1 = l
        BY <1>1
      <3> QED BY <3>1, <1>3, <1>0, DropsFrame
    <2>2. CASE Rd(B, 0) = r
      <3>1. Writer(B, 0, n + 1, r)
        BY <2>1, <2>2, <1>1 DEF Writer
      <3>2. a = Entry(B, 0).writeValue
        BY <3>1, <1>3 DEF Sourced, Writer
      <3> QED BY <3>2, <2>2, <1>3, DropsRegisters
    <2>3. CASE Rd(B, 0) # r
      <3>1. \A l \in 0 .. (n + 1) - 1 : Rd(B, l) # r
        BY <2>1, <2>3, <1>1
      <3>2. a = B.g[r]
        BY <3>1, <1>3 DEF Sourced
      <3> QED BY <3>2, <2>3, <1>3, DropsRegisters
    <2> QED BY <2>2, <2>3
  <1>4. r = 0 => a = 0
    BY DEF Sourced
  <1> QED BY <1>2, <1>3, <1>4 DEF Sourced

LEMMA DropsOperand ==
  ASSUME NEW B, BufferT(B), BufferOK(B), B.q # <<>>, Ready(B, 0), NEW D, Drops(B, D),
         NEW n \in 0 .. Len(D.q), NEW r \in Reg, NEW u, NEW x, Op(B, n + 1, r, u, x)
  PROVE  Op(D, n, r, u, x)
  <1>0. InOrder(B)
    BY DEF BufferOK
  <1>1. ASSUME x.waiting = TRUE
        PROVE  Awaits(D, n, r, x.index)
    <2>0. /\ Len(D.q) \in Nat /\ Len(D.q) = Len(B.q) - 1 /\ Len(B.q) \in 1 .. B.c /\ B.c \in Nat
      BY <1>0, DropsFrame DEF BufferT
    <2>1. PICK m \in 0 .. (n + 1) - 1 :
            r # 0 /\ Writer(B, m, n + 1, r) /\ x.index = Pos(B, m) /\ ~ Ready(B, m)
      BY <1>1 DEF Op, Awaits
    <2>2. m # 0
      BY <2>1
    <2>3. m - 1 \in 0 .. n - 1 /\ m - 1 \in 0 .. B.c - 1 /\ (m - 1) + 1 = m
      BY <2>2, <2>0
    <2>4. Writer(D, m - 1, n, r)
      BY <2>1, <2>3, <1>0, DropsWriter
    <2>5. Pos(D, m - 1) = Pos(B, m) /\ Entry(D, m - 1) = Entry(B, m)
      BY <2>3, <1>0, DropsFrame
    <2> QED BY <2>1, <2>3, <2>4, <2>5 DEF Awaits, Ready
  <1> QED BY <1>1, DropsSourced DEF Op

LEMMA DropsRight ==
  ASSUME NEW B, BufferT(B), BufferOK(B), B.q # <<>>, Ready(B, 0), NEW D, Drops(B, D),
         NEW n \in Places(D), NEW y, Right(B, n + 1, y)
  PROVE  Right(D, n, y)
  <1>0. InOrder(B)
    BY DEF BufferOK
  <1>1. D.q[n + 1] = B.q[n + 2] /\ n + 1 \in Places(B)
    BY <1>0, DropsFrame
  <1>2. n \in 0 .. Len(D.q) /\ (n + 1) + 1 = n + 2
    BY <1>0, DropsFrame DEF Places, BufferT
  <1>3. B.q[n + 2] \in Issuable
    BY <1>0, <1>1, <1>2, PlaceType
  <1>4. B.q[n + 2].rs1 \in Reg /\ B.q[n + 2].rs2 \in Reg
    BY <1>3 DEF Issuable, Instruction
  <1>5. \A a : Sourced(B, n + 1, B.q[n + 2].rs1, a) => Sourced(D, n, B.q[n + 2].rs1, a)
    BY <1>2, <1>4, DropsSourced
  <1>6. \A a : Sourced(B, n + 1, B.q[n + 2].rs2, a) => Sourced(D, n, B.q[n + 2].rs2, a)
    BY <1>2, <1>4, DropsSourced
  <1> QED BY <1>1, <1>2, <1>5, <1>6 DEF Right

(* Retiring keeps the buffer right. *)
LEMMA DropsBuffer ==
  ASSUME NEW B, BufferT(B), BufferOK(B), B.q # <<>>, Ready(B, 0), NEW D, Drops(B, D)
  PROVE  BufferT(D) /\ BufferOK(D)
  <1>0. InOrder(B) /\ Results(B) /\ Freshest(B)
    BY DEF BufferOK
  <1>1. /\ Len(D.q) \in Nat /\ Len(D.q) = Len(B.q) - 1 /\ Len(B.q) \in 1 .. B.c /\ B.c \in Nat
        /\ Places(D) = 0 .. Len(D.q) - 1 /\ D.c = B.c /\ Places(B) = 0 .. Len(B.q) - 1
    BY <1>0, DropsFrame DEF Places, BufferT
  <1>2. \A n \in Places(D) : n + 1 \in Places(B) /\ n \in 0 .. B.c - 1
    BY <1>1
  <1>3. \A n \in Places(D) : Entry(D, n) = Entry(B, n + 1) /\ Rd(D, n) = Rd(B, n + 1)
    BY <1>0, <1>2, DropsFrame
  <1>4. InOrder(D)
    BY <1>0, <1>1, <1>2, <1>3 DEF InOrder
  <1>5. Results(D)
    <2> SUFFICES ASSUME NEW n \in Places(D), Ready(D, n)
                 PROVE  Right(D, n, Entry(D, n))
      BY DEF Results
    <2>1. Ready(B, n + 1)
      BY <1>3 DEF Ready
    <2>2. Right(B, n + 1, Entry(B, n + 1))
      BY <2>1, <1>0, <1>2 DEF Results
    <2> QED BY <2>2, <1>3, DropsRight
  <1>6. Freshest(D)
    <2> SUFFICES ASSUME NEW k \in Places(D)
                 PROVE  \E m \in Places(D) : Writer(D, m, Len(D.q), Rd(D, k))
      BY DEF Freshest
    <2>1. PICK m \in Places(B) : Writer(B, m, Len(B.q), Rd(B, k + 1))
      BY <1>0, <1>2 DEF Freshest
    <2>2. m # 0
      <3>1. m = 0 => k + 1 \in m + 1 .. Len(B.q) - 1
        BY <1>1
      <3> QED BY <3>1, <2>1 DEF Writer
    <2>3. /\ m - 1 \in Places(D) /\ m - 1 \in 0 .. Len(D.q) - 1 /\ (m - 1) + 1 = m
          /\ Len(D.q) \in 0 .. Len(D.q) /\ Len(D.q) + 1 = Len(B.q)
      BY <1>1, <2>2
    <2>4. Writer(D, m - 1, Len(D.q), Rd(B, k + 1))
      BY <2>1, <2>3, <1>0, DropsWriter
    <2> QED BY <2>3, <2>4, <1>3
  <1> QED BY <1>0, <1>4, <1>5, <1>6, DropsFrame DEF BufferOK

-----------------------------------------------------------------------------
(* An instruction is pushed: it has the place behind the others.           *)

NewEntry(i) == [ZeroEntry EXCEPT !.writeDestination = i.rd]

Adds(B, D, i) ==
    /\ D.c = B.c /\ D.o = B.o /\ D.g = B.g /\ D.q = Append(B.q, i)
    /\ D.e = [B.e EXCEPT ![Pos(B, Len(B.q))] = NewEntry(i)]

LEMMA AddsFrame ==
  ASSUME NEW B, BufferT(B), InOrder(B), Len(B.q) < B.c, NEW i \in Issuable, NEW D, Adds(B, D, i)
  PROVE  /\ BufferT(D) /\ D.c = B.c /\ D.g = B.g /\ D.o = B.o
         /\ Len(D.q) = Len(B.q) + 1 /\ Len(B.q) \in 0 .. B.c - 1
         /\ Places(D) = Places(B) \cup {Len(B.q)}
         /\ \A n \in Nat : Pos(D, n) = Pos(B, n)
         /\ \A n \in Places(B) : /\ D.q[n + 1] = B.q[n + 1] /\ Entry(D, n) = Entry(B, n)
                                 /\ Rd(D, n) = Rd(B, n)
         /\ D.q[Len(B.q) + 1] = i /\ Entry(D, Len(B.q)) = NewEntry(i) /\ Rd(D, Len(B.q)) = i.rd
         /\ NewEntry(i).writeDestination = i.rd /\ ~ Ready(D, Len(B.q))
  <1>1. Len(B.q) \in Nat /\ B.c \in Nat /\ Len(B.q) \in 0 .. B.c - 1
    BY DEF BufferT
  <1>2. i.rd \in Reg
    BY DEF Issuable, Instruction
  <1>3. /\ NewEntry(i).writeDestination = i.rd /\ NewEntry(i).ready = FALSE
        /\ NewEntry(i) \in RobEntry
    <2>1. 0 \in Value /\ 0 \in Reg
      BY ISAAssumption DEF Value, Reg
    <2>2. ZeroEntry \in RobEntry /\ ZeroEntry.ready = FALSE
      BY <2>1 DEF RobEntry, ZeroEntry
    <2> QED BY <2>2, <1>2 DEF RobEntry, NewEntry
  <1>4. /\ D.q \in Seq(Issuable) /\ Len(D.q) = Len(B.q) + 1 /\ D.q[Len(B.q) + 1] = i
        /\ \A n \in 1 .. Len(B.q) : D.q[n] = B.q[n]
    BY DEF Adds, BufferT
  <1>5. Pos(B, Len(B.q)) \in 0 .. B.c - 1
    BY <1>1, PosType
  <1>6. D.c = B.c /\ D.o = B.o /\ D.g = B.g
    BY DEF Adds
  <1>7. /\ D.e \in [0 .. B.c - 1 -> RobEntry] /\ D.e[Pos(B, Len(B.q))] = NewEntry(i)
        /\ \A p \in 0 .. B.c - 1 : p # Pos(B, Len(B.q)) => D.e[p] = B.e[p]
    BY <1>3, <1>5 DEF Adds, BufferT
  <1>8. BufferT(D)
    BY <1>4, <1>6, <1>7 DEF BufferT
  <1>9. \A n \in Nat : Pos(D, n) = Pos(B, n)
    BY <1>6 DEF Pos
  <1>10. Places(D) = Places(B) \cup {Len(B.q)}
    BY <1>1, <1>4 DEF Places
  <1>11. \A n \in Places(B) : D.q[n + 1] = B.q[n + 1] /\ Entry(D, n) = Entry(B, n)
    <2> TAKE n \in Places(B)
    <2>1. n \in 0 .. B.c - 1 /\ n + 1 \in 1 .. Len(B.q) /\ Pos(B, n) \in 0 .. B.c - 1
      BY PlaceType
    <2>2. n # Len(B.q)
      BY <1>1 DEF Places
    <2>3. Pos(B, n) # Pos(B, Len(B.q))
      BY <2>1, <2>2, <1>1, PosInjective
    <2> QED BY <2>1, <2>3, <1>4, <1>7, <1>9 DEF Entry
  <1>12. Entry(D, Len(B.q)) = NewEntry(i)
    BY <1>7, <1>9 DEF Entry
  <1>13. Rd(D, Len(B.q)) = i.rd /\ \A n \in Places(B) : Rd(D, n) = Rd(B, n)
    BY <1>4, <1>11 DEF Rd
  <1>14. ~ Ready(D, Len(B.q))
    BY <1>3, <1>12 DEF Ready
  <1> QED BY <1>1, <1>3, <1>4, <1>6, <1>8, <1>9, <1>10, <1>11, <1>12, <1>13, <1>14

(* For the instructions before it nothing changes. *)
LEMMA AddsKeeps ==
  ASSUME NEW B, BufferT(B), InOrder(B), Len(B.q) < B.c, NEW i \in Issuable, NEW D, Adds(B, D, i),
         NEW n \in 0 .. Len(B.q), NEW r
  PROVE  /\ \A m : Writer(D, m, n, r) <=> Writer(B, m, n, r)
         /\ \A a : Sourced(B, n, r, a) => Sourced(D, n, r, a)
         /\ \A x, u : Op(B, n, r, u, x) => Op(D, n, r, u, x)
  <1>1. \A m \in 0 .. n - 1 : m \in Places(B)
    BY Len(B.q) \in Nat DEF BufferT, Places
  <1>2. \A m \in 0 .. n - 1 : Rd(D, m) = Rd(B, m) /\ Entry(D, m) = Entry(B, m) /\ Pos(D, m) = Pos(B, m)
    BY <1>1, AddsFrame
  <1>3. D.g = B.g
    BY AddsFrame
  <1>4. ASSUME NEW m
        PROVE  Writer(D, m, n, r) <=> Writer(B, m, n, r)
    <2>1. m \in 0 .. n - 1 => \A k \in m + 1 .. n - 1 : k \in 0 .. n - 1
      OBVIOUS
    <2> QED BY <2>1, <1>2 DEF Writer
  <1>5. \A m \in 0 .. n - 1 : Ready(D, m) <=> Ready(B, m)
    BY <1>2 DEF Ready
  <1>6. ASSUME NEW a, Sourced(B, n, r, a)
        PROVE  Sourced(D, n, r, a)
    BY <1>2, <1>3, <1>4, <1>5, <1>6 DEF Sourced
  <1>7. ASSUME NEW j, Awaits(B, n, r, j)
        PROVE  Awaits(D, n, r, j)
    BY <1>2, <1>4, <1>5, <1>7 DEF Awaits
  <1>8. ASSUME NEW x, NEW u, Op(B, n, r, u, x)
        PROVE  Op(D, n, r, u, x)
    BY <1>6, <1>7, <1>8 DEF Op
  <1> QED BY <1>4, <1>6, <1>8

LEMMA AddsRight ==
  ASSUME NEW B, BufferT(B), InOrder(B), Len(B.q) < B.c, NEW i \in Issuable, NEW D, Adds(B, D, i),
         NEW n \in Places(B), NEW y, Right(B, n, y)
  PROVE  Right(D, n, y)
  <1>1. n \in 0 .. Len(B.q)
    BY DEF BufferT, Places
  <1>2. D.q[n + 1] = B.q[n + 1]
    BY AddsFrame
  <1>3. \A r, a : Sourced(B, n, r, a) => Sourced(D, n, r, a)
    BY <1>1, AddsKeeps
  <1> QED BY <1>2, <1>3 DEF Right

LEMMA AddsBuffer ==
  ASSUME NEW B, BufferT(B), BufferOK(B), Len(B.q) < B.c, NEW i \in Issuable, NEW D, Adds(B, D, i)
  PROVE  BufferT(D) /\ BufferOK(D)
  <1>0. InOrder(B) /\ Results(B) /\ Freshest(B)
    BY DEF BufferOK
  <1>1. /\ Len(B.q) \in Nat /\ Len(D.q) = Len(B.q) + 1 /\ B.c \in Nat /\ D.c = B.c
        /\ Places(D) = Places(B) \cup {Len(B.q)}
    BY <1>0, AddsFrame DEF BufferT
  <1>2. InOrder(D)
    BY <1>0, <1>1, AddsFrame DEF InOrder
  <1>3. Results(D)
    <2> SUFFICES ASSUME NEW n \in Places(D), Ready(D, n)
                 PROVE  Right(D, n, Entry(D, n))
      BY DEF Results
    <2>1. n \in Places(B) /\ Entry(D, n) = Entry(B, n)
      <3>1. ~ Ready(D, Len(B.q))
        BY <1>0, AddsFrame
      <3>2. n \in Places(B)
        BY <3>1, <1>1
      <3> QED BY <3>2, <1>0, AddsFrame
    <2>2. Right(B, n, Entry(B, n))
      BY <2>1, <1>0 DEF Results, Ready
    <2> QED BY <2>1, <2>2, <1>0, AddsRight
  <1>4. Freshest(D)
    <2> SUFFICES ASSUME NEW k \in Places(D)
                 PROVE  \E m \in Places(D) : Writer(D, m, Len(B.q) + 1, Rd(D, k))
      BY <1>1 DEF Freshest
    <2>1. CASE Rd(D, k) = i.rd
      <3>1. Rd(D, Len(B.q)) = i.rd
        BY <1>0, AddsFrame
      <3>2. Writer(D, Len(B.q), Len(B.q) + 1, Rd(D, k))
        BY <2>1, <3>1, <1>1 DEF Writer
      <3> QED BY <3>2, <1>1
    <2>2. CASE Rd(D, k) # i.rd
      <3>1. k \in Places(B) /\ Rd(D, k) = Rd(B, k) /\ Rd(D, Len(B.q)) = i.rd
        BY <2>2, <1>0, <1>1, AddsFrame
      <3>2. PICK m \in Places(B) : Writer(B, m, Len(B.q), Rd(B, k))
        BY <3>1, <1>0 DEF Freshest
      <3>3. Writer(D, m, Len(B.q), Rd(D, k))
        <4>1. Len(B.q) \in 0 .. Len(B.q)
          BY <1>1
        <4> QED BY <4>1, <3>1, <3>2, <1>0, AddsKeeps
      <3>4. Writer(D, m, Len(B.q) + 1, Rd(D, k))
        BY <3>1, <3>3, <2>2, <1>1 DEF Writer
      <3> QED BY <3>4, <1>1
    <2> QED BY <2>1, <2>2
  <1> QED BY <1>0, <1>2, <1>3, <1>4, AddsFrame DEF BufferOK

-----------------------------------------------------------------------------
(* The operators of the reorder buffer, read on places.                    *)

LEMMA BufferFields ==
  /\ Buffer.c = config.capacity /\ Buffer.o = rob.oldestIndex /\ Buffer.q = order
  /\ Buffer.e = rob.entries /\ Buffer.g = registers
  BY DEF Buffer

LEMMA BufferType ==
  ASSUME Types
  PROVE  /\ BufferT(Buffer) /\ config.capacity \in Nat \ {0} /\ config.program \subseteq Instruction
         /\ Index = 0 .. config.capacity - 1 /\ rob.oldestIndex \in Index /\ rob.newestIndex \in Index
         /\ rob.isFull \in BOOLEAN /\ rob.entries \in [Index -> RobEntry] /\ Len(order) \in Nat
         /\ Places(Buffer) = 0 .. Len(order) - 1
  <1>1. config.capacity \in Nat \ {0} /\ config.program \subseteq Instruction
    BY DynamicAssumption DEF Types
  <1>2. /\ rob.oldestIndex \in Index /\ rob.newestIndex \in Index
        /\ rob.isFull \in BOOLEAN /\ rob.entries \in [Index -> RobEntry]
    BY DEF Types
  <1>3. order \in Seq(Issuable) /\ registers \in [Reg -> Value]
    BY DEF Types
  <1>4. BufferT(Buffer)
    BY <1>1, <1>2, <1>3, BufferFields DEF BufferT, Index
  <1> QED BY <1>1, <1>2, <1>3, <1>4, BufferFields DEF Index, Places

LEMMA ReadBuffer ==
  ASSUME Types, Counted, InOrder(Buffer)
  PROVE  /\ Len(order) \in 0 .. config.capacity
         /\ isEmpty <=> Len(order) = 0
         /\ oldestEntry = Entry(Buffer, 0)
         /\ \A n \in Index : indexForNth(n) = Pos(Buffer, n)
         /\ \A n \in Index : isValidIndex(Pos(Buffer, n)) <=> n \in Places(Buffer)
         /\ \A i \in Index : \E n \in Index : i = Pos(Buffer, n)
  <1>1. PICK c, o, w, N : c = config.capacity /\ o = rob.oldestIndex /\ w = rob.newestIndex
                          /\ N = Len(order)
    OBVIOUS
  <1>2. /\ c \in Nat \ {0} /\ Index = 0 .. c - 1 /\ o \in 0 .. c - 1 /\ w \in 0 .. c - 1
        /\ N \in Nat /\ Places(Buffer) = 0 .. N - 1 /\ rob.isFull \in BOOLEAN
    BY <1>1, BufferType
  <1>3. \A n : Pos(Buffer, n) = Ring(c, o, n)
    BY <1>1, BufferFields DEF Pos
  <1>4. N \in 0 .. c
    BY <1>1, <1>2, BufferFields DEF InOrder
  <1>5. w = Ring(c, o, N) /\ (rob.isFull <=> N = c)
    BY <1>1, <1>2, <1>3 DEF Counted
  <1>6. isEmpty <=> N = 0
    <2>1. 0 \in 0 .. c - 1
      BY <1>2
    <2>2. (o = w /\ N # c) <=> N = 0
      BY <2>1, <1>2, <1>4, <1>5, RingUsed
    <2> QED BY <2>2, <1>1, <1>5 DEF isEmpty
  <1>7. oldestEntry = Entry(Buffer, 0)
    <2>1. 0 \in 0 .. c - 1
      BY <1>2
    <2>2. Ring(c, o, 0) = o
      BY <2>1, <1>2, RingSteps
    <2> QED BY <2>2, <1>1, <1>3, BufferFields DEF oldestEntry, Entry
  <1>8. ASSUME NEW n \in Index
        PROVE  indexForNth(n) = Pos(Buffer, n)
    <2>1. n + o \in 0 .. c + c - 1 /\ n + o = o + n
      BY <1>2, <1>8
    <2>2. indexForNth(n) = (n + o) % c
      BY <1>1 DEF indexForNth
    <2>3. PICK z : z = n + o
      OBVIOUS
    <2>4. z % c = IF z < c THEN z ELSE z - c
      BY <2>1, <2>3, <1>2, ModWraps
    <2>5. Ring(c, o, n) = IF z < c THEN z ELSE z - c
      BY <2>1, <2>3, <1>2, <1>8 DEF Ring
    <2> QED BY <2>2, <2>3, <2>4, <2>5, <1>3
  <1>9. ASSUME NEW n \in Index
        PROVE  isValidIndex(Pos(Buffer, n)) <=> n \in Places(Buffer)
    <2>1. PICK p : p = Pos(Buffer, n)
      OBVIOUS
    <2>2. n \in Places(Buffer) <=> n < N
      BY <1>2, <1>9
    <2>3. isValidIndex(p) <=> CASE isEmpty -> FALSE
                                [] ~ isEmpty /\ o = w -> TRUE
                                [] w > o -> p >= o /\ p < w
                                [] OTHER -> p >= o \/ p < w
      BY <1>1 DEF isValidIndex
    <2>4. /\ N = c => o = w
          /\ (o = w /\ N # c) <=> N = 0
          /\ w > o /\ N # 0 => ((p >= o /\ p < w) <=> n < N)
          /\ ~(w > o) /\ o # w => ((p >= o \/ p < w) <=> n < N)
      BY <2>1, <1>2, <1>3, <1>4, <1>5, <1>9, RingUsed
    <2>5. CASE N = 0
      <3>1. ~ isValidIndex(p)
        <4>1. isEmpty /\ o = w /\ ~(w > o)
          BY <2>4, <2>5, <1>2, <1>6
        <4> QED BY <4>1, <2>3
      <3> QED BY <3>1, <2>1, <2>2, <2>5, <1>2, <1>9
    <2>6. CASE N # 0 /\ o = w
      <3>1. isValidIndex(p)
        <4>1. ~ isEmpty /\ o = w /\ ~(w > o)
          BY <2>6, <1>2, <1>6
        <4> QED BY <4>1, <2>3
      <3>2. n < N
        BY <2>4, <2>6, <1>2, <1>9
      <3> QED BY <3>1, <3>2, <2>1, <2>2
    <2>7. CASE N # 0 /\ o # w /\ w > o
      <3>1. isValidIndex(p) <=> (p >= o /\ p < w)
        BY <2>3, <2>7, <1>6
      <3> QED BY <3>1, <2>4, <2>7, <2>1, <2>2
    <2>8. CASE N # 0 /\ o # w /\ ~(w > o)
      <3>1. isValidIndex(p) <=> (p >= o \/ p < w)
        BY <2>3, <2>8, <1>6
      <3> QED BY <3>1, <2>4, <2>8, <2>1, <2>2
    <2> QED BY <2>5, <2>6, <2>7, <2>8
  <1>10. ASSUME NEW i \in Index
         PROVE  \E n \in Index : i = Pos(Buffer, n)
    BY <1>2, <1>3, <1>10, RingOnto
  <1> QED BY <1>1, <1>4, <1>6, <1>7, <1>8, <1>9, <1>10

(* The entries that getValue looks at. *)
LEMMA NamedPlaces ==
  ASSUME Types, Counted, InOrder(Buffer), NEW r
  PROVE  Named(r) = {n \in Places(Buffer) : Rd(Buffer, n) = r /\ r # 0}
  <1>1. ASSUME NEW n \in Index
        PROVE  (isValidIndex(indexForNth(n)) /\ rob.entries[indexForNth(n)].writeDestination = r
                  /\ r # 0)
               <=> (n \in Places(Buffer) /\ Rd(Buffer, n) = r /\ r # 0)
    <2>1. indexForNth(n) = Pos(Buffer, n)
      BY <1>1, ReadBuffer
    <2>2. isValidIndex(indexForNth(n)) <=> n \in Places(Buffer)
      BY <2>1, <1>1, ReadBuffer
    <2>3. rob.entries[indexForNth(n)] = Entry(Buffer, n)
      BY <2>1, BufferFields DEF Entry
    <2>4. n \in Places(Buffer) => Entry(Buffer, n).writeDestination = Rd(Buffer, n)
      BY DEF InOrder
    <2> QED BY <2>2, <2>3, <2>4
  <1>2. Places(Buffer) \subseteq Index
    BY BufferType, PlaceType, BufferFields
  <1> QED BY <1>1, <1>2 DEF Named

(* What a dispatch finds is right for the place behind the others. *)
LEMMA OperandRight ==
  ASSUME Types, Counted, BufferOK(Buffer), NEW r \in Reg, NEW u \in BOOLEAN
  PROVE  /\ Operand(r, u) \in OperandOf(Index)
         /\ Op(Buffer, Len(order), r, u, Operand(r, u))
  <1>0. InOrder(Buffer) /\ Freshest(Buffer)
    BY DEF BufferOK
  <1>1. /\ BufferT(Buffer) /\ Len(order) \in Nat /\ Places(Buffer) = 0 .. Len(order) - 1
        /\ Index = 0 .. config.capacity - 1 /\ config.capacity \in Nat \ {0}
    BY BufferType
  <1>2. Named(r) = {n \in Places(Buffer) : Rd(Buffer, n) = r /\ r # 0}
    BY <1>0, NamedPlaces
  <1>3. 0 \in Index /\ 0 \in Value
    BY <1>1, ISAAssumption DEF Value
  <1>4. CASE Named(r) = {}
    <2> DEFINE a == ReadReg(registers, r)
    <2>1. Operand(r, u) = Data(a)
      BY <1>4 DEF Operand
    <2>2. a \in Value
      BY <1>3 DEF ReadReg, Types
    <2>3. a = IF r = 0 THEN 0 ELSE registers[r]
      BY DEF ReadReg
    <2> HIDE DEF a
    <2>4. Data(a) \in OperandOf(Index) /\ Data(a).waiting = FALSE /\ Data(a).data = a
      BY <2>2, <1>3 DEF Data, OperandOf
    <2>5. r # 0 => \A m \in 0 .. Len(order) - 1 : Rd(Buffer, m) # r
      BY <1>1, <1>2, <1>4
    <2>6. Sourced(Buffer, Len(order), r, a)
      BY <2>3, <2>5, BufferFields DEF Sourced, Writer
    <2> QED BY <2>1, <2>4, <2>6 DEF Op
  <1>5. CASE Named(r) # {}
    <2>1. PICK k \in Places(Buffer) : Rd(Buffer, k) = r /\ r # 0
      BY <1>2, <1>5
    <2>2. PICK m \in Places(Buffer) : Writer(Buffer, m, Len(order), r)
      BY <2>1, <1>0, BufferFields DEF Freshest
    <2>3. m \in Named(r)
      BY <2>1, <2>2, <1>2 DEF Writer
    <2>4. \A l \in Named(r) : l <= m
      <3> TAKE l \in Named(r)
      <3>1. l \in 0 .. Len(order) - 1 /\ Rd(Buffer, l) = r /\ m \in 0 .. Len(order) - 1
        BY <1>1, <1>2
      <3>2. l > m => l \in m + 1 .. Len(order) - 1
        BY <3>1, <1>1
      <3> QED BY <3>1, <3>2, <2>2, <1>1 DEF Writer
    <2>5. (CHOOSE n \in Named(r) : \A l \in Named(r) : l <= n) = m
      <3> DEFINE n == CHOOSE n \in Named(r) : \A l \in Named(r) : l <= n
      <3>1. n \in Named(r) /\ \A l \in Named(r) : l <= n
        BY <2>3, <2>4
      <3> HIDE DEF n
      <3>2. n <= m /\ m <= n /\ n \in 0 .. Len(order) - 1 /\ m \in 0 .. Len(order) - 1
        BY <3>1, <2>3, <2>4, <1>1, <1>2
      <3>3. n = m
        BY <3>2, <1>1
      <3> QED BY <3>3 DEF n
    <2>6. m \in Index /\ Pos(Buffer, m) \in Index /\ Entry(Buffer, m) \in RobEntry
      BY <1>0, <1>1, PlaceType, BufferFields
    <2>7. getValue(r) = Pos(Buffer, m)
      BY <2>5, <2>6, <1>0, ReadBuffer DEF getValue
    <2>8. rob.entries[Pos(Buffer, m)] = Entry(Buffer, m)
      BY BufferFields DEF Entry
    <2> DEFINE v == Entry(Buffer, m).writeValue
    <2>9. Operand(r, u) = IF Entry(Buffer, m).ready \/ ~ u THEN Data(v) ELSE Waits(Pos(Buffer, m))
      BY <1>5, <2>7, <2>8 DEF Operand
    <2>10. v \in Value /\ Entry(Buffer, m).ready \in BOOLEAN
      BY <2>6 DEF RobEntry
    <2>11. m \in 0 .. Len(order) - 1
      BY <1>1
    <2>12. CASE Entry(Buffer, m).ready \/ ~ u
      <3>1. Operand(r, u) = Data(v)
        BY <2>9, <2>12
      <3>2. Data(v) \in OperandOf(Index) /\ Data(v).waiting = FALSE /\ Data(v).data = v
        BY <2>10, <1>3 DEF Data, OperandOf
      <3>3. u => Ready(Buffer, m)
        BY <2>10, <2>12 DEF Ready
      <3>4. u => \A l \in 0 .. Len(order) - 1 : Writer(Buffer, l, Len(order), r) =>
                    Ready(Buffer, l) /\ v = Entry(Buffer, l).writeValue
        BY <3>3, <2>2, <1>1, WriterUnique
      <3>5. Rd(Buffer, m) = r
        BY <2>2 DEF Writer
      <3>6. u => Sourced(Buffer, Len(order), r, v)
        BY <3>4, <3>5, <2>1, <2>11 DEF Sourced
      <3> HIDE DEF v
      <3> QED BY <3>1, <3>2, <3>6 DEF Op
    <2>13. CASE ~(Entry(Buffer, m).ready \/ ~ u)
      <3> DEFINE p == Pos(Buffer, m)
      <3>1. Operand(r, u) = Waits(p)
        BY <2>9, <2>13
      <3>2. Waits(p) \in OperandOf(Index) /\ Waits(p).waiting = TRUE /\ Waits(p).index = p
        <4> HIDE DEF p
        <4> QED BY <2>6, <1>3 DEF Waits, OperandOf, p
      <3>3. ~ Ready(Buffer, m)
        BY <2>13 DEF Ready
      <3>4. Awaits(Buffer, Len(order), r, p)
        BY <3>3, <2>1, <2>2, <2>11 DEF Awaits
      <3> HIDE DEF p
      <3> QED BY <3>1, <3>2, <3>4 DEF Op
    <2> QED BY <2>12, <2>13
  <1> QED BY <1>4, <1>5

-----------------------------------------------------------------------------
(* What the invariant says: buffer and stations agree.                     *)

LEMMA AgeOfPlace ==
  ASSUME Types, Counted, InOrder(Buffer), NEW n \in Places(Buffer)
  PROVE  Age(Pos(Buffer, n)) = n
  <1>1. BufferT(Buffer) /\ n \in Index /\ Index = 0 .. Buffer.c - 1
    BY BufferType, PlaceType, BufferFields
  <1>2. \A m \in Index : indexForNth(m) = Pos(Buffer, m)
    BY ReadBuffer
  <1>3. \A m \in Index : indexForNth(m) = Pos(Buffer, n) => m = n
    BY <1>1, <1>2, PosInjective
  <1> QED BY <1>1, <1>2, <1>3 DEF Age

LEMMA InvariantImpliesConsistent == DInv => RobConsistent
  <1> SUFFICES ASSUME DInv PROVE RobConsistent
    OBVIOUS
  <1>0. /\ Types /\ Counted /\ BufferOK(Buffer) /\ InOrder(Buffer) /\ StationsOK(Buffer, rs)
    BY DEF DInv, BufferOK
  <1>1. /\ BufferT(Buffer) /\ Index = 0 .. config.capacity - 1 /\ Places(Buffer) = 0 .. Len(order) - 1
        /\ Len(order) \in Nat /\ config.capacity \in Nat
    BY <1>0, BufferType
  <1>2. Places(Buffer) \subseteq Index
    BY <1>0, <1>1, PlaceType, BufferFields
  <1>3. \A n \in Places(Buffer) : /\ indexForNth(n) = Pos(Buffer, n) /\ isValidIndex(Pos(Buffer, n))
                                  /\ Age(Pos(Buffer, n)) = n /\ Pos(Buffer, n) \in Index
    BY <1>0, <1>1, <1>2, ReadBuffer, AgeOfPlace, PlaceType, BufferFields
  <1>4. \A i \in Index : isValidIndex(i) => \E n \in Places(Buffer) : i = Pos(Buffer, n)
    BY <1>0, ReadBuffer
  <1>5. \A n \in Places(Buffer) : rob.entries[Pos(Buffer, n)] = Entry(Buffer, n)
    BY BufferFields DEF Entry
  <1>6. \A n \in Places(Buffer) : rob.entries[Pos(Buffer, n)].ready \in BOOLEAN
    BY <1>0, <1>1, <1>5, PlaceType DEF RobEntry
  <1>7. \A n \in Places(Buffer) : ~ rob.entries[Pos(Buffer, n)].ready <=> ~ Ready(Buffer, n)
    BY <1>5, <1>6 DEF Ready
  <1>8. TypeOK
    <2>1. \A s \in Station :
            /\ rs[s].state \in {"IDLE", "WAITING_FOR_ARGS", "EXECUTING", "BROADCASTING_RESULT"}
            /\ rs[s].ir \in Program /\ rs[s].rs1 \in OperandOf(Index) /\ rs[s].rs2 \in OperandOf(Index)
            /\ rs[s].robEntryIndex \in Index /\ rs[s].resultCdbMessage \in Message
      BY <1>0 DEF Types, StationRecord, StationOf
    <2> QED BY <2>1, <1>0 DEF TypeOK, Types, Program, OperandOf
  <1>9. RobInOrder
    <2>1. Len(order) <= config.capacity
      BY <1>0, BufferFields DEF InOrder
    <2>2. {i \in Index : isValidIndex(i)} = {indexForNth(n) : n \in 0 .. Len(order) - 1}
      BY <1>1, <1>3, <1>4
    <2>3. ASSUME NEW n \in 1 .. Len(order)
          PROVE  rob.entries[indexForNth(n - 1)].writeDestination = order[n].rd
      <3>1. n - 1 \in Places(Buffer) /\ (n - 1) + 1 = n
        BY <1>1
      <3>2. Entry(Buffer, n - 1).writeDestination = Rd(Buffer, n - 1)
        BY <3>1, <1>0 DEF InOrder
      <3> QED BY <3>1, <3>2, <1>3, <1>5, BufferFields DEF Rd
    <2> QED BY <2>1, <2>2, <2>3 DEF RobInOrder
  <1>10. \A s \in Busy : \E n \in Places(Buffer) : Works(Buffer, rs[s], n)
    BY <1>0 DEF StationsOK, Busy, Idle
  <1>11. StationsOwnEntries
    <2>1. ASSUME NEW s \in Busy, NEW t \in Busy, s # t
          PROVE  rs[s].robEntryIndex # rs[t].robEntryIndex
      BY <2>1, <1>0 DEF StationsOK, Busy, Idle
    <2>2. ASSUME NEW s \in Busy
          PROVE  LET i == rs[s].robEntryIndex IN
                 /\ isValidIndex(i) /\ ~rob.entries[i].ready
                 /\ order[Age(i) + 1] = rs[s].ir
                 /\ \A o \in {rs[s].rs1, rs[s].rs2} : o.waiting =>
                      /\ isValidIndex(o.index) /\ ~rob.entries[o.index].ready
                      /\ Age(o.index) < Age(i)
      <3> DEFINE i == rs[s].robEntryIndex
      <3>1. PICK n \in Places(Buffer) : Works(Buffer, rs[s], n)
        BY <1>10
      <3>2. i = Pos(Buffer, n) /\ ~ Ready(Buffer, n) /\ rs[s].ir = order[n + 1]
        BY <3>1, BufferFields DEF Works
      <3>3. isValidIndex(i) /\ ~rob.entries[i].ready /\ Age(i) = n /\ order[Age(i) + 1] = rs[s].ir
        BY <3>2, <1>3, <1>7
      <3>4. ASSUME NEW r, NEW j, Awaits(Buffer, n, r, j)
            PROVE  isValidIndex(j) /\ ~rob.entries[j].ready /\ Age(j) < n
        <4>1. PICK m \in 0 .. n - 1 : j = Pos(Buffer, m) /\ ~ Ready(Buffer, m)
          BY <3>4 DEF Awaits
        <4>2. m \in Places(Buffer) /\ m < n
          BY <1>1
        <4> QED BY <4>1, <4>2, <1>3, <1>7
      <3>5. rs[s].rs1.waiting \in BOOLEAN /\ rs[s].rs2.waiting \in BOOLEAN
        BY <1>0 DEF Busy, Types, StationRecord, StationOf, OperandOf
      <3>6. ASSUME NEW o \in {rs[s].rs1, rs[s].rs2}, o.waiting
            PROVE  isValidIndex(o.index) /\ ~rob.entries[o.index].ready /\ Age(o.index) < n
        <4>1. Operands(Buffer, rs[s], n)
          BY <3>1, <3>5, <3>6 DEF Works
        <4>2. CASE o = rs[s].rs1
          BY <4>1, <4>2, <3>4, <3>5, <3>6 DEF Operands, Op
        <4>3. CASE o = rs[s].rs2
          BY <4>1, <4>3, <3>4, <3>5, <3>6 DEF Operands, Op
        <4> QED BY <4>2, <4>3
      <3> QED BY <3>3, <3>6
    <2>3. ASSUME NEW i \in Index, isValidIndex(i), ~rob.entries[i].ready
          PROVE  \E s \in Busy : rs[s].robEntryIndex = i
      <3>1. PICK n \in Places(Buffer) : i = Pos(Buffer, n)
        BY <2>3, <1>4
      <3>2. PICK s \in Station : Works(Buffer, rs[s], n)
        BY <3>1, <2>3, <1>7, <1>0 DEF StationsOK
      <3> QED BY <3>1, <3>2 DEF Works, Busy
    <2> QED BY <2>1, <2>2, <2>3 DEF StationsOwnEntries
  <1> QED BY <1>8, <1>9, <1>11 DEF RobConsistent

-----------------------------------------------------------------------------
(* What the invariant says: the oldest entry is what the program does.     *)

LEMMA ReadyIsRight ==
  ASSUME DInv, Retires
  PROVE  LET i == Head(order) IN
         /\ order # <<>> /\ i \in Issuable
         /\ oldestEntry \in RobEntry
         /\ oldestEntry.writeDestination = i.rd
         /\ oldestEntry.writesRegister = WritesRd(i)
         /\ oldestEntry.performsJump = Jumps(i, registers)
         /\ WritesRd(i) => oldestEntry.writeValue
                              = Result(i, ReadReg(registers, i.rs1), ReadReg(registers, i.rs2), i.imm)
  <1> DEFINE i == Head(order)
             e == oldestEntry
  <1>0. Types /\ Counted /\ BufferOK(Buffer) /\ InOrder(Buffer) /\ Results(Buffer)
    BY DEF DInv, BufferOK
  <1>1. /\ BufferT(Buffer) /\ Len(order) \in Nat /\ Places(Buffer) = 0 .. Len(order) - 1
    BY <1>0, BufferType
  <1>2. Len(order) # 0 /\ e = Entry(Buffer, 0) /\ e.ready
    BY <1>0, ReadBuffer DEF Retires
  <1>3. 0 \in Places(Buffer) /\ order # <<>> /\ i = Buffer.q[0 + 1]
    BY <1>1, <1>2, BufferFields DEF BufferT
  <1>4. e \in RobEntry /\ i \in Issuable /\ e.writeDestination = Rd(Buffer, 0)
    BY <1>0, <1>1, <1>2, <1>3, PlaceType DEF InOrder
  <1>5. e.writeDestination = i.rd
    BY <1>3, <1>4 DEF Rd
  <1>6. Ready(Buffer, 0)
    BY <1>2, <1>4 DEF Ready, RobEntry
  <1>7. Right(Buffer, 0, e)
    BY <1>0, <1>2, <1>3, <1>6 DEF Results
  <1>8. PICK a, b \in Value : /\ UsesRs1(i) => Sourced(Buffer, 0, i.rs1, a)
                              /\ UsesRs2(i) => Sourced(Buffer, 0, i.rs2, b)
                              /\ e.performsJump = TakesJump(i, a, b)
                              /\ WritesRd(i) => e.writeValue = Result(i, a, b, i.imm)
    BY <1>3, <1>7 DEF Right
  <1>9. ASSUME NEW r, NEW d, Sourced(Buffer, 0, r, d)
        PROVE  d = ReadReg(registers, r)
    BY <1>9, BufferFields DEF Sourced, ReadReg
  <1>10. e.writesRegister = WritesRd(i)
    BY <1>3, <1>7 DEF Right
  <1> DEFINE a0 == ReadReg(registers, i.rs1)
             b0 == ReadReg(registers, i.rs2)
  <1>11. (UsesRs1(i) => a = a0) /\ (UsesRs2(i) => b = b0)
    BY <1>8, <1>9
  <1> HIDE DEF a0, b0, i, e
  <1>12. TakesJump(i, a, b) = TakesJump(i, a0, b0)
    BY <1>11 DEF TakesJump, UsesRs1, UsesRs2
  <1>13. Result(i, a, b, i.imm) = Result(i, a0, b0, i.imm)
    BY <1>11 DEF Result, UsesRs1, UsesRs2
  <1>14. e.performsJump = Jumps(i, registers)
    BY <1>8, <1>12 DEF Jumps, a0, b0
  <1> QED BY <1>3, <1>4, <1>5, <1>8, <1>10, <1>13, <1>14 DEF i, e, a0, b0

LEMMA RetirementStep ==
  ASSUME DInv, [Next]_vars
  PROVE  [Retires => /\ SameRegs(registers', Execute(Head(order), registers, Head(order).imm, 0, 0))
                     /\ oldestEntry.performsJump = Jumps(Head(order), registers)]_vars
  <1> SUFFICES ASSUME Next, Retires
               PROVE  /\ SameRegs(registers', Execute(Head(order), registers, Head(order).imm, 0, 0))
                      /\ oldestEntry.performsJump = Jumps(Head(order), registers)
    OBVIOUS
  <1> DEFINE i == Head(order)
             e == oldestEntry
             a == ReadReg(registers, i.rs1)
             b == ReadReg(registers, i.rs2)
             v == CASE i.op = "LW" -> 0
                    [] i.op = "CSRRW" -> 0
                    [] OTHER -> Result(i, a, b, i.imm)
  <1>1. registers' = IF e.writesRegister
                     THEN [registers EXCEPT ![e.writeDestination] = e.writeValue] ELSE registers
    BY DEF Next, Cycle
  <1>2. Execute(i, registers, i.imm, 0, 0)
          = IF ~ WritesRd(i) THEN registers ELSE WriteReg(registers, i.rd, v)
    BY DEF Execute
  <1>3. v = Result(i, a, b, i.imm)
    BY DEF Result
  <1>4. /\ e.writeDestination = i.rd /\ e.writesRegister = WritesRd(i)
        /\ WritesRd(i) => e.writeValue = Result(i, a, b, i.imm)
        /\ e.performsJump = Jumps(i, registers)
    BY ReadyIsRight
  <1>5. registers \in [Reg -> Value]
    BY DEF DInv, Types
  <1> HIDE DEF i, e, a, b, v
  <1>6. ASSUME NEW r \in Reg \ {0}
        PROVE  registers'[r] = Execute(i, registers, i.imm, 0, 0)[r]
    BY <1>1, <1>2, <1>3, <1>4, <1>5 DEF WriteReg
  <1> QED BY <1>4, <1>6 DEF SameRegs, i, e

-----------------------------------------------------------------------------
(* Stations, while the buffer changes under them.                          *)

(* A station that works knows its instruction's registers. *)
LEMMA WorksType ==
  ASSUME NEW B, BufferT(B), InOrder(B), NEW x, NEW n, Works(B, x, n)
  PROVE  /\ n \in Places(B) /\ n \in 0 .. Len(B.q) /\ n \in 0 .. B.c - 1 /\ x.ir \in Issuable
         /\ x.ir.rs1 \in Reg /\ x.ir.rs2 \in Reg /\ UsesRs2(x.ir) \in BOOLEAN /\ ~ Idle(x)
  <1>1. n \in Places(B) /\ x.ir = B.q[n + 1]
    BY DEF Works
  <1>2. n \in 0 .. Len(B.q)
    BY <1>1 DEF Places, BufferT
  <1>3. x.ir \in Issuable /\ n \in 0 .. B.c - 1
    BY <1>1, PlaceType
  <1>4. x.ir.rs1 \in Reg /\ x.ir.rs2 \in Reg
    BY <1>3 DEF Issuable, Instruction
  <1>5. ~ Idle(x)
    BY DEF Works, Idle
  <1> QED BY <1>1, <1>2, <1>3, <1>4, <1>5 DEF UsesRs2

(* What a message does to a station. *)
LEMMA HearType ==
  ASSUME NEW P, NEW I, 0 \in I, NEW x \in StationOf(P, I), NEW z \in Message
  PROVE  LET r1 == Heard(x.rs1, z.robIndex, z.writeValue)
             r2 == Heard(x.rs2, z.robIndex, z.writeValue)
             y == onCdbMessage(x, z)
         IN  /\ r1 \in OperandOf(I) /\ r2 \in OperandOf(I) /\ y \in StationOf(P, I)
             /\ x.state # "WAITING_FOR_ARGS" => y = x
             /\ y.ir = x.ir /\ y.robEntryIndex = x.robEntryIndex
             /\ x.state = "WAITING_FOR_ARGS" =>
                  /\ y.rs1 = r1 /\ y.rs2 = r2
                  /\ y.state = IF r1.waiting \/ r2.waiting THEN "WAITING_FOR_ARGS" ELSE "EXECUTING"
  <1> DEFINE r1 == Heard(x.rs1, z.robIndex, z.writeValue)
             r2 == Heard(x.rs2, z.robIndex, z.writeValue)
             y == onCdbMessage(x, z)
  <1>1. x.rs1 \in OperandOf(I) /\ x.rs2 \in OperandOf(I) /\ z.writeValue \in Value
    BY DEF StationOf, Message
  <1>2. Data(z.writeValue) \in OperandOf(I)
    BY <1>1 DEF Data, OperandOf
  <1>3. r1 \in OperandOf(I) /\ r2 \in OperandOf(I)
    BY <1>1, <1>2 DEF Heard
  <1>4. y = IF x.state # "WAITING_FOR_ARGS" THEN x
            ELSE [x EXCEPT !.rs1 = r1, !.rs2 = r2,
                           !.state = IF r1.waiting \/ r2.waiting THEN x.state ELSE "EXECUTING"]
    BY DEF onCdbMessage, Heard
  <1> HIDE DEF r1, r2, y
  <1>5. CASE x.state # "WAITING_FOR_ARGS"
    BY <1>3, <1>4, <1>5 DEF r1, r2, y
  <1>6. CASE x.state = "WAITING_FOR_ARGS"
    <2> DEFINE t == IF r1.waiting \/ r2.waiting THEN "WAITING_FOR_ARGS" ELSE "EXECUTING"
    <2>1. y = [x EXCEPT !.rs1 = r1, !.rs2 = r2, !.state = t]
      BY <1>4, <1>6
    <2>2. t \in {"WAITING_FOR_ARGS", "EXECUTING"}
      OBVIOUS
    <2> HIDE DEF t
    <2>3. /\ y \in StationOf(P, I) /\ y.ir = x.ir /\ y.robEntryIndex = x.robEntryIndex
          /\ y.rs1 = r1 /\ y.rs2 = r2 /\ y.state = t
      BY <2>1, <2>2, <1>3 DEF StationOf
    <2> QED BY <2>3, <1>3, <1>6 DEF r1, r2, y, t
  <1> QED BY <1>5, <1>6

(* A station that works still does when it has heard another's message. *)
LEMMA WorksMarks ==
  ASSUME NEW B, BufferT(B), InOrder(B), NEW k \in Places(B), ~ Ready(B, k), NEW D,
         NEW z \in Message, Marks(B, D, k, z), z.robIndex = Pos(B, k),
         NEW P, NEW I, 0 \in I, NEW x \in StationOf(P, I), NEW n, n # k, Works(B, x, n)
  PROVE  Works(D, onCdbMessage(x, z), n)
  <1> DEFINE r1 == Heard(x.rs1, z.robIndex, z.writeValue)
             r2 == Heard(x.rs2, z.robIndex, z.writeValue)
             y == onCdbMessage(x, z)
  <1>1. /\ n \in Places(B) /\ n \in 0 .. Len(B.q) /\ x.ir.rs1 \in Reg /\ x.ir.rs2 \in Reg
        /\ UsesRs2(x.ir) \in BOOLEAN /\ n \in Nat
    BY WorksType, Len(B.q) \in Nat DEF BufferT
  <1>2. /\ x.robEntryIndex = Pos(B, n) /\ ~ Ready(B, n) /\ x.ir = B.q[n + 1]
    BY DEF Works
  <1>3. /\ Places(D) = Places(B) /\ D.q = B.q /\ Pos(D, n) = Pos(B, n) /\ Entry(D, n) = Entry(B, n)
    <2>1. Places(D) = Places(B) /\ D.q = B.q /\ \A m \in Nat : Pos(D, m) = Pos(B, m)
      BY MarksFrame
    <2>2. \A m \in Places(B) : m # k => Entry(D, m) = Entry(B, m)
      BY MarksFrame
    <2> QED BY <2>1, <2>2, <1>1
  <1>4. /\ n \in Places(D) /\ x.robEntryIndex = Pos(D, n) /\ ~ Ready(D, n) /\ x.ir = D.q[n + 1]
    BY <1>1, <1>2, <1>3 DEF Ready
  <1>5. /\ x.state # "WAITING_FOR_ARGS" => y = x
        /\ y.ir = x.ir /\ y.robEntryIndex = x.robEntryIndex
        /\ x.state = "WAITING_FOR_ARGS" =>
             /\ y.rs1 = r1 /\ y.rs2 = r2
             /\ y.state = IF r1.waiting \/ r2.waiting THEN "WAITING_FOR_ARGS" ELSE "EXECUTING"
        /\ r1.waiting \in BOOLEAN /\ r2.waiting \in BOOLEAN
    BY HearType DEF OperandOf
  <1>6. x.rs1.waiting \in BOOLEAN /\ x.rs2.waiting \in BOOLEAN
    BY DEF StationOf, OperandOf
  <1>7. ASSUME Operands(B, x, n)
        PROVE  Op(D, n, x.ir.rs1, TRUE, r1) /\ Op(D, n, x.ir.rs2, UsesRs2(x.ir), r2)
    <2>1. Op(B, n, x.ir.rs1, TRUE, x.rs1) /\ Op(B, n, x.ir.rs2, UsesRs2(x.ir), x.rs2)
      BY <1>7 DEF Operands
    <2>2. ASSUME NEW r, NEW u, NEW o, MayWait(o), Op(B, n, r, u, o)
          PROVE  Op(D, n, r, u, Heard(o, Pos(B, k), z.writeValue))
      BY <1>1, <2>2, MarksOperand
    <2>3. MayWait(x.rs1) /\ MayWait(x.rs2)
      BY <1>6 DEF MayWait
    <2> QED BY <2>1, <2>2, <2>3
  <1>8. CASE x.state = "WAITING_FOR_ARGS"
    <2>1. Operands(B, x, n)
      BY <1>8 DEF Works
    <2>2. Operands(D, y, n)
      BY <2>1, <1>5, <1>7, <1>8 DEF Operands
    <2> QED BY <2>2, <1>4, <1>5, <1>8 DEF Works
  <1>9. CASE x.state = "EXECUTING"
    <2>1. Operands(B, x, n) /\ x.rs1.waiting = FALSE /\ x.rs2.waiting = FALSE
      BY <1>9 DEF Works
    <2>2. r1 = x.rs1 /\ r2 = x.rs2
      BY <2>1 DEF Heard
    <2>3. Operands(D, x, n)
      BY <2>1, <2>2, <1>7 DEF Operands
    <2> QED BY <2>1, <2>3, <1>4, <1>5, <1>9 DEF Works
  <1>10. CASE x.state = "BROADCASTING_RESULT"
    <2>1. Sends(B, x, n) /\ x.rs1.waiting = FALSE /\ x.rs2.waiting = FALSE
      BY <1>10 DEF Works
    <2>2. Sends(D, x, n)
      BY <2>1, <1>1, <1>3, MarksRight DEF Sends
    <2> QED BY <2>1, <2>2, <1>4, <1>5, <1>10 DEF Works
  <1> QED BY <1>8, <1>9, <1>10 DEF Works

LEMMA WorksDrops ==
  ASSUME NEW B, BufferT(B), BufferOK(B), B.q # <<>>, Ready(B, 0), NEW D, Drops(B, D),
         NEW x, NEW n, Works(B, x, n)
  PROVE  n - 1 \in Places(D) /\ Works(D, x, n - 1)
  <1>0. InOrder(B)
    BY DEF BufferOK
  <1>1. /\ n \in Places(B) /\ n \in 0 .. B.c - 1 /\ n \in 0 .. Len(B.q)
        /\ x.ir.rs1 \in Reg /\ x.ir.rs2 \in Reg /\ UsesRs2(x.ir) \in BOOLEAN
    BY <1>0, WorksType
  <1>2. /\ x.robEntryIndex = Pos(B, n) /\ ~ Ready(B, n) /\ x.ir = B.q[n + 1]
    BY DEF Works
  <1>3. n # 0
    BY <1>2
  <1>4. /\ B.c \in Nat /\ Len(B.q) \in Nat /\ Len(D.q) = Len(B.q) - 1
        /\ Places(D) = 0 .. Len(D.q) - 1 /\ Places(B) = 0 .. Len(B.q) - 1
    BY <1>0, DropsFrame DEF BufferT, Places
  <1>5. PICK m \in 0 .. B.c - 1 : m = n - 1 /\ m + 1 = n /\ m + 2 = n + 1 /\ m \in Places(D)
                                  /\ m \in 0 .. Len(D.q)
    BY <1>1, <1>3, <1>4
  <1>6. Pos(D, m) = Pos(B, n) /\ Entry(D, m) = Entry(B, n) /\ D.q[m + 1] = B.q[n + 1]
    BY <1>0, <1>5, DropsFrame
  <1>7. /\ x.robEntryIndex = Pos(D, m) /\ ~ Ready(D, m) /\ x.ir = D.q[m + 1]
    BY <1>2, <1>6 DEF Ready
  <1>8. Operands(B, x, n) => Operands(D, x, m)
    <2> HAVE Operands(B, x, n)
    <2>1. Op(B, n, x.ir.rs1, TRUE, x.rs1) /\ Op(B, n, x.ir.rs2, UsesRs2(x.ir), x.rs2)
      BY DEF Operands
    <2>2. \A r \in Reg : \A u, o : Op(B, n, r, u, o) => Op(D, m, r, u, o)
      BY <1>5, DropsOperand
    <2> QED BY <2>1, <2>2, <1>1 DEF Operands
  <1>9. Sends(B, x, n) => Sends(D, x, m)
    BY <1>5, <1>6, DropsRight DEF Sends
  <1>10. Works(D, x, m)
    BY <1>5, <1>7, <1>8, <1>9 DEF Works
  <1> QED BY <1>5, <1>10

LEMMA WorksAdds ==
  ASSUME NEW B, BufferT(B), InOrder(B), Len(B.q) < B.c, NEW i \in Issuable, NEW D, Adds(B, D, i),
         NEW x, NEW n, Works(B, x, n)
  PROVE  Works(D, x, n)
  <1>1. /\ n \in Places(B) /\ n \in 0 .. Len(B.q) /\ n \in Nat
    BY WorksType, Len(B.q) \in Nat DEF BufferT
  <1>2. /\ x.robEntryIndex = Pos(B, n) /\ ~ Ready(B, n) /\ x.ir = B.q[n + 1]
    BY DEF Works
  <1>3. /\ Pos(D, n) = Pos(B, n) /\ Entry(D, n) = Entry(B, n) /\ D.q[n + 1] = B.q[n + 1]
        /\ n \in Places(D)
    BY <1>1, AddsFrame
  <1>4. Operands(B, x, n) => Operands(D, x, n)
    BY <1>1, AddsKeeps DEF Operands
  <1>5. Sends(B, x, n) => Sends(D, x, n)
    BY <1>1, <1>3, AddsRight DEF Sends
  <1> QED BY <1>2, <1>3, <1>4, <1>5 DEF Works, Ready

-----------------------------------------------------------------------------
(* All the stations, while the buffer changes under them.                  *)

LEMMA WorksOnce ==
  ASSUME NEW B, BufferT(B), InOrder(B), NEW x, NEW m, NEW n, Works(B, x, m), Works(B, x, n)
  PROVE  m = n
  <1>1. m \in 0 .. B.c - 1 /\ n \in 0 .. B.c - 1
    BY WorksType
  <1>2. Pos(B, m) = Pos(B, n)
    BY DEF Works
  <1> QED BY <1>1, <1>2, PosInjective

(* Station g sends its message, and the others hear it. *)
LEMMA StationsMarks ==
  ASSUME NEW B, BufferT(B), BufferOK(B), NEW k \in Places(B), ~ Ready(B, k), NEW D,
         NEW z \in Message, Marks(B, D, k, z), z.robIndex = Pos(B, k),
         NEW P, NEW I, 0 \in I, NEW x \in [Station -> StationOf(P, I)], StationsOK(B, x),
         NEW g \in Station, Works(B, x[g], k), NEW y, Idle(y[g]),
         \A s \in Station \ {g} : ~ Idle(x[s]) => y[s] = onCdbMessage(x[s], z),
         \A s \in Station \ {g} : Idle(x[s]) => Idle(y[s])
  PROVE  StationsOK(D, y)
  <1>0. InOrder(B)
    BY DEF BufferOK
  <1>1. Places(D) = Places(B)
    BY <1>0, MarksFrame
  <1>2. ASSUME NEW s \in Station \ {g}, NEW n, Works(B, x[s], n)
        PROVE  Works(D, y[s], n) /\ n # k
    <2>1. ~ Idle(x[s]) /\ ~ Idle(x[g])
      BY <1>0, <1>2, WorksType
    <2>2. n # k
      BY <2>1, <1>2 DEF StationsOK, Works
    <2>3. x[s] \in StationOf(P, I)
      OBVIOUS
    <2>4. Works(D, onCdbMessage(x[s], z), n)
      BY <2>2, <2>3, <1>0, <1>2, WorksMarks
    <2> QED BY <2>1, <2>2, <2>4
  <1>3. \A s \in Station : Idle(y[s]) \/ \E n \in Places(D) : Works(D, y[s], n)
    BY <1>1, <1>2 DEF StationsOK
  <1>4. ASSUME NEW n \in Places(D), ~ Ready(D, n)
        PROVE  \E s \in Station : Works(D, y[s], n)
    <2>1. n # k
      BY <1>0, <1>4, MarksFrame
    <2>2. ~ Ready(B, n)
      <3>1. Entry(D, n) = Entry(B, n)
        BY <2>1, <1>0, <1>1, MarksFrame
      <3> QED BY <3>1, <1>4 DEF Ready
    <2>3. PICK s \in Station : Works(B, x[s], n)
      BY <2>2, <1>1 DEF StationsOK
    <2>4. s # g
      BY <2>1, <2>3, <1>0, WorksOnce
    <2> QED BY <2>3, <2>4, <1>2
  <1>5. ASSUME NEW s \in Station, ~ Idle(y[s])
        PROVE  ~ Idle(x[s]) /\ y[s].robEntryIndex = x[s].robEntryIndex
    <2>1. s \in Station \ {g} /\ ~ Idle(x[s]) /\ y[s] = onCdbMessage(x[s], z)
      BY <1>5
    <2>2. x[s] \in StationOf(P, I)
      OBVIOUS
    <2> QED BY <2>1, <2>2, HearType
  <1>6. \A s, t \in Station : ~ Idle(y[s]) /\ ~ Idle(y[t])
                                 /\ y[s].robEntryIndex = y[t].robEntryIndex => s = t
    BY <1>5 DEF StationsOK
  <1> QED BY <1>3, <1>4, <1>6 DEF StationsOK

LEMMA StationsDrops ==
  ASSUME NEW B, BufferT(B), BufferOK(B), B.q # <<>>, Ready(B, 0), NEW D, Drops(B, D),
         NEW x, StationsOK(B, x)
  PROVE  StationsOK(D, x)
  <1>0. InOrder(B)
    BY DEF BufferOK
  <1>1. \A s \in Station : Idle(x[s]) \/ \E n \in Places(D) : Works(D, x[s], n)
    BY WorksDrops DEF StationsOK
  <1>2. ASSUME NEW n \in Places(D), ~ Ready(D, n)
        PROVE  \E s \in Station : Works(D, x[s], n)
    <2>1. /\ n + 1 \in Places(B) /\ Len(B.q) \in 1 .. B.c /\ Len(D.q) = Len(B.q) - 1 /\ B.c \in Nat
      BY <1>0, DropsFrame DEF BufferT
    <2>2. n \in 0 .. B.c - 1 /\ (n + 1) - 1 = n
      BY <2>1 DEF Places
    <2>3. Entry(D, n) = Entry(B, n + 1)
      BY <2>2, <1>0, DropsFrame
    <2>4. ~ Ready(B, n + 1)
      BY <2>3, <1>2 DEF Ready
    <2>5. PICK s \in Station : Works(B, x[s], n + 1)
      BY <2>1, <2>4 DEF StationsOK
    <2>6. Works(D, x[s], (n + 1) - 1)
      BY <2>5, WorksDrops
    <2> QED BY <2>2, <2>6
  <1> QED BY <1>1, <1>2 DEF StationsOK

(* Station d takes the instruction that is pushed. *)
LEMMA StationsAdds ==
  ASSUME NEW B, BufferT(B), InOrder(B), Len(B.q) < B.c, NEW i \in Issuable, NEW D, Adds(B, D, i),
         NEW x, StationsOK(B, x), NEW d \in Station, Idle(x[d]),
         NEW y, Works(D, y[d], Len(B.q)), \A s \in Station \ {d} : y[s] = x[s]
  PROVE  StationsOK(D, y)
  <1>1. /\ Places(D) = Places(B) \cup {Len(B.q)} /\ Len(B.q) \in 0 .. B.c - 1
        /\ BufferT(D) /\ D.c = B.c /\ ~ Ready(D, Len(B.q)) /\ Len(D.q) = Len(B.q) + 1
        /\ \A n \in Places(B) : Entry(D, n) = Entry(B, n)
    BY AddsFrame
  <1>2. \A s \in Station : \A n : Works(B, x[s], n) => Works(D, x[s], n) /\ s # d
    BY WorksAdds, WorksType
  <1>3. \A s \in Station : Idle(y[s]) \/ \E n \in Places(D) : Works(D, y[s], n)
    BY <1>1, <1>2 DEF StationsOK
  <1>4. ASSUME NEW n \in Places(D), ~ Ready(D, n)
        PROVE  \E s \in Station : Works(D, y[s], n)
    <2>1. CASE n = Len(B.q)
      BY <2>1
    <2>2. CASE n # Len(B.q)
      <3>1. n \in Places(B) /\ ~ Ready(B, n)
        BY <2>2, <1>1, <1>4 DEF Ready
      <3>2. PICK s \in Station : Works(B, x[s], n)
        BY <3>1 DEF StationsOK
      <3> QED BY <3>2, <1>2
    <2> QED BY <2>1, <2>2
  <1>5. ASSUME NEW s \in Station \ {d}, ~ Idle(y[s])
        PROVE  y[s].robEntryIndex # y[d].robEntryIndex
    <2>1. PICK n \in Places(B) : Works(B, x[s], n)
      BY <1>5 DEF StationsOK
    <2>2. n \in 0 .. B.c - 1 /\ n # Len(B.q)
      BY <2>1, <1>1, WorksType DEF Places
    <2>3. Pos(B, n) # Pos(B, Len(B.q))
      BY <2>2, <1>1, PosInjective
    <2>4. Pos(D, Len(B.q)) = Pos(B, Len(B.q))
      BY <1>1, AddsFrame, Len(B.q) \in Nat DEF BufferT
    <2> QED BY <2>1, <2>3, <2>4 DEF Works
  <1>6. \A s, t \in Station : ~ Idle(y[s]) /\ ~ Idle(y[t])
                                 /\ y[s].robEntryIndex = y[t].robEntryIndex => s = t
    BY <1>5 DEF StationsOK
  <1> QED BY <1>3, <1>4, <1>6 DEF StationsOK

-----------------------------------------------------------------------------
(* The common data bus.                                                    *)

(* Types of what is computed. *)
LEMMA ZeroValue == 0 \in Value /\ 0 \in Reg
  BY ISAAssumption DEF Value, Reg

LEMMA ResultType ==
  ASSUME NEW i \in Instruction, NEW a \in Value, NEW b \in Value
  PROVE  Result(i, a, b, i.imm) \in Value
  <1>1. i.imm \in Nat /\ a \in Nat /\ b \in Nat
    BY DEF Instruction, Value
  <1>2. \A z \in Nat : z % Values \in Value
    BY ISAAssumption DEF Value
  <1>3. a + i.imm \in Nat /\ a * b \in Nat
    BY <1>1
  <1>4. (a + i.imm) % Values \in Value /\ (a * b) % Values \in Value /\ i.imm % Values \in Value
    BY <1>1, <1>2, <1>3
  <1> QED BY <1>4, ZeroValue DEF Result

LEMMA StationType ==
  ASSUME Types, NEW s \in Station
  PROVE  /\ rs[s] \in StationOf(Program, Index) /\ Program \subseteq Instruction
         /\ rs[s].state \in {"IDLE", "WAITING_FOR_ARGS", "EXECUTING", "BROADCASTING_RESULT"}
         /\ rs[s].ir \in Program /\ rs[s].rs1 \in OperandOf(Index) /\ rs[s].rs2 \in OperandOf(Index)
         /\ rs[s].robEntryIndex \in Index /\ rs[s].resultCdbMessage \in Message
         /\ rs[s].rs1.data \in Value /\ rs[s].rs2.data \in Value
  <1>1. rs[s] \in StationOf(Program, Index)
    BY DEF Types, StationRecord
  <1>2. NOP \in Instruction
    BY ZeroValue DEF NOP, Inst, Instruction
  <1>3. Program \subseteq Instruction
    BY <1>2, BufferType DEF Program
  <1> QED BY <1>1, <1>3 DEF StationOf, OperandOf

LEMMA OutcomeType ==
  ASSUME Types, NEW s \in Station, NEW junk \in Value
  PROVE  /\ Outcome(s, junk) \in Message /\ Outcome(s, junk).robIndex = rs[s].robEntryIndex
         /\ payload(s, junk) \in Message
  <1>1. PICK i, a, b : i = rs[s].ir /\ a = rs[s].rs1.data /\ b = rs[s].rs2.data
    OBVIOUS
  <1>2. i \in Instruction /\ a \in Value /\ b \in Value /\ rs[s].robEntryIndex \in Nat
    BY <1>1, StationType, BufferType
  <1>3. PICK v : v = IF WritesRd(i) THEN Result(i, a, b, i.imm) ELSE junk
    OBVIOUS
  <1>4. v \in Value
    BY <1>2, <1>3, ResultType
  <1>5. Outcome(s, junk) = [robIndex |-> rs[s].robEntryIndex, writesRegister |-> WritesRd(i),
                            performsJump |-> TakesJump(i, a, b), writeValue |-> v]
    BY <1>1, <1>3 DEF Outcome
  <1>6. WritesRd(i) \in BOOLEAN /\ TakesJump(i, a, b) \in BOOLEAN
    BY DEF WritesRd, TakesJump
  <1>7. Outcome(s, junk) \in Message /\ Outcome(s, junk).robIndex = rs[s].robEntryIndex
    BY <1>2, <1>4, <1>5, <1>6 DEF Message
  <1> QED BY <1>7, StationType DEF payload

(* The result of an instruction that has its operands is right. *)
LEMMA OutcomeRight ==
  ASSUME Types, InOrder(Buffer), NEW s \in Station, NEW junk \in Value, NEW n,
         Works(Buffer, rs[s], n), rs[s].state = "EXECUTING"
  PROVE  Outcome(s, junk).robIndex = Pos(Buffer, n) /\ Right(Buffer, n, Outcome(s, junk))
  <1>1. PICK i, a, b : i = rs[s].ir /\ a = rs[s].rs1.data /\ b = rs[s].rs2.data
    OBVIOUS
  <1>2. /\ rs[s].robEntryIndex = Pos(Buffer, n) /\ i = Buffer.q[n + 1]
        /\ Operands(Buffer, rs[s], n) /\ rs[s].rs1.waiting = FALSE /\ rs[s].rs2.waiting = FALSE
    BY <1>1 DEF Works
  <1>3. Sourced(Buffer, n, i.rs1, a) /\ (UsesRs2(i) => Sourced(Buffer, n, i.rs2, b))
    BY <1>1, <1>2 DEF Operands, Op
  <1>4. /\ Outcome(s, junk).writesRegister = WritesRd(i)
        /\ Outcome(s, junk).performsJump = TakesJump(i, a, b)
        /\ WritesRd(i) => Outcome(s, junk).writeValue = Result(i, a, b, i.imm)
    BY <1>1 DEF Outcome
  <1>5. a \in Value /\ b \in Value
    BY <1>1, StationType
  <1>6. Right(Buffer, n, Outcome(s, junk))
    BY <1>2, <1>3, <1>4, <1>5 DEF Right
  <1> QED BY <1>2, <1>6, OutcomeType

(* The arbiter serves one of those that ask. *)
LEMMA GrantedOne ==
  ASSUME Types, NEW mulReady
  PROVE  /\ \A s, t \in Station : Granted(s, mulReady) /\ Granted(t, mulReady) => s = t
         /\ \A s \in Station : cdbValid(s, mulReady) => \E t \in Station : Granted(t, mulReady)
         /\ \A s \in Station : Granted(s, mulReady) => cdbValid(s, mulReady)
  <1>1. maskLocked \in Station
    BY DEF Types
  <1>2. \A s, t \in Station : Granted(s, mulReady) /\ Granted(t, mulReady) => s = t
    BY <1>1 DEF Granted, Station
  <1>3. \A s \in Station : cdbValid(s, mulReady) => \E t \in Station : Granted(t, mulReady)
    BY <1>1 DEF Granted, Station
  <1> QED BY <1>2, <1>3 DEF Granted

(* What is sent is right. *)
LEMMA PayloadRight ==
  ASSUME Types, BufferOK(Buffer), StationsOK(Buffer, rs), NEW mulReady, NEW junk \in Value,
         NEW s \in Station, Granted(s, mulReady)
  PROVE  \E n \in Places(Buffer) : /\ Works(Buffer, rs[s], n)
                                   /\ payload(s, junk).robIndex = Pos(Buffer, n)
                                   /\ Right(Buffer, n, payload(s, junk))
  <1>0. InOrder(Buffer)
    BY DEF BufferOK
  <1>1. rs[s].state \in {"EXECUTING", "BROADCASTING_RESULT"}
    BY DEF Granted, cdbValid, isDone
  <1>2. PICK n \in Places(Buffer) : Works(Buffer, rs[s], n)
    BY <1>1 DEF StationsOK, Idle
  <1>3. CASE rs[s].state = "EXECUTING"
    <2>1. payload(s, junk) = Outcome(s, junk)
      BY <1>3 DEF payload
    <2> QED BY <2>1, <1>0, <1>2, <1>3, OutcomeRight
  <1>4. CASE rs[s].state = "BROADCASTING_RESULT"
    <2>1. payload(s, junk) = rs[s].resultCdbMessage
      BY <1>4 DEF payload
    <2>2. Sends(Buffer, rs[s], n)
      BY <1>2, <1>4 DEF Works
    <2> QED BY <2>1, <2>2, <1>2 DEF Sends
  <1> QED BY <1>1, <1>3, <1>4

-----------------------------------------------------------------------------
(* A dispatch.                                                             *)

(* Station x has taken instruction i for entry p. *)
Taken(x, i, p) ==
    /\ x.ir = i /\ x.robEntryIndex = p
    /\ \/ x.state = "WAITING_FOR_ARGS" /\ (x.rs1.waiting = TRUE \/ x.rs2.waiting = TRUE)
       \/ x.state = "EXECUTING" /\ x.rs1.waiting = FALSE /\ x.rs2.waiting = FALSE

LEMMA IdleType ==
  ASSUME Types
  PROVE  IdleStation \in StationOf(Program, Index) /\ IdleStation.state = "IDLE"
  <1>1. 0 \in Index /\ 0 \in Value /\ 0 \in Nat /\ NOP \in Program
    BY BufferType, ZeroValue DEF Program
  <1>2. Data(0) \in OperandOf(Index)
    BY <1>1 DEF Data, OperandOf
  <1>3. NoMessage \in Message
    BY <1>1 DEF NoMessage, Message
  <1> QED BY <1>1, <1>2, <1>3 DEF IdleStation, StationOf

LEMMA DispatchedRight ==
  ASSUME Types, Counted, BufferOK(Buffer), decode.ir \in Issuable
  PROVE  /\ Dispatched \in StationOf(Program, Index)
         /\ Taken(Dispatched, decode.ir, rob.newestIndex)
         /\ Operands(Buffer, Dispatched, Len(order))
  <1>1. PICK i, r1, r2 : /\ i = decode.ir /\ r1 = Operand(decode.ir.rs1, TRUE)
                         /\ r2 = Operand(decode.ir.rs2, UsesRs2(decode.ir))
    OBVIOUS
  <1>2. i \in Issuable /\ i \in Program /\ i.rs1 \in Reg /\ i.rs2 \in Reg
    BY <1>1 DEF Types, Issuable, Instruction
  <1>3. r1 \in OperandOf(Index) /\ Op(Buffer, Len(order), i.rs1, TRUE, r1)
    BY <1>1, <1>2, OperandRight
  <1>4. r2 \in OperandOf(Index) /\ Op(Buffer, Len(order), i.rs2, UsesRs2(i), r2)
    <2>1. UsesRs2(i) \in BOOLEAN
      BY DEF UsesRs2
    <2> QED BY <2>1, <1>1, <1>2, OperandRight
  <1>5. PICK t : t = IF r1.waiting \/ r2.waiting THEN "WAITING_FOR_ARGS" ELSE "EXECUTING"
    OBVIOUS
  <1>6. PICK p : p = rob.newestIndex
    OBVIOUS
  <1>7. p \in Index
    BY <1>6, BufferType
  <1>8. Dispatched = [IdleStation EXCEPT !.state = t, !.ir = i, !.rs1 = r1, !.rs2 = r2,
                                         !.robEntryIndex = p]
    BY <1>1, <1>5, <1>6 DEF Dispatched
  <1>9. /\ Dispatched \in StationOf(Program, Index) /\ Dispatched.state = t /\ Dispatched.ir = i
        /\ Dispatched.rs1 = r1 /\ Dispatched.rs2 = r2 /\ Dispatched.robEntryIndex = p
    BY <1>2, <1>3, <1>4, <1>5, <1>7, <1>8, IdleType DEF StationOf
  <1>10. r1.waiting \in BOOLEAN /\ r2.waiting \in BOOLEAN
    BY <1>3, <1>4 DEF OperandOf
  <1>11. Taken(Dispatched, i, p)
    BY <1>5, <1>9, <1>10 DEF Taken
  <1>12. Operands(Buffer, Dispatched, Len(order))
    BY <1>3, <1>4, <1>9 DEF Operands
  <1> QED BY <1>1, <1>6, <1>9, <1>11, <1>12

(* It hears the message that is sent in the cycle of its dispatch. *)
LEMMA TakenMarks ==
  ASSUME NEW B, BufferT(B), InOrder(B), NEW k \in Places(B), ~ Ready(B, k), NEW D,
         NEW z \in Message, Marks(B, D, k, z), z.robIndex = Pos(B, k),
         NEW P, NEW I, 0 \in I, NEW x \in StationOf(P, I), NEW n \in 0 .. Len(B.q),
         NEW i, NEW p, Taken(x, i, p), Operands(B, x, n)
  PROVE  /\ Taken(onCdbMessage(x, z), i, p)
         /\ Operands(D, onCdbMessage(x, z), n)
  <1> DEFINE r1 == Heard(x.rs1, z.robIndex, z.writeValue)
             r2 == Heard(x.rs2, z.robIndex, z.writeValue)
             y == onCdbMessage(x, z)
  <1>1. /\ x.state # "WAITING_FOR_ARGS" => y = x
        /\ y.ir = x.ir /\ y.robEntryIndex = x.robEntryIndex
        /\ x.state = "WAITING_FOR_ARGS" =>
             /\ y.rs1 = r1 /\ y.rs2 = r2
             /\ y.state = IF r1.waiting \/ r2.waiting THEN "WAITING_FOR_ARGS" ELSE "EXECUTING"
        /\ r1.waiting \in BOOLEAN /\ r2.waiting \in BOOLEAN
    BY HearType DEF OperandOf
  <1>2. MayWait(x.rs1) /\ MayWait(x.rs2)
    BY DEF StationOf, OperandOf, MayWait
  <1>3. Op(D, n, x.ir.rs1, TRUE, r1) /\ Op(D, n, x.ir.rs2, UsesRs2(x.ir), r2)
    <2>1. Op(B, n, x.ir.rs1, TRUE, x.rs1) /\ Op(B, n, x.ir.rs2, UsesRs2(x.ir), x.rs2)
      BY DEF Operands
    <2>2. ASSUME NEW r, NEW u, NEW o, MayWait(o), Op(B, n, r, u, o)
          PROVE  Op(D, n, r, u, Heard(o, Pos(B, k), z.writeValue))
      BY <2>2, MarksOperand
    <2> QED BY <2>1, <2>2, <1>2
  <1> HIDE DEF r1, r2, y
  <1>4. CASE x.state = "WAITING_FOR_ARGS"
    <2>1. Operands(D, y, n)
      BY <1>1, <1>3, <1>4 DEF Operands
    <2>2. Taken(y, i, p)
      BY <1>1, <1>4 DEF Taken
    <2> QED BY <2>1, <2>2 DEF y
  <1>5. CASE x.state = "EXECUTING"
    <2>1. x.rs1.waiting = FALSE /\ x.rs2.waiting = FALSE
      BY <1>5 DEF Taken
    <2>2. r1 = x.rs1 /\ r2 = x.rs2
      BY <2>1 DEF Heard, r1, r2
    <2>3. y = x
      BY <1>1, <1>5
    <2> QED BY <2>2, <2>3, <1>3 DEF Operands, y
  <1> QED BY <1>4, <1>5 DEF Taken

LEMMA OperandsDrops ==
  ASSUME NEW B, BufferT(B), BufferOK(B), B.q # <<>>, Ready(B, 0), NEW D, Drops(B, D),
         NEW x, x.ir \in Issuable, Operands(B, x, Len(B.q))
  PROVE  Operands(D, x, Len(D.q))
  <1>0. InOrder(B)
    BY DEF BufferOK
  <1>1. x.ir.rs1 \in Reg /\ x.ir.rs2 \in Reg
    BY DEF Issuable, Instruction
  <1>2. Len(D.q) \in 0 .. Len(D.q) /\ Len(D.q) + 1 = Len(B.q)
    BY <1>0, DropsFrame DEF BufferT
  <1>3. \A r \in Reg : \A u, o : Op(B, Len(B.q), r, u, o) => Op(D, Len(D.q), r, u, o)
    BY <1>2, DropsOperand
  <1> QED BY <1>1, <1>3 DEF Operands

LEMMA TakenWorks ==
  ASSUME NEW B, BufferT(B), InOrder(B), Len(B.q) < B.c, NEW i \in Issuable, NEW D, Adds(B, D, i),
         NEW x, Taken(x, i, Pos(B, Len(B.q))), Operands(B, x, Len(B.q))
  PROVE  Works(D, x, Len(B.q))
  <1>1. /\ Len(B.q) \in Nat /\ Len(B.q) \in Places(D) /\ D.q[Len(B.q) + 1] = i
        /\ ~ Ready(D, Len(B.q)) /\ Pos(D, Len(B.q)) = Pos(B, Len(B.q)) /\ Len(B.q) \in 0 .. Len(B.q)
    <2>1. Len(B.q) \in Nat
      BY DEF BufferT
    <2> QED BY <2>1, AddsFrame
  <1>2. Operands(D, x, Len(B.q))
    BY <1>1, AddsKeeps DEF Operands
  <1> QED BY <1>1, <1>2 DEF Works, Taken

-----------------------------------------------------------------------------
(* The parts of a cycle.                                                   *)

Sent(mulReady, junk) == {payload(s, junk) : s \in {t \in Station : Granted(t, mulReady)}}
Hears(msgs, x) == IF msgs = {} THEN x ELSE onCdbMessage(x, CHOOSE m \in msgs : TRUE)
Pushes(mulReady) == \E s \in Station : Dispatches(s, mulReady)

(* A station that is done and not served holds its result. *)
Holding(s, junk) == [rs[s] EXCEPT !.state = "BROADCASTING_RESULT", !.rs1 = Data(0), !.rs2 = Data(0),
                                  !.resultCdbMessage = Outcome(s, junk)]
Held(mulReady, junk) ==
    [s \in Station |-> IF isDone(s, mulReady) /\ ~ Granted(s, mulReady) THEN Holding(s, junk) ELSE rs[s]]

(* The stations without the dispatch. *)
Resting(mulReady, junk) ==
    [s \in Station |-> IF Idle(rs[s]) \/ Granted(s, mulReady) THEN IdleStation
                       ELSE Hears(Sent(mulReady, junk), Held(mulReady, junk)[s])]

LEMMA SentCases ==
  ASSUME Types, NEW mulReady, NEW junk
  PROVE  /\ (\A s \in Station : ~ Granted(s, mulReady)) => Sent(mulReady, junk) = {}
         /\ \A s \in Station : Granted(s, mulReady) =>
              /\ Sent(mulReady, junk) = {payload(s, junk)}
              /\ \A x : Hears(Sent(mulReady, junk), x) = onCdbMessage(x, payload(s, junk))
              /\ (CHOOSE t \in Station : Granted(t, mulReady)) = s
  <1>1. ASSUME NEW s \in Station, Granted(s, mulReady)
        PROVE  /\ Sent(mulReady, junk) = {payload(s, junk)}
               /\ (CHOOSE t \in Station : Granted(t, mulReady)) = s
    BY <1>1, GrantedOne DEF Sent
  <1>2. ASSUME NEW s \in Station, Granted(s, mulReady), NEW x
        PROVE  Hears(Sent(mulReady, junk), x) = onCdbMessage(x, payload(s, junk))
    <2>1. PICK z : z = payload(s, junk)
      OBVIOUS
    <2>2. Sent(mulReady, junk) = {z}
      BY <2>1, <1>1, <1>2
    <2>3. {z} # {} /\ (CHOOSE m \in {z} : TRUE) = z
      OBVIOUS
    <2> QED BY <2>1, <2>2, <2>3 DEF Hears
  <1>3. (\A s \in Station : ~ Granted(s, mulReady)) => Sent(mulReady, junk) = {}
    BY DEF Sent
  <1> QED BY <1>1, <1>2, <1>3

LEMMA HoldingRight ==
  ASSUME Types, InOrder(Buffer), NEW s \in Station, NEW junk \in Value, rs[s].state = "EXECUTING"
  PROVE  /\ Holding(s, junk) \in StationOf(Program, Index)
         /\ Holding(s, junk).state = "BROADCASTING_RESULT"
         /\ Holding(s, junk).robEntryIndex = rs[s].robEntryIndex
         /\ \A n : Works(Buffer, rs[s], n) => Works(Buffer, Holding(s, junk), n)
  <1>1. PICK x, z : x = rs[s] /\ z = Outcome(s, junk)
    OBVIOUS
  <1>2. x \in StationOf(Program, Index) /\ z \in Message
    BY <1>1, StationType, OutcomeType
  <1>3. 0 \in Index /\ 0 \in Value
    BY BufferType, ZeroValue
  <1>4. Data(0) \in OperandOf(Index) /\ Data(0).waiting = FALSE
    BY <1>3 DEF Data, OperandOf
  <1>5. PICK h : h = Holding(s, junk)
    OBVIOUS
  <1>6. h = [x EXCEPT !.state = "BROADCASTING_RESULT", !.rs1 = Data(0), !.rs2 = Data(0),
                      !.resultCdbMessage = z]
    BY <1>1, <1>5 DEF Holding
  <1>7. /\ h \in StationOf(Program, Index) /\ h.state = "BROADCASTING_RESULT"
        /\ h.rs1.waiting = FALSE /\ h.rs2.waiting = FALSE /\ h.resultCdbMessage = z
        /\ h.robEntryIndex = x.robEntryIndex /\ h.ir = x.ir
    BY <1>2, <1>4, <1>6 DEF StationOf
  <1>8. ASSUME NEW n, Works(Buffer, x, n)
        PROVE  Works(Buffer, h, n)
    <2>1. z.robIndex = Pos(Buffer, n) /\ Right(Buffer, n, z)
      BY <1>1, <1>8, OutcomeRight
    <2>2. Sends(Buffer, h, n)
      BY <2>1, <1>7 DEF Sends
    <2> QED BY <2>2, <1>7, <1>8 DEF Works
  <1> QED BY <1>1, <1>5, <1>7, <1>8

LEMMA HeldRight ==
  ASSUME Types, InOrder(Buffer), StationsOK(Buffer, rs), NEW mulReady, NEW junk \in Value
  PROVE  /\ Held(mulReady, junk) \in [Station -> StationOf(Program, Index)]
         /\ StationsOK(Buffer, Held(mulReady, junk))
         /\ \A s \in Station : /\ Idle(Held(mulReady, junk)[s]) <=> Idle(rs[s])
                               /\ Granted(s, mulReady) => Held(mulReady, junk)[s] = rs[s]
  <1>1. PICK x : x = Held(mulReady, junk)
    OBVIOUS
  <1>2. ASSUME NEW s \in Station
        PROVE  /\ x[s] \in StationOf(Program, Index) /\ (Idle(x[s]) <=> Idle(rs[s]))
               /\ x[s].robEntryIndex = rs[s].robEntryIndex
               /\ \A n : Works(Buffer, rs[s], n) => Works(Buffer, x[s], n)
               /\ Granted(s, mulReady) => x[s] = rs[s]
    <2>1. x[s] = IF isDone(s, mulReady) /\ ~ Granted(s, mulReady) THEN Holding(s, junk) ELSE rs[s]
      BY <1>1 DEF Held
    <2>2. CASE isDone(s, mulReady) /\ ~ Granted(s, mulReady)
      <3>1. x[s] = Holding(s, junk) /\ rs[s].state = "EXECUTING"
        BY <2>1, <2>2 DEF isDone
      <3> QED BY <3>1, <2>2, HoldingRight DEF Idle
    <2>3. CASE ~(isDone(s, mulReady) /\ ~ Granted(s, mulReady))
      <3>1. x[s] = rs[s]
        BY <2>1, <2>3
      <3> QED BY <3>1, StationType
    <2> QED BY <2>2, <2>3
  <1>3. x \in [Station -> StationOf(Program, Index)]
    <2>1. x = [s \in Station |-> x[s]]
      BY <1>1 DEF Held
    <2>2. \A s \in Station : x[s] \in StationOf(Program, Index)
      BY <1>2
    <2> QED BY <2>1, <2>2
  <1>4. StationsOK(Buffer, x)
    BY <1>2 DEF StationsOK
  <1> QED BY <1>1, <1>2, <1>3, <1>4

(* Without a jump a station is dispatched, rests or goes on. *)
LEMMA StationNextIs ==
  ASSUME ~ GlobalJump, NEW s \in Station, NEW mulReady, NEW junk
  PROVE  StationNext(s, mulReady, junk) =
            IF Dispatches(s, mulReady) THEN Dispatched
            ELSE IF Idle(rs[s]) \/ Granted(s, mulReady) THEN IdleStation
            ELSE Held(mulReady, junk)[s]
  <1>1. isAvailable(s, mulReady) <=> Idle(rs[s]) \/ Granted(s, mulReady)
    BY DEF isAvailable, Idle
  <1>2. Dispatches(s, mulReady) => isAvailable(s, mulReady)
    BY DEF Dispatches
  <1>3. Held(mulReady, junk)[s] = IF isDone(s, mulReady) /\ ~ Granted(s, mulReady)
                                  THEN Holding(s, junk) ELSE rs[s]
    BY DEF Held
  <1>4. CASE Dispatches(s, mulReady)
    BY <1>2, <1>4 DEF StationNext
  <1>5. CASE ~ Dispatches(s, mulReady) /\ isAvailable(s, mulReady)
    BY <1>1, <1>5 DEF StationNext
  <1>6. CASE ~ isAvailable(s, mulReady) /\ isDone(s, mulReady)
    BY <1>1, <1>2, <1>3, <1>6 DEF StationNext, Holding
  <1>7. CASE ~ isAvailable(s, mulReady) /\ ~ isDone(s, mulReady)
    BY <1>1, <1>2, <1>3, <1>7 DEF StationNext
  <1> QED BY <1>4, <1>5, <1>6, <1>7

LEMMA StationsNextAre ==
  ASSUME Types, ~ GlobalJump, NEW s \in Station, NEW mulReady, NEW junk \in Value
  PROVE  Hears(Sent(mulReady, junk), StationNext(s, mulReady, junk)) =
            IF Dispatches(s, mulReady) THEN Hears(Sent(mulReady, junk), Dispatched)
            ELSE Resting(mulReady, junk)[s]
  <1>1. PICK M : M = Sent(mulReady, junk)
    OBVIOUS
  <1>2. Hears(M, IdleStation) = IdleStation
    BY IdleType DEF Hears, onCdbMessage
  <1>3. Resting(mulReady, junk)[s] = IF Idle(rs[s]) \/ Granted(s, mulReady) THEN IdleStation
                                     ELSE Hears(M, Held(mulReady, junk)[s])
    BY <1>1 DEF Resting
  <1> QED BY <1>1, <1>2, <1>3, StationNextIs

-----------------------------------------------------------------------------
(* First the message, ...                                                  *)

AfterMessage(mulReady, junk) ==
    [c |-> config.capacity, o |-> rob.oldestIndex, q |-> order,
     e |-> EntriesNext(FALSE, Sent(mulReady, junk)), g |-> registers]

LEMMA AfterMessageFields ==
  ASSUME NEW mulReady, NEW junk, NEW D, D = AfterMessage(mulReady, junk)
  PROVE  /\ D.c = Buffer.c /\ D.o = Buffer.o /\ D.q = Buffer.q /\ D.g = Buffer.g
         /\ D.e = EntriesNext(FALSE, Sent(mulReady, junk))
  BY BufferFields DEF AfterMessage

Marked(e, z) == [e EXCEPT !.writesRegister = z.writesRegister, !.performsJump = z.performsJump,
                          !.writeValue = z.writeValue, !.ready = TRUE]

(* The registers of the buffer after a message, with and without a push. *)
LEMMA EntriesNextAre ==
  ASSUME Types, NEW z \in Message, z.robIndex \in Index, NEW push \in BOOLEAN, NEW i \in Index
  PROVE  /\ EntriesNext(push, {})[i] = IF push /\ i = rob.newestIndex THEN NewEntry(decode.ir)
                                       ELSE rob.entries[i]
         /\ z.robIndex # rob.newestIndex \/ ~ push =>
              EntriesNext(push, {z})[i] = IF push /\ i = rob.newestIndex THEN NewEntry(decode.ir)
                                          ELSE IF i = z.robIndex THEN Marked(rob.entries[i], z)
                                          ELSE rob.entries[i]
  <1>1. NewEntry(decode.ir) = [ZeroEntry EXCEPT !.writeDestination = decode.ir.rd]
    BY DEF NewEntry
  <1>2. EntriesNext(push, {})[i] = IF push /\ i = rob.newestIndex THEN NewEntry(decode.ir)
                                   ELSE rob.entries[i]
    BY <1>1 DEF EntriesNext
  <1>3. (\E m \in {z} : m.robIndex = i) <=> z.robIndex = i
    OBVIOUS
  <1>4. z.robIndex = i => (CHOOSE m \in {z} : m.robIndex = i) = z
    OBVIOUS
  <1>5. EntriesNext(push, {z})[i] =
           LET e == IF push /\ i = rob.newestIndex THEN NewEntry(decode.ir) ELSE rob.entries[i]
           IN  IF z.robIndex = i THEN Marked(e, z) ELSE e
    BY <1>1, <1>3, <1>4 DEF EntriesNext, Marked
  <1> QED BY <1>2, <1>5

LEMMA EntriesNextType ==
  ASSUME NEW push, NEW msgs
  PROVE  EntriesNext(push, msgs) = [i \in Index |-> EntriesNext(push, msgs)[i]]
  BY DEF EntriesNext

LEMMA MessageMarks ==
  ASSUME Types, InOrder(Buffer), NEW mulReady, NEW junk, NEW z \in Message, Sent(mulReady, junk) = {z},
         NEW k \in Places(Buffer), z.robIndex = Pos(Buffer, k), NEW D, D = AfterMessage(mulReady, junk)
  PROVE  Marks(Buffer, D, k, z)
  <1>1. PICK p, e, f : p = Pos(Buffer, k) /\ e = rob.entries /\ f = EntriesNext(FALSE, {z})
    OBVIOUS
  <1>2. p \in Index /\ e \in [Index -> RobEntry] /\ Buffer.e = e /\ z.robIndex = p
    BY <1>1, BufferType, PlaceType, BufferFields
  <1>3. f = [i \in Index |-> f[i]]
    BY <1>1, EntriesNextType
  <1>4. ASSUME NEW i \in Index
        PROVE  f[i] = IF i = p THEN Marked(e[i], z) ELSE e[i]
    <2>1. f[i] = IF FALSE /\ i = rob.newestIndex THEN NewEntry(decode.ir)
                 ELSE IF i = z.robIndex THEN Marked(rob.entries[i], z) ELSE rob.entries[i]
      BY <1>1, <1>2, <1>4, EntriesNextAre
    <2> QED BY <2>1, <1>1, <1>2
  <1>5. f = [e EXCEPT ![p] = Marked(e[p], z)]
    <2> HIDE DEF Marked
    <2> QED BY <1>2, <1>3, <1>4
  <1>6. D.c = Buffer.c /\ D.o = Buffer.o /\ D.q = Buffer.q /\ D.g = Buffer.g /\ D.e = f
    BY <1>1, AfterMessageFields
  <1> QED BY <1>1, <1>2, <1>5, <1>6 DEF Marks, Marked

LEMMA MessageStage ==
  ASSUME DInv, ~ GlobalJump, NEW mulReady, NEW junk \in Value, NEW D, D = AfterMessage(mulReady, junk)
  PROVE  /\ BufferT(D) /\ BufferOK(D) /\ StationsOK(D, Resting(mulReady, junk))
         /\ \A n \in Places(Buffer) : Ready(Buffer, n) => Entry(D, n) = Entry(Buffer, n)
         /\ \A m \in Sent(mulReady, junk) : \E k \in Places(Buffer) :
                m.robIndex = Pos(Buffer, k) /\ ~ Ready(Buffer, k)
         /\ decode.ir \in Issuable =>
              LET x == Hears(Sent(mulReady, junk), Dispatched) IN
              /\ x \in StationOf(Program, Index) /\ Taken(x, decode.ir, rob.newestIndex)
              /\ Operands(D, x, Len(order))
  <1>0. /\ Types /\ Counted /\ BufferOK(Buffer) /\ InOrder(Buffer) /\ StationsOK(Buffer, rs)
        /\ BufferT(Buffer) /\ 0 \in Index /\ Len(order) \in 0 .. Len(Buffer.q)
    BY BufferType, BufferFields DEF DInv, BufferOK
  <1> DEFINE M == Sent(mulReady, junk)
             H == Held(mulReady, junk)
             R == Resting(mulReady, junk)
  <1>1. /\ H \in [Station -> StationOf(Program, Index)] /\ StationsOK(Buffer, H)
        /\ \A s \in Station : Idle(H[s]) <=> Idle(rs[s])
        /\ \A s \in Station : Granted(s, mulReady) => H[s] = rs[s]
    BY <1>0, HeldRight
  <1>2. \A s \in Station : R[s] = IF Idle(rs[s]) \/ Granted(s, mulReady) THEN IdleStation
                                  ELSE Hears(M, H[s])
    BY DEF Resting
  <1>3. Idle(IdleStation)
    BY <1>0, IdleType DEF Idle
  <1>4. CASE \A s \in Station : ~ Granted(s, mulReady)
    <2>1. M = {}
      BY <1>0, <1>4, SentCases
    <2>2. \A x : Hears(M, x) = x
      BY <2>1 DEF Hears
    <2>3. EntriesNext(FALSE, M) = rob.entries
      <3>1. PICK z \in Message : z.robIndex \in Index
        <4>1. NoMessage \in Message /\ NoMessage.robIndex \in Index
          BY <1>0, ZeroValue DEF NoMessage, Message
        <4> QED BY <4>1
      <3>2. \A i \in Index : EntriesNext(FALSE, {})[i] = rob.entries[i]
        BY <3>1, <1>0, EntriesNextAre
      <3>3. rob.entries \in [Index -> RobEntry]
        BY <1>0, BufferType
      <3>4. PICK e, f : e = rob.entries /\ f = EntriesNext(FALSE, {})
        OBVIOUS
      <3>5. f = [i \in Index |-> f[i]]
        BY <3>4, EntriesNextType
      <3>6. f = e
        BY <3>2, <3>3, <3>4, <3>5
      <3> QED BY <3>4, <3>6, <2>1
    <2>4. D = Buffer
      BY <2>3 DEF AfterMessage, Buffer
    <2>5. \A s \in Station : (Idle(R[s]) <=> Idle(H[s])) /\ (~ Idle(H[s]) => R[s] = H[s])
      BY <2>2, <1>1, <1>2, <1>3, <1>4
    <2>6. \A s \in Station : \A n : Works(Buffer, H[s], n) => ~ Idle(H[s])
      BY <1>0, WorksType
    <2>7. StationsOK(Buffer, R)
      <3> HIDE DEF H, R
      <3> QED BY <2>5, <2>6, <1>1 DEF StationsOK
    <2>8. decode.ir \in Issuable => /\ Dispatched \in StationOf(Program, Index)
                                    /\ Taken(Dispatched, decode.ir, rob.newestIndex)
                                    /\ Operands(Buffer, Dispatched, Len(order))
      BY <1>0, DispatchedRight
    <2> QED BY <2>1, <2>2, <2>4, <2>7, <2>8, <1>0
  <1>5. ASSUME NEW g \in Station, Granted(g, mulReady)
        PROVE  /\ BufferT(D) /\ BufferOK(D) /\ StationsOK(D, R)
               /\ \A n \in Places(Buffer) : Ready(Buffer, n) => Entry(D, n) = Entry(Buffer, n)
               /\ \A m \in M : \E k \in Places(Buffer) : m.robIndex = Pos(Buffer, k) /\ ~ Ready(Buffer, k)
               /\ decode.ir \in Issuable =>
                    /\ Hears(M, Dispatched) \in StationOf(Program, Index)
                    /\ Taken(Hears(M, Dispatched), decode.ir, rob.newestIndex)
                    /\ Operands(D, Hears(M, Dispatched), Len(order))
    <2>1. PICK z : z = payload(g, junk)
      OBVIOUS
    <2>2. z \in Message /\ M = {z} /\ \A x : Hears(M, x) = onCdbMessage(x, z)
      BY <2>1, <1>0, <1>5, OutcomeType, SentCases
    <2>3. PICK k \in Places(Buffer) : Works(Buffer, rs[g], k) /\ z.robIndex = Pos(Buffer, k)
                                      /\ Right(Buffer, k, z)
      BY <2>1, <1>0, <1>5, PayloadRight
    <2>4. ~ Ready(Buffer, k) /\ Works(Buffer, H[g], k)
      BY <2>3, <1>1, <1>5 DEF Works
    <2>5. Marks(Buffer, D, k, z)
      BY <2>2, <2>3, <1>0, MessageMarks
    <2>6. BufferT(D) /\ BufferOK(D)
      BY <2>2, <2>3, <2>4, <2>5, <1>0, MarksBuffer
    <2>7. Idle(R[g])
      BY <1>2, <1>3, <1>5
    <2>8. \A s \in Station \ {g} : /\ ~ Idle(H[s]) => R[s] = onCdbMessage(H[s], z)
                                   /\ Idle(H[s]) => Idle(R[s])
      <3>1. \A s \in Station \ {g} : ~ Granted(s, mulReady)
        BY <1>0, <1>5, GrantedOne
      <3> QED BY <3>1, <2>2, <1>1, <1>2, <1>3
    <2>9. StationsOK(D, R)
      <3> HIDE DEF H, R
      <3> QED BY <2>2, <2>3, <2>4, <2>5, <2>7, <2>8, <1>0, <1>1, StationsMarks
    <2>10. \A n \in Places(Buffer) : Ready(Buffer, n) => Entry(D, n) = Entry(Buffer, n)
      <3>1. \A n \in Places(Buffer) : n # k => Entry(D, n) = Entry(Buffer, n)
        BY <2>2, <2>5, <1>0, MarksFrame
      <3> QED BY <3>1, <2>4
    <2>11. ASSUME decode.ir \in Issuable
           PROVE  /\ Hears(M, Dispatched) \in StationOf(Program, Index)
                  /\ Taken(Hears(M, Dispatched), decode.ir, rob.newestIndex)
                  /\ Operands(D, Hears(M, Dispatched), Len(order))
      <3>1. PICK x, i, p : x = Dispatched /\ i = decode.ir /\ p = rob.newestIndex
        OBVIOUS
      <3>2. x \in StationOf(Program, Index) /\ Taken(x, i, p) /\ Operands(Buffer, x, Len(order))
        BY <3>1, <2>11, <1>0, DispatchedRight
      <3>3. onCdbMessage(x, z) \in StationOf(Program, Index)
        BY <3>2, <2>2, <1>0, HearType
      <3>4. Taken(onCdbMessage(x, z), i, p) /\ Operands(D, onCdbMessage(x, z), Len(order))
        BY <3>2, <2>2, <2>3, <2>4, <2>5, <1>0, TakenMarks
      <3> QED BY <3>1, <3>3, <3>4, <2>2
    <2> QED BY <2>2, <2>3, <2>4, <2>6, <2>9, <2>10, <2>11
  <1> QED BY <1>4, <1>5

-----------------------------------------------------------------------------
(* ... then the retirement, ...                                            *)

AfterRetire(mulReady, junk) ==
    [c |-> config.capacity,
     o |-> IF Retires THEN nextIndex(rob.oldestIndex) ELSE rob.oldestIndex,
     q |-> IF Retires THEN Tail(order) ELSE order,
     e |-> EntriesNext(FALSE, Sent(mulReady, junk)),
     g |-> IF Retires /\ oldestEntry.writesRegister
           THEN [registers EXCEPT ![oldestEntry.writeDestination] = oldestEntry.writeValue]
           ELSE registers]

(* The oldest instruction, when it retires. *)
LEMMA RetiresIs ==
  ASSUME DInv, Retires
  PROVE  /\ 0 \in Places(Buffer) /\ Ready(Buffer, 0) /\ order # <<>> /\ Len(order) \in 1 .. config.capacity
         /\ Pos(Buffer, 0) = rob.oldestIndex
  <1>0. /\ Types /\ Counted /\ InOrder(Buffer)
    BY DEF DInv, BufferOK
  <1>1. /\ Len(order) \in 0 .. config.capacity /\ Len(order) # 0 /\ oldestEntry = Entry(Buffer, 0)
        /\ oldestEntry.ready
    BY <1>0, ReadBuffer DEF Retires
  <1>2. /\ Places(Buffer) = 0 .. Len(order) - 1 /\ config.capacity \in Nat \ {0} /\ Len(order) \in Nat
        /\ rob.oldestIndex \in 0 .. config.capacity - 1 /\ BufferT(Buffer)
    BY <1>0, BufferType
  <1>3. 0 \in Places(Buffer) /\ Len(order) \in 1 .. config.capacity /\ order # <<>>
    BY <1>1, <1>2
  <1>4. Entry(Buffer, 0) \in RobEntry
    BY <1>0, <1>2, <1>3, PlaceType
  <1>5. Ready(Buffer, 0)
    BY <1>1, <1>4 DEF Ready, RobEntry
  <1>6. 0 \in 0 .. config.capacity - 1
    BY <1>2
  <1>7. Ring(config.capacity, rob.oldestIndex, 0) = rob.oldestIndex
    BY <1>2, <1>6, RingSteps
  <1> QED BY <1>3, <1>5, <1>7, BufferFields DEF Pos

LEMMA RetireStage ==
  ASSUME DInv, ~ GlobalJump, NEW mulReady, NEW junk \in Value, NEW D, D = AfterRetire(mulReady, junk)
  PROVE  /\ BufferT(D) /\ BufferOK(D) /\ StationsOK(D, Resting(mulReady, junk))
         /\ rob.newestIndex = Pos(D, Len(D.q)) /\ Len(D.q) \in 0 .. D.c /\ D.c = config.capacity
         /\ Retires \/ ~ rob.isFull => Len(D.q) < D.c
         /\ ~ Retires => Len(D.q) = Len(order)
         /\ \A m \in Sent(mulReady, junk) : \E k \in Places(D) : m.robIndex = Pos(D, k)
         /\ decode.ir \in Issuable =>
              LET x == Hears(Sent(mulReady, junk), Dispatched) IN
              /\ x \in StationOf(Program, Index) /\ Taken(x, decode.ir, rob.newestIndex)
              /\ Operands(D, x, Len(D.q))
  <1>0. /\ Types /\ Counted /\ InOrder(Buffer) /\ BufferT(Buffer)
    BY BufferType DEF DInv, BufferOK
  <1>1. PICK E, M, R, x : /\ E = AfterMessage(mulReady, junk) /\ M = Sent(mulReady, junk)
                          /\ R = Resting(mulReady, junk) /\ x = Hears(M, Dispatched)
    OBVIOUS
  <1>2. /\ BufferT(E) /\ BufferOK(E) /\ StationsOK(E, R)
        /\ \A n \in Places(Buffer) : Ready(Buffer, n) => Entry(E, n) = Entry(Buffer, n)
        /\ \A m \in M : \E k \in Places(Buffer) : m.robIndex = Pos(Buffer, k) /\ ~ Ready(Buffer, k)
        /\ decode.ir \in Issuable =>
             /\ x \in StationOf(Program, Index) /\ Taken(x, decode.ir, rob.newestIndex)
             /\ Operands(E, x, Len(order))
    BY <1>1, MessageStage
  <1>3. /\ E.c = Buffer.c /\ E.o = Buffer.o /\ E.q = Buffer.q /\ E.g = Buffer.g
        /\ E.e = EntriesNext(FALSE, Sent(mulReady, junk))
    BY <1>1, AfterMessageFields
  <1>4. /\ \A n : Pos(E, n) = Pos(Buffer, n)
        /\ Places(E) = Places(Buffer)
    BY <1>3 DEF Pos, Places
  <1>5. /\ rob.newestIndex = Pos(E, Len(order)) /\ (rob.isFull <=> Len(order) = config.capacity)
        /\ Len(order) \in 0 .. config.capacity /\ config.capacity \in Nat \ {0} /\ Len(order) \in Nat
        /\ Buffer.q = order /\ Buffer.c = config.capacity
    BY <1>0, <1>4, ReadBuffer, BufferType, BufferFields DEF Counted
  <1>6. CASE ~ Retires
    <2>1. D = E
      BY <1>1, <1>6 DEF AfterRetire, AfterMessage
    <2>2. \A m \in M : \E k \in Places(D) : m.robIndex = Pos(D, k)
      BY <2>1, <1>2, <1>4
    <2>3. Len(D.q) = Len(order) /\ D.c = config.capacity
      BY <2>1, <1>3, <1>5
    <2>4. ~ rob.isFull => Len(D.q) < D.c
      BY <2>3, <1>5
    <2> QED BY <2>1, <2>2, <2>3, <2>4, <1>1, <1>2, <1>5, <1>6
  <1>7. CASE Retires
    <2>1. /\ 0 \in Places(Buffer) /\ Ready(Buffer, 0) /\ order # <<>> /\ Len(order) \in 1 .. config.capacity
      BY <1>7, RetiresIs
    <2>2. Entry(E, 0) = Entry(Buffer, 0) /\ oldestEntry = Entry(E, 0) /\ Ready(E, 0)
      BY <2>1, <1>0, <1>2, ReadBuffer DEF Ready
    <2>3. /\ D.c = E.c /\ D.o = (IF E.o + 1 = E.c THEN 0 ELSE E.o + 1) /\ D.q = Tail(E.q) /\ D.e = E.e
          /\ D.g = IF oldestEntry.writesRegister
                   THEN [E.g EXCEPT ![oldestEntry.writeDestination] = oldestEntry.writeValue] ELSE E.g
      BY <1>3, <1>5, <1>7, BufferFields DEF AfterRetire, nextIndex
    <2>4. Drops(E, D)
      BY <2>2, <2>3 DEF Drops
    <2>5. E.q # <<>> /\ InOrder(E)
      BY <2>1, <1>2, <1>3, <1>5 DEF BufferOK
    <2>6. BufferT(D) /\ BufferOK(D) /\ StationsOK(D, R)
      BY <2>2, <2>4, <2>5, <1>2, DropsBuffer, StationsDrops
    <2>7. /\ Len(D.q) = Len(order) - 1 /\ Len(D.q) \in 0 .. D.c - 1 /\ D.c = config.capacity
          /\ \A n \in 0 .. E.c - 1 : Pos(D, n) = Pos(E, n + 1)
      <3>1. /\ Len(D.q) = Len(E.q) - 1 /\ \A n \in 0 .. E.c - 1 : Pos(D, n) = Pos(E, n + 1)
        BY <2>4, <2>5, <1>2, DropsFrame
      <3> QED BY <3>1, <2>1, <2>3, <1>3, <1>5
    <2>8. rob.newestIndex = Pos(D, Len(D.q))
      <3>1. Len(D.q) \in 0 .. E.c - 1 /\ Len(D.q) + 1 = Len(order)
        BY <2>3, <2>7, <1>5
      <3> QED BY <3>1, <2>7, <1>5
    <2>9. ASSUME NEW m \in M
          PROVE  \E k \in Places(D) : m.robIndex = Pos(D, k)
      <3>1. PICK k \in Places(Buffer) : m.robIndex = Pos(Buffer, k) /\ ~ Ready(Buffer, k)
        BY <1>2, <2>9
      <3>2. k # 0 /\ k \in 0 .. Len(order) - 1
        BY <3>1, <2>1, <1>5 DEF Places
      <3>3. k - 1 \in 0 .. Len(D.q) - 1 /\ k - 1 \in 0 .. E.c - 1 /\ (k - 1) + 1 = k
        <4>1. PICK N, L, c : N = Len(order) /\ L = Len(D.q) /\ c = E.c
          OBVIOUS
        <4>2. N \in Nat /\ c \in Nat /\ L = N - 1 /\ N <= c /\ k \in 0 .. N - 1
          BY <4>1, <3>2, <2>7, <1>3, <1>5
        <4>3. k - 1 \in 0 .. L - 1 /\ k - 1 \in 0 .. c - 1 /\ (k - 1) + 1 = k
          BY <4>2, <3>2
        <4> QED BY <4>1, <4>3
      <3>4. Pos(D, k - 1) = Pos(E, (k - 1) + 1)
        BY <2>7, <3>3
      <3> QED BY <3>1, <3>3, <3>4, <1>4 DEF Places
    <2>10. ASSUME decode.ir \in Issuable
           PROVE  Operands(D, x, Len(D.q))
      <3>1. x.ir \in Issuable /\ Operands(E, x, Len(E.q))
        BY <2>10, <1>2, <1>3, <1>5 DEF Taken
      <3> QED BY <3>1, <2>2, <2>4, <2>5, <1>2, OperandsDrops
    <2>11. Len(D.q) < D.c /\ Len(D.q) \in 0 .. D.c
      BY <2>7, <1>5
    <2> QED BY <2>6, <2>7, <2>8, <2>9, <2>10, <2>11, <1>1, <1>2, <1>7
  <1> QED BY <1>6, <1>7

-----------------------------------------------------------------------------
(* ... then the push.                                                      *)

LEMMA DispatchIs ==
  ASSUME NamesWhatItWrites, DInv, NEW mulReady, NEW d \in Station, Dispatches(d, mulReady), ~ GlobalJump
  PROVE  /\ decode.ir \in Issuable /\ (Retires \/ ~ rob.isFull)
         /\ \A s \in Station : Dispatches(s, mulReady) => s = d
         /\ Idle(rs[d]) \/ Granted(d, mulReady)
  <1>0. Types
    BY DEF DInv
  <1>1. /\ d \in DestFu(decode.ir) /\ isAvailable(d, mulReady) /\ robAvailable
    BY DEF Dispatches
  <1>2. decode.ir.op # "ILLEGAL"
    BY <1>1 DEF DestFu
  <1>3. decode.ir \in Program /\ Program \subseteq Instruction /\ config \in Configs
    BY <1>0, StationType DEF Types
  <1>4. WritesRd(decode.ir) \/ decode.ir.rd = 0
    <2>1. CASE decode.ir \in config.program
      BY <2>1, <1>2, <1>3 DEF NamesWhatItWrites
    <2>2. CASE decode.ir = NOP
      BY <2>2 DEF NOP, Inst
    <2> QED BY <2>1, <2>2, <1>3 DEF Program
  <1>5. decode.ir \in Issuable
    BY <1>2, <1>3, <1>4 DEF Issuable
  <1>6. \A s \in Station : Dispatches(s, mulReady) => s = d
    BY <1>1 DEF Dispatches, DestFu
  <1> QED BY <1>1, <1>5, <1>6 DEF robAvailable, isAvailable, Idle

LEMMA PushAdds ==
  ASSUME Types, NEW mulReady, NEW junk \in Value, rob.newestIndex \in Index,
         \A m \in Sent(mulReady, junk) : m.robIndex \in Index /\ m.robIndex # rob.newestIndex
  PROVE  EntriesNext(TRUE, Sent(mulReady, junk))
            = [EntriesNext(FALSE, Sent(mulReady, junk)) EXCEPT ![rob.newestIndex] = NewEntry(decode.ir)]
  <1>1. PICK M, t, f, w, e : /\ M = Sent(mulReady, junk) /\ t = EntriesNext(TRUE, M)
                             /\ f = EntriesNext(FALSE, M) /\ w = rob.newestIndex /\ e = NewEntry(decode.ir)
    OBVIOUS
  <1>2. t = [i \in Index |-> t[i]] /\ f = [i \in Index |-> f[i]]
    BY <1>1, EntriesNextType
  <1>3. PICK n \in Message : n.robIndex \in Index
    <2>1. NoMessage \in Message /\ NoMessage.robIndex \in Index
      BY ZeroValue, BufferType DEF NoMessage, Message
    <2> QED BY <2>1
  <1>4. ASSUME NEW i \in Index
        PROVE  t[i] = IF i = w THEN e ELSE f[i]
    <2>1. CASE \A s \in Station : ~ Granted(s, mulReady)
      <3>1. M = {}
        BY <2>1, <1>1, SentCases
      <3>2. /\ EntriesNext(TRUE, {})[i] = IF TRUE /\ i = w THEN e ELSE rob.entries[i]
            /\ EntriesNext(FALSE, {})[i] = IF FALSE /\ i = w THEN e ELSE rob.entries[i]
        BY <1>1, <1>3, <1>4, EntriesNextAre
      <3> QED BY <3>1, <3>2, <1>1
    <2>2. CASE \E s \in Station : Granted(s, mulReady)
      <3>1. PICK z : M = {z} /\ z \in Message
        BY <2>2, <1>1, SentCases, OutcomeType
      <3>2. z.robIndex \in Index /\ z.robIndex # w
        BY <3>1, <1>1
      <3>3. EntriesNext(TRUE, {z})[i] = IF TRUE /\ i = w THEN e
                                        ELSE IF i = z.robIndex THEN Marked(rob.entries[i], z)
                                        ELSE rob.entries[i]
        BY <3>1, <3>2, <1>1, <1>4, EntriesNextAre
      <3>4. EntriesNext(FALSE, {z})[i] = IF FALSE /\ i = w THEN e
                                         ELSE IF i = z.robIndex THEN Marked(rob.entries[i], z)
                                         ELSE rob.entries[i]
        BY <3>1, <3>2, <1>1, <1>4, EntriesNextAre
      <3> QED BY <3>1, <3>3, <3>4, <1>1
    <2> QED BY <2>1, <2>2
  <1>5. t = [f EXCEPT ![w] = e]
    BY <1>1, <1>2, <1>4
  <1> QED BY <1>1, <1>5

-----------------------------------------------------------------------------
(* A cycle keeps the invariant.                                            *)

(* What a cycle does, with the names of the parts. *)
LEMMA CycleIs ==
  ASSUME NEW fetched, NEW mulReady, NEW junk, Cycle(fetched, mulReady, junk)
  PROVE  /\ rs' = [s \in Station |-> Hears(Sent(mulReady, junk), StationNext(s, mulReady, junk))]
         /\ rob' = RobNext(Pushes(mulReady), Sent(mulReady, junk))
         /\ order' = OrderNext(Pushes(mulReady)) /\ config' = config
         /\ registers' = IF Retires /\ oldestEntry.writesRegister
                         THEN [registers EXCEPT ![oldestEntry.writeDestination] =
                                                    oldestEntry.writeValue]
                         ELSE registers
         /\ maskLocked' = IF Sent(mulReady, junk) = {} THEN maskLocked
                          ELSE CHOOSE s \in Station : Granted(s, mulReady)
  BY DEF Cycle, Hears, Sent, Pushes

LEMMA RestingType ==
  ASSUME DInv, NEW mulReady, NEW junk \in Value, NEW s \in Station
  PROVE  Resting(mulReady, junk)[s] \in StationOf(Program, Index)
  <1>0. Types /\ InOrder(Buffer) /\ StationsOK(Buffer, rs) /\ 0 \in Index
    BY BufferType DEF DInv, BufferOK
  <1>1. PICK x : x = Held(mulReady, junk)[s]
    OBVIOUS
  <1>2. x \in StationOf(Program, Index)
    BY <1>0, <1>1, HeldRight
  <1>3. Hears(Sent(mulReady, junk), x) \in StationOf(Program, Index)
    <2>1. CASE \A t \in Station : ~ Granted(t, mulReady)
      BY <2>1, <1>0, <1>2, SentCases DEF Hears
    <2>2. ASSUME NEW t \in Station, Granted(t, mulReady)
          PROVE  Hears(Sent(mulReady, junk), x) \in StationOf(Program, Index)
      <3>1. PICK z \in Message : z = payload(t, junk)
        BY <1>0, OutcomeType
      <3>2. Hears(Sent(mulReady, junk), x) = onCdbMessage(x, z)
        BY <3>1, <2>2, <1>0, SentCases
      <3> QED BY <3>2, <1>0, <1>2, HearType
    <2> QED BY <2>1, <2>2
  <1> QED BY <1>0, <1>1, <1>3, IdleType DEF Resting

(* The parts of the invariant that change together. *)
Agree(F, x, w, full) ==
    /\ BufferT(F) /\ BufferOK(F) /\ StationsOK(F, x)
    /\ w = Pos(F, Len(F.q)) /\ full = (Len(F.q) = F.c)
    /\ x \in [Station -> StationOf(Program, Index)]

LEMMA QuietStep ==
  ASSUME DInv, ~ GlobalJump, NEW fetched, NEW mulReady, NEW junk \in Value,
         Cycle(fetched, mulReady, junk), ~ Pushes(mulReady), NEW F, F = Buffer', NEW x, x = rs'
  PROVE  Agree(F, x, rob.newestIndex', rob.isFull')
  <1>0. Types /\ Counted
    BY DEF DInv
  <1>1. PICK M, R, D : M = Sent(mulReady, junk) /\ R = Resting(mulReady, junk)
                       /\ D = AfterRetire(mulReady, junk)
    OBVIOUS
  <1>2. \A s \in Station : ~ Dispatches(s, mulReady)
    BY DEF Pushes
  <1>3. x = [s \in Station |-> Hears(M, StationNext(s, mulReady, junk))]
    BY <1>1, CycleIs
  <1>4. \A s \in Station : x[s] = R[s]
    BY <1>0, <1>1, <1>2, <1>3, StationsNextAre
  <1>5. \A s \in Station : R[s] \in StationOf(Program, Index)
    BY <1>1, RestingType
  <1>6. x \in [Station -> StationOf(Program, Index)]
    <2>1. x = [s \in Station |-> x[s]]
      BY <1>3
    <2> QED BY <2>1, <1>4, <1>5
  <1>7. x = R
    BY <1>1, <1>3, <1>4 DEF Resting
  <1>8. rob' = RobNext(FALSE, M) /\ order' = OrderNext(FALSE)
    <2>1. Pushes(mulReady) = FALSE
      BY DEF Pushes
    <2> QED BY <2>1, <1>1, CycleIs
  <1>9. /\ rob.entries' = EntriesNext(FALSE, M) /\ rob.newestIndex' = rob.newestIndex
        /\ rob.oldestIndex' = (IF Retires THEN nextIndex(rob.oldestIndex) ELSE rob.oldestIndex)
        /\ rob.isFull' = (~ Retires /\ rob.isFull)
    BY <1>8 DEF RobNext
  <1>10. order' = IF Retires THEN Tail(order) ELSE order
    BY <1>8 DEF OrderNext
  <1>11. F = D
    BY <1>1, <1>9, <1>10, CycleIs DEF Buffer, AfterRetire
  <1>12. /\ BufferT(D) /\ BufferOK(D) /\ StationsOK(D, R) /\ rob.newestIndex = Pos(D, Len(D.q))
         /\ Len(D.q) \in 0 .. D.c /\ D.c = config.capacity
         /\ Retires \/ ~ rob.isFull => Len(D.q) < D.c
         /\ ~ Retires => Len(D.q) = Len(order)
    BY <1>1, RetireStage
  <1>13. rob.isFull = (Len(order) = config.capacity) /\ config.capacity \in Nat /\ Len(order) \in Nat
    BY <1>0, BufferType DEF Counted
  <1>14. rob.isFull' = (Len(D.q) = D.c)
    <2>1. CASE Retires
      <3>1. Len(D.q) # D.c
        BY <2>1, <1>12, <1>13
      <3> QED BY <3>1, <2>1, <1>9
    <2>2. CASE ~ Retires
      BY <2>2, <1>9, <1>12, <1>13
    <2> QED BY <2>1, <2>2
  <1> QED BY <1>6, <1>7, <1>9, <1>11, <1>12, <1>14 DEF Agree

LEMMA PushStep ==
  ASSUME NamesWhatItWrites, DInv, ~ GlobalJump, NEW fetched, NEW mulReady, NEW junk \in Value,
         Cycle(fetched, mulReady, junk), NEW d \in Station, Dispatches(d, mulReady),
         NEW F, F = Buffer', NEW x, x = rs'
  PROVE  Agree(F, x, rob.newestIndex', rob.isFull')
  <1>0. Types /\ Counted /\ rob.newestIndex \in Index /\ Index = 0 .. config.capacity - 1
    BY BufferType DEF DInv
  <1>1. PICK M, R, D, y, i, w : /\ M = Sent(mulReady, junk) /\ R = Resting(mulReady, junk)
                                /\ D = AfterRetire(mulReady, junk) /\ y = Hears(M, Dispatched)
                                /\ i = decode.ir /\ w = rob.newestIndex
    OBVIOUS
  <1>2. /\ i \in Issuable /\ (Retires \/ ~ rob.isFull)
        /\ \A s \in Station : Dispatches(s, mulReady) => s = d
        /\ Idle(rs[d]) \/ Granted(d, mulReady)
    BY <1>1, DispatchIs
  <1>3. x = [s \in Station |-> Hears(M, StationNext(s, mulReady, junk))]
    BY <1>1, CycleIs
  <1>4. x[d] = y /\ \A s \in Station \ {d} : x[s] = R[s]
    BY <1>0, <1>1, <1>2, <1>3, StationsNextAre
  <1>5. \A s \in Station : R[s] \in StationOf(Program, Index)
    BY <1>1, RestingType
  <1>6. /\ BufferT(D) /\ BufferOK(D) /\ StationsOK(D, R) /\ w = Pos(D, Len(D.q))
        /\ D.c = config.capacity /\ Len(D.q) < D.c
        /\ \A m \in M : \E k \in Places(D) : m.robIndex = Pos(D, k)
        /\ y \in StationOf(Program, Index) /\ Taken(y, i, w) /\ Operands(D, y, Len(D.q))
    BY <1>1, <1>2, RetireStage
  <1>7. InOrder(D) /\ D.c \in Nat \ {0} /\ Len(D.q) \in Nat /\ Len(D.q) \in 0 .. D.c - 1
        /\ D.o \in 0 .. D.c - 1
    BY <1>6 DEF BufferOK, BufferT
  <1>8. x \in [Station -> StationOf(Program, Index)]
    <2>1. x = [s \in Station |-> x[s]]
      BY <1>3
    <2> QED BY <2>1, <1>4, <1>5, <1>6
  <1>9. Idle(R[d])
    BY <1>0, <1>1, <1>2, IdleType DEF Resting, Idle
  <1>10. ASSUME NEW m \in M
         PROVE  m.robIndex \in Index /\ m.robIndex # w
    <2>1. PICK k \in Places(D) : m.robIndex = Pos(D, k)
      BY <1>6, <1>10
    <2>2. k \in 0 .. D.c - 1 /\ Pos(D, k) \in Index
      BY <2>1, <1>0, <1>6, <1>7, PlaceType
    <2>3. k # Len(D.q)
      BY <1>7 DEF Places
    <2> QED BY <2>1, <2>2, <2>3, <1>6, <1>7, PosInjective
  <1>11. EntriesNext(TRUE, M) = [EntriesNext(FALSE, M) EXCEPT ![w] = NewEntry(i)]
    BY <1>0, <1>1, <1>10, PushAdds
  <1>12. rob' = RobNext(TRUE, M) /\ order' = OrderNext(TRUE)
    <2>1. Pushes(mulReady) = TRUE
      BY DEF Pushes
    <2> QED BY <2>1, <1>1, CycleIs
  <1>13. D = [c |-> D.c, o |-> D.o, q |-> D.q, e |-> D.e, g |-> D.g] /\ D.e = EntriesNext(FALSE, M)
         /\ D.o = (IF Retires THEN nextIndex(rob.oldestIndex) ELSE rob.oldestIndex)
         /\ D.q = (IF Retires THEN Tail(order) ELSE order)
         /\ D.g = registers'
    BY <1>1, CycleIs DEF AfterRetire
  <1>14. /\ rob.entries' = EntriesNext(TRUE, M) /\ rob.newestIndex' = nextIndex(w)
         /\ rob.oldestIndex' = D.o /\ rob.isFull' = (D.o = nextIndex(w))
    BY <1>1, <1>12, <1>13 DEF RobNext
  <1>15. order' = Append(D.q, i)
    BY <1>1, <1>12, <1>13 DEF OrderNext
  <1>16. /\ F.c = D.c /\ F.o = D.o /\ F.q = Append(D.q, i) /\ F.g = D.g
         /\ F.e = EntriesNext(TRUE, M)
    BY <1>6, <1>13, <1>14, <1>15, CycleIs DEF Buffer
  <1>17. Adds(D, F, i)
    BY <1>6, <1>11, <1>13, <1>16 DEF Adds
  <1>18. BufferT(F) /\ BufferOK(F)
    BY <1>2, <1>6, <1>17, AddsBuffer
  <1>19. Works(F, x[d], Len(D.q))
    BY <1>2, <1>4, <1>6, <1>7, <1>17, TakenWorks
  <1>20. StationsOK(F, x)
    BY <1>2, <1>4, <1>6, <1>7, <1>9, <1>17, <1>19, StationsAdds
  <1>21. Len(F.q) = Len(D.q) + 1 /\ Pos(F, Len(D.q) + 1) = Pos(D, Len(D.q) + 1)
    BY <1>2, <1>6, <1>7, <1>17, AddsFrame
  <1>22. nextIndex(w) = Pos(D, Len(D.q) + 1)
    BY <1>6, <1>7, PosNext DEF nextIndex
  <1>23. (D.o = Pos(D, Len(D.q) + 1)) <=> (Len(D.q) + 1 = D.c)
    <2>1. PICK c, o, n : c = D.c /\ o = D.o /\ n = Len(D.q) + 1
      OBVIOUS
    <2>2. c \in Nat \ {0} /\ o \in 0 .. c - 1 /\ n \in 1 .. c
      BY <2>1, <1>7
    <2>0. Pos(D, Len(D.q) + 1) = Ring(c, o, n)
      BY <2>1 DEF Pos
    <2>3. CASE n = c
      <3>1. 0 \in 0 .. c - 1
        BY <2>2
      <3>2. Ring(c, o, c) = o
        BY <3>1, <2>2, RingSteps
      <3> QED BY <3>2, <2>0, <2>1, <2>3
    <2>4. CASE n # c
      <3>1. n \in 0 .. c - 1 /\ n # 0
        BY <2>2, <2>4
      <3>2. Ring(c, o, n) # o
        BY <3>1, <2>2, RingSteps
      <3> QED BY <3>2, <2>0, <2>1, <2>4
    <2> QED BY <2>3, <2>4
  <1>24. rob.isFull' = (Len(F.q) = F.c)
    BY <1>14, <1>16, <1>21, <1>22, <1>23
  <1> QED BY <1>8, <1>14, <1>18, <1>20, <1>21, <1>22, <1>24 DEF Agree

(* A jump that retires empties the buffer, and no station is left. *)
LEMMA JumpStops ==
  ASSUME NoneLeftWaiting, DInv, GlobalJump, NEW mulReady, NEW s \in Station
  PROVE  isAvailable(s, mulReady)
  <1>0. /\ Types /\ Counted /\ BufferOK(Buffer) /\ InOrder(Buffer) /\ StationsOK(Buffer, rs) /\ Served
        /\ BufferT(Buffer) /\ Retires
    BY BufferType DEF DInv, BufferOK, GlobalJump
  <1>1. Idle(rs[s]) => isAvailable(s, mulReady)
    BY DEF Idle, isAvailable
  <1>2. ASSUME NEW n \in Places(Buffer), Works(Buffer, rs[s], n)
        PROVE  isAvailable(s, mulReady)
    <2>1. CASE rs[s].state = "EXECUTING"
      BY <2>1 DEF isAvailable
    <2>2. CASE rs[s].state = "BROADCASTING_RESULT"
      <3>1. s # maskLocked
        BY <2>2, <1>0 DEF Served
      <3> QED BY <3>1, <2>2 DEF isAvailable, Granted, cdbValid
    <2>3. CASE rs[s].state = "WAITING_FOR_ARGS"
      <3>1. PICK m \in 0 .. n - 1 : ~ Ready(Buffer, m)
        BY <2>3, <1>2 DEF Works, Operands, Op, Awaits
      <3>2. Ready(Buffer, 0) /\ Len(order) \in 0 .. config.capacity
        BY <1>0, RetiresIs, ReadBuffer
      <3>3. n >= 2 /\ Len(order) >= 3
        <4>1. Len(order) \in Nat /\ Places(Buffer) = 0 .. Len(order) - 1
          BY <1>0, BufferType
        <4>2. m # 0
          BY <3>1, <3>2
        <4> QED BY <4>1, <4>2
      <3>4. config.capacity > 2
        BY <3>2, <3>3, <1>0, BufferType
      <3>5. oldestEntry.performsJump = Jumps(Head(order), registers)
            /\ Head(order) \in Issuable
        BY <1>0, ReadyIsRight
      <3>6. Head(order).op \in {"BEQ", "JAL"}
        BY <3>5 DEF GlobalJump, Jumps, TakesJump
      <3>7. Head(order) \in config.program /\ config \in Configs /\ config.capacity \in Nat
        <4>1. order \in Seq(Issuable) /\ Len(order) \in Nat
          BY <1>0, BufferType DEF Types
        <4>2. Head(order) = order[1] /\ 1 \in 1 .. Len(order)
          BY <4>1, <3>3
        <4>3. Head(order) \in Program
          BY <4>2 DEF DInv, Fetched
        <4>4. NOP.op = "ADDI"
          BY DEF NOP, Inst
        <4> QED BY <4>3, <4>4, <3>6, <1>0, BufferType DEF Program, Types
      <3> QED BY <3>4, <3>6, <3>7 DEF NoneLeftWaiting
    <2> QED BY <2>1, <2>2, <2>3, <1>2 DEF Works
  <1> QED BY <1>0, <1>1, <1>2 DEF StationsOK

LEMMA JumpEntries ==
  ASSUME DInv, NEW mulReady, NEW junk \in Value
  PROVE  EntriesNext(FALSE, Sent(mulReady, junk)) \in [Index -> RobEntry]
  <1>0. /\ Types /\ BufferOK(Buffer) /\ InOrder(Buffer) /\ StationsOK(Buffer, rs) /\ BufferT(Buffer)
        /\ rob.entries \in [Index -> RobEntry] /\ 0 \in Index
    BY BufferType DEF DInv, BufferOK
  <1>1. PICK f : f = EntriesNext(FALSE, Sent(mulReady, junk))
    OBVIOUS
  <1>2. f = [i \in Index |-> f[i]]
    BY <1>1, EntriesNextType
  <1>3. ASSUME NEW i \in Index
        PROVE  f[i] \in RobEntry
    <2>1. CASE \A s \in Station : ~ Granted(s, mulReady)
      <3>1. Sent(mulReady, junk) = {}
        BY <2>1, <1>0, SentCases
      <3>2. PICK n \in Message : n.robIndex \in Index
        <4>1. NoMessage \in Message /\ NoMessage.robIndex \in Index
          BY <1>0, ZeroValue DEF NoMessage, Message
        <4> QED BY <4>1
      <3>3. EntriesNext(FALSE, {})[i] = rob.entries[i]
        BY <3>2, <1>0, <1>3, EntriesNextAre
      <3> QED BY <3>1, <3>3, <1>0, <1>1, <1>3
    <2>2. ASSUME NEW s \in Station, Granted(s, mulReady)
          PROVE  f[i] \in RobEntry
      <3>1. PICK z \in Message : z = payload(s, junk)
        BY <1>0, OutcomeType
      <3>2. Sent(mulReady, junk) = {z}
        BY <3>1, <2>2, <1>0, SentCases
      <3>3. PICK n \in Places(Buffer) : z.robIndex = Pos(Buffer, n)
        BY <3>1, <2>2, <1>0, PayloadRight
      <3>4. z.robIndex \in Index
        BY <3>3, <1>0, PlaceType, BufferType, BufferFields
      <3>5. EntriesNext(FALSE, {z})[i] = IF i = z.robIndex THEN Marked(rob.entries[i], z)
                                         ELSE rob.entries[i]
        BY <3>4, <1>0, <1>3, EntriesNextAre
      <3>6. PICK e : e = rob.entries[i]
        OBVIOUS
      <3>7. e \in RobEntry
        BY <3>6, <1>0, <1>3
      <3>8. Marked(e, z) \in RobEntry
        BY <3>7 DEF Marked, RobEntry, Message
      <3> QED BY <3>2, <3>5, <3>6, <3>7, <3>8, <1>1
    <2> QED BY <2>1, <2>2
  <1> QED BY <1>1, <1>2, <1>3

LEMMA JumpStep ==
  ASSUME NoneLeftWaiting, DInv, GlobalJump, NEW fetched, NEW mulReady, NEW junk \in Value,
         Cycle(fetched, mulReady, junk), NEW F, F = Buffer', NEW x, x = rs'
  PROVE  /\ Agree(F, x, rob.newestIndex', rob.isFull') /\ order' = <<>>
         /\ \A s \in Station : Idle(x[s])
  <1>0. /\ Types /\ Retires /\ config.capacity \in Nat \ {0} /\ 0 \in Index
        /\ Index = 0 .. config.capacity - 1
    BY BufferType DEF DInv, GlobalJump
  <1>1. PICK M : M = Sent(mulReady, junk)
    OBVIOUS
  <1>2. \A s \in Station : ~ Dispatches(s, mulReady)
    BY DEF Dispatches, Issues
  <1>3. \A s \in Station : StationNext(s, mulReady, junk) = IdleStation
    BY <1>2, JumpStops DEF StationNext
  <1>4. Hears(M, IdleStation) = IdleStation
    BY <1>0, IdleType DEF Hears, onCdbMessage
  <1>5. x = [s \in Station |-> Hears(M, StationNext(s, mulReady, junk))]
    BY <1>1, CycleIs
  <1>6. \A s \in Station : x[s] = IdleStation
    BY <1>3, <1>4, <1>5
  <1>7. x \in [Station -> StationOf(Program, Index)] /\ \A s \in Station : Idle(x[s])
    BY <1>0, <1>5, <1>6, IdleType DEF Idle
  <1>8. rob' = RobNext(FALSE, M) /\ order' = OrderNext(FALSE)
    <2>1. Pushes(mulReady) = FALSE
      BY <1>2 DEF Pushes
    <2> QED BY <2>1, <1>1, CycleIs
  <1>9. /\ rob.entries' = EntriesNext(FALSE, M) /\ rob.newestIndex' = 0 /\ rob.oldestIndex' = 0
        /\ rob.isFull' = FALSE /\ order' = <<>>
    BY <1>0, <1>8 DEF RobNext, OrderNext
  <1>10. registers' \in [Reg -> Value]
    <2>1. oldestEntry \in RobEntry
      BY <1>0, ReadyIsRight
    <2>2. oldestEntry.writeDestination \in Reg /\ oldestEntry.writeValue \in Value
      BY <2>1 DEF RobEntry
    <2>3. registers \in [Reg -> Value]
      BY <1>0 DEF Types
    <2> QED BY <2>2, <2>3, CycleIs
  <1>11. /\ F.c = config.capacity /\ F.o = 0 /\ F.q = <<>> /\ F.e = EntriesNext(FALSE, M)
         /\ F.g = registers'
    BY <1>9, CycleIs DEF Buffer
  <1>12. F.e \in [Index -> RobEntry]
    BY <1>1, <1>11, JumpEntries
  <1>13. Len(F.q) = 0 /\ F.q \in Seq(Issuable)
    BY <1>11
  <1>14. BufferT(F)
    BY <1>0, <1>10, <1>11, <1>12, <1>13 DEF BufferT
  <1>15. Places(F) = {}
    BY <1>13 DEF Places
  <1>16. BufferOK(F)
    BY <1>0, <1>11, <1>13, <1>15 DEF BufferOK, InOrder, Results, Freshest
  <1>17. StationsOK(F, x)
    BY <1>7, <1>15 DEF StationsOK
  <1>18. Pos(F, Len(F.q)) = 0
    BY <1>0, <1>11, <1>13 DEF Pos, Ring
  <1>19. Len(F.q) # F.c
    BY <1>0, <1>11, <1>13
  <1> QED BY <1>7, <1>9, <1>14, <1>16, <1>17, <1>18, <1>19 DEF Agree

(* A station that has to hold its result is served next. *)
LEMMA ServedStep ==
  ASSUME DInv, ~ GlobalJump, NEW fetched, NEW mulReady, NEW junk \in Value,
         Cycle(fetched, mulReady, junk), NamesWhatItWrites
  PROVE  Served'
  <1>0. Types /\ InOrder(Buffer) /\ StationsOK(Buffer, rs) /\ Served /\ 0 \in Index
    BY BufferType DEF DInv, BufferOK
  <1> SUFFICES ASSUME NEW s \in Station, rs'[s].state = "BROADCASTING_RESULT"
               PROVE  s # maskLocked'
    BY DEF Served
  <1>1. PICK M, x : M = Sent(mulReady, junk) /\ x = Held(mulReady, junk)[s]
    OBVIOUS
  <1>2. rs'[s] = IF Dispatches(s, mulReady) THEN Hears(M, Dispatched)
                 ELSE Resting(mulReady, junk)[s]
    BY <1>0, <1>1, CycleIs, StationsNextAre
  <1>3. ~ Dispatches(s, mulReady)
    <2> SUFFICES ASSUME Dispatches(s, mulReady) PROVE FALSE
      OBVIOUS
    <2>1. decode.ir \in Issuable
      BY DispatchIs
    <2>2. Taken(Hears(M, Dispatched), decode.ir, rob.newestIndex)
      BY <2>1, <1>1, MessageStage
    <2> QED BY <2>2, <1>2 DEF Taken
  <1>4. rs'[s] = IF Idle(rs[s]) \/ Granted(s, mulReady) THEN IdleStation ELSE Hears(M, x)
    BY <1>1, <1>2, <1>3 DEF Resting
  <1>5. ~ Granted(s, mulReady) /\ rs'[s] = Hears(M, x)
    BY <1>0, <1>4, IdleType
  <1>6. x \in StationOf(Program, Index)
    BY <1>0, <1>1, HeldRight
  <1>7. x.state = "BROADCASTING_RESULT"
    <2>1. CASE \A t \in Station : ~ Granted(t, mulReady)
      BY <2>1, <1>0, <1>1, <1>5, SentCases DEF Hears
    <2>2. ASSUME NEW t \in Station, Granted(t, mulReady)
          PROVE  x.state = "BROADCASTING_RESULT"
      <3>1. PICK z \in Message : z = payload(t, junk)
        BY <1>0, OutcomeType
      <3>2. rs'[s] = onCdbMessage(x, z)
        BY <3>1, <2>2, <1>0, <1>1, <1>5, SentCases
      <3>3. x.state # "WAITING_FOR_ARGS" => onCdbMessage(x, z) = x
        BY <1>0, <1>6, HearType
      <3>4. x.state = "WAITING_FOR_ARGS" => onCdbMessage(x, z).state \in {"WAITING_FOR_ARGS", "EXECUTING"}
        BY <1>0, <1>6, HearType
      <3> QED BY <3>2, <3>3, <3>4
    <2> QED BY <2>1, <2>2
  <1>8. x = IF isDone(s, mulReady) /\ ~ Granted(s, mulReady) THEN Holding(s, junk) ELSE rs[s]
    BY <1>1 DEF Held
  <1>9. cdbValid(s, mulReady)
    BY <1>7, <1>8 DEF cdbValid
  <1>10. PICK t \in Station : Granted(t, mulReady)
    BY <1>0, <1>9, GrantedOne
  <1>11. t # s
    BY <1>5, <1>10
  <1>12. M # {} /\ (CHOOSE u \in Station : Granted(u, mulReady)) = t
    BY <1>0, <1>1, <1>10, SentCases
  <1> QED BY <1>1, <1>11, <1>12, CycleIs

LEMMA AgreeStep ==
  ASSUME NoneLeftWaiting, NamesWhatItWrites, DInv, NEW fetched, NEW mulReady, NEW junk \in Value,
         Cycle(fetched, mulReady, junk)
  PROVE  /\ Agree(Buffer', rs', rob.newestIndex', rob.isFull') /\ Served'
  <1>1. PICK F, x : F = Buffer' /\ x = rs'
    OBVIOUS
  <1>2. CASE GlobalJump
    <2>1. /\ Agree(F, x, rob.newestIndex', rob.isFull')
          /\ \A s \in Station : Idle(x[s])
      BY <1>1, <1>2, JumpStep
    <2>2. Served'
      BY <2>1, <1>1 DEF Served, Idle
    <2> QED BY <2>1, <2>2, <1>1
  <1>3. CASE ~ GlobalJump
    <2>1. Agree(F, x, rob.newestIndex', rob.isFull')
      BY <1>1, <1>3, QuietStep, PushStep DEF Pushes
    <2> QED BY <2>1, <1>1, <1>3, ServedStep
  <1> QED BY <1>2, <1>3

(* The other registers of the pipeline. *)
LEMMA OtherTypes ==
  ASSUME Types, NEW fetched \in Program, NEW mulReady \in BOOLEAN, NEW junk \in Value,
         Cycle(fetched, mulReady, junk)
  PROVE  /\ decode' \in [isValid : BOOLEAN, ir : Program] /\ maskLocked' \in Station
         /\ step' \in 0 .. MulSteps - 1 /\ config' = config
  <1>1. config' = config
    BY DEF Cycle
  <1>2. decode \in [isValid : BOOLEAN, ir : Program] /\ NOP \in Program
    BY DEF Types, Program
  <1>3. PICK b \in BOOLEAN : decode' = DecodeNext(b, fetched)
    <2>1. (Issues /\ ~ Pushes(mulReady)) \in BOOLEAN
      BY DEF Issues, Pushes
    <2>2. decode' = DecodeNext(Issues /\ ~ Pushes(mulReady), fetched)
      BY DEF Cycle, Pushes
    <2> QED BY <2>1, <2>2
  <1>4. decode' \in [isValid : BOOLEAN, ir : Program]
    <2>1. decode' \in {decode, [isValid |-> FALSE, ir |-> NOP], [isValid |-> TRUE, ir |-> fetched]}
      BY <1>3 DEF DecodeNext
    <2>2. [isValid |-> FALSE, ir |-> NOP] \in [isValid : BOOLEAN, ir : Program]
      <3> HIDE DEF NOP
      <3> QED BY <1>2
    <2>3. [isValid |-> TRUE, ir |-> fetched] \in [isValid : BOOLEAN, ir : Program]
      OBVIOUS
    <2> QED BY <2>1, <2>2, <2>3, <1>2
  <1>5. maskLocked' \in Station
    <2>1. maskLocked \in Station
      BY DEF Types
    <2>2. CASE \A s \in Station : ~ Granted(s, mulReady)
      BY <2>1, <2>2, SentCases, CycleIs
    <2>3. CASE \E s \in Station : Granted(s, mulReady)
      BY <2>1, <2>3, SentCases, CycleIs
    <2> QED BY <2>2, <2>3
  <1>6. step' \in 0 .. MulSteps - 1
    <2>1. step \in 0 .. MulSteps - 1 /\ MulSteps \in Nat \ {0}
      BY DynamicAssumption DEF Types
    <2>2. PICK x \in BOOLEAN : x = (rs["EX_MUL"].state = "EXECUTING" /\ ~ GlobalJump)
      OBVIOUS
    <2>3. /\ x /\ step = MulSteps - 1 => mulReady
          /\ step' = IF x /\ ~ mulReady THEN step + 1 ELSE 0
      BY <2>2 DEF Cycle
    <2> QED BY <2>1, <2>3
  <1> QED BY <1>1, <1>4, <1>5, <1>6

LEMMA FetchedStep ==
  ASSUME DInv, NEW fetched, NEW mulReady, NEW junk, Cycle(fetched, mulReady, junk)
  PROVE  Fetched'
  <1>1. /\ order \in Seq(Issuable) /\ Program' = Program /\ decode.ir \in Program
        /\ \A n \in 1 .. Len(order) : order[n] \in Program
    BY CycleIs DEF DInv, Types, Fetched, Program
  <1>2. PICK p, q, f, i : /\ p = Program /\ q = order /\ f = order' /\ i = decode.ir
    OBVIOUS
  <1>3. /\ q \in Seq(Issuable) /\ i \in p /\ \A n \in 1 .. Len(q) : q[n] \in p
    BY <1>1, <1>2
  <1>4. q \in Seq(p)
    <2>1. q = [n \in 1 .. Len(q) |-> q[n]] /\ Len(q) \in Nat
      BY <1>3
    <2> QED BY <2>1, <1>3
  <1>5. f \in {<<>>, q} \cup {Append(q, i)} \/ (q # <<>> /\ f \in {Tail(q), Append(Tail(q), i)})
    <2>1. order' = OrderNext(Pushes(mulReady))
      BY CycleIs
    <2>2. Retires => order # <<>>
      BY RetiresIs
    <2> QED BY <2>1, <2>2, <1>2 DEF OrderNext
  <1>6. f \in Seq(p)
    <2>1. <<>> \in Seq(p) /\ Append(q, i) \in Seq(p)
      BY <1>3, <1>4
    <2>2. q # <<>> => Tail(q) \in Seq(p)
      BY <1>4
    <2>3. q # <<>> => Append(Tail(q), i) \in Seq(p)
      BY <2>2, <1>3
    <2> QED BY <2>1, <2>2, <2>3, <1>4, <1>5
  <1>7. \A n \in 1 .. Len(f) : f[n] \in p
    BY <1>6
  <1> QED BY <1>1, <1>2, <1>7 DEF Fetched

LEMMA CycleKeepsInvariant ==
  ASSUME NoneLeftWaiting, NamesWhatItWrites, DInv, Next
  PROVE  DInv'
  <1>1. PICK fetched \in config.program \cup {NOP}, mulReady \in BOOLEAN, junk \in Value :
           Cycle(fetched, mulReady, junk)
    BY DEF Next
  <1>2. Agree(Buffer', rs', rob.newestIndex', rob.isFull') /\ Served'
    BY <1>1, AgreeStep
  <1>3. Fetched'
    BY <1>1, FetchedStep
  <1>4. /\ decode' \in [isValid : BOOLEAN, ir : Program] /\ maskLocked' \in Station
        /\ step' \in 0 .. MulSteps - 1 /\ config' = config /\ config \in Configs
    BY <1>1, OtherTypes DEF DInv, Types, Program
  <1>5. Program' = Program /\ Index' = Index /\ StationRecord' = StationOf(Program, Index)
    BY <1>4 DEF Program, Index, StationRecord, StationOf, OperandOf, Message
  <1>6. /\ BufferT(Buffer') /\ BufferOK(Buffer') /\ StationsOK(Buffer', rs')
        /\ rob.newestIndex' = Pos(Buffer', Len(Buffer'.q))
        /\ rob.isFull' = (Len(Buffer'.q) = Buffer'.c)
        /\ rs' \in [Station -> StationOf(Program, Index)]
    BY <1>2 DEF Agree
  <1>7. /\ Buffer'.c = config.capacity' /\ Buffer'.o = rob.oldestIndex' /\ Buffer'.q = order'
        /\ Buffer'.e = rob.entries' /\ Buffer'.g = registers'
    BY DEF Buffer
  <1>8. Counted'
    BY <1>6, <1>7 DEF Counted
  <1>9. /\ rob.oldestIndex' \in Index /\ rob.entries' \in [Index -> RobEntry]
        /\ order' \in Seq(Issuable) /\ registers' \in [Reg -> Value] /\ config.capacity' = config.capacity
    BY <1>4, <1>6, <1>7 DEF BufferT, Index
  <1>10. rob.newestIndex' \in Index
    <2>1. PICK F : F = Buffer'
      OBVIOUS
    <2>2. BufferT(F) /\ Len(F.q) \in 0 .. F.c /\ F.c = config.capacity
      BY <2>1, <1>6, <1>7, <1>9 DEF BufferT, BufferOK, InOrder
    <2>3. Pos(F, Len(F.q)) \in 0 .. F.c - 1
      BY <2>2, PosType
    <2> QED BY <2>1, <2>2, <2>3, <1>6 DEF Index
  <1>11. rob' \in [entries : [Index -> RobEntry], oldestIndex : Index, newestIndex : Index,
                   isFull : BOOLEAN]
    <2>1. PICK e, o, w, f : rob' = [entries |-> e, oldestIndex |-> o, newestIndex |-> w, isFull |-> f]
      BY <1>1, CycleIs DEF RobNext
    <2>2. e = rob.entries' /\ o = rob.oldestIndex' /\ w = rob.newestIndex' /\ f = rob.isFull'
      BY <2>1
    <2>3. f \in BOOLEAN
      BY <2>2, <1>6
    <2> QED BY <2>1, <2>2, <2>3, <1>9, <1>10
  <1>12. Types'
    BY <1>4, <1>5, <1>6, <1>9, <1>11 DEF Types
  <1> QED BY <1>2, <1>3, <1>6, <1>8, <1>12 DEF DInv

LEMMA InitInvariant == Init => DInv
  <1> SUFFICES ASSUME Init PROVE DInv
    OBVIOUS
  <1>1. /\ config \in Configs /\ config.capacity \in Nat \ {0} /\ Index = 0 .. config.capacity - 1
    BY DynamicAssumption DEF Init, Index
  <1>2. ZeroEntry \in RobEntry
    BY ZeroValue DEF ZeroEntry, RobEntry
  <1>3. /\ rob \in [entries : [Index -> RobEntry], oldestIndex : Index, newestIndex : Index,
                    isFull : BOOLEAN]
        /\ rob.oldestIndex = 0 /\ rob.newestIndex = 0 /\ rob.isFull = FALSE
    <2>1. 0 \in Index /\ [i \in Index |-> ZeroEntry] \in [Index -> RobEntry]
      BY <1>1, <1>2
    <2> QED BY <2>1 DEF Init
  <1>4. 0 \in Index /\ 0 \in Value /\ NOP \in Program
    BY <1>1, ZeroValue DEF Program
  <1>5. IdleStation \in StationOf(Program, Index) /\ IdleStation.state = "IDLE"
    <2>1. Data(0) \in OperandOf(Index)
      BY <1>4 DEF Data, OperandOf
    <2>2. NoMessage \in Message
      BY <1>4 DEF NoMessage, Message
    <2> QED BY <1>4, <2>1, <2>2 DEF IdleStation, StationOf
  <1>6. rs \in [Station -> StationRecord] /\ \A s \in Station : Idle(rs[s])
    BY <1>5 DEF Init, StationRecord, Idle
  <1>7. decode \in [isValid : BOOLEAN, ir : Program]
    BY <1>4 DEF Init
  <1>8. maskLocked \in Station /\ step \in 0 .. MulSteps - 1 /\ registers \in [Reg -> Value]
    BY DynamicAssumption DEF Init, Station
  <1>9. order = <<>> /\ order \in Seq(Issuable) /\ Len(order) = 0
    BY DEF Init
  <1>10. Types
    BY <1>1, <1>3, <1>6, <1>7, <1>8, <1>9 DEF Types
  <1>11. /\ Buffer.c = config.capacity /\ Buffer.o = 0 /\ Len(Buffer.q) = 0
    BY <1>3, <1>9, BufferFields
  <1>12. Places(Buffer) = {}
    BY <1>11 DEF Places
  <1>13. Counted
    BY <1>1, <1>3, <1>9, <1>11 DEF Counted, Pos, Ring
  <1>14. Served /\ Fetched
    BY <1>6, <1>9 DEF Served, Fetched, Idle
  <1>15. BufferOK(Buffer)
    BY <1>1, <1>11, <1>12 DEF BufferOK, InOrder, Results, Freshest
  <1>16. StationsOK(Buffer, rs)
    BY <1>6, <1>12 DEF StationsOK
  <1> QED BY <1>10, <1>13, <1>14, <1>15, <1>16 DEF DInv

LEMMA StepKeepsInvariant ==
  ASSUME NoneLeftWaiting, NamesWhatItWrites, DInv, [Next]_vars
  PROVE  DInv'
  <1>1. CASE Next
    BY <1>1, CycleKeepsInvariant
  <1>2. CASE UNCHANGED vars
    <2>1. /\ Buffer' = Buffer /\ rs' = rs /\ rob' = rob /\ order' = order /\ config' = config
          /\ decode' = decode /\ maskLocked' = maskLocked /\ step' = step /\ registers' = registers
      BY <1>2 DEF vars, Buffer
    <2>2. Program' = Program /\ Index' = Index /\ StationRecord' = StationRecord
      BY <2>1 DEF Program, Index, StationRecord, StationOf, OperandOf, Message
    <2>3. Types'
      BY <2>1, <2>2 DEF DInv, Types
    <2>4. Counted' /\ Served' /\ Fetched'
      BY <2>1, <2>2 DEF DInv, Counted, Served, Fetched
    <2>5. BufferOK(Buffer)' /\ StationsOK(Buffer, rs)'
      BY <2>1 DEF DInv
    <2> QED BY <2>3, <2>4, <2>5 DEF DInv
  <1> QED BY <1>1, <1>2

-----------------------------------------------------------------------------
(* The theorems.                                                           *)

(* The reorder buffer and the reservation stations agree in every state, for
   every number of registers and values, every capacity and every latency of
   the multiplier: the entries between oldestIndex and newestIndex are the
   instructions that were dispatched and have not retired, in program order,
   and every one that has no result has one station that works on it
   (ReorderBuffer, ReservationStation). *)
THEOREM ReorderBufferConsistent ==
  ASSUME NoneLeftWaiting, NamesWhatItWrites
  PROVE  Spec => []RobConsistent
  <1>1. Init => DInv
    BY InitInvariant
  <1>2. DInv /\ [Next]_vars => DInv'
    BY StepKeepsInvariant
  <1>3. DInv => RobConsistent
    BY InvariantImpliesConsistent
  <1> QED BY <1>1, <1>2, <1>3, PTL DEF Spec

(* Instructions finish out of order and retire as if they ran one at a time:
   whatever order the stations and the bus give them, the oldest one changes
   the registers and redirects the fetch as the instruction does on the
   registers it finds (ReorderBuffer.build, ReservationStation.execute). *)
THEOREM RetirementInOrder ==
  ASSUME NoneLeftWaiting, NamesWhatItWrites
  PROVE  Spec => RetiresInOrder
  <1>1. Init => DInv
    BY InitInvariant
  <1>2. DInv /\ [Next]_vars => DInv'
    BY StepKeepsInvariant
  <1>3. DInv /\ [Next]_vars =>
          [Retires => /\ SameRegs(registers', Execute(Head(order), registers, Head(order).imm, 0, 0))
                      /\ oldestEntry.performsJump = Jumps(Head(order), registers)]_vars
    BY RetirementStep
  <1> QED BY <1>1, <1>2, <1>3, PTL DEF Spec, RetiresInOrder

=============================================================================
