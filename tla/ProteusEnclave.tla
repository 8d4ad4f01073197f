--------------------------- MODULE ProteusEnclave ---------------------------
(***************************************************************************)
(* The enclave extension of the Proteus core, clock cycle by clock cycle:  *)
(* the state machines of EnclaveInit.scala, which run EInitCode, EInitData *)
(* and EStoreId in the memory stage, with the identity store and the tag   *)
(* scan they drive.  In every cycle the memory stage, the store and the    *)
(* scan move together; an answer is seen in the cycle that gives it.       *)
(*                                                                         *)
(* An instruction that leaves the memory stage is in writeback for one     *)
(* cycle.  An interrupt taken there drops its result; the handler returns  *)
(* to the instruction, which software may then issue again.                *)
(***************************************************************************)
EXTENDS ProteusStore, ProteusScan, FiniteSets

CONSTANTS
    Otypes,      \* number of otypes; the topmost marks an unsealed capability
    Section,     \* code sections software may turn into enclaves
    Base,        \* Base[s], Length[s]: where section s is, in bytes
    Length,
    Data,        \* [base, top] of the data section, cs2 of EInitData
    Space,       \* number of byte addresses; an address wraps around
    NumRegs,     \* capability registers, 0 included
    NumScrs,     \* registered special capability registers
    Operands,    \* bound: register numbers <<rs1, rs2>> EInitData may have
    Views,       \* bound: what EInitData may find elsewhere, see View
    Untagged,    \* bound: otypes of the untagged values passed to EInitData
    Asked,       \* bound: otypes passed to EStoreId
    Buffers,     \* bound: cs2 of EStoreId, see Buffer
    HashWords,   \* words of a hash (8)
    Interrupts,  \* whether interrupts are enabled
    Nop          \* no instruction

(* One more capability of the machine: the place that holds it, its tag and
   its bounds; and the tagged granules of memory. *)
View == [place : {<<"reg", r>> : r \in 1 .. NumRegs - 1}
                    \cup {<<"ddc", 0>>, <<"pcc", 0>>}
                    \cup {<<"scr", k>> : k \in 0 .. NumScrs - 1}
                    \cup {<<"mem", k>> : k \in Tag},
         tag : BOOLEAN, base : Nat, top : Nat, tagged : SUBSET Tag]

Buffer == [isSealed : BOOLEAN, store : BOOLEAN, length : Nat, offset : Nat]

ASSUME ProteusAssumption ==
    /\ Otypes \in Nat /\ 4 * NumIds < Otypes
    /\ Space \in Nat \ {0}
    /\ Base \in [Section -> Nat] /\ Length \in [Section -> Nat]
    /\ \A s \in Section : Base[s] + Length[s] < Space
    /\ Digest = [sec : Section, words : 0 .. Space]
    /\ Data \in [base : Nat, top : Nat]
    /\ NumRegs \in Nat /\ NumRegs > 1 /\ NumScrs \in Nat \ {0}
    /\ Operands \subseteq (1 .. NumRegs - 1) \X (1 .. NumRegs - 1)
    /\ Views \subseteq View /\ Buffers \subseteq Buffer
    /\ \A v \in Views : /\ v.place[1] = "mem" => v.tag /\ v.place[2] \in v.tagged
                        /\ v.tagged \subseteq Tag
    /\ Untagged \subseteq 0 .. Otypes - 1 /\ Asked \subseteq 0 .. Otypes - 1
    /\ HashWords \in Nat \ {0}
    /\ Interrupts \in BOOLEAN
    /\ Nop \notin [op : {"EInitCode", "EInitData"}, id : Id, sec : Section \cup {None}]

VARIABLES
    store,   \* registers of the identity store and of the id generator
    scan,    \* registers of the tag scan
    pc,      \* the state of whichever state machine of EnclaveInit is busy
    cur,     \* currentReg, currentAddress or hashIdx
    instr,   \* the instruction in the memory stage, with its operands
    wb,      \* the result in writeback
    issued,  \* <<id, section>> of the code capabilities EInitCode returned
    sealed,  \* ids of the data capabilities EInitData returned
    keys     \* ids whose sealing capability is in the data section

vars == <<store, scan, pc, cur, instr, wb, issued, sealed, keys>>

Unsealed == Otypes - 1

NoRequest == [op |-> "idle", eid |-> Invalid, hash |-> None]

Ask(op, otype) == [NoRequest EXCEPT !.op = op, !.eid = assignFromOtype(otype)]

(* One clock cycle of the store and of the scan. *)
Clock(req, line) ==
    /\ store' = StoreCycle(store, req).next
    /\ scan' = ScanNext(scan, line)

Reply(req) == StoreCycle(store, req).answer

Goto(state, n) == pc' = state /\ cur' = n /\ UNCHANGED <<instr, wb>>

(* The instruction leaves the memory stage with the given result. *)
Finish(result) == pc' = "IDLE" /\ cur' = 0 /\ instr' = Nop /\ wb' = result

Fail == Finish(Nop)

Kept == UNCHANGED <<issued, sealed, keys>>

Init ==
    /\ store = StoreInit /\ scan = ScanInit
    /\ pc = "IDLE" /\ cur = 0 /\ instr = Nop /\ wb = Nop
    /\ issued = {} /\ sealed = {} /\ keys = {}
-----------------------------------------------------------------------------
(* Writeback, and the instruction that follows.                            *)

(* What software holds once the result in writeback is in its register. *)
Codes == issued \cup IF wb # Nop /\ wb.op = "EInitCode" THEN {<<wb.id, wb.sec>>} ELSE {}

Datas == sealed \cup IF wb # Nop /\ wb.op = "EInitData" THEN {wb.id} ELSE {}

Retire == issued' = Codes /\ sealed' = Datas /\ UNCHANGED keys

Issue(state, i) ==
    /\ pc = "IDLE" /\ Retire /\ wb' = Nop
    /\ Clock(NoRequest, "none")
    /\ pc' = state /\ instr' = i /\ UNCHANGED cur

(* A cycle with no enclave instruction in the memory stage. *)
Bubble == Issue("IDLE", Nop)

(* An interrupt in writeback: the result is not written, and what is in the
   memory stage is not valid in this cycle. *)
Interrupt ==
    /\ Interrupts /\ wb # Nop
    /\ wb' = Nop /\ Clock(NoRequest, "none")
    /\ Kept /\ UNCHANGED <<pc, cur, instr>>

IssueEInitCode == \E s \in Section : Issue("initEntry", [op |-> "EInitCode", sec |-> s])

(* cs1 of EInitData: a capability an EInitCode returned, one that an enclave
   sealed with its own keys or that EInitData returned, an unsealed one, or
   an untagged value. *)
Cs1(tag, otype) == {[tag |-> tag, otype |-> otype, sec |-> s] : s \in Section}

Operand1 ==
    {[tag |-> TRUE, otype |-> identSeal(c[1]), sec |-> c[2]] : c \in Codes}
    \cup (UNION {Cs1(TRUE, o) : o \in {identSeal(i) : i \in Datas}
                                 \cup {signSeal(i) : i \in keys}
                                 \cup {encSeal(i) : i \in keys} \cup {Unsealed}})
    \cup (UNION {Cs1(FALSE, o) : o \in Untagged})

IssueEInitData ==
    /\ pc = "IDLE"
    /\ \E c \in Operand1, r \in Operands, v \in Views :
          /\ v.place \notin {<<"reg", r[1]>>, <<"reg", r[2]>>}
          /\ Issue("CHECK_CS1_VALID", [op |-> "EInitData", cs1 |-> c,
                                       rs1 |-> r[1], rs2 |-> r[2], view |-> v])

(* EStoreId checks cs2 before it goes on; length - offset is unsigned.  A
   refused one is finished in the same cycle. *)
MayStore(cs2) ==
    /\ ~ cs2.isSealed /\ cs2.store
    /\ (cs2.length - cs2.offset) % Space >= 4 * HashWords

IssueEStoreId ==
    \E o \in Asked, b \in Buffers :
        LET i == [op |-> "EStoreId", otype |-> o, cs2 |-> b, hash |-> None]
        IN  IF MayStore(b) THEN Issue("GET_HASH", i) ELSE Issue("IDLE", Nop)
-----------------------------------------------------------------------------
(* initFsm: EInitCode.                                                     *)

InitEntry ==
    LET req == [NoRequest EXCEPT !.op = "initEntry"]
        reply == Reply(req)
    IN  /\ pc = "initEntry" /\ Clock(req, "none") /\ Kept
        /\ \/ reply.port # "result" /\ Goto("initEntry", cur)
           \/ /\ reply.port = "result" /\ reply.value # Invalid
              /\ Finish([op |-> "EInitCode", id |-> reply.value, sec |-> instr.sec])
           \/ reply.port = "result" /\ reply.value = Invalid /\ Fail
-----------------------------------------------------------------------------
(* initDataFsm: EInitData.                                                 *)

(* The request is on the port in the cycle that refuses cs1 as well. *)
CheckCs1Valid ==
    LET req == Ask("getUnfinishedEntry", instr.cs1.otype)
        reply == Reply(req)
        accepted == instr.cs1.tag /\ instr.cs1.otype # Unsealed
    IN  /\ pc = "CHECK_CS1_VALID" /\ Clock(req, "none") /\ Kept
        /\ \/ ~ accepted /\ Fail
           \/ accepted /\ reply.port # "result" /\ Goto("CHECK_CS1_VALID", cur)
           \/ /\ accepted /\ reply.port = "result" /\ reply.value # Invalid
              /\ Goto("START", cur)
           \/ accepted /\ reply.port = "result" /\ reply.value = Invalid /\ Fail

Code == [base |-> Base[instr.cs1.sec],
         top |-> Base[instr.cs1.sec] + Length[instr.cs1.sec]]

overlaps(cap, c) == cap.tag /\ ~ (c.top <= cap.base) /\ ~ (c.base >= cap.top)

(* The capability at a place overlaps one of the sections. *)
Overlap(place) ==
    /\ instr.view.place = place
    /\ overlaps(instr.view, Code) \/ overlaps(instr.view, Data)

(* uniquenessFsm.  WB is empty by CLAIM_PIPELINE, so the claim succeeds. *)
Start ==
    /\ pc = "START" /\ Clock(NoRequest, "reset") /\ Kept
    /\ Goto("CLAIM_PIPELINE", cur)

ClaimPipeline ==
    /\ pc = "CLAIM_PIPELINE" /\ Clock(NoRequest, "none") /\ Kept
    /\ Goto("CHECK_REGS", 1)

(* Check one place; fail, or go on. *)
Check(overlap, next, n) ==
    /\ Clock(NoRequest, "none") /\ Kept
    /\ IF overlap THEN Fail ELSE Goto(next, n)

(* Mutant: the last register is not looked at. *)
CheckRegsShort ==
    LET overlap == cur \notin {instr.rs1, instr.rs2} /\ Overlap(<<"reg", cur>>) IN
    /\ pc = "CHECK_REGS"
    /\ IF cur = NumRegs - 2 THEN Check(overlap, "CHECK_DDC", 0)
       ELSE Check(overlap, "CHECK_REGS", cur + 1)

CheckRegs ==
    LET overlap == cur \notin {instr.rs1, instr.rs2} /\ Overlap(<<"reg", cur>>) IN
    /\ pc = "CHECK_REGS"
    /\ IF cur = NumRegs - 1 THEN Check(overlap, "CHECK_DDC", 0)
       ELSE Check(overlap, "CHECK_REGS", cur + 1)

CheckDdc == pc = "CHECK_DDC" /\ Check(Overlap(<<"ddc", 0>>), "CHECK_PCC", 0)

CheckPcc == pc = "CHECK_PCC" /\ Check(Overlap(<<"pcc", 0>>), "CHECK_SCRS", 0)

CheckScrs ==
    /\ pc = "CHECK_SCRS"
    /\ IF cur = NumScrs - 1 THEN Check(Overlap(<<"scr", cur>>), "GET_ADDRESS", 0)
       ELSE Check(Overlap(<<"scr", cur>>), "CHECK_SCRS", cur + 1)

GetAddress ==
    LET item == ScanItem(scan, "findNext", instr.view.tagged) IN
    /\ pc = "GET_ADDRESS" /\ Clock(NoRequest, "findNext") /\ Kept
    /\ \/ ~ item.ready /\ Goto("GET_ADDRESS", 0)
       \/ item.ready /\ item.valid /\ Goto("GET_CAP", item.address)
       \/ item.ready /\ ~ item.valid /\ Goto("HASH_START", 0)

GetCap == pc = "GET_CAP" /\ Check(Overlap(<<"mem", cur>>), "GET_ADDRESS", 0)

(* hashFsm: cur is currentAddress. *)
HashStart ==
    /\ pc = "HASH_START" /\ Clock(NoRequest, "none") /\ Kept
    /\ Goto("LOAD_WORD", Code.base)

LoadWord ==
    /\ pc = "LOAD_WORD" /\ Clock(NoRequest, "none") /\ Kept
    /\ Goto("HASH_WORD", (cur + 4) % Space)

(* Mutant: the last word is not hashed. *)
isLastWordEarly == cur + 4 = Code.top

isLastWord == cur = Code.top

HashWord ==
    /\ pc = "HASH_WORD" /\ Clock(NoRequest, "none") /\ Kept
    /\ Goto(IF isLastWord THEN "STORE_HASH" ELSE "LOAD_WORD", cur)

(* The words hashed between base and currentAddress. *)
digest == [sec |-> instr.cs1.sec,
           words |-> IF cur = Code.base THEN Space \div 4
                     ELSE ((cur - Code.base) % Space) \div 4]

(* Mutant: the instruction ends once the hash is stored. *)
StoreHashNoSeal ==
    LET req == [Ask("finishEntry", instr.cs1.otype) EXCEPT !.hash = digest]
        reply == Reply(req)
    IN  /\ pc = "STORE_HASH" /\ Clock(req, "none") /\ Kept
        /\ \/ reply.port # "result" /\ Goto("STORE_HASH", cur)
           \/ /\ reply.port = "result" /\ reply.value # Invalid
              /\ Finish([op |-> "EInitData", id |-> reply.value, sec |-> None])
           \/ reply.port = "result" /\ reply.value = Invalid /\ Fail

StoreHash ==
    LET req == [Ask("finishEntry", instr.cs1.otype) EXCEPT !.hash = digest]
        reply == Reply(req)
    IN  /\ pc = "STORE_HASH" /\ Clock(req, "none") /\ Kept
        /\ \/ reply.port # "result" /\ Goto("STORE_HASH", cur)
           \/ /\ reply.port = "result" /\ reply.value # Invalid
              /\ Goto("STORE_SEAL", reply.value)
           \/ reply.port = "result" /\ reply.value = Invalid /\ Fail

(* currentEid is the id that CHECK_CS1_VALID found. *)
currentEid == assignFromOtype(instr.cs1.otype)

(* Mutant: the instruction ends without its result. *)
StoreSealNoResult ==
    /\ pc = "STORE_SEAL" /\ Clock(NoRequest, "none")
    /\ keys' = keys \cup {currentEid} /\ UNCHANGED <<issued, sealed>>
    /\ Finish(Nop)

StoreSeal ==
    /\ pc = "STORE_SEAL" /\ Clock(NoRequest, "none")
    /\ keys' = keys \cup {currentEid} /\ UNCHANGED <<issued, sealed>>
    /\ Finish([op |-> "EInitData", id |-> currentEid, sec |-> None])
-----------------------------------------------------------------------------
(* storeIdFsm: EStoreId.                                                   *)

GetHash ==
    LET req == Ask("getHash", instr.otype)
        reply == Reply(req)
    IN  /\ pc = "GET_HASH" /\ Clock(req, "none") /\ Kept
        /\ \/ reply.port # "hashResult" /\ Goto("GET_HASH", cur)
           \/ /\ reply.port = "hashResult" /\ reply.value # None
              /\ pc' = "STORE_ID" /\ instr' = [instr EXCEPT !.hash = reply.value]
              /\ cur' = 0 /\ UNCHANGED wb
           \/ reply.port = "hashResult" /\ reply.value = None /\ Fail

(* STORE_HASH of storeIdFsm: cur is hashIdx. *)
StoreId ==
    /\ pc = "STORE_ID" /\ Clock(NoRequest, "none") /\ Kept
    /\ IF cur = HashWords - 1 THEN Finish(Nop) ELSE Goto("STORE_ID", cur + 1)
-----------------------------------------------------------------------------
(* A bus or the hash core is not ready. *)
Wait ==
    /\ pc \in {"GET_CAP", "LOAD_WORD", "HASH_WORD", "STORE_SEAL", "STORE_ID"}
    /\ Clock(NoRequest, "none") /\ Kept /\ UNCHANGED <<pc, cur, instr, wb>>

(* A cycle in which the memory stage moves on. *)
Busy ==
    \/ InitEntry
    \/ CheckCs1Valid \/ Start \/ ClaimPipeline \/ CheckRegs \/ CheckDdc
    \/ CheckPcc \/ CheckScrs \/ GetAddress \/ GetCap
    \/ HashStart \/ LoadWord \/ HashWord \/ StoreHash \/ StoreSeal
    \/ GetHash \/ StoreId

Next ==
    \/ Bubble \/ Interrupt
    \/ IssueEInitCode \/ IssueEInitData \/ IssueEStoreId
    \/ Busy \/ Wait

(* The clock runs, and every bus access and hash round ends at some time. *)
Fairness == WF_vars(Busy)

Spec == Init /\ [][Next]_vars /\ Fairness
-----------------------------------------------------------------------------
(* Properties.                                                             *)

State == {"IDLE", "initEntry", "CHECK_CS1_VALID", "START", "CLAIM_PIPELINE",
          "CHECK_REGS", "CHECK_DDC", "CHECK_PCC", "CHECK_SCRS", "GET_ADDRESS",
          "GET_CAP", "HASH_START", "LOAD_WORD", "HASH_WORD", "STORE_HASH",
          "STORE_SEAL", "GET_HASH", "STORE_ID"}

CodeInstr == [op : {"EInitCode"}, sec : Section]

DataInstr ==
    [op : {"EInitData"}, rs1 : 1 .. NumRegs - 1, rs2 : 1 .. NumRegs - 1,
     cs1 : [tag : BOOLEAN, otype : 0 .. Otypes - 1, sec : Section], view : Views]

IdInstr == [op : {"EStoreId"}, otype : Asked, cs2 : Buffers, hash : Digest \cup {None}]

CodeResult == [op : {"EInitCode"}, id : Id, sec : Section]

DataResult == [op : {"EInitData"}, id : Id, sec : {None}]

(* The registers hold values of their types, in every cycle. *)
TypeOK ==
    /\ store \in Store /\ scan \in Scan
    /\ pc \in State /\ cur \in Nat
    /\ instr \in CodeInstr \cup DataInstr \cup IdInstr \cup {Nop}
    /\ wb \in CodeResult \cup DataResult \cup {Nop}
    /\ issued \subseteq Id \X Section /\ sealed \subseteq Id /\ keys \subseteq Id

Used == {i \in Idx : store.entries[i].used}
Ready == {i \in Idx : store.entries[i].ready}

(* IdentityStore.scala: the entries in use have different ids, ids that the
   generator gave out already, and the otype that identifies the enclave
   (identSeal) leads assignFromOtype back to the entry's id. *)
EntriesOK ==
    /\ Ready \subseteq Used
    /\ \A i \in Used :
          LET id == store.entries[i].id IN
          /\ id \in 0 .. store.nextId - 1
          /\ assignFromOtype(identSeal(id)) = id
          /\ \A j \in Used \ {i} : store.entries[j].id # id

(* EInitData, EnclaveInit.scala: the hash of a ready entry is that of all the
   words of the section for which EInitCode gave out the entry's id, although
   the capability is presented again, and the search for its entry repeated,
   after the hash was computed.  In an empty section the address meets the top
   only when it has come round, and the hash is that of all memory. *)
Measured ==
    \A i \in Ready : \E s \in Section :
        /\ <<store.entries[i].id, s>> \in issued
        /\ store.entries[i].hash.sec = s
        /\ Length[s] > 0 => store.entries[i].hash.words = Length[s] \div 4

(* STORE_HASH and STORE_SEAL are two steps: seals are written for ready
   enclaves only, and between instructions every ready one has its seals. *)
SealsFollowHash ==
    LET ready == {store.entries[i].id : i \in Ready} IN
    /\ keys \subseteq ready
    /\ pc = "IDLE" => keys = ready

(* The identity store between any two cycles: entries, ids and seals belong
   together, also while an answer nobody waits for is under way. *)
StoreConsistent == TypeOK /\ EntriesOK /\ SealsFollowHash

SharesByte(cap, c) ==
    \E x \in 0 .. Space - 1 : cap.base <= x /\ x < cap.top /\ c.base <= x /\ x < c.top

(* uniquenessFsm: an enclave is hashed, and becomes ready, only when no other
   valid capability, wherever it is kept, shares a byte with its sections. *)
SweepSound ==
    pc \in {"HASH_START", "LOAD_WORD", "HASH_WORD", "STORE_HASH", "STORE_SEAL"} =>
        ~ (instr.view.tag /\ (SharesByte(instr.view, Code) \/ SharesByte(instr.view, Data)))

(* EStoreId: the hash written out is that of the ready enclave whose seal was
   asked about. *)
AttestsAsked ==
    pc = "STORE_ID" =>
        \E i \in Ready : /\ store.entries[i].hash = instr.hash
                         /\ instr.otype \in 4 * store.entries[i].id .. 4 * store.entries[i].id + 3

(* EStoreId: every word goes to the bytes cs2 gives access to. *)
IdInBounds ==
    pc = "STORE_ID" => instr.cs2.offset + 4 * cur + 4 <= instr.cs2.length

(* EStoreId writes the identity that was asked for, and only where it may. *)
EStoreIdRight == AttestsAsked /\ IdInBounds

(* What the store has given out, software holds or is about to: the code
   capability of every entry in use, the data capability of every enclave
   with seals. *)
NothingLost ==
    /\ \A i \in Used : \E c \in Codes : c[1] = store.entries[i].id
    /\ keys \subseteq Datas

(* EInitCode fails only when no entry or no id is left. *)
EInitCodeFailsWhenFull ==
    [][pc = "initEntry" /\ pc' = "IDLE" /\ wb' = Nop =>
          Used = Idx \/ ~ idAvailable(store)]_vars

(* Every enclave instruction ends. *)
Terminates == pc # "IDLE" ~> pc = "IDLE"

(* The store seen as the abstract TCB. *)
StatusMap ==
    [e \in 0 .. NumIds - 1 |->
       IF e \in {store.entries[i].id : i \in Ready} THEN "perm"
       ELSE IF e \in {store.entries[i].id : i \in Used} THEN "temp"
       ELSE IF e < store.nextId THEN "gone" ELSE "unused"]

IdentityMap ==
    [e \in 0 .. NumIds - 1 |->
       IF \E i \in Ready : store.entries[i].id = e
       THEN store.entries[CHOOSE i \in Ready : store.entries[i].id = e].hash
       ELSE None]

TCB == INSTANCE EnclaveTCB WITH
    Eid <- 0 .. NumIds - 1, Identity <- Digest, NoId <- None, Capacity <- NumEntries,
    status <- StatusMap, identity <- IdentityMap

(* What TCB!vars depends on. *)
tcb == <<store.entries, store.nextId>>

(* The store keeps the promise of the abstract TCB, whatever software does
   with its instructions and whenever interrupts come. *)
RefinesTCB == TCB!Init /\ [][tcb' # tcb => TCB!Next]_vars
=============================================================================
