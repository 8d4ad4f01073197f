---------------------------- MODULE ProteusProofs ---------------------------
(***************************************************************************)
(* Theorems about ProteusEnclave: between any two clock cycles the         *)
(* identity store is consistent, its hashes are measurements, EStoreId     *)
(* reports the identity asked for, and the store implements the abstract   *)
(* trusted base, for every number of entries, ids, registers and tags; and *)
(* what EInitData's sweep and the store's answers are worth under the      *)
(* conditions they need.                                                   *)
(***************************************************************************)
EXTENDS ProteusEnclave, FiniteSetTheorems, TLAPS

-----------------------------------------------------------------------------
(* The inductive invariant.                                                *)

(* The store by itself: the entries in use are the first nextId ones, entry i
   holds id i, and the search for a free one has found all before it taken. *)
Filled(s) ==
    /\ s.nextId <= NumEntries
    /\ \A i \in Idx :
          /\ s.entries[i].used <=> i < s.nextId
          /\ s.entries[i].used => s.entries[i].id = i
          /\ s.entries[i].ready => s.entries[i].used /\ s.entries[i].hash \in Digest
    /\ s.fsm = "initEntry" => idAvailable(s) /\ s.searchIdx <= s.nextId

(* Which state of the memory stage a search of the store can be seen in.  A
   search for an unfinished entry outlives the EInitData that was refused. *)
Searching ==
    /\ store.fsm = "initEntry" => pc = "initEntry"
    /\ store.fsm = "finishEntry" => pc = "STORE_HASH"
    /\ store.fsm = "getHash" => pc = "GET_HASH"
    /\ store.fsm = "getUnfinishedEntry" =>
          pc \in {"IDLE", "initEntry", "CHECK_CS1_VALID", "GET_HASH"}

(* EInitData has found the entry, and has not finished it yet. *)
Found == {"START", "CLAIM_PIPELINE", "CHECK_REGS", "CHECK_DDC", "CHECK_PCC", "CHECK_SCRS",
          "GET_ADDRESS", "GET_CAP", "HASH_START", "LOAD_WORD", "HASH_WORD", "STORE_HASH"}

DataStates == Found \cup {"CHECK_CS1_VALID", "STORE_SEAL"}

(* The instruction belongs to the state. *)
Staged ==
    /\ pc = "IDLE" => instr = Nop
    /\ pc = "initEntry" => instr \in CodeInstr
    /\ pc \in DataStates => instr \in DataInstr
    /\ pc \in {"GET_HASH", "STORE_ID"} => instr \in IdInstr
    /\ wb # Nop => pc = "IDLE"

(* Code capabilities carry ids that the generator gave out. *)
Numbered == \A c \in Codes : c[1] < NumIds

(* A sealed operand of EInitData is one an EInitCode returned, or carries a
   seal of an enclave that is ready. *)
Presented ==
    pc \in DataStates /\ instr.cs1.tag /\ instr.cs1.otype # Unsealed =>
       \/ \E e \in Id : instr.cs1.otype = identSeal(e) /\ <<e, instr.cs1.sec>> \in issued
       \/ \E e \in keys : instr.cs1.otype \in {identSeal(e), signSeal(e), encSeal(e)}

(* The entry EInitData works on. *)
Working ==
    /\ pc \in Found =>
          /\ instr.cs1.tag /\ instr.cs1.otype # Unsealed
          /\ currentEid \in Idx /\ store.entries[currentEid].used
          /\ ~ store.entries[currentEid].ready
    /\ pc = "STORE_SEAL" => currentEid \in Idx
    /\ pc = "STORE_HASH" => cur = Code.top

(* Ready enclaves have their seals, but for the one whose seals come next. *)
Sealed ==
    /\ keys \subseteq Idx
    /\ \A i \in Idx : store.entries[i].ready
                        <=> i \in keys \/ (pc = "STORE_SEAL" /\ i = currentEid)
    /\ Datas \subseteq keys

PInv ==
    /\ TypeOK /\ Filled(store) /\ Searching /\ Staged /\ Presented /\ Working /\ Sealed
    /\ Numbered /\ Measured /\ AttestsAsked
-----------------------------------------------------------------------------
(* The store.                                                              *)

(* Ids, entries and the counter. *)
LEMMA StoreFacts ==
    /\ NumEntries \in Nat /\ NumEntries > 0 /\ IdValues \in Nat /\ NumIds \in Nat
    /\ Idx \subseteq Nat /\ Idx \subseteq Id /\ Id \subseteq Nat /\ Invalid \notin Id
    /\ 0 \in Idx
  BY StoreAssumption, IdsAssumption DEF Idx, Id, Invalid

(* The seals of an entry's id are otypes that carry the id. *)
LEMMA SealsBelow == \A i \in Idx : 4 * i + 3 < IdValues
  BY StoreAssumption, IdsAssumption DEF Idx

(* What the fields of the store hold. *)
LEMMA StoreFields ==
    ASSUME NEW s \in Store
    PROVE  /\ s.fsm \in StoreFsm /\ s.searchIdx \in Idx /\ s.nextId \in 0 .. NumIds
           /\ s.entries \in [Idx -> Entry]
           /\ \A i \in Idx : s.entries[i] \in Entry
  BY DEF Store

(* The registers that stay or become idle, and those of a search. *)
LEMMA StoreUpdates ==
    ASSUME NEW s \in Store, NEW f \in StoreFsm, NEW i \in Idx
    PROVE  /\ [s EXCEPT !.fsm = f] \in Store
           /\ [s EXCEPT !.fsm = f].fsm = f
           /\ [s EXCEPT !.fsm = f].entries = s.entries
           /\ [s EXCEPT !.fsm = f].nextId = s.nextId
           /\ [s EXCEPT !.fsm = f].searchIdx = s.searchIdx
           /\ [s EXCEPT !.searchIdx = i] \in Store
           /\ [s EXCEPT !.searchIdx = i].fsm = s.fsm
           /\ [s EXCEPT !.searchIdx = i].entries = s.entries
           /\ [s EXCEPT !.searchIdx = i].nextId = s.nextId
           /\ [s EXCEPT !.searchIdx = i].searchIdx = i
           /\ [s EXCEPT !.fsm = f, !.searchIdx = i] \in Store
           /\ [s EXCEPT !.fsm = f, !.searchIdx = i].fsm = f
           /\ [s EXCEPT !.fsm = f, !.searchIdx = i].entries = s.entries
           /\ [s EXCEPT !.fsm = f, !.searchIdx = i].nextId = s.nextId
           /\ [s EXCEPT !.fsm = f, !.searchIdx = i].searchIdx = i
  BY DEF Store

(* A cycle that writes no entry: the search goes on, starts or ends. *)
Reads(s, next) ==
    /\ next \in Store
    /\ next.entries = s.entries /\ next.nextId = s.nextId

(* Going on with a search. *)
LEMMA SearchOnFacts ==
    ASSUME NEW s \in Store, NEW answer
    PROVE  /\ Reads(s, SearchOn(s, answer).next)
           /\ s.searchIdx # NumEntries - 1 =>
                 /\ SearchOn(s, answer).next.fsm = s.fsm
                 /\ SearchOn(s, answer).next.searchIdx = s.searchIdx + 1
                 /\ SearchOn(s, answer).answer = NoAnswer
           /\ s.searchIdx = NumEntries - 1 =>
                 /\ SearchOn(s, answer).next.fsm = "idle"
                 /\ SearchOn(s, answer).answer = answer
<1>1. CASE s.searchIdx = NumEntries - 1
  <2> DEFINE n == [s EXCEPT !.fsm = "idle"]
  <2>1. "idle" \in StoreFsm
    BY DEF StoreFsm
  <2>2. Reads(s, n) /\ n.fsm = "idle"
    BY <2>1, StoreUpdates, StoreFacts DEF Reads
  <2>3. SearchOn(s, answer) = [next |-> n, answer |-> answer]
    BY <1>1 DEF SearchOn, Answer
  <2> HIDE DEF n
  <2> QED
    BY <1>1, <2>2, <2>3
<1>2. CASE s.searchIdx # NumEntries - 1
  <2> DEFINE n == [s EXCEPT !.searchIdx = s.searchIdx + 1]
  <2>1. s.searchIdx + 1 \in Idx
    BY <1>2, StoreFields, StoreFacts DEF Idx
  <2>2. "idle" \in StoreFsm
    BY DEF StoreFsm
  <2>3. Reads(s, n) /\ n.fsm = s.fsm /\ n.searchIdx = s.searchIdx + 1
    BY <2>1, <2>2, StoreUpdates DEF Reads
  <2>4. SearchOn(s, answer) = [next |-> n, answer |-> NoAnswer]
    BY <1>2 DEF SearchOn, Quiet
  <2> HIDE DEF n
  <2> QED
    BY <1>2, <2>3, <2>4
<1> QED
  BY <1>1, <1>2

(* Writing the entry searched last. *)
LEMMA WriteFacts ==
    ASSUME NEW s \in Store, NEW entry \in Entry
    PROVE  /\ Write(s, entry) \in Store /\ Write(s, entry).fsm = "idle"
           /\ Write(s, entry).entries = [s.entries EXCEPT ![s.searchIdx] = entry]
           /\ Write(s, entry).nextId = s.nextId /\ Write(s, entry).searchIdx = s.searchIdx
<1>1. [s.entries EXCEPT ![s.searchIdx] = entry] \in [Idx -> Entry]
  BY StoreFields
<1>2. "idle" \in StoreFsm
  BY DEF StoreFsm
<1> QED
  BY <1>1, <1>2 DEF Write, Store

(* Such a cycle keeps the store filled. *)
LEMMA ReadsFilled ==
    ASSUME NEW s, NEW n, Filled(s), Reads(s, n),
           n.fsm = "initEntry" => idAvailable(s) /\ n.searchIdx <= s.nextId
    PROVE  Filled(n)
  BY DEF Filled, Reads, idAvailable

(* idle: a request starts a search or is refused. *)
LEMMA IdleCycle ==
    ASSUME NEW s \in Store, Filled(s), s.fsm = "idle", NEW req, req.op \in StoreFsm
    PROVE  /\ Reads(s, StoreCycle(s, req).next) /\ Filled(StoreCycle(s, req).next)
           /\ \/ StoreCycle(s, req).next.fsm = req.op /\ StoreCycle(s, req).answer = NoAnswer
              \/ /\ StoreCycle(s, req).next.fsm = "idle"
                 /\ StoreCycle(s, req).answer = Result(Invalid)
                 /\ req.op = "initEntry" => ~ idAvailable(s)
           /\ req.op = "idle" => StoreCycle(s, req) = [next |-> s, answer |-> NoAnswer]
           /\ StoreCycle(s, req).next.fsm = "idle" \/ req.op = "initEntry" \/ req.eid # Invalid
<1> DEFINE a == [s EXCEPT !.fsm = "idle"]
           b == [s EXCEPT !.fsm = req.op, !.searchIdx = 0]
<1>1. StoreCycle(s, req) = Dispatch(s, req)
  BY DEF StoreCycle
<1>2. "idle" \in StoreFsm /\ 0 \in Idx /\ s.nextId >= 0
  BY StoreFacts, StoreFields DEF StoreFsm
<1>3. Reads(s, a) /\ a.fsm = "idle"
  BY <1>2, StoreUpdates DEF Reads
<1>4. Reads(s, b) /\ b.fsm = req.op /\ b.searchIdx = 0
  <2>1. ASSUME NEW f \in StoreFsm, NEW i \in Idx
        PROVE  /\ Reads(s, [s EXCEPT !.fsm = f, !.searchIdx = i])
               /\ [s EXCEPT !.fsm = f, !.searchIdx = i].fsm = f
               /\ [s EXCEPT !.fsm = f, !.searchIdx = i].searchIdx = i
    BY DEF Store, Reads
  <2> QED
    BY <1>2, <2>1
<1>5. \/ req.op = "idle" /\ Dispatch(s, req) = [next |-> s, answer |-> NoAnswer]
      \/ /\ req.op = "initEntry" => ~ idAvailable(s)
         /\ req.op # "idle"
         /\ Dispatch(s, req) = [next |-> a, answer |-> Result(Invalid)]
      \/ /\ req.op = "initEntry" => idAvailable(s)
         /\ req.op = "initEntry" \/ req.eid # Invalid
         /\ req.op # "idle"
         /\ Dispatch(s, req) = [next |-> b, answer |-> NoAnswer]
  BY DEF Dispatch, Quiet, Search, Answer
<1> HIDE DEF a, b
<1>6. Filled(a) /\ (req.op = "initEntry" => idAvailable(s)) => Filled(b)
  BY <1>2, <1>3, <1>4, ReadsFilled
<1>7. Filled(a) /\ Reads(s, s)
  BY <1>3, ReadsFilled DEF Reads
<1> QED
  BY <1>1, <1>3, <1>4, <1>5, <1>6, <1>7

(* A cycle that takes the first free entry, with the next id. *)
Creates(s, n, answer) ==
    /\ n \in Store /\ n.fsm = "idle" /\ s.nextId \in Idx /\ s.nextId < NumIds
    /\ n.entries = [s.entries EXCEPT ![s.nextId] = [Empty EXCEPT !.used = TRUE, !.id = s.nextId]]
    /\ n.nextId = s.nextId + 1 /\ answer = Result(s.nextId)

(* initEntry: the first free entry is taken; the search ends without one only
   when all are in use. *)
LEMMA InitEntryCycle ==
    ASSUME NEW s \in Store, Filled(s), s.fsm = "initEntry", NEW req
    PROVE  /\ Filled(StoreCycle(s, req).next)
           /\ \/ Creates(s, StoreCycle(s, req).next, StoreCycle(s, req).answer)
              \/ /\ Reads(s, StoreCycle(s, req).next)
                 /\ StoreCycle(s, req).next.fsm = "initEntry"
                 /\ StoreCycle(s, req).answer = NoAnswer
              \/ /\ Reads(s, StoreCycle(s, req).next)
                 /\ StoreCycle(s, req).next.fsm = "idle" /\ s.nextId = NumEntries
                 /\ StoreCycle(s, req).answer = Result(Invalid)
<1>1. StoreCycle(s, req) = initEntry(s)
  BY DEF StoreCycle
<1>2. /\ s.searchIdx \in Idx /\ s.nextId \in Nat /\ s.searchIdx \in Nat /\ NumEntries \in Nat
      /\ NumIds \in Nat
  <2>1. s.searchIdx \in Idx /\ s.nextId \in 0 .. NumIds
    BY StoreFields
  <2>2. NumEntries \in Nat /\ NumIds \in Nat /\ Idx \subseteq Nat
    BY StoreFacts
  <2>3. s.nextId \in Nat
    BY <2>1, <2>2
  <2>4. s.searchIdx \in Nat
    BY <2>1, <2>2
  <2> QED
    BY <2>1, <2>2, <2>3, <2>4
<1>3. CASE ~ s.entries[s.searchIdx].used
  <2>1. s.searchIdx = s.nextId /\ s.nextId < NumIds
    BY <1>2, <1>3 DEF Filled, idAvailable
  <2> DEFINE new == [Empty EXCEPT !.used = TRUE, !.id = s.nextId]
             w == Write(s, new)
             n == [w EXCEPT !.nextId = s.nextId + 1]
  <2>2. new \in Entry /\ new.used = TRUE /\ new.id = s.nextId /\ new.ready = FALSE
    BY <1>2, <2>1, StoreFacts DEF Empty, Entry
  <2>3. initEntry(s) = [next |-> n, answer |-> Result(s.nextId)]
    BY <1>3 DEF initEntry
  <2> HIDE DEF new
  <2>4. /\ w \in Store /\ w.fsm = "idle" /\ w.nextId = s.nextId
        /\ w.entries = [s.entries EXCEPT ![s.nextId] = new]
    BY <2>1, <2>2, WriteFacts
  <2> HIDE DEF w
  <2>5. s.nextId + 1 \in 0 .. NumIds
    BY <1>2, <2>1
  <2>6. /\ n \in Store /\ n.fsm = "idle" /\ n.nextId = s.nextId + 1
        /\ n.entries = [s.entries EXCEPT ![s.nextId] = new]
    BY <2>4, <2>5 DEF Store
  <2> HIDE DEF n
  <2>7. \A i \in Idx : n.entries[i] = IF i = s.nextId THEN new ELSE s.entries[i]
    BY <2>6, StoreFields
  <2>8. Filled(n)
    <3>1. n.nextId <= NumEntries
      BY <1>2, <2>1, <2>6 DEF Idx
    <3>2. ASSUME NEW i \in Idx
          PROVE  /\ n.entries[i].used <=> i < n.nextId
                 /\ n.entries[i].used => n.entries[i].id = i
                 /\ n.entries[i].ready => n.entries[i].used /\ n.entries[i].hash \in Digest
      <4>1. i \in Nat
        BY StoreFacts
      <4>2. CASE i = s.nextId
        BY <1>2, <2>2, <2>6, <2>7, <4>1, <4>2
      <4>3. CASE i # s.nextId
        <5>1. /\ s.entries[i].used <=> i < s.nextId
              /\ s.entries[i].used => s.entries[i].id = i
              /\ s.entries[i].ready => s.entries[i].used /\ s.entries[i].hash \in Digest
          BY DEF Filled
        <5> QED
          BY <1>2, <2>6, <2>7, <4>1, <4>3, <5>1
      <4> QED
        BY <4>2, <4>3
    <3> QED
      BY <2>6, <3>1, <3>2 DEF Filled
  <2>9. Creates(s, n, Result(s.nextId))
    BY <1>2, <2>1, <2>6 DEF Creates, new
  <2> QED
    BY <1>1, <2>3, <2>8, <2>9
<1>4. CASE s.entries[s.searchIdx].used
  <2> DEFINE m == SearchOn(s, Result(Invalid))
  <2>1. initEntry(s) = m
    BY <1>4 DEF initEntry
  <2>2. s.searchIdx < s.nextId /\ idAvailable(s) /\ s.nextId <= NumEntries
    BY <1>2, <1>4 DEF Filled
  <2>3. /\ Reads(s, m.next)
        /\ s.searchIdx # NumEntries - 1 =>
              /\ m.next.fsm = s.fsm /\ m.next.searchIdx = s.searchIdx + 1
              /\ m.answer = NoAnswer
        /\ s.searchIdx = NumEntries - 1 => m.next.fsm = "idle" /\ m.answer = Result(Invalid)
    BY SearchOnFacts
  <2> HIDE DEF m
  <2>4. Filled(m.next)
    <3>1. s.searchIdx + 1 <= s.nextId
      BY <1>2, <2>2
    <3> QED
      BY <2>2, <2>3, <3>1, ReadsFilled
  <2>5. s.searchIdx = NumEntries - 1 => s.nextId = NumEntries
    BY <1>2, <2>2
  <2> QED
    BY <1>1, <2>1, <2>3, <2>4, <2>5
<1> QED
  BY <1>3, <1>4

(* getUnfinishedEntry: the answer is the id asked for, if its entry is there
   and not ready. *)
LEMMA GetUnfinishedCycle ==
    ASSUME NEW s \in Store, Filled(s), s.fsm = "getUnfinishedEntry", NEW req
    PROVE  /\ Reads(s, StoreCycle(s, req).next) /\ Filled(StoreCycle(s, req).next)
           /\ \/ /\ StoreCycle(s, req).next.fsm = "getUnfinishedEntry"
                 /\ StoreCycle(s, req).answer = NoAnswer
              \/ /\ StoreCycle(s, req).next.fsm = "idle"
                 /\ StoreCycle(s, req).answer = Result(Invalid)
              \/ /\ StoreCycle(s, req).next.fsm = "idle"
                 /\ StoreCycle(s, req).answer = Result(req.eid)
                 /\ req.eid \in Idx /\ s.entries[req.eid].used /\ ~ s.entries[req.eid].ready
<1> DEFINE entry == s.entries[s.searchIdx]
           m == SearchOn(s, Result(Invalid))
           a == [s EXCEPT !.fsm = "idle"]
<1>1. StoreCycle(s, req) = getUnfinishedEntry(s, req)
  BY DEF StoreCycle
<1>2. s.searchIdx \in Idx /\ "idle" \in StoreFsm
  BY StoreFields DEF StoreFsm
<1>3. CASE entry.used /\ ~ entry.ready /\ entry.id = req.eid
  <2>1. getUnfinishedEntry(s, req) = [next |-> a, answer |-> Result(req.eid)]
    BY <1>3 DEF getUnfinishedEntry, Answer
  <2>2. Reads(s, a) /\ a.fsm = "idle"
    BY <1>2, StoreUpdates DEF Reads
  <2>3. req.eid = s.searchIdx
    BY <1>2, <1>3 DEF Filled
  <2> HIDE DEF a
  <2>4. Filled(a)
    BY <2>2, ReadsFilled
  <2> QED
    BY <1>1, <1>2, <1>3, <2>1, <2>2, <2>3, <2>4
<1>4. CASE ~ (entry.used /\ ~ entry.ready /\ entry.id = req.eid)
  <2>1. getUnfinishedEntry(s, req) = m
    BY <1>4 DEF getUnfinishedEntry
  <2>2. /\ Reads(s, m.next)
        /\ s.searchIdx # NumEntries - 1 => m.next.fsm = s.fsm /\ m.answer = NoAnswer
        /\ s.searchIdx = NumEntries - 1 => m.next.fsm = "idle" /\ m.answer = Result(Invalid)
    BY SearchOnFacts
  <2> HIDE DEF m
  <2>3. Filled(m.next)
    BY <2>2, ReadsFilled
  <2> QED
    BY <1>1, <2>1, <2>2, <2>3
<1> QED
  BY <1>3, <1>4

(* A cycle that finishes the entry of id e with hash h. *)
Finishes(s, n, answer, e, h) ==
    /\ n \in Store /\ n.fsm = "idle" /\ n.nextId = s.nextId
    /\ \A i \in Idx \ {e} : n.entries[i] = s.entries[i]
    /\ n.entries[e].used /\ n.entries[e].ready /\ n.entries[e].id = e
    /\ n.entries[e].hash = h
    /\ answer = Result(e)

(* A search that goes on or ends with nothing. *)
LEMMA SearchOnFilled ==
    ASSUME NEW s \in Store, Filled(s), s.fsm # "initEntry", NEW answer
    PROVE  /\ Reads(s, SearchOn(s, answer).next) /\ Filled(SearchOn(s, answer).next)
           /\ \/ SearchOn(s, answer).next.fsm = s.fsm /\ SearchOn(s, answer).answer = NoAnswer
              \/ SearchOn(s, answer).next.fsm = "idle" /\ SearchOn(s, answer).answer = answer
<1> DEFINE m == SearchOn(s, answer)
<1>1. /\ Reads(s, m.next)
      /\ s.searchIdx # NumEntries - 1 => m.next.fsm = s.fsm /\ m.answer = NoAnswer
      /\ s.searchIdx = NumEntries - 1 => m.next.fsm = "idle" /\ m.answer = answer
  BY SearchOnFacts
<1> HIDE DEF m
<1>2. Filled(m.next)
  BY <1>1, ReadsFilled
<1>3. QED
  BY <1>1, <1>2 DEF m

(* A search that ends in an answer. *)
LEMMA AnswerFilled ==
    ASSUME NEW s \in Store, Filled(s), NEW answer
    PROVE  /\ Reads(s, Answer(s, answer).next) /\ Filled(Answer(s, answer).next)
           /\ Answer(s, answer).next.fsm = "idle" /\ Answer(s, answer).answer = answer
<1> DEFINE a == [s EXCEPT !.fsm = "idle"]
<1>1. Reads(s, a) /\ a.fsm = "idle"
  BY DEF Reads, Store, StoreFsm
<1>2. Answer(s, answer) = [next |-> a, answer |-> answer]
  BY DEF Answer
<1> HIDE DEF a
<1>3. Filled(a)
  BY <1>1, ReadsFilled
<1> QED
  BY <1>1, <1>2, <1>3

(* finishEntry, for an entry that is in use and not ready: the entry is given
   its hash, or the search goes on or gives up. *)
LEMMA FinishCycle ==
    ASSUME NEW s \in Store, Filled(s), s.fsm = "finishEntry", NEW req,
           req.eid \in Idx, req.hash \in Digest
    PROVE  /\ Filled(StoreCycle(s, req).next)
           /\ \/ Finishes(s, StoreCycle(s, req).next, StoreCycle(s, req).answer,
                          req.eid, req.hash)
              \/ /\ Reads(s, StoreCycle(s, req).next)
                 /\ StoreCycle(s, req).next.fsm = "finishEntry"
                 /\ StoreCycle(s, req).answer = NoAnswer
              \/ /\ Reads(s, StoreCycle(s, req).next)
                 /\ StoreCycle(s, req).next.fsm = "idle"
                 /\ StoreCycle(s, req).answer = Result(Invalid)
<1> DEFINE entry == s.entries[s.searchIdx]
<1>1. StoreCycle(s, req) = finishEntry(s, req)
  BY DEF StoreCycle
<1>2. CASE entry.id # req.eid
  <2>1. finishEntry(s, req) = SearchOn(s, Result(Invalid))
    BY <1>2 DEF finishEntry
  <2> QED
    BY <1>1, <2>1, SearchOnFilled
<1>3. CASE entry.id = req.eid /\ ~ (entry.used /\ ~ entry.ready)
  <2>1. finishEntry(s, req) = Answer(s, Result(Invalid))
    BY <1>3 DEF finishEntry
  <2> QED
    BY <1>1, <2>1, AnswerFilled
<1>4. CASE entry.id = req.eid /\ entry.used /\ ~ entry.ready
  <2> DEFINE new == [entry EXCEPT !.hash = req.hash, !.ready = TRUE]
             n == Write(s, new)
  <2>1. finishEntry(s, req) = [next |-> n, answer |-> Result(req.eid)]
    BY <1>4 DEF finishEntry
  <2>2. s.searchIdx \in Idx /\ entry \in Entry
    BY StoreFields
  <2>3. s.searchIdx = req.eid
    BY <1>4, <2>2 DEF Filled
  <2>4. new \in Entry /\ new.used = TRUE /\ new.ready = TRUE /\ new.id = req.eid
        /\ new.hash = req.hash
    <3> HIDE DEF entry
    <3> QED
      BY <1>4, <2>2 DEF Entry
  <2> HIDE DEF new
  <2>5. /\ n \in Store /\ n.fsm = "idle" /\ n.nextId = s.nextId
        /\ n.entries = [s.entries EXCEPT ![req.eid] = new]
    BY <2>3, <2>4, WriteFacts
  <2> HIDE DEF n
  <2>6. n.entries[req.eid] = new /\ \A i \in Idx \ {req.eid} : n.entries[i] = s.entries[i]
    BY <2>5, StoreFields
  <2>7. Finishes(s, n, Result(req.eid), req.eid, req.hash)
    BY <2>4, <2>5, <2>6 DEF Finishes
  <2>8. Filled(n)
    <3>1. ASSUME NEW i \in Idx
          PROVE  /\ n.entries[i].used <=> i < n.nextId
                 /\ n.entries[i].used => n.entries[i].id = i
                 /\ n.entries[i].ready => n.entries[i].used /\ n.entries[i].hash \in Digest
      <4>1. /\ s.entries[i].used <=> i < s.nextId
            /\ s.entries[i].used => s.entries[i].id = i
            /\ s.entries[i].ready => s.entries[i].used /\ s.entries[i].hash \in Digest
        BY DEF Filled
      <4>2. CASE i = req.eid
        BY <1>4, <2>3, <2>4, <2>5, <2>6, <4>1, <4>2
      <4>3. CASE i # req.eid
        BY <2>5, <2>6, <4>1, <4>3
      <4> QED
        BY <4>2, <4>3
    <3> QED
      BY <2>5, <3>1 DEF Filled
  <2> QED
    BY <1>1, <2>1, <2>7, <2>8
<1> QED
  BY <1>2, <1>3, <1>4

(* getHash: the hash answered is that of the entry asked for, and it is ready. *)
LEMMA HashCycle ==
    ASSUME NEW s \in Store, Filled(s), s.fsm = "getHash", NEW req
    PROVE  /\ Reads(s, StoreCycle(s, req).next) /\ Filled(StoreCycle(s, req).next)
           /\ \/ /\ StoreCycle(s, req).next.fsm = "getHash"
                 /\ StoreCycle(s, req).answer = NoAnswer
              \/ /\ StoreCycle(s, req).next.fsm = "idle"
                 /\ StoreCycle(s, req).answer = HashResult(None)
              \/ /\ StoreCycle(s, req).next.fsm = "idle"
                 /\ req.eid \in Idx /\ s.entries[req.eid].ready
                 /\ StoreCycle(s, req).answer = HashResult(s.entries[req.eid].hash)
<1> DEFINE entry == s.entries[s.searchIdx]
<1>1. StoreCycle(s, req) = getHash(s, req)
  BY DEF StoreCycle
<1>2. CASE entry.id # req.eid
  <2>1. getHash(s, req) = SearchOn(s, HashResult(None))
    BY <1>2 DEF getHash
  <2> QED
    BY <1>1, <2>1, SearchOnFilled
<1>3. CASE entry.id = req.eid /\ ~ (entry.used /\ entry.ready)
  <2>1. getHash(s, req) = Answer(s, HashResult(None))
    BY <1>3 DEF getHash
  <2> QED
    BY <1>1, <2>1, AnswerFilled
<1>4. CASE entry.id = req.eid /\ entry.used /\ entry.ready
  <2>1. getHash(s, req) = Answer(s, HashResult(entry.hash))
    BY <1>4 DEF getHash
  <2>2. s.searchIdx \in Idx
    BY StoreFields
  <2>3. s.searchIdx = req.eid
    BY <1>4, <2>2 DEF Filled
  <2> QED
    BY <1>1, <1>4, <2>1, <2>2, <2>3, AnswerFilled
<1> QED
  BY <1>2, <1>3, <1>4

(* A cycle with no request: a search for an unfinished entry may end. *)
LEMMA QuietCycle ==
    ASSUME NEW s \in Store, Filled(s), s.fsm \in {"idle", "getUnfinishedEntry"}
    PROVE  /\ Reads(s, StoreCycle(s, NoRequest).next)
           /\ Filled(StoreCycle(s, NoRequest).next)
           /\ StoreCycle(s, NoRequest).next.fsm \in {"idle", s.fsm}
<1>1. NoRequest.op = "idle" /\ NoRequest.op \in StoreFsm
  BY DEF NoRequest, StoreFsm
<1>2. CASE s.fsm = "idle"
  BY <1>1, <1>2, IdleCycle
<1>3. CASE s.fsm = "getUnfinishedEntry"
  BY <1>3, GetUnfinishedCycle
<1> QED
  BY <1>2, <1>3
-----------------------------------------------------------------------------
(* What keeps the parts of the invariant.                                  *)

(* A cycle of the store that changes no entry. *)
Quiescent ==
    /\ store' \in Store /\ Filled(store')
    /\ store'.entries = store.entries /\ store'.nextId = store.nextId

(* The measurements last as long as the entries do. *)
LEMMA KeepMeasured ==
    ASSUME Measured, Quiescent, issued \subseteq issued'
    PROVE  Measured'
  BY DEF Measured, Quiescent, Ready

(* So does what EStoreId has read. *)
LEMMA KeepAttests ==
    ASSUME AttestsAsked, Quiescent, pc' = "STORE_ID" => pc = "STORE_ID" /\ instr' = instr
    PROVE  AttestsAsked'
  BY DEF AttestsAsked, Quiescent, Ready

(* The operand of EInitData stays what it was. *)
LEMMA KeepPresented ==
    ASSUME Presented, issued \subseteq issued', keys \subseteq keys',
           pc' \in DataStates => pc \in DataStates /\ instr' = instr
    PROVE  Presented'
<1> SUFFICES ASSUME pc' \in DataStates, instr.cs1.tag, instr.cs1.otype # Unsealed,
                    instr' = instr, pc \in DataStates
             PROVE  \/ \E e \in Id : /\ instr.cs1.otype = identSeal(e)
                                     /\ <<e, instr.cs1.sec>> \in issued'
                    \/ \E e \in keys' :
                          instr.cs1.otype \in {identSeal(e), signSeal(e), encSeal(e)}
  BY DEF Presented
<1> QED
  BY DEF Presented

(* The entry it works on stays what it was. *)
LEMMA KeepWorking ==
    ASSUME Working, Quiescent, pc' \in DataStates => pc \in DataStates /\ instr' = instr,
           pc' \in Found => pc \in Found, pc' = "STORE_SEAL" => pc = "STORE_SEAL",
           pc' = "STORE_HASH" => cur' = Code.top
    PROVE  Working'
<1>1. pc' \in DataStates => instr' = instr /\ currentEid' = currentEid /\ Code' = Code
  BY DEF currentEid, Code
<1>2. Found \subseteq DataStates /\ "STORE_HASH" \in Found /\ "STORE_SEAL" \in DataStates
  BY DEF Found, DataStates
<1> QED
  BY <1>1, <1>2 DEF Working, Quiescent

(* The seals stay where they are. *)
LEMMA KeepSealed ==
    ASSUME Sealed, Quiescent, keys' = keys, Datas' \subseteq Datas,
           (pc' = "STORE_SEAL") <=> (pc = "STORE_SEAL"),
           pc' = "STORE_SEAL" => instr' = instr
    PROVE  Sealed'
<1>1. pc' = "STORE_SEAL" => currentEid' = currentEid
  BY DEF currentEid
<1> QED
  BY <1>1 DEF Sealed, Quiescent

(* A step that changes no entry and keeps software's data capabilities keeps
   the invariant, wherever EInitData goes from where it is. *)
LEMMA Stays ==
    ASSUME PInv, TypeOK', Searching', Staged', Quiescent, issued \subseteq issued',
           keys' = keys, Datas' \subseteq Datas, Codes' \subseteq Codes,
           pc' \in DataStates => pc \in DataStates /\ instr' = instr,
           pc' \in Found => pc \in Found,
           (pc' = "STORE_SEAL") <=> (pc = "STORE_SEAL"),
           pc' = "STORE_HASH" => cur' = Code.top,
           pc' = "STORE_ID" => pc = "STORE_ID" /\ instr' = instr
    PROVE  PInv'
<1>1. "STORE_SEAL" \in DataStates
  BY DEF DataStates
<1>2. Measured' /\ AttestsAsked' /\ Presented'
  BY KeepMeasured, KeepAttests, KeepPresented DEF PInv
<1>3. Working'
  BY KeepWorking DEF PInv
<1>4. Sealed'
  BY <1>1, KeepSealed DEF PInv
<1>5. Numbered'
  BY DEF PInv, Numbered
<1> QED
  BY <1>2, <1>3, <1>4, <1>5 DEF PInv, Quiescent
-----------------------------------------------------------------------------
(* Every step keeps the invariant.                                         *)

(* The registers of the tag scan. *)
LEMMA ScanType ==
    ASSUME NEW c \in Scan, NEW line
    PROVE  ScanNext(c, line) \in Scan
<1>1. NumTags \in Nat /\ NumTags > 0 /\ 0 \in Tag
  BY NumTagsAssumption DEF Tag
<1>2. c.fsm \in {"IDLE", "CHECK_TAG", "DONE"} /\ c.tagIdx \in Tag
  BY DEF Scan
<1>3. CASE c.fsm = "IDLE"
  <2>1. ScanNext(c, line) \in {[c EXCEPT !.tagIdx = 0], [c EXCEPT !.fsm = "CHECK_TAG"], c}
    BY <1>3 DEF ScanNext
  <2>2. [c EXCEPT !.tagIdx = 0] \in Scan /\ [c EXCEPT !.fsm = "CHECK_TAG"] \in Scan
    BY <1>1 DEF Scan
  <2> QED
    BY <2>1, <2>2
<1>4. CASE c.fsm = "CHECK_TAG"
  <2>1. ScanNext(c, line) = CheckTag(c, line)
    BY <1>4 DEF ScanNext
  <2>2. CASE c.tagIdx = NumTags - 1
    BY <2>1, <2>2 DEF CheckTag, Scan
  <2>3. CASE c.tagIdx # NumTags - 1
    <3>1. c.tagIdx + 1 \in Tag
      BY <1>1, <1>2, <2>3 DEF Tag
    <3> QED
      BY <2>1, <2>3, <3>1 DEF CheckTag, Scan
  <2> QED
    BY <2>2, <2>3
<1>5. CASE c.fsm = "DONE"
  BY <1>1, <1>5 DEF ScanNext, Scan
<1> QED
  BY <1>2, <1>3, <1>4, <1>5

(* A cycle in which the memory stage asks the store for nothing. *)
LEMMA ClockQuiet ==
    ASSUME PInv, NEW line, Clock(NoRequest, line),
           pc \notin {"initEntry", "STORE_HASH", "GET_HASH"}
    PROVE  /\ Quiescent /\ scan' \in Scan
           /\ store.fsm \in {"idle", "getUnfinishedEntry"}
           /\ store'.fsm \in {"idle", store.fsm}
           /\ pc \notin {"IDLE", "CHECK_CS1_VALID"} => store.fsm = "idle"
<1>1. store \in Store /\ store.fsm \in StoreFsm /\ scan \in Scan
  BY StoreFields DEF PInv, TypeOK
<1>2. store.fsm \in {"idle", "getUnfinishedEntry"}
  BY <1>1 DEF PInv, Searching, StoreFsm
<1>3. pc \notin {"IDLE", "CHECK_CS1_VALID"} => store.fsm = "idle"
  BY <1>2 DEF PInv, Searching
<1>4. Quiescent /\ store'.fsm \in {"idle", store.fsm}
  BY <1>1, <1>2, QuietCycle DEF PInv, Clock, Quiescent, Reads
<1>5. scan' \in Scan
  BY <1>1, ScanType DEF Clock
<1> QED
  BY <1>2, <1>3, <1>4, <1>5

(* What software holds has its type. *)
LEMMA HeldType ==
    ASSUME PInv
    PROVE  Codes \subseteq Id \X Section /\ Datas \subseteq Id
<1>1. issued \subseteq Id \X Section /\ sealed \subseteq Id
  BY DEF PInv, TypeOK
<1>2. wb \in CodeResult \cup DataResult \cup {Nop}
  BY DEF PInv, TypeOK
<1>3. ASSUME wb # Nop, wb.op = "EInitCode"
      PROVE  <<wb.id, wb.sec>> \in Id \X Section
  BY <1>2, <1>3 DEF CodeResult, DataResult
<1>4. ASSUME wb # Nop, wb.op = "EInitData"
      PROVE  wb.id \in Id
  BY <1>2, <1>4 DEF CodeResult, DataResult
<1> QED
  BY <1>1, <1>3, <1>4 DEF Codes, Datas

(* The next instruction, or none, with what the one before returned. *)
LEMMA IssueStep ==
    ASSUME PInv, NEW state, NEW i, Issue(state, i),
           \/ state = "IDLE" /\ i = Nop
           \/ state = "initEntry" /\ i \in CodeInstr
           \/ state = "GET_HASH" /\ i \in IdInstr
    PROVE  PInv'
<1>1. /\ pc = "IDLE" /\ issued' = Codes /\ sealed' = Datas /\ keys' = keys /\ wb' = Nop
      /\ pc' = state /\ instr' = i /\ cur' = cur /\ Clock(NoRequest, "none")
  BY DEF Issue, Retire
<1>2. Quiescent /\ scan' \in Scan /\ store'.fsm \in {"idle", "getUnfinishedEntry"}
  BY <1>1, ClockQuiet
<1>3. TypeOK'
  BY <1>1, <1>2, HeldType DEF PInv, TypeOK, Quiescent, State
<1>4. Searching'
  BY <1>1, <1>2 DEF Searching
<1>5. Staged'
  BY <1>1 DEF Staged, DataStates, Found
<1>6. Datas' = Datas /\ Codes' = Codes /\ issued \subseteq issued'
  BY <1>1 DEF Codes, Datas
<1>7. pc' \notin DataStates /\ pc' \notin Found /\ pc # "STORE_SEAL" /\ pc' # "STORE_SEAL"
      /\ pc' # "STORE_HASH" /\ pc' # "STORE_ID"
  BY <1>1 DEF DataStates, Found
<1> QED
  BY <1>1, <1>2, <1>3, <1>4, <1>5, <1>6, <1>7, Stays

(* An interrupt in writeback. *)
LEMMA InterruptStep ==
    ASSUME PInv, Interrupt
    PROVE  PInv'
<1>1. /\ pc = "IDLE" /\ wb' = Nop /\ Clock(NoRequest, "none") /\ issued' = issued
      /\ sealed' = sealed /\ keys' = keys /\ pc' = pc /\ cur' = cur /\ instr' = instr
  BY DEF Interrupt, Kept, PInv, Staged
<1>2. Quiescent /\ scan' \in Scan /\ store'.fsm \in {"idle", "getUnfinishedEntry"}
  BY <1>1, ClockQuiet
<1>3. TypeOK'
  BY <1>1, <1>2 DEF PInv, TypeOK, Quiescent
<1>4. Searching'
  BY <1>1, <1>2 DEF Searching
<1>5. Staged'
  BY <1>1 DEF PInv, Staged, DataStates, Found
<1>6. Datas' \subseteq Datas /\ Codes' \subseteq Codes
  BY <1>1 DEF Datas, Codes
<1>7. pc' \notin DataStates /\ pc' \notin Found /\ pc # "STORE_SEAL" /\ pc' # "STORE_SEAL"
      /\ pc' # "STORE_HASH" /\ pc' # "STORE_ID"
  BY <1>1 DEF DataStates, Found
<1> QED
  BY <1>1, <1>2, <1>3, <1>4, <1>5, <1>6, <1>7, Stays

(* EInitData starts with an operand software can have. *)
LEMMA IssueEInitDataStep ==
    ASSUME PInv, IssueEInitData
    PROVE  PInv'
<1>1. PICK c \in Operand1, r \in Operands, v \in Views :
          Issue("CHECK_CS1_VALID", [op |-> "EInitData", cs1 |-> c, rs1 |-> r[1],
                                    rs2 |-> r[2], view |-> v])
  BY DEF IssueEInitData
<1> DEFINE i == [op |-> "EInitData", cs1 |-> c, rs1 |-> r[1], rs2 |-> r[2], view |-> v]
<1>2. /\ pc = "IDLE" /\ issued' = Codes /\ sealed' = Datas /\ keys' = keys /\ wb' = Nop
      /\ pc' = "CHECK_CS1_VALID" /\ instr' = i /\ cur' = cur /\ Clock(NoRequest, "none")
  BY <1>1 DEF Issue, Retire
<1>3. Quiescent /\ scan' \in Scan /\ store'.fsm \in {"idle", "getUnfinishedEntry"}
  BY <1>2, ClockQuiet
<1>4. /\ Codes \subseteq Id \X Section /\ Datas \subseteq keys
      /\ \A x \in Codes : x[1] \in Nat /\ x[1] < NumIds /\ x[2] \in Section
      /\ \A e \in keys : e \in Nat /\ e < NumIds
  <2>1. Codes \subseteq Id \X Section /\ Datas \subseteq keys /\ keys \subseteq Idx
    BY HeldType DEF PInv, Sealed
  <2>2. \A x \in Codes : x[1] \in Nat /\ x[1] < NumIds /\ x[2] \in Section
    BY <2>1, StoreFacts DEF PInv, Numbered
  <2>3. ASSUME NEW e \in keys
        PROVE  e \in Nat /\ e < NumIds
    <3>1. e \in Idx /\ e \in Nat /\ store.entries[e].ready
      BY <2>1, StoreFacts DEF PInv, Sealed
    <3>2. e < store.nextId
      BY <3>1 DEF PInv, Filled
    <3>3. store.nextId \in 0 .. NumIds /\ NumIds \in Nat
      BY StoreFields, StoreFacts DEF PInv, TypeOK
    <3> QED
      BY <3>1, <3>2, <3>3
  <2> QED
    BY <2>1, <2>2, <2>3
<1>5. \/ \E x \in Codes : c = [tag |-> TRUE, otype |-> identSeal(x[1]), sec |-> x[2]]
      \/ \E e \in keys, s \in Section :
            \E o \in {identSeal(e), signSeal(e), encSeal(e)} :
               c = [tag |-> TRUE, otype |-> o, sec |-> s]
      \/ \E s \in Section : c = [tag |-> TRUE, otype |-> Unsealed, sec |-> s]
      \/ \E s \in Section, o \in Untagged : c = [tag |-> FALSE, otype |-> o, sec |-> s]
  <2>1. CASE c \in {[tag |-> TRUE, otype |-> identSeal(x[1]), sec |-> x[2]] : x \in Codes}
    BY <2>1
  <2>2. ASSUME NEW o \in {identSeal(e) : e \in Datas} \cup {signSeal(e) : e \in keys}
                           \cup {encSeal(e) : e \in keys} \cup {Unsealed},
               c \in Cs1(TRUE, o)
        PROVE  \/ \E e \in keys, s \in Section :
                     \E p \in {identSeal(e), signSeal(e), encSeal(e)} :
                        c = [tag |-> TRUE, otype |-> p, sec |-> s]
               \/ \E s \in Section : c = [tag |-> TRUE, otype |-> Unsealed, sec |-> s]
    <3>1. PICK s \in Section : c = [tag |-> TRUE, otype |-> o, sec |-> s]
      BY <2>2 DEF Cs1
    <3>2. o = Unsealed \/ \E e \in keys : o \in {identSeal(e), signSeal(e), encSeal(e)}
      BY <1>4
    <3> QED
      BY <3>1, <3>2
  <2>3. ASSUME NEW o \in Untagged, c \in Cs1(FALSE, o)
        PROVE  \E s \in Section, p \in Untagged : c = [tag |-> FALSE, otype |-> p, sec |-> s]
    BY <2>3 DEF Cs1
  <2>4. \/ c \in {[tag |-> TRUE, otype |-> identSeal(x[1]), sec |-> x[2]] : x \in Codes}
        \/ \E o \in {identSeal(e) : e \in Datas} \cup {signSeal(e) : e \in keys}
                       \cup {encSeal(e) : e \in keys} \cup {Unsealed} : c \in Cs1(TRUE, o)
        \/ \E o \in Untagged : c \in Cs1(FALSE, o)
    BY DEF Operand1
  <2> QED
    BY <2>1, <2>2, <2>3, <2>4
<1>6. c \in [tag : BOOLEAN, otype : 0 .. Otypes - 1, sec : Section]
  <2>1. Otypes \in Nat /\ NumIds \in Nat /\ 4 * NumIds < Otypes /\ Untagged \subseteq 0 .. Otypes - 1
    BY ProteusAssumption, StoreFacts
  <2>2. \A e \in Nat : e < NumIds => {identSeal(e), signSeal(e), encSeal(e)} \subseteq 0 .. Otypes - 1
    BY <2>1 DEF identSeal, signSeal, encSeal
  <2>3. Unsealed \in 0 .. Otypes - 1
    BY <2>1 DEF Unsealed
  <2>4. CASE \E x \in Codes : c = [tag |-> TRUE, otype |-> identSeal(x[1]), sec |-> x[2]]
    <3>1. PICK x \in Codes : c = [tag |-> TRUE, otype |-> identSeal(x[1]), sec |-> x[2]]
      BY <2>4
    <3>2. identSeal(x[1]) \in 0 .. Otypes - 1 /\ x[2] \in Section
      BY <1>4, <2>2
    <3> QED
      BY <3>1, <3>2
  <2>5. CASE \E e \in keys, s \in Section :
                \E o \in {identSeal(e), signSeal(e), encSeal(e)} :
                   c = [tag |-> TRUE, otype |-> o, sec |-> s]
    <3>1. PICK e \in keys, s \in Section :
             \E o \in {identSeal(e), signSeal(e), encSeal(e)} :
                c = [tag |-> TRUE, otype |-> o, sec |-> s]
      BY <2>5
    <3>2. {identSeal(e), signSeal(e), encSeal(e)} \subseteq 0 .. Otypes - 1
      BY <1>4, <2>2
    <3> QED
      BY <3>1, <3>2
  <2>6. CASE \/ \E s \in Section : c = [tag |-> TRUE, otype |-> Unsealed, sec |-> s]
             \/ \E s \in Section, o \in Untagged : c = [tag |-> FALSE, otype |-> o, sec |-> s]
    <3>1. \E s \in Section, o \in 0 .. Otypes - 1, b \in BOOLEAN :
             c = [tag |-> b, otype |-> o, sec |-> s]
      BY <2>1, <2>3, <2>6
    <3> QED
      BY <3>1
  <2> QED
    BY <1>5, <2>4, <2>5, <2>6
<1>7. c.tag /\ c.otype # Unsealed =>
         \/ \E e \in Id : c.otype = identSeal(e) /\ <<e, c.sec>> \in Codes
         \/ \E e \in keys : c.otype \in {identSeal(e), signSeal(e), encSeal(e)}
  <2>1. ASSUME NEW x \in Codes,
               c = [tag |-> TRUE, otype |-> identSeal(x[1]), sec |-> x[2]]
        PROVE  \E e \in Id : c.otype = identSeal(e) /\ <<e, c.sec>> \in Codes
    BY <1>4, <2>1
  <2> QED
    BY <1>5, <2>1
<1>8. i \in DataInstr /\ i.cs1 = c
  <2>1. r[1] \in 1 .. NumRegs - 1 /\ r[2] \in 1 .. NumRegs - 1
    BY ProteusAssumption
  <2> QED
    BY <1>6, <2>1 DEF DataInstr
<1> HIDE DEF i
<1>9. TypeOK'
  BY <1>2, <1>3, <1>8, HeldType DEF PInv, TypeOK, Quiescent, State
<1>10. Searching' /\ Staged'
  BY <1>2, <1>3, <1>8 DEF Searching, Staged, DataStates, Found
<1>11. Datas' = Datas /\ Codes' = Codes /\ issued \subseteq issued'
  BY <1>2 DEF Datas, Codes
<1>12. Presented'
  BY <1>2, <1>7, <1>8 DEF Presented
<1>13. pc' \notin Found /\ pc' # "STORE_SEAL" /\ pc # "STORE_SEAL" /\ pc' # "STORE_HASH"
       /\ pc' # "STORE_ID"
  BY <1>2 DEF Found
<1>14. Working'
  BY <1>13 DEF Working
<1>15. Sealed' /\ Measured' /\ AttestsAsked'
  BY <1>2, <1>3, <1>11, <1>13, KeepSealed, KeepMeasured, KeepAttests DEF PInv
<1>16. Numbered'
  BY <1>11 DEF PInv, Numbered
<1> QED
  BY <1>3, <1>9, <1>10, <1>12, <1>14, <1>15, <1>16 DEF PInv, Quiescent

(* The two ways on from a state: to the next, or out of the memory stage. *)
LEMMA GotoType ==
    ASSUME TypeOK, store' \in Store, scan' \in Scan, Kept,
           \/ Fail
           \/ \E state \in State, n \in Nat : Goto(state, n)
    PROVE  TypeOK'
<1>1. issued' = issued /\ sealed' = sealed /\ keys' = keys
  BY DEF Kept
<1>2. CASE Fail
  BY <1>1, <1>2 DEF TypeOK, Fail, Finish, State
<1>3. CASE \E state \in State, n \in Nat : Goto(state, n)
  <2>1. pc' \in State /\ cur' \in Nat /\ instr' = instr /\ wb' = wb
    BY <1>3 DEF Goto
  <2> QED
    BY <1>1, <2>1 DEF TypeOK
<1> QED
  BY <1>2, <1>3

(* An instruction that fails, and changes no entry. *)
LEMMA FailStep ==
    ASSUME PInv, Quiescent, scan' \in Scan, store'.fsm \in {"idle", "getUnfinishedEntry"},
           Kept, Fail, pc # "STORE_SEAL"
    PROVE  PInv'
<1>1. TypeOK'
  BY GotoType DEF PInv, Quiescent
<1>2. /\ pc' = "IDLE" /\ instr' = Nop /\ wb' = Nop
      /\ issued' = issued /\ sealed' = sealed /\ keys' = keys
  BY DEF Fail, Finish, Kept
<1>3. Searching' /\ Staged'
  BY <1>2 DEF Searching, Staged, DataStates, Found
<1>4. Datas' \subseteq Datas /\ Codes' \subseteq Codes
  BY <1>2 DEF Datas, Codes
<1>5. pc' \notin DataStates /\ pc' \notin Found /\ pc' # "STORE_SEAL"
      /\ pc' # "STORE_HASH" /\ pc' # "STORE_ID"
  BY <1>2 DEF DataStates, Found
<1> QED
  BY <1>1, <1>2, <1>3, <1>4, <1>5, Stays

(* EInitData goes on to a state before the entry is finished. *)
LEMMA WalkStep ==
    ASSUME PInv, pc \in Found \ {"STORE_HASH"}, NEW line, Clock(NoRequest, line), Kept,
           NEW state \in Found, NEW n \in Nat, state = "STORE_HASH" => n = Code.top,
           Fail \/ Goto(state, n)
    PROVE  PInv'
<1>1. /\ pc \notin {"IDLE", "initEntry", "CHECK_CS1_VALID", "STORE_HASH", "GET_HASH"}
      /\ pc # "STORE_SEAL" /\ state # "STORE_SEAL" /\ state # "STORE_ID" /\ state # "IDLE"
      /\ state # "initEntry" /\ state # "GET_HASH" /\ state \in State
      /\ pc \in DataStates /\ pc \in Found
  BY DEF Found, DataStates, State
<1>2. /\ Quiescent /\ scan' \in Scan /\ store'.fsm = "idle"
  BY <1>1, ClockQuiet
<1>3. CASE Fail
  BY <1>1, <1>2, <1>3, FailStep
<1>4. CASE Goto(state, n)
  <2>1. /\ pc' = state /\ cur' = n /\ instr' = instr /\ wb' = wb
        /\ issued' = issued /\ sealed' = sealed /\ keys' = keys
    BY <1>4 DEF Goto, Kept
  <2>2. TypeOK'
    BY <1>1, <1>2, <1>4, GotoType DEF PInv, Quiescent
  <2>3. Searching'
    BY <1>2 DEF Searching
  <2>4. Staged'
    BY <1>1, <2>1 DEF PInv, Staged
  <2>5. Datas' = Datas /\ Codes' = Codes
    BY <2>1 DEF Datas, Codes
  <2> QED
    BY <1>1, <1>2, <2>1, <2>2, <2>3, <2>4, <2>5, Stays
<1> QED
  BY <1>3, <1>4

(* The registers that are looked at, and the words that are hashed. *)
LEMMA WalkSteps ==
    ASSUME PInv,
           \/ Start \/ ClaimPipeline \/ CheckRegs \/ CheckDdc \/ CheckPcc \/ CheckScrs
           \/ GetAddress \/ GetCap \/ HashStart \/ LoadWord \/ HashWord
    PROVE  PInv'
<1>0. cur \in Nat /\ cur + 1 \in Nat /\ 0 \in Nat /\ 1 \in Nat
  BY DEF PInv, TypeOK
<1>1. CASE Start
  BY <1>0, <1>1, WalkStep DEF Start, Found
<1>2. CASE ClaimPipeline
  BY <1>0, <1>2, WalkStep DEF ClaimPipeline, Found
<1>3. ASSUME NEW overlap, NEW state \in Found \ {"STORE_HASH"}, NEW n \in Nat,
             Check(overlap, state, n), pc \in Found \ {"STORE_HASH"}
      PROVE  PInv'
  BY <1>3, WalkStep DEF Check
<1>4. CASE CheckRegs
  BY <1>0, <1>3, <1>4 DEF CheckRegs, Found
<1>5. CASE CheckDdc
  BY <1>0, <1>3, <1>5 DEF CheckDdc, Found
<1>6. CASE CheckPcc
  BY <1>0, <1>3, <1>6 DEF CheckPcc, Found
<1>7. CASE CheckScrs
  BY <1>0, <1>3, <1>7 DEF CheckScrs, Found
<1>8. CASE GetCap
  BY <1>0, <1>3, <1>8 DEF GetCap, Found
<1>9. CASE GetAddress
  <2>1. scan.tagIdx \in Nat
    BY NumTagsAssumption DEF PInv, TypeOK, Scan, Tag
  <2>2. ScanItem(scan, "findNext", instr.view.tagged).address \in Nat
    BY <2>1 DEF ScanItem, ItemAt, LastItem, NoItem
  <2> QED
    BY <1>0, <1>9, <2>2, WalkStep DEF GetAddress, Found
<1>10. pc \in Found => instr.cs1.sec \in Section /\ Code.base \in Nat /\ Code.top \in Nat
  <2>1. pc \in Found => instr \in DataInstr
    BY DEF PInv, Staged, DataStates
  <2>2. pc \in Found => instr.cs1.sec \in Section
    BY <2>1 DEF DataInstr
  <2> QED
    BY <2>2, ProteusAssumption DEF Code
<1>11. CASE HashStart
  <2>1. pc \in Found
    BY <1>11 DEF HashStart, Found
  <2> QED
    BY <1>10, <1>11, <2>1, WalkStep DEF HashStart, Found
<1>12. CASE LoadWord
  <2>1. (cur + 4) % Space \in Nat
    BY <1>0, ProteusAssumption
  <2> QED
    BY <1>12, <2>1, WalkStep DEF LoadWord, Found
<1>13. CASE HashWord
  BY <1>0, <1>13, WalkStep DEF HashWord, isLastWord, Found
<1> QED
  BY <1>1, <1>2, <1>4, <1>5, <1>6, <1>7, <1>8, <1>9, <1>11, <1>12, <1>13

(* The answers the store can give. *)
LEMMA Answers ==
    /\ NoAnswer.port = "none"
    /\ \A x : Result(x).port = "result" /\ Result(x).value = x
    /\ \A x : HashResult(x).port = "hashResult" /\ HashResult(x).value = x
  BY DEF NoAnswer, Result, HashResult

(* EInitCode waits, fails without a trace, or returns the id of a new entry. *)
LEMMA InitEntryCases ==
    ASSUME PInv, InitEntry
    PROVE  /\ pc = "initEntry" /\ Kept /\ Filled(store') /\ scan' \in Scan
           /\ store'.fsm \in {"idle", "initEntry", "getUnfinishedEntry"}
           /\ \/ Quiescent /\ Goto("initEntry", cur)
              \/ /\ Quiescent /\ Fail /\ store'.fsm = "idle"
                 /\ \/ ~ idAvailable(store) \/ store.nextId = NumEntries
                    \/ store.fsm = "getUnfinishedEntry"
              \/ /\ Creates(store, store', Result(store.nextId))
                 /\ Finish([op |-> "EInitCode", id |-> store.nextId, sec |-> instr.sec])
<1> DEFINE req == [NoRequest EXCEPT !.op = "initEntry"]
           n == StoreCycle(store, req).next
           a == StoreCycle(store, req).answer
<1>1. req.op = "initEntry" /\ req.eid = Invalid /\ req.op \in StoreFsm
  BY DEF NoRequest, StoreFsm
<1>2. /\ pc = "initEntry" /\ Kept /\ store' = n /\ scan' = ScanNext(scan, "none")
      /\ \/ a.port # "result" /\ Goto("initEntry", cur)
         \/ /\ a.port = "result" /\ a.value # Invalid
            /\ Finish([op |-> "EInitCode", id |-> a.value, sec |-> instr.sec])
         \/ a.port = "result" /\ a.value = Invalid /\ Fail
  BY DEF InitEntry, Clock, Reply
<1>3. scan' \in Scan /\ store \in Store /\ Filled(store) /\ store.fsm \in StoreFsm
  BY <1>2, ScanType, StoreFields DEF PInv, TypeOK
<1>4. store.fsm \in {"idle", "initEntry", "getUnfinishedEntry"}
  BY <1>2, <1>3 DEF PInv, Searching, StoreFsm
<1> HIDE DEF req
<1>5. /\ Filled(n)
      /\ \/ /\ Reads(store, n) /\ a = NoAnswer
            /\ n.fsm \in {"idle", "initEntry", "getUnfinishedEntry"}
         \/ /\ Reads(store, n) /\ n.fsm = "idle" /\ a = Result(Invalid)
            /\ \/ ~ idAvailable(store) \/ store.nextId = NumEntries
               \/ store.fsm = "getUnfinishedEntry"
         \/ Creates(store, n, a)
  <2>1. CASE store.fsm = "idle"
    BY <1>1, <1>3, <2>1, IdleCycle
  <2>2. CASE store.fsm = "initEntry"
    BY <1>3, <2>2, InitEntryCycle
  <2>3. CASE store.fsm = "getUnfinishedEntry"
    <3>1. Invalid \notin Idx
      BY StoreFacts
    <3> QED
      BY <1>1, <1>3, <2>3, <3>1, GetUnfinishedCycle
  <2> QED
    BY <1>4, <2>1, <2>2, <2>3
<1> HIDE DEF n, a
<1>6. CASE Reads(store, n) /\ a = NoAnswer
  BY <1>2, <1>3, <1>5, <1>6, Answers DEF Quiescent, Reads, Creates
<1>7. CASE /\ Reads(store, n) /\ n.fsm = "idle" /\ a = Result(Invalid)
           /\ \/ ~ idAvailable(store) \/ store.nextId = NumEntries
              \/ store.fsm = "getUnfinishedEntry"
  BY <1>2, <1>3, <1>5, <1>7, Answers DEF Quiescent, Reads
<1>8. CASE Creates(store, n, a)
  <2>1. a = Result(store.nextId) /\ n.fsm = "idle" /\ store.nextId \in Idx
    BY <1>8 DEF Creates
  <2>2. store.nextId # Invalid
    BY <2>1, StoreFacts
  <2> QED
    BY <1>2, <1>3, <1>5, <1>8, <2>1, <2>2, Answers
<1> QED
  BY <1>5, <1>6, <1>7, <1>8

(* EInitCode. *)
LEMMA InitEntryStep ==
    ASSUME PInv, InitEntry
    PROVE  PInv'
<1>1. /\ pc = "initEntry" /\ Kept /\ Filled(store') /\ scan' \in Scan
      /\ store'.fsm \in {"idle", "initEntry", "getUnfinishedEntry"}
      /\ issued' = issued /\ sealed' = sealed /\ keys' = keys
  BY InitEntryCases DEF Kept
<1>2. instr \in CodeInstr /\ wb = Nop /\ cur \in Nat
  BY <1>1 DEF PInv, Staged, TypeOK
<1>3. CASE Quiescent /\ Goto("initEntry", cur)
  <2>1. pc' = "initEntry" /\ instr' = instr /\ wb' = wb
    BY <1>3 DEF Goto
  <2>2. TypeOK'
    BY <1>1, <1>2, <1>3, GotoType DEF PInv, Quiescent, State
  <2>3. Searching' /\ Staged'
    BY <1>1, <1>2, <2>1 DEF Searching, Staged, DataStates, Found
  <2>4. Datas' = Datas /\ Codes' = Codes
    BY <1>1, <2>1 DEF Datas, Codes
  <2>5. pc' \notin DataStates /\ pc' \notin Found /\ pc' # "STORE_SEAL" /\ pc # "STORE_SEAL"
        /\ pc' # "STORE_HASH" /\ pc' # "STORE_ID"
    BY <1>1, <2>1 DEF DataStates, Found
  <2> QED
    BY <1>1, <1>3, <2>2, <2>3, <2>4, <2>5, Stays
<1>4. CASE Quiescent /\ Fail /\ store'.fsm = "idle"
  BY <1>1, <1>4, FailStep
<1>5. CASE /\ Creates(store, store', Result(store.nextId))
           /\ Finish([op |-> "EInitCode", id |-> store.nextId, sec |-> instr.sec])
  <2> DEFINE k == store.nextId
             new == [Empty EXCEPT !.used = TRUE, !.id = k]
             res == [op |-> "EInitCode", id |-> k, sec |-> instr.sec]
  <2>1. /\ store' \in Store /\ store'.fsm = "idle" /\ k \in Idx /\ k < NumIds
        /\ store'.entries = [store.entries EXCEPT ![k] = new]
    BY <1>5 DEF Creates
  <2>2. pc' = "IDLE" /\ cur' = 0 /\ instr' = Nop /\ wb' = res
    BY <1>5 DEF Finish
  <2>3. new.ready = FALSE
    BY DEF Empty
  <2>4. res \in CodeResult /\ res.op = "EInitCode" /\ res.id = k
    BY <1>2, <2>1, StoreFacts DEF CodeResult, CodeInstr
  <2> HIDE DEF new, res
  <2>5. TypeOK'
    BY <1>1, <2>1, <2>2, <2>4 DEF PInv, TypeOK, State
  <2>6. Searching' /\ Staged' /\ Presented' /\ Working' /\ AttestsAsked'
    BY <2>1, <2>2 DEF Searching, Staged, Presented, Working, AttestsAsked, DataStates, Found
  <2>7. store.entries \in [Idx -> Entry] /\ store'.entries[k] = new
        /\ \A i \in Idx \ {k} : store'.entries[i] = store.entries[i]
    BY <2>1, StoreFields DEF PInv, TypeOK
  <2>8. ~ store.entries[k].ready
    <3>1. k \in Nat
      BY <2>1, StoreFacts
    <3> QED
      BY <2>1, <3>1 DEF PInv, Filled
  <2>9. \A i \in Idx : store'.entries[i].ready => store.entries[i].ready /\ store'.entries[i] = store.entries[i]
    BY <2>3, <2>7
  <2>10. \A i \in Idx : store.entries[i].ready => store'.entries[i].ready
    BY <2>7, <2>8
  <2>11. Measured'
    BY <1>1, <2>9 DEF PInv, Measured, Ready
  <2>12. Sealed'
    <3>1. Datas' \subseteq Datas
      BY <1>1, <2>2, <2>4 DEF Datas
    <3> QED
      BY <1>1, <2>2, <2>9, <2>10, <3>1 DEF PInv, Sealed
  <2>13. Numbered'
    <3>1. Codes' \subseteq issued \cup {<<k, res.sec>>}
      BY <1>1, <2>2, <2>4 DEF Codes
    <3>2. issued \subseteq Codes
      BY DEF Codes
    <3> QED
      BY <2>1, <3>1, <3>2 DEF PInv, Numbered
  <2> QED
    BY <1>1, <2>5, <2>6, <2>11, <2>12, <2>13 DEF PInv
<1> QED
  BY <1>3, <1>4, <1>5, InitEntryCases

(* CHECK_CS1_VALID. *)
LEMMA CheckCs1ValidStep ==
    ASSUME PInv, CheckCs1Valid
    PROVE  PInv' /\ Quiescent
<1> DEFINE req == Ask("getUnfinishedEntry", instr.cs1.otype)
           n == StoreCycle(store, req).next
           a == StoreCycle(store, req).answer
           accepted == instr.cs1.tag /\ instr.cs1.otype # Unsealed
<1>1. req.op = "getUnfinishedEntry" /\ req.eid = currentEid /\ req.op \in StoreFsm
  BY DEF Ask, NoRequest, StoreFsm, currentEid
<1>2. /\ pc = "CHECK_CS1_VALID" /\ Kept /\ store' = n /\ scan' = ScanNext(scan, "none")
      /\ \/ Fail
         \/ Goto("CHECK_CS1_VALID", cur)
         \/ accepted /\ a.port = "result" /\ a.value # Invalid /\ Goto("START", cur)
  BY DEF CheckCs1Valid, Clock, Reply
<1>3. /\ scan' \in Scan /\ store \in Store /\ Filled(store) /\ store.fsm \in StoreFsm
      /\ cur \in Nat
  BY <1>2, ScanType, StoreFields DEF PInv, TypeOK
<1>4. store.fsm \in {"idle", "getUnfinishedEntry"}
  BY <1>2, <1>3 DEF PInv, Searching, StoreFsm
<1> HIDE DEF req
<1>5. /\ Filled(n) /\ Reads(store, n)
      /\ \/ n.fsm = "getUnfinishedEntry" /\ a = NoAnswer
         \/ n.fsm = "idle" /\ a = Result(Invalid)
         \/ /\ n.fsm = "idle" /\ currentEid \in Idx /\ store.entries[currentEid].used
            /\ ~ store.entries[currentEid].ready
  <2>1. CASE store.fsm = "idle"
    BY <1>1, <1>3, <2>1, IdleCycle
  <2>2. CASE store.fsm = "getUnfinishedEntry"
    BY <1>1, <1>3, <2>2, GetUnfinishedCycle
  <2> QED
    BY <1>4, <2>1, <2>2
<1> HIDE DEF n, a
<1>6. Quiescent /\ store'.fsm \in {"idle", "getUnfinishedEntry"}
  BY <1>2, <1>5 DEF Quiescent, Reads
<1>7. CASE Fail
  BY <1>2, <1>3, <1>6, <1>7, FailStep
<1>8. issued' = issued /\ sealed' = sealed /\ keys' = keys
  BY <1>2 DEF Kept
<1>9. instr \in DataInstr /\ wb = Nop
  BY <1>2 DEF PInv, Staged, DataStates
<1>10. CASE Goto("CHECK_CS1_VALID", cur)
  <2>1. pc' = "CHECK_CS1_VALID" /\ instr' = instr /\ wb' = wb
    BY <1>10 DEF Goto
  <2>2. TypeOK'
    BY <1>2, <1>3, <1>6, <1>10, GotoType DEF PInv, Quiescent, State
  <2>3. Searching' /\ Staged'
    BY <1>6, <1>9, <2>1 DEF Searching, Staged, DataStates, Found
  <2>4. Datas' = Datas /\ Codes' = Codes
    BY <1>8, <2>1 DEF Datas, Codes
  <2>5. pc \in DataStates /\ pc' \notin Found /\ pc' # "STORE_SEAL" /\ pc # "STORE_SEAL"
        /\ pc' # "STORE_HASH" /\ pc' # "STORE_ID"
    BY <1>2, <2>1 DEF DataStates, Found
  <2> QED
    BY <1>6, <1>8, <2>1, <2>2, <2>3, <2>4, <2>5, Stays
<1>11. CASE accepted /\ a.port = "result" /\ a.value # Invalid /\ Goto("START", cur)
  <2>1. pc' = "START" /\ instr' = instr /\ wb' = wb /\ currentEid' = currentEid
    BY <1>11 DEF Goto, currentEid
  <2>2. TypeOK'
    BY <1>2, <1>3, <1>6, <1>11, GotoType DEF PInv, Quiescent, State
  <2>3. /\ n.fsm = "idle" /\ currentEid \in Idx /\ store.entries[currentEid].used
        /\ ~ store.entries[currentEid].ready
    BY <1>5, <1>11, Answers
  <2>4. Searching' /\ Staged'
    BY <1>2, <1>9, <2>1, <2>3 DEF Searching, Staged, DataStates, Found
  <2>5. Datas' = Datas /\ Codes' = Codes
    BY <1>8, <2>1 DEF Datas, Codes
  <2>6. pc \in DataStates /\ pc' # "STORE_SEAL" /\ pc # "STORE_SEAL" /\ pc' # "STORE_ID"
    BY <1>2, <2>1 DEF DataStates
  <2>7. Working'
    BY <1>6, <1>11, <2>1, <2>3 DEF Working, Quiescent
  <2>8. Presented' /\ Measured' /\ AttestsAsked' /\ Sealed'
    BY <1>6, <1>8, <2>1, <2>5, <2>6, KeepPresented, KeepMeasured, KeepAttests, KeepSealed
       DEF PInv
  <2>9. Numbered'
    BY <2>5 DEF PInv, Numbered
  <2> QED
    BY <1>6, <2>2, <2>4, <2>7, <2>8, <2>9 DEF PInv, Quiescent
<1> QED
  BY <1>2, <1>6, <1>7, <1>10, <1>11

(* The hash EInitData computes: of all the words, unless the section is empty. *)
LEMMA DigestFacts ==
    ASSUME PInv, pc = "STORE_HASH"
    PROVE  /\ digest \in Digest /\ digest.sec = instr.cs1.sec /\ instr.cs1.sec \in Section
           /\ Length[instr.cs1.sec] > 0 =>
                 digest.words = Length[instr.cs1.sec] \div 4
<1> DEFINE s == instr.cs1.sec
<1>1. instr \in DataInstr
  BY DEF PInv, Staged, DataStates, Found
<1>2. s \in Section
  BY <1>1 DEF DataInstr
<1> HIDE DEF s
<1>3. /\ Base[s] \in Nat /\ Length[s] \in Nat /\ Base[s] + Length[s] < Space /\ Space \in Nat
      /\ Digest = [sec : Section, words : 0 .. Space]
  BY <1>2, ProteusAssumption
<1>4. cur = Base[s] + Length[s]
  BY DEF PInv, Working, Code, s
<1>5. digest = [sec |-> s, words |-> IF cur = Base[s] THEN Space \div 4
                                     ELSE ((cur - Base[s]) % Space) \div 4]
  BY DEF digest, Code, s
<1>6. CASE Length[s] = 0
  <2>1. digest = [sec |-> s, words |-> Space \div 4]
    BY <1>3, <1>4, <1>5, <1>6
  <2>2. Space \div 4 \in 0 .. Space
    BY <1>3
  <2> QED
    BY <1>2, <1>3, <1>6, <2>1, <2>2 DEF s
<1>7. CASE Length[s] # 0
  <2>1. cur # Base[s] /\ cur - Base[s] = Length[s] /\ Length[s] < Space
    BY <1>3, <1>4, <1>7
  <2>2. Length[s] % Space = Length[s]
    BY <1>3, <2>1
  <2>3. digest = [sec |-> s, words |-> Length[s] \div 4]
    BY <1>5, <2>1, <2>2
  <2>4. Length[s] \div 4 \in 0 .. Space
    BY <1>3, <2>1
  <2> QED
    BY <1>2, <1>3, <2>3, <2>4 DEF s
<1> QED
  BY <1>6, <1>7

(* The capability EInitData works with is one EInitCode returned, for the
   entry it works on: a seal of a ready enclave leads to no other entry. *)
LEMMA WorkingIssued ==
    ASSUME PInv, pc \in Found
    PROVE  <<currentEid, instr.cs1.sec>> \in issued
<1> DEFINE o == instr.cs1.otype
<1>1. /\ pc \in DataStates /\ currentEid \in Idx /\ ~ store.entries[currentEid].ready
      /\ instr.cs1.tag /\ o # Unsealed
  BY DEF PInv, Working, DataStates
<1>2. \/ \E e \in Id : o = identSeal(e) /\ <<e, instr.cs1.sec>> \in issued
      \/ \E e \in keys : o \in {identSeal(e), signSeal(e), encSeal(e)}
  BY <1>1 DEF PInv, Presented
<1>3. currentEid = assignFromOtype(o)
  BY DEF currentEid
<1>4. currentEid \in Nat /\ currentEid # Invalid /\ keys \subseteq Idx
  BY <1>1, StoreFacts DEF PInv, Sealed
<1> HIDE DEF o
<1>5. currentEid = o \div 4
  BY <1>3, <1>4 DEF assignFromOtype
<1>6. ASSUME NEW e \in Id, o = identSeal(e)
      PROVE  currentEid = e
  <2>1. e \in Nat
    BY StoreFacts
  <2> QED
    BY <1>5, <1>6, <2>1 DEF identSeal
<1>7. ASSUME NEW e \in keys, o \in {identSeal(e), signSeal(e), encSeal(e)}
      PROVE  FALSE
  <2>1. e \in Idx /\ e \in Nat
    BY <1>4, StoreFacts
  <2>2. currentEid = e
    BY <1>5, <1>7, <2>1 DEF identSeal, signSeal, encSeal
  <2>3. store.entries[e].ready
    BY <2>1 DEF PInv, Sealed
  <2> QED
    BY <1>1, <2>2, <2>3
<1> QED
  BY <1>2, <1>6, <1>7

(* STORE_HASH waits, fails without a trace, or finishes the entry. *)
LEMMA StoreHashCases ==
    ASSUME PInv, StoreHash
    PROVE  /\ pc = "STORE_HASH" /\ Kept /\ Filled(store') /\ scan' \in Scan
           /\ store'.fsm \in {"idle", "finishEntry"}
           /\ \/ Quiescent /\ Goto("STORE_HASH", cur)
              \/ Quiescent /\ Fail /\ store'.fsm = "idle"
              \/ /\ Finishes(store, store', Result(currentEid), currentEid, digest)
                 /\ Goto("STORE_SEAL", currentEid)
<1> DEFINE req == [Ask("finishEntry", instr.cs1.otype) EXCEPT !.hash = digest]
           n == StoreCycle(store, req).next
           a == StoreCycle(store, req).answer
<1>1. /\ req.op = "finishEntry" /\ req.eid = currentEid /\ req.hash = digest
      /\ req.op \in StoreFsm
  BY DEF Ask, NoRequest, StoreFsm, currentEid
<1>2. /\ pc = "STORE_HASH" /\ Kept /\ store' = n /\ scan' = ScanNext(scan, "none")
      /\ \/ a.port # "result" /\ Goto("STORE_HASH", cur)
         \/ a.port = "result" /\ a.value # Invalid /\ Goto("STORE_SEAL", a.value)
         \/ a.port = "result" /\ a.value = Invalid /\ Fail
  BY DEF StoreHash, Clock, Reply
<1>3. scan' \in Scan /\ store \in Store /\ Filled(store) /\ store.fsm \in StoreFsm
  BY <1>2, ScanType, StoreFields DEF PInv, TypeOK
<1>4. store.fsm \in {"idle", "finishEntry"}
  BY <1>2, <1>3 DEF PInv, Searching, StoreFsm
<1>5. digest \in Digest /\ currentEid \in Idx
  BY <1>2, DigestFacts DEF PInv, Working, Found
<1> HIDE DEF req
<1>6. /\ Filled(n)
      /\ \/ Reads(store, n) /\ n.fsm = "finishEntry" /\ a = NoAnswer
         \/ Reads(store, n) /\ n.fsm = "idle" /\ a = Result(Invalid)
         \/ Finishes(store, n, a, currentEid, digest)
  <2>1. CASE store.fsm = "idle"
    BY <1>1, <1>3, <2>1, IdleCycle
  <2>2. CASE store.fsm = "finishEntry"
    BY <1>1, <1>3, <1>5, <2>2, FinishCycle
  <2> QED
    BY <1>4, <2>1, <2>2
<1> HIDE DEF n, a
<1>7. CASE Reads(store, n) /\ n.fsm = "finishEntry" /\ a = NoAnswer
  BY <1>2, <1>3, <1>6, <1>7, Answers DEF Quiescent, Reads
<1>8. CASE Reads(store, n) /\ n.fsm = "idle" /\ a = Result(Invalid)
  BY <1>2, <1>3, <1>6, <1>8, Answers DEF Quiescent, Reads
<1>9. CASE Finishes(store, n, a, currentEid, digest)
  <2>1. a = Result(currentEid) /\ n.fsm = "idle"
    BY <1>9 DEF Finishes
  <2>2. currentEid # Invalid
    BY <1>5, StoreFacts
  <2> QED
    BY <1>2, <1>3, <1>6, <1>9, <2>1, <2>2, Answers
<1> QED
  BY <1>6, <1>7, <1>8, <1>9

(* STORE_HASH. *)
LEMMA StoreHashStep ==
    ASSUME PInv, StoreHash
    PROVE  PInv'
<1>1. /\ pc = "STORE_HASH" /\ Kept /\ Filled(store') /\ scan' \in Scan
      /\ store'.fsm \in {"idle", "finishEntry"}
      /\ issued' = issued /\ sealed' = sealed /\ keys' = keys
  BY StoreHashCases DEF Kept
<1>2. /\ instr \in DataInstr /\ wb = Nop /\ cur \in Nat /\ pc \in DataStates /\ pc \in Found
      /\ "STORE_SEAL" \in DataStates
  BY <1>1 DEF PInv, Staged, TypeOK, DataStates, Found
<1>3. CASE Quiescent /\ Fail /\ store'.fsm = "idle"
  BY <1>1, <1>3, FailStep
<1>4. CASE Quiescent /\ Goto("STORE_HASH", cur)
  <2>1. pc' = "STORE_HASH" /\ instr' = instr /\ wb' = wb /\ cur' = cur
    BY <1>4 DEF Goto
  <2>2. TypeOK'
    BY <1>1, <1>2, <1>4, GotoType DEF PInv, Quiescent, State
  <2>3. Searching' /\ Staged'
    BY <1>1, <1>2, <2>1 DEF Searching, Staged
  <2>4. Datas' = Datas /\ Codes' = Codes
    BY <1>1, <2>1 DEF Datas, Codes
  <2>5. cur' = Code.top
    BY <1>1, <2>1 DEF PInv, Working
  <2> QED
    BY <1>1, <1>2, <1>4, <2>1, <2>2, <2>3, <2>4, <2>5, Stays
<1>5. CASE /\ Finishes(store, store', Result(currentEid), currentEid, digest)
           /\ Goto("STORE_SEAL", currentEid)
  <2> DEFINE e == currentEid
  <2>1. /\ store' \in Store /\ store'.fsm = "idle" /\ e \in Idx
        /\ \A i \in Idx \ {e} : store'.entries[i] = store.entries[i]
        /\ store'.entries[e].ready /\ store'.entries[e].id = e
        /\ store'.entries[e].hash = digest
    BY <1>1, <1>2, <1>5 DEF Finishes, PInv, Working
  <2>2. /\ pc' = "STORE_SEAL" /\ cur' = e /\ instr' = instr /\ wb' = wb
        /\ currentEid' = e
    BY <1>5 DEF Goto, currentEid
  <2>3. ~ store.entries[e].ready
    BY <1>2 DEF PInv, Working
  <2>4. "STORE_SEAL" \notin Found
    BY DEF Found
  <2>5. TypeOK'
    <3>1. e \in Nat
      BY <2>1, StoreFacts
    <3> QED
      BY <1>1, <1>2, <1>5, <2>1, <3>1, GotoType DEF PInv, State
  <2>6. Searching' /\ Staged' /\ AttestsAsked'
    BY <1>2, <2>1, <2>2 DEF Searching, Staged, AttestsAsked
  <2>7. Presented'
    BY <1>1, <1>2, <2>2, KeepPresented DEF PInv
  <2>8. Datas' = Datas /\ Codes' = Codes
    BY <1>1, <2>2 DEF Datas, Codes
  <2>9. <<e, instr.cs1.sec>> \in issued
    BY <1>2, WorkingIssued
  <2>10. /\ digest.sec = instr.cs1.sec /\ instr.cs1.sec \in Section
         /\ Length[instr.cs1.sec] > 0 => digest.words = Length[instr.cs1.sec] \div 4
    BY <1>1, DigestFacts
  <2> HIDE DEF e
  <2>11. Working'
    BY <2>1, <2>2, <2>4 DEF Working
  <2>12. Sealed'
    <3>1. keys' = keys /\ keys \subseteq Idx /\ Datas' \subseteq keys
      BY <1>1, <2>8 DEF PInv, Sealed
    <3>2. \A i \in Idx : store.entries[i].ready <=> i \in keys
      BY <1>1 DEF PInv, Sealed
    <3>3. ASSUME NEW i \in Idx
          PROVE  store'.entries[i].ready <=> i \in keys \/ i = e
      <4>1. CASE i = e
        BY <2>1, <4>1
      <4>2. CASE i # e
        BY <2>1, <3>2, <4>2
      <4> QED
        BY <4>1, <4>2
    <3> QED
      BY <2>2, <3>1, <3>3 DEF Sealed
  <2>13. Measured'
    <3> SUFFICES ASSUME NEW i \in Idx, store'.entries[i].ready
                 PROVE  \E s \in Section :
                           /\ <<store'.entries[i].id, s>> \in issued'
                           /\ store'.entries[i].hash.sec = s
                           /\ Length[s] > 0 =>
                                 store'.entries[i].hash.words = Length[s] \div 4
      BY DEF Measured, Ready
    <3>1. CASE i = e
      BY <1>1, <2>1, <2>9, <2>10, <3>1
    <3>2. CASE i # e
      BY <1>1, <2>1, <3>2 DEF PInv, Measured, Ready
    <3> QED
      BY <3>1, <3>2
  <2>14. Numbered'
    BY <2>8 DEF PInv, Numbered
  <2> QED
    BY <1>1, <2>5, <2>6, <2>7, <2>11, <2>12, <2>13, <2>14 DEF PInv
<1> QED
  BY <1>3, <1>4, <1>5, StoreHashCases

(* STORE_SEAL: the seals of the entry that has just become ready. *)
LEMMA StoreSealStep ==
    ASSUME PInv, StoreSeal
    PROVE  PInv' /\ Quiescent
<1> DEFINE e == currentEid
           res == [op |-> "EInitData", id |-> e, sec |-> None]
<1>1. /\ pc = "STORE_SEAL" /\ Clock(NoRequest, "none") /\ keys' = keys \cup {e}
      /\ issued' = issued /\ sealed' = sealed
      /\ pc' = "IDLE" /\ cur' = 0 /\ instr' = Nop /\ wb' = res
  BY DEF StoreSeal, Finish
<1>2. Quiescent /\ scan' \in Scan /\ store'.fsm = "idle"
  BY <1>1, ClockQuiet
<1>3. e \in Idx /\ e \in Id /\ keys \subseteq Idx /\ keys \subseteq Id
  BY <1>1, StoreFacts DEF PInv, Working, Sealed
<1>4. res \in DataResult /\ res.op = "EInitData" /\ res.id = e
  BY <1>3 DEF DataResult
<1> HIDE DEF res, e
<1>5. TypeOK'
  BY <1>1, <1>2, <1>3, <1>4 DEF PInv, TypeOK, Quiescent, State
<1>6. Searching' /\ Staged' /\ Presented' /\ Working' /\ AttestsAsked'
  BY <1>1, <1>2
  DEF Searching, Staged, Presented, Working, AttestsAsked, DataStates, Found
<1>7. Measured'
  BY <1>1, <1>2, KeepMeasured DEF PInv
<1>8. Sealed'
  <2>1. sealed \subseteq keys
    BY DEF PInv, Sealed, Datas
  <2>2. Datas' \subseteq keys'
    BY <1>1, <1>4, <2>1 DEF Datas
  <2> QED
    BY <1>1, <1>2, <1>3, <2>2 DEF PInv, Sealed, Quiescent, e
<1>9. Numbered'
  <2>1. Codes' \subseteq Codes
    BY <1>1, <1>4 DEF Codes
  <2> QED
    BY <2>1 DEF PInv, Numbered
<1> QED
  BY <1>2, <1>5, <1>6, <1>7, <1>8, <1>9 DEF PInv, Quiescent

(* GET_HASH: the hash found is that of the ready entry asked for. *)
LEMMA GetHashStep ==
    ASSUME PInv, GetHash
    PROVE  PInv' /\ Quiescent
<1> DEFINE req == Ask("getHash", instr.otype)
           n == StoreCycle(store, req).next
           a == StoreCycle(store, req).answer
           e == assignFromOtype(instr.otype)
<1>1. req.op = "getHash" /\ req.eid = e /\ req.op \in StoreFsm
  BY DEF Ask, NoRequest, StoreFsm
<1>2. /\ pc = "GET_HASH" /\ Kept /\ store' = n /\ scan' = ScanNext(scan, "none")
      /\ \/ Goto("GET_HASH", cur)
         \/ /\ a.port = "hashResult" /\ a.value # None
            /\ pc' = "STORE_ID" /\ instr' = [instr EXCEPT !.hash = a.value]
            /\ cur' = 0 /\ wb' = wb
         \/ a.port = "hashResult" /\ Fail
  BY DEF GetHash, Clock, Reply
<1>3. /\ scan' \in Scan /\ store \in Store /\ Filled(store) /\ store.fsm \in StoreFsm
      /\ cur \in Nat
  BY <1>2, ScanType, StoreFields DEF PInv, TypeOK
<1>4. store.fsm \in {"idle", "getHash", "getUnfinishedEntry"}
  BY <1>2, <1>3 DEF PInv, Searching, StoreFsm
<1> HIDE DEF req, e
<1>5. /\ Filled(n) /\ Reads(store, n)
      /\ \/ /\ n.fsm \in {"idle", "getHash", "getUnfinishedEntry"}
            /\ a = NoAnswer \/ \E x : a = Result(x)
         \/ n.fsm = "idle" /\ a = HashResult(None)
         \/ /\ n.fsm = "idle" /\ e \in Idx /\ store.entries[e].ready
            /\ a = HashResult(store.entries[e].hash)
  <2>1. CASE store.fsm = "idle"
    BY <1>1, <1>3, <2>1, IdleCycle
  <2>2. CASE store.fsm = "getHash"
    BY <1>1, <1>3, <2>2, HashCycle
  <2>3. CASE store.fsm = "getUnfinishedEntry"
    BY <1>1, <1>3, <2>3, GetUnfinishedCycle
  <2> QED
    BY <1>4, <2>1, <2>2, <2>3
<1> HIDE DEF n, a
<1>6. Quiescent
  BY <1>2, <1>5 DEF Quiescent, Reads
<1>7. issued' = issued /\ sealed' = sealed /\ keys' = keys
  BY <1>2 DEF Kept
<1>8. instr \in IdInstr /\ wb = Nop
  BY <1>2 DEF PInv, Staged
<1>9. CASE a.port = "hashResult" /\ Fail
  <2>1. store'.fsm = "idle"
    BY <1>2, <1>5, <1>9, Answers
  <2> QED
    BY <1>2, <1>3, <1>6, <1>9, <2>1, FailStep
<1>10. CASE Goto("GET_HASH", cur)
  <2>1. pc' = "GET_HASH" /\ instr' = instr /\ wb' = wb
    BY <1>10 DEF Goto
  <2>2. TypeOK'
    BY <1>2, <1>3, <1>6, <1>10, GotoType DEF PInv, Quiescent, State
  <2>3. store'.fsm \in {"idle", "getHash", "getUnfinishedEntry"}
    BY <1>2, <1>5
  <2>4. Searching' /\ Staged'
    BY <1>8, <2>1, <2>3 DEF Searching, Staged, DataStates, Found
  <2>5. Datas' = Datas /\ Codes' = Codes
    BY <1>7, <2>1 DEF Datas, Codes
  <2>6. pc' \notin DataStates /\ pc' \notin Found /\ pc' # "STORE_SEAL" /\ pc # "STORE_SEAL"
        /\ pc' # "STORE_HASH" /\ pc' # "STORE_ID"
    BY <1>2, <2>1 DEF DataStates, Found
  <2> QED
    BY <1>6, <1>7, <2>1, <2>2, <2>4, <2>5, <2>6, Stays
<1>11. CASE /\ a.port = "hashResult" /\ a.value # None
            /\ pc' = "STORE_ID" /\ instr' = [instr EXCEPT !.hash = a.value]
            /\ cur' = 0 /\ wb' = wb
  <2>1. /\ n.fsm = "idle" /\ e \in Idx /\ store.entries[e].ready
        /\ a.value = store.entries[e].hash
    BY <1>5, <1>11, Answers
  <2>2. store.entries[e].hash \in Digest /\ store.entries[e].id = e
    BY <2>1 DEF PInv, Filled
  <2>3. /\ instr' \in IdInstr /\ instr'.hash = store.entries[e].hash
        /\ instr'.otype = instr.otype
    BY <1>8, <1>11, <2>1, <2>2 DEF IdInstr
  <2>4. TypeOK'
    BY <1>3, <1>6, <1>7, <1>8, <1>11, <2>3 DEF PInv, TypeOK, Quiescent, State
  <2>5. Searching' /\ Staged' /\ Presented' /\ Working'
    BY <1>2, <1>8, <1>11, <2>1, <2>3
    DEF Searching, Staged, Presented, Working, DataStates, Found
  <2>6. instr.otype \in 4 * e .. 4 * e + 3
    <3>1. instr.otype \in Nat /\ e \in Nat /\ e # Invalid
      <4>1. instr.otype \in 0 .. Otypes - 1 /\ Otypes \in Nat
        BY <1>8, ProteusAssumption DEF IdInstr
      <4> QED
        BY <2>1, <4>1, StoreFacts
    <3>2. e = instr.otype \div 4
      BY <3>1 DEF e, assignFromOtype
    <3> QED
      BY <3>1, <3>2
  <2>7. AttestsAsked'
    <3>1. store'.entries[e] = store.entries[e] /\ e \in Ready'
      BY <1>6, <2>1 DEF Quiescent, Ready
    <3> QED
      BY <1>11, <2>2, <2>3, <2>6, <3>1 DEF AttestsAsked
  <2>8. Datas' = Datas /\ Codes' = Codes
    BY <1>7, <1>11 DEF Datas, Codes
  <2>9. Measured'
    BY <1>6, <1>7, KeepMeasured DEF PInv
  <2>10. Sealed'
    BY <1>2, <1>6, <1>7, <1>11, <2>8, KeepSealed DEF PInv
  <2>11. Numbered'
    BY <2>8 DEF PInv, Numbered
  <2> QED
    BY <1>6, <2>4, <2>5, <2>7, <2>9, <2>10, <2>11 DEF PInv, Quiescent
<1> QED
  BY <1>2, <1>6, <1>9, <1>10, <1>11

(* STORE_HASH of EStoreId writes one word after the other. *)
LEMMA StoreIdStep ==
    ASSUME PInv, StoreId
    PROVE  PInv' /\ Quiescent
<1>1. /\ pc = "STORE_ID" /\ Clock(NoRequest, "none") /\ Kept
      /\ Finish(Nop) \/ Goto("STORE_ID", cur + 1)
      /\ issued' = issued /\ sealed' = sealed /\ keys' = keys
  BY DEF StoreId, Kept
<1>2. Quiescent /\ scan' \in Scan /\ store'.fsm = "idle"
  BY <1>1, ClockQuiet
<1>3. CASE Finish(Nop)
  BY <1>1, <1>2, <1>3, FailStep DEF Fail
<1>4. CASE Goto("STORE_ID", cur + 1)
  <2>1. pc' = "STORE_ID" /\ instr' = instr /\ wb' = wb
    BY <1>4 DEF Goto
  <2>2. TypeOK'
    <3>1. cur + 1 \in Nat
      BY DEF PInv, TypeOK
    <3> QED
      BY <1>1, <1>2, <1>4, <3>1, GotoType DEF PInv, Quiescent, State
  <2>3. Searching' /\ Staged'
    BY <1>1, <1>2, <2>1 DEF PInv, Searching, Staged
  <2>4. Datas' = Datas /\ Codes' = Codes
    BY <1>1, <2>1 DEF Datas, Codes
  <2>5. pc' \notin DataStates /\ pc' \notin Found /\ pc' # "STORE_SEAL" /\ pc # "STORE_SEAL"
        /\ pc' # "STORE_HASH"
    BY <1>1, <2>1 DEF DataStates, Found
  <2> QED
    BY <1>1, <1>2, <2>1, <2>2, <2>3, <2>4, <2>5, Stays
<1> QED
  BY <1>1, <1>2, <1>3, <1>4

(* A cycle in which a bus or the hash core is not ready. *)
LEMMA WaitStep ==
    ASSUME PInv, Wait
    PROVE  PInv' /\ Quiescent
<1>1. /\ pc \in {"GET_CAP", "LOAD_WORD", "HASH_WORD", "STORE_SEAL", "STORE_ID"}
      /\ Clock(NoRequest, "none") /\ pc' = pc /\ cur' = cur /\ instr' = instr /\ wb' = wb
      /\ issued' = issued /\ sealed' = sealed /\ keys' = keys
  BY DEF Wait, Kept
<1>2. Quiescent /\ scan' \in Scan /\ store'.fsm = "idle"
  BY <1>1, ClockQuiet
<1>3. TypeOK'
  BY <1>1, <1>2 DEF PInv, TypeOK, Quiescent
<1>4. Searching' /\ Staged'
  BY <1>1, <1>2 DEF PInv, Searching, Staged
<1>5. Datas' = Datas /\ Codes' = Codes
  BY <1>1 DEF Datas, Codes
<1>6. pc' # "STORE_HASH"
  BY <1>1
<1> QED
  BY <1>1, <1>2, <1>3, <1>4, <1>5, <1>6, Stays
-----------------------------------------------------------------------------
(* The invariant.                                                          *)

(* It holds when the core comes out of reset. *)
LEMMA InitPInv == Init => PInv
<1> SUFFICES ASSUME Init
             PROVE  PInv
  OBVIOUS
<1>1. /\ StoreInit.fsm = "idle" /\ StoreInit.nextId = 0
      /\ StoreInit.entries = [i \in Idx |-> Empty]
      /\ Empty.used = FALSE /\ Empty.ready = FALSE /\ Empty \in Entry
  BY DEF StoreInit, Empty, Entry
<1>2. StoreInit \in Store
  BY <1>1, StoreFacts DEF StoreInit, Store, StoreFsm
<1>3. ScanInit \in Scan
  BY NumTagsAssumption DEF ScanInit, Scan, Tag
<1>4. /\ store.fsm = "idle" /\ store.nextId = 0 /\ store \in Store
      /\ \A i \in Idx : store.entries[i] = Empty
      /\ scan \in Scan /\ pc = "IDLE" /\ cur = 0 /\ instr = Nop /\ wb = Nop
      /\ issued = {} /\ sealed = {} /\ keys = {}
  BY <1>1, <1>2, <1>3 DEF Init
<1>5. TypeOK
  BY <1>4 DEF TypeOK, State
<1>6. Filled(store)
  BY <1>1, <1>4, StoreFacts DEF Filled
<1>7. Searching /\ Staged /\ Presented /\ Working /\ AttestsAsked
  BY <1>4 DEF Searching, Staged, Presented, Working, AttestsAsked, DataStates, Found
<1>8. Measured /\ Numbered
  BY <1>1, <1>4 DEF Measured, Ready, Numbered, Codes
<1>9. Sealed
  BY <1>1, <1>4 DEF Sealed, Datas
<1> QED
  BY <1>5, <1>6, <1>7, <1>8, <1>9 DEF PInv

(* A cycle in which nothing changes at all. *)
LEMMA StutterPInv ==
    ASSUME PInv, UNCHANGED vars
    PROVE  PInv'
<1>1. /\ store' = store /\ scan' = scan /\ pc' = pc /\ cur' = cur /\ instr' = instr
      /\ wb' = wb /\ issued' = issued /\ sealed' = sealed /\ keys' = keys
  BY DEF vars
<1>2. TypeOK' /\ Searching' /\ Staged' /\ Datas' = Datas /\ Codes' = Codes
  BY <1>1 DEF PInv, TypeOK, Searching, Staged, Datas, Codes
<1>3. Quiescent
  BY <1>1 DEF PInv, TypeOK, Quiescent
<1>4. pc' = "STORE_HASH" => cur' = Code.top
  BY <1>1 DEF PInv, Working
<1> QED
  BY <1>1, <1>2, <1>3, <1>4, Stays

(* Every clock cycle keeps it. *)
LEMMA NextPInv == PInv /\ [Next]_vars => PInv'
<1> SUFFICES ASSUME PInv, [Next]_vars
             PROVE  PInv'
  OBVIOUS
<1>1. CASE Bubble
  BY <1>1, IssueStep DEF Bubble
<1>2. CASE Interrupt
  BY <1>2, InterruptStep
<1>3. CASE IssueEInitCode
  <2>1. PICK s \in Section : Issue("initEntry", [op |-> "EInitCode", sec |-> s])
    BY <1>3 DEF IssueEInitCode
  <2>2. [op |-> "EInitCode", sec |-> s] \in CodeInstr
    BY DEF CodeInstr
  <2> QED
    BY <2>1, <2>2, IssueStep
<1>4. CASE IssueEInitData
  BY <1>4, IssueEInitDataStep
<1>5. CASE IssueEStoreId
  <2>1. PICK o \in Asked, b \in Buffers :
           \/ Issue("GET_HASH", [op |-> "EStoreId", otype |-> o, cs2 |-> b, hash |-> None])
           \/ Issue("IDLE", Nop)
    BY <1>5 DEF IssueEStoreId
  <2>2. [op |-> "EStoreId", otype |-> o, cs2 |-> b, hash |-> None] \in IdInstr
    BY DEF IdInstr
  <2> QED
    BY <2>1, <2>2, IssueStep
<1>6. CASE Busy
  BY <1>6, InitEntryStep, CheckCs1ValidStep, WalkSteps, StoreHashStep, StoreSealStep,
     GetHashStep, StoreIdStep DEF Busy
<1>7. CASE Wait
  BY <1>7, WaitStep
<1>8. CASE UNCHANGED vars
  BY <1>8, StutterPInv
<1> QED
  BY <1>1, <1>2, <1>3, <1>4, <1>5, <1>6, <1>7, <1>8 DEF Next

(* So it holds between any two cycles. *)
THEOREM Inductive == Spec => []PInv
  BY InitPInv, NextPInv, PTL DEF Spec
-----------------------------------------------------------------------------
(* The properties.                                                         *)

(* The entries of the identity store and the seals, for any number of entries
   and ids: the ids in use differ and were given out, their otypes lead back to
   them, and seals exist for the ready enclaves, for all of them between
   instructions. *)
THEOREM StoreConsistentCorrect == Spec => []StoreConsistent
<1>1. PInv => StoreConsistent
  <2> SUFFICES ASSUME PInv
               PROVE  EntriesOK /\ SealsFollowHash
    BY DEF StoreConsistent, PInv
  <2>1. store.nextId \in 0 .. NumIds /\ NumIds \in Nat
    BY StoreFields, StoreFacts DEF PInv, TypeOK
  <2>2. \A i \in Idx : /\ store.entries[i].ready => store.entries[i].used
                       /\ store.entries[i].used => store.entries[i].id = i /\ i < store.nextId
    BY DEF PInv, Filled
  <2>3. EntriesOK
    <3>1. ASSUME NEW i \in Idx
          PROVE  assignFromOtype(identSeal(i)) = i
      <4>1. i \in Nat /\ 4 * i + 3 < IdValues /\ IdValues \in Nat
        BY StoreFacts, SealsBelow
      <4> QED
        BY <4>1 DEF assignFromOtype, identSeal
    <3>2. ASSUME NEW i \in Idx, i < store.nextId
          PROVE  i \in 0 .. store.nextId - 1
      BY <2>1, <3>2, StoreFacts
    <3> QED
      BY <2>2, <3>1, <3>2 DEF EntriesOK, Ready, Used
  <2>4. SealsFollowHash
    <3>1. \A i \in Idx : store.entries[i].ready
                           <=> i \in keys \/ (pc = "STORE_SEAL" /\ i = currentEid)
      BY DEF PInv, Sealed
    <3>2. keys \subseteq Idx
      BY DEF PInv, Sealed
    <3>3. {store.entries[i].id : i \in Ready} = Ready
      BY <2>2 DEF Ready
    <3> QED
      BY <3>1, <3>2, <3>3 DEF SealsFollowHash, Ready
  <2> QED
    BY <2>3, <2>4
<1> QED
  BY <1>1, Inductive, PTL

(* The hash of a ready entry is that of all the words of the section for which
   EInitCode gave out the entry's id, whatever is presented again and however
   long the searches take. *)
THEOREM MeasuredCorrect == Spec => []Measured
<1>1. PInv => Measured
  BY DEF PInv
<1> QED
  BY <1>1, Inductive, PTL

(* What EStoreId was allowed to write, and how far it has come. *)
IdFits ==
    pc \in {"GET_HASH", "STORE_ID"} =>
        MayStore(instr.cs2) /\ (pc = "STORE_ID" => cur < HashWords)

(* EStoreId keeps to it. *)
LEMMA NextIdFits == PInv /\ IdFits /\ [Next]_vars => IdFits'
<1> SUFFICES ASSUME PInv, IdFits, [Next]_vars, pc' \in {"GET_HASH", "STORE_ID"}
             PROVE  MayStore(instr.cs2)' /\ (pc' = "STORE_ID" => cur' < HashWords)
  BY DEF IdFits
<1>1. CASE IssueEStoreId
  <2>1. PICK o \in Asked, b \in Buffers :
           /\ MayStore(b)
           /\ Issue("GET_HASH", [op |-> "EStoreId", otype |-> o, cs2 |-> b, hash |-> None])
    BY <1>1 DEF IssueEStoreId, Issue
  <2>2. pc' = "GET_HASH" /\ instr'.cs2 = b
    BY <2>1 DEF Issue
  <2> QED
    BY <2>1, <2>2 DEF MayStore
<1>2. CASE GetHash
  <2>1. instr \in IdInstr /\ MayStore(instr.cs2) /\ HashWords \in Nat \ {0}
    BY <1>2, ProteusAssumption DEF GetHash, PInv, Staged, IdFits
  <2>2. instr'.cs2 = instr.cs2 /\ (pc' = "STORE_ID" => cur' = 0)
    BY <1>2, <2>1 DEF GetHash, Goto, Fail, Finish, IdInstr
  <2> QED
    BY <2>1, <2>2 DEF MayStore
<1>3. CASE StoreId
  <2>1. /\ MayStore(instr.cs2) /\ cur < HashWords /\ HashWords \in Nat /\ cur \in Nat
        /\ pc' = "STORE_ID" /\ cur # HashWords - 1 /\ cur' = cur + 1 /\ instr' = instr
    BY <1>3, ProteusAssumption DEF StoreId, Goto, Finish, IdFits, PInv, TypeOK
  <2> QED
    BY <2>1 DEF MayStore
<1>4. CASE Wait \/ Interrupt \/ UNCHANGED vars
  <2>1. pc' = pc /\ cur' = cur /\ instr' = instr
    BY <1>4 DEF Wait, Interrupt, vars
  <2> QED
    BY <2>1 DEF IdFits, MayStore
<1>5. CASE \/ Bubble \/ IssueEInitCode \/ IssueEInitData \/ InitEntry \/ CheckCs1Valid
           \/ Start \/ ClaimPipeline \/ CheckRegs \/ CheckDdc \/ CheckPcc \/ CheckScrs
           \/ GetAddress \/ GetCap \/ HashStart \/ LoadWord \/ HashWord \/ StoreHash \/ StoreSeal
  BY <1>5 DEF Bubble, IssueEInitCode, IssueEInitData, Issue, InitEntry, CheckCs1Valid,
     Start, ClaimPipeline, CheckRegs, CheckDdc, CheckPcc, CheckScrs, GetAddress, GetCap,
     HashStart, LoadWord, HashWord, StoreHash, StoreSeal, Check, Goto, Fail, Finish
<1> QED
  BY <1>1, <1>2, <1>3, <1>4, <1>5 DEF Next, Busy

(* EStoreId writes the hash of the ready enclave asked for, and, when the address
   of its buffer is not past the top, only inside the buffer. *)
THEOREM EStoreIdCorrect ==
    ASSUME \A b \in Buffers : b.offset <= b.length
    PROVE  Spec => []EStoreIdRight
<1>1. Init => IdFits
  BY DEF Init, IdFits
<1>2. PInv /\ IdFits => EStoreIdRight
  <2> SUFFICES ASSUME PInv, IdFits, pc = "STORE_ID"
               PROVE  instr.cs2.offset + 4 * cur + 4 <= instr.cs2.length
    BY DEF EStoreIdRight, PInv, IdInBounds
  <2> DEFINE b == instr.cs2
             d == b.length - b.offset
  <2>1. b \in Buffers /\ cur \in Nat
    BY DEF PInv, Staged, TypeOK, IdInstr
  <2>2. b.offset \in Nat /\ b.length \in Nat /\ b.offset <= b.length
    BY <2>1, ProteusAssumption DEF Buffer
  <2>3. d % Space >= 4 * HashWords /\ cur < HashWords
    BY DEF IdFits, MayStore
  <2>4. HashWords \in Nat /\ Space \in Nat /\ Space > 0
    BY ProteusAssumption
  <2> HIDE DEF b
  <2>5. d \in Nat
    BY <2>2
  <2>6. d % Space <= d
    <3> HIDE DEF d
    <3> QED
      BY <2>4, <2>5
  <2>7. d % Space \in Nat
    BY <2>4, <2>5
  <2>8. 4 * cur + 4 <= d
    <3> HIDE DEF d
    <3> QED
      BY <2>1, <2>3, <2>4, <2>5, <2>6, <2>7
  <2> QED
    BY <2>1, <2>2, <2>8 DEF b
<1>3. Spec => [](PInv /\ IdFits)
  BY <1>1, InitPInv, NextPInv, NextIdFits, PTL DEF Spec
<1> QED
  BY <1>2, <1>3, PTL
-----------------------------------------------------------------------------
(* The store implements the abstract trusted base.                         *)

(* Where an id is in its life, from the entry with its number. *)
StatusIn(s, e) ==
    IF e \in Idx /\ e < s.nextId
    THEN IF s.entries[e].ready THEN "perm" ELSE "temp"
    ELSE "unused"

IdentityIn(s, e) == IF e \in Idx /\ s.entries[e].ready THEN s.entries[e].hash ELSE None

(* What the entries in use tell of an id. *)
LEMMA StatusOf ==
    ASSUME NEW s \in Store, Filled(s), NEW e \in 0 .. NumIds - 1
    PROVE  LET R == {i \in Idx : s.entries[i].ready}
               U == {i \in Idx : s.entries[i].used}
           IN  /\ StatusIn(s, e) = IF e \in {s.entries[i].id : i \in R} THEN "perm"
                                   ELSE IF e \in {s.entries[i].id : i \in U} THEN "temp"
                                   ELSE IF e < s.nextId THEN "gone" ELSE "unused"
               /\ IdentityIn(s, e) =
                     IF \E i \in R : s.entries[i].id = e
                     THEN s.entries[CHOOSE i \in R : s.entries[i].id = e].hash ELSE None
<1> DEFINE R == {i \in Idx : s.entries[i].ready}
           U == {i \in Idx : s.entries[i].used}
<1>1. \A i \in Idx : /\ s.entries[i].used <=> i < s.nextId
                     /\ s.entries[i].used => s.entries[i].id = i
                     /\ s.entries[i].ready => s.entries[i].used
  BY DEF Filled
<1>2. e \in {s.entries[i].id : i \in R} <=> e \in R
  BY <1>1
<1>3. e \in {s.entries[i].id : i \in U} <=> e \in U
  BY <1>1
<1>4. e < s.nextId => e \in Idx
  <2>1. s.nextId \in 0 .. NumIds /\ NumIds \in Nat /\ NumEntries \in Nat
    BY StoreFields, StoreFacts
  <2>2. s.nextId <= NumEntries
    BY DEF Filled
  <2> QED
    BY <2>1, <2>2 DEF Idx
<1>5. (\E i \in R : s.entries[i].id = e) <=> e \in R
  BY <1>1
<1>6. ASSUME e \in R
      PROVE  (CHOOSE i \in R : s.entries[i].id = e) = e
  <2> DEFINE c == CHOOSE i \in R : s.entries[i].id = e
  <2>1. \E i \in R : s.entries[i].id = e
    BY <1>5, <1>6
  <2> HIDE DEF R
  <2>2. c \in R /\ s.entries[c].id = e
    BY <2>1
  <2> HIDE DEF c
  <2>3. c = e
    BY <1>1, <2>2 DEF R
  <2> QED
    BY <2>3 DEF c
<1>7. e \in R <=> e \in Idx /\ s.entries[e].ready
  OBVIOUS
<1>8. e \in U <=> e \in Idx /\ e < s.nextId
  BY <1>1
<1>9. e \in R => e \in U
  BY <1>1
<1> HIDE DEF R, U
<1>10. StatusIn(s, e) = IF e \in R THEN "perm" ELSE IF e \in U THEN "temp"
                        ELSE IF e < s.nextId THEN "gone" ELSE "unused"
  BY <1>4, <1>7, <1>8, <1>9 DEF StatusIn
<1>11. IdentityIn(s, e) = IF e \in R THEN s.entries[e].hash ELSE None
  BY <1>7 DEF IdentityIn
<1> QED
  BY <1>2, <1>3, <1>5, <1>6, <1>10, <1>11 DEF R, U

(* So the two maps of the refinement are these, in any state... *)
LEMMA MapFacts ==
    ASSUME store \in Store, Filled(store)
    PROVE  /\ StatusMap = [e \in 0 .. NumIds - 1 |-> StatusIn(store, e)]
           /\ IdentityMap = [e \in 0 .. NumIds - 1 |-> IdentityIn(store, e)]
  BY StatusOf DEF StatusMap, IdentityMap, Used, Ready

(* ... and in the next one. *)
LEMMA MapFactsPrime ==
    ASSUME store' \in Store, Filled(store')
    PROVE  /\ StatusMap' = [e \in 0 .. NumIds - 1 |-> StatusIn(store', e)]
           /\ IdentityMap' = [e \in 0 .. NumIds - 1 |-> IdentityIn(store', e)]
  BY StatusOf DEF StatusMap, IdentityMap, Used, Ready

(* Taking an entry is Create. *)
LEMMA CreateStep ==
    ASSUME store \in Store, Filled(store), Filled(store'),
           Creates(store, store', Result(store.nextId))
    PROVE  TCB!Next
<1> DEFINE f == store.nextId
           Eid == 0 .. NumIds - 1
           new == [Empty EXCEPT !.used = TRUE, !.id = f]
<1>1. /\ store' \in Store /\ f \in Idx /\ f < NumIds /\ store'.nextId = f + 1
      /\ store'.entries = [store.entries EXCEPT ![f] = new]
  BY DEF Creates
<1>2. new.ready = FALSE
  BY DEF Empty
<1> HIDE DEF new
<1>3. f \in Nat /\ NumIds \in Nat /\ NumEntries \in Nat /\ f < NumEntries
  BY <1>1, StoreFacts DEF Idx
<1>4. f \in Eid
  BY <1>1, <1>3
<1>5. store'.entries[f].ready = FALSE
      /\ \A i \in Idx \ {f} : store'.entries[i] = store.entries[i]
  BY <1>1, <1>2, StoreFields
<1>6. ~ store.entries[f].ready
  BY <1>1, <1>3 DEF Filled
<1>7. /\ StatusMap = [e \in Eid |-> StatusIn(store, e)]
      /\ IdentityMap = [e \in Eid |-> IdentityIn(store, e)]
      /\ StatusMap' = [e \in Eid |-> StatusIn(store', e)]
      /\ IdentityMap' = [e \in Eid |-> IdentityIn(store', e)]
  BY <1>1, MapFacts, MapFactsPrime
<1> HIDE DEF f
<1>8. ASSUME NEW e \in Eid
      PROVE  /\ IdentityIn(store', e) = IdentityIn(store, e)
             /\ e # f => StatusIn(store', e) = StatusIn(store, e)
  <2>1. e \in Nat /\ store.nextId = f
    BY DEF f
  <2>2. CASE e = f
    BY <1>5, <1>6, <2>2 DEF IdentityIn
  <2>3. CASE e # f
    <3>1. e < f + 1 <=> e < f
      BY <1>3, <2>1, <2>3
    <3> QED
      BY <1>1, <1>5, <2>1, <2>3, <3>1 DEF IdentityIn, StatusIn
  <2> QED
    BY <2>2, <2>3
<1>9. StatusIn(store, f) = "unused"
  BY <1>3 DEF StatusIn, f
<1>10. StatusIn(store', f) = "temp"
  BY <1>1, <1>3, <1>5 DEF StatusIn
<1>11. /\ StatusMap[f] = "unused" /\ IdentityMap' = IdentityMap
       /\ StatusMap' = [StatusMap EXCEPT ![f] = "temp"]
  BY <1>4, <1>7, <1>8, <1>9, <1>10
<1>12. Cardinality(TCB!Live(StatusMap)) < NumEntries
  <2> DEFINE L == TCB!Live(StatusMap)
  <2>1. L \subseteq 0 .. f - 1
    <3> SUFFICES ASSUME NEW e \in L
                 PROVE  e \in 0 .. f - 1
      OBVIOUS
    <3>1. e \in Eid /\ StatusIn(store, e) # "unused"
      BY <1>7 DEF TCB!Live
    <3>2. e < f
      BY <3>1 DEF StatusIn, f
    <3> QED
      BY <1>3, <3>1, <3>2
  <2> HIDE DEF L
  <2>2. IsFiniteSet(0 .. f - 1) /\ Cardinality(0 .. f - 1) = f
    BY <1>3, FS_Interval
  <2>3. IsFiniteSet(L) /\ Cardinality(L) <= f
    BY <2>1, <2>2, FS_Subset
  <2>4. Cardinality(L) \in Nat
    BY <2>3, FS_CardinalityType
  <2> QED
    BY <1>3, <2>3, <2>4 DEF L
<1>13. TCB!Cardinality(TCB!Live(StatusMap)) = Cardinality(TCB!Live(StatusMap))
  BY DEF TCB!Cardinality, Cardinality
<1>14. TCB!Create(f)
  BY <1>11, <1>12, <1>13 DEF TCB!Create
<1> QED
  BY <1>4, <1>14 DEF TCB!Next

(* Finishing an entry is Attest. *)
LEMMA AttestStep ==
    ASSUME store \in Store, Filled(store), Filled(store'), NEW f \in Idx,
           store.entries[f].used, ~ store.entries[f].ready, NEW h \in Digest,
           Finishes(store, store', Result(f), f, h)
    PROVE  TCB!Next
<1> DEFINE Eid == 0 .. NumIds - 1
<1>1. /\ store' \in Store /\ store'.nextId = store.nextId
      /\ store'.entries[f].ready /\ store'.entries[f].hash = h
      /\ \A i \in Idx \ {f} : store'.entries[i] = store.entries[i]
  BY DEF Finishes
<1>2. f < store.nextId
  BY DEF Filled
<1>3. f \in Eid
  <2>1. store.nextId \in 0 .. NumIds /\ f \in Nat /\ NumIds \in Nat
    BY StoreFields, StoreFacts
  <2> QED
    BY <1>2, <2>1
<1>4. /\ StatusMap = [e \in Eid |-> StatusIn(store, e)]
      /\ IdentityMap = [e \in Eid |-> IdentityIn(store, e)]
      /\ StatusMap' = [e \in Eid |-> StatusIn(store', e)]
      /\ IdentityMap' = [e \in Eid |-> IdentityIn(store', e)]
  BY <1>1, MapFacts, MapFactsPrime
<1>5. ASSUME NEW e \in Eid, e # f
      PROVE  /\ IdentityIn(store', e) = IdentityIn(store, e)
             /\ StatusIn(store', e) = StatusIn(store, e)
  BY <1>1, <1>5 DEF IdentityIn, StatusIn
<1>6. StatusIn(store, f) = "temp"
  BY <1>2 DEF StatusIn
<1>7. StatusIn(store', f) = "perm" /\ IdentityIn(store', f) = h
  BY <1>1, <1>2 DEF StatusIn, IdentityIn
<1>8. /\ StatusMap[f] = "temp" /\ StatusMap' = [StatusMap EXCEPT ![f] = "perm"]
      /\ IdentityMap' = [IdentityMap EXCEPT ![f] = h]
  BY <1>3, <1>4, <1>5, <1>6, <1>7
<1>9. TCB!Attest(f, h)
  BY <1>8 DEF TCB!Attest
<1> QED
  BY <1>3, <1>9 DEF TCB!Next

(* Only EInitCode and STORE_HASH of EInitData change an entry. *)
LEMMA Writers ==
    ASSUME PInv, Next, tcb' # tcb
    PROVE  InitEntry \/ StoreHash
<1>1. Quiescent => tcb' = tcb
  BY DEF Quiescent, tcb
<1>2. ASSUME NEW line, Clock(NoRequest, line),
             pc \notin {"initEntry", "STORE_HASH", "GET_HASH"}
      PROVE  FALSE
  BY <1>1, <1>2, ClockQuiet
<1>3. CASE Bubble \/ IssueEInitCode \/ IssueEInitData \/ IssueEStoreId
  BY <1>2, <1>3 DEF Bubble, IssueEInitCode, IssueEInitData, IssueEStoreId, Issue
<1>4. CASE Interrupt
  BY <1>2, <1>4 DEF Interrupt, PInv, Staged
<1>5. CASE Wait
  BY <1>1, <1>5, WaitStep
<1>6. CASE CheckCs1Valid \/ StoreSeal \/ GetHash \/ StoreId
  BY <1>1, <1>6, CheckCs1ValidStep, StoreSealStep, GetHashStep, StoreIdStep
<1>7. CASE \/ Start \/ ClaimPipeline \/ CheckRegs \/ CheckDdc \/ CheckPcc \/ CheckScrs
           \/ GetAddress \/ GetCap \/ HashStart \/ LoadWord \/ HashWord
  BY <1>2, <1>7 DEF Start, ClaimPipeline, CheckRegs, CheckDdc, CheckPcc, CheckScrs,
     GetAddress, GetCap, HashStart, LoadWord, HashWord, Check
<1> QED
  BY <1>3, <1>4, <1>5, <1>6, <1>7 DEF Next, Busy

(* And each change is a step of the trusted base. *)
LEMMA TCBStep == ASSUME PInv, Next, tcb' # tcb PROVE TCB!Next
<1>1. (Quiescent => tcb' = tcb) /\ store \in Store /\ Filled(store)
  BY DEF Quiescent, tcb, PInv, TypeOK
<1>2. CASE InitEntry
  BY <1>1, <1>2, InitEntryCases, CreateStep
<1>3. CASE StoreHash
  <2>1. /\ Finishes(store, store', Result(currentEid), currentEid, digest)
        /\ Filled(store') /\ pc = "STORE_HASH"
    BY <1>1, <1>3, StoreHashCases
  <2>2. digest \in Digest
    BY <2>1, DigestFacts
  <2>3. currentEid \in Idx /\ store.entries[currentEid].used /\ ~ store.entries[currentEid].ready
    BY <2>1 DEF PInv, Working, Found
  <2> QED
    BY <1>1, <2>1, <2>2, <2>3, AttestStep
<1> QED
  BY <1>2, <1>3, Writers

(* The empty store is the initial state of the trusted base. *)
LEMMA TCBInit == Init => TCB!Init
<1> SUFFICES ASSUME Init
             PROVE  TCB!Init
  OBVIOUS
<1>1. store \in Store /\ Filled(store)
  BY InitPInv DEF PInv, TypeOK
<1>2. /\ StatusMap = [e \in 0 .. NumIds - 1 |-> StatusIn(store, e)]
      /\ IdentityMap = [e \in 0 .. NumIds - 1 |-> IdentityIn(store, e)]
  BY <1>1, MapFacts
<1>3. store.nextId = 0 /\ \A i \in Idx : store.entries[i].ready = FALSE
  BY DEF Init, StoreInit, Empty
<1>4. ASSUME NEW e \in 0 .. NumIds - 1
      PROVE  StatusIn(store, e) = "unused" /\ IdentityIn(store, e) = None
  BY <1>3, StoreFacts DEF StatusIn, IdentityIn
<1> QED
  BY <1>2, <1>4 DEF TCB!Init

(* The Proteus identity store keeps what the abstract trusted base promises, for
   every size and whatever software and interrupts do: an identity is set once
   and never changed, an id is given out once and never goes back. *)
THEOREM ProteusRefinesTCB == Spec => RefinesTCB
<1>1. PInv /\ [Next]_vars => [tcb' # tcb => TCB!Next]_vars
  BY TCBStep
<1>2. Spec => TCB!Init
  BY TCBInit DEF Spec
<1> QED
  BY <1>1, <1>2, Inductive, PTL DEF Spec, RefinesTCB

-----------------------------------------------------------------------------
(* What holds under conditions: nothing is lost as long as interrupts are  *)
(* off, EInitCode fails only when the store is full as long as no refused  *)
(* EInitData leaves a search behind, and the sweep finds every overlap as  *)
(* long as no two neighbouring granules are tagged.  README.md, section 5, *)
(* shows that each condition is needed.  First the inductive invariants.   *)

(* No search outlives the EInitData that asked for it. *)
NoStaleSearch ==
    store.fsm = "getUnfinishedEntry" =>
        pc = "CHECK_CS1_VALID" /\ instr.cs1.tag /\ instr.cs1.otype # Unsealed

(* The states after a part of the sweep. *)
Hashing == {"HASH_START", "LOAD_WORD", "HASH_WORD", "STORE_HASH", "STORE_SEAL"}
PastScrs == Hashing \cup {"GET_ADDRESS", "GET_CAP"}
PastPcc == PastScrs \cup {"CHECK_SCRS"}
PastDdc == PastPcc \cup {"CHECK_PCC"}
PastRegs == PastDdc \cup {"CHECK_DDC"}

(* The other capability is in neither operand register. *)
Elsewhere ==
    pc \in DataStates => instr.view.place \notin {<<"reg", instr.rs1>>, <<"reg", instr.rs2>>}

(* The registers looked at so far hold no overlapping capability. *)
RegsSwept ==
    /\ pc = "CHECK_REGS" =>
          /\ cur \in 1 .. NumRegs - 1
          /\ \A r \in 1 .. NumRegs - 1 : r < cur => ~ Overlap(<<"reg", r>>)
    /\ pc \in PastRegs => \A r \in 1 .. NumRegs - 1 : ~ Overlap(<<"reg", r>>)
    /\ pc \in PastDdc => ~ Overlap(<<"ddc", 0>>)
    /\ pc \in PastPcc => ~ Overlap(<<"pcc", 0>>)
    /\ pc = "CHECK_SCRS" =>
          /\ cur \in 0 .. NumScrs - 1
          /\ \A k \in 0 .. NumScrs - 1 : k < cur => ~ Overlap(<<"scr", k>>)
    /\ pc \in PastScrs => \A k \in 0 .. NumScrs - 1 : ~ Overlap(<<"scr", k>>)

(* The scan has reported granule k, or has left it behind. *)
Scanned(k) == k < scan.tagIdx \/ scan.fsm = "DONE"

(* The scan runs only while the sweep listens; in the cycle after a report it
   moves past the granule that follows. *)
InStep ==
    /\ scan.fsm = "CHECK_TAG" => pc \in {"GET_ADDRESS", "GET_CAP"}
    /\ pc \in {"CLAIM_PIPELINE", "CHECK_REGS", "CHECK_DDC", "CHECK_PCC", "CHECK_SCRS"} =>
          scan.fsm = "IDLE" /\ scan.tagIdx = 0
    /\ pc = "GET_CAP" =>
          /\ cur \in instr.view.tagged
          /\ scan.fsm = "CHECK_TAG" => scan.tagIdx = cur + 1

(* The granules scanned so far hold no overlapping capability. *)
MemorySwept ==
    /\ pc = "GET_ADDRESS" =>
          \A k \in instr.view.tagged : Scanned(k) => ~ Overlap(<<"mem", k>>)
    /\ pc = "GET_CAP" =>
          \A k \in instr.view.tagged \ {cur} : Scanned(k) => ~ Overlap(<<"mem", k>>)
    /\ pc \in Hashing => \A k \in instr.view.tagged : ~ Overlap(<<"mem", k>>)

Swept == Elsewhere /\ RegsSwept /\ InStep /\ MemorySwept
-----------------------------------------------------------------------------
(* Nothing is lost.                                                        *)

(* A result is not the absence of one. *)
LEMMA ResultNotNop ==
    ASSUME NEW id \in Id
    PROVE  /\ \A s \in Section : [op |-> "EInitCode", id |-> id, sec |-> s] # Nop
           /\ [op |-> "EInitData", id |-> id, sec |-> None] # Nop
  BY ProteusAssumption

(* Outside writeback, software holds what it has been given. *)
LEMMA HeldWhenBusy ==
    ASSUME PInv, pc # "IDLE"
    PROVE  wb = Nop /\ Codes = issued /\ Datas = sealed
  BY DEF PInv, Staged, Codes, Datas

(* Without interrupts, software keeps what it holds. *)
LEMMA HeldGrows ==
    ASSUME PInv, Interrupts = FALSE, [Next]_vars
    PROVE  Codes \subseteq Codes' /\ Datas \subseteq Datas'
<1>1. CASE Bubble \/ IssueEInitCode \/ IssueEInitData \/ IssueEStoreId
  <2>1. issued' = Codes /\ sealed' = Datas
    BY <1>1 DEF Bubble, IssueEInitCode, IssueEInitData, IssueEStoreId, Issue, Retire
  <2> QED
    BY <2>1 DEF Codes, Datas
<1>2. CASE Busy \/ Wait
  <2>1. pc # "IDLE" /\ issued' = issued /\ sealed' = sealed
    BY <1>2 DEF Busy, Wait, Kept, InitEntry, CheckCs1Valid, Start, ClaimPipeline, CheckRegs,
       CheckDdc, CheckPcc, CheckScrs, GetAddress, GetCap, HashStart, LoadWord, HashWord,
       StoreHash, StoreSeal, GetHash, StoreId, Check
  <2>2. Codes = issued /\ Datas = sealed
    BY <2>1, HeldWhenBusy
  <2> QED
    BY <2>1, <2>2 DEF Codes, Datas
<1>3. CASE UNCHANGED vars
  BY <1>3 DEF vars, Codes, Datas
<1> QED
  BY <1>1, <1>2, <1>3 DEF Next, Interrupt

(* With interrupts off, the code capability of every entry in use and the data
   capability of every enclave with seals is held by software or on its way to
   it: no answer of the store is ever lost. *)
THEOREM NothingLostCorrect ==
    ASSUME Interrupts = FALSE
    PROVE  Spec => []NothingLost
<1>1. Init => NothingLost
  BY DEF Init, NothingLost, Used, StoreInit, Empty
<1>2. PInv /\ PInv' /\ NothingLost /\ [Next]_vars => NothingLost'
  <2> SUFFICES ASSUME PInv, PInv', NothingLost, [Next]_vars
               PROVE  NothingLost'
    OBVIOUS
  <2>1. Codes \subseteq Codes' /\ Datas \subseteq Datas'
    BY HeldGrows
  <2>2. \A i \in Idx : store'.entries[i].used => store'.entries[i].id = i
    BY DEF PInv, Filled
  <2>3. \A i \in Idx : store.entries[i].used => store.entries[i].id = i
    BY DEF PInv, Filled
  <2>4. \A i \in Idx : store.entries[i].used => \E c \in Codes : c[1] = i
    BY <2>3 DEF NothingLost, Used
  <2>5. ASSUME NEW i \in Idx, store'.entries[i].used
        PROVE  \E c \in Codes' : c[1] = i
    <3>1. CASE store.entries[i].used
      BY <2>1, <2>4, <3>1
    <3>2. CASE ~ store.entries[i].used
      <4>1. tcb' # tcb
        BY <2>5, <3>2 DEF tcb
      <4>2. InitEntry \/ StoreHash
        <5>1. Next
          BY <4>1 DEF vars, tcb
        <5> QED
          BY <4>1, <5>1, Writers
      <4>3. CASE StoreHash
        <5>1. currentEid \in Idx /\ store.entries[currentEid].used
          BY <4>3 DEF StoreHash, PInv, Working, Found
        <5>2. i # currentEid
          BY <3>2, <5>1
        <5>3. Quiescent \/ store'.entries[i] = store.entries[i]
          BY <4>3, <5>2, StoreHashCases DEF Finishes
        <5> QED
          BY <2>5, <3>2, <5>3 DEF Quiescent
      <4>4. CASE InitEntry
        <5>1. /\ Creates(store, store', Result(store.nextId)) /\ pc = "initEntry"
              /\ Finish([op |-> "EInitCode", id |-> store.nextId, sec |-> instr.sec])
          BY <4>1, <4>4, InitEntryCases DEF Quiescent, tcb
        <5>2. store.nextId \in Idx /\ store.nextId \in Id /\ instr.sec \in Section
          BY <5>1, StoreFacts DEF Creates, PInv, Staged, CodeInstr
        <5>3. i = store.nextId
          <6>1. store'.entries = [store.entries EXCEPT ![store.nextId] =
                                    [Empty EXCEPT !.used = TRUE, !.id = store.nextId]]
            BY <5>1 DEF Creates
          <6>2. i # store.nextId => store'.entries[i] = store.entries[i]
            BY <6>1, StoreFields DEF PInv, TypeOK
          <6> QED
            BY <2>5, <3>2, <6>2
        <5> DEFINE res == [op |-> "EInitCode", id |-> store.nextId, sec |-> instr.sec]
        <5>4. wb' = res /\ res # Nop /\ res.op = "EInitCode" /\ res.id = i
          BY <5>1, <5>2, <5>3, ResultNotNop DEF Finish
        <5> HIDE DEF res
        <5>5. <<i, res.sec>> \in Codes'
          BY <5>4 DEF Codes
        <5> QED
          BY <5>5
      <4> QED
        BY <4>2, <4>3, <4>4
    <3> QED
      BY <3>1, <3>2
  <2>6. keys' \subseteq Datas'
    <3>1. keys \subseteq Datas
      BY DEF NothingLost
    <3>2. CASE StoreSeal
      <4> DEFINE res == [op |-> "EInitData", id |-> currentEid, sec |-> None]
      <4>1. currentEid \in Id
        BY <3>2, StoreFacts DEF StoreSeal, PInv, Working
      <4>2. /\ wb' = res /\ res # Nop /\ res.op = "EInitData" /\ res.id = currentEid
            /\ keys' = keys \cup {currentEid}
        BY <3>2, <4>1, ResultNotNop DEF StoreSeal, Finish
      <4> HIDE DEF res
      <4>3. currentEid \in Datas'
        BY <4>2 DEF Datas
      <4> QED
        BY <2>1, <3>1, <4>2, <4>3
    <3>3. CASE ~ StoreSeal
      <4>1. keys' = keys
        BY <3>3 DEF Next, vars, Bubble, Interrupt, IssueEInitCode, IssueEInitData,
           IssueEStoreId, Issue, Retire, Busy, Wait, Kept, InitEntry, CheckCs1Valid, Start,
           ClaimPipeline, CheckRegs, CheckDdc, CheckPcc, CheckScrs, GetAddress, GetCap,
           HashStart, LoadWord, HashWord, StoreHash, GetHash, StoreId, Check
      <4> QED
        BY <2>1, <3>1, <4>1
    <3> QED
      BY <3>2, <3>3
  <2> QED
    BY <2>2, <2>5, <2>6 DEF NothingLost, Used
<1> QED
  BY <1>1, <1>2, Inductive, PTL DEF Spec
-----------------------------------------------------------------------------
(* EInitCode fails only when the store is full.                            *)

(* The values EInitData refuses carry no enclave id. *)
RefusedCarryNoId ==
    /\ Unsealed >= IdValues
    /\ \A o \in Untagged : o >= IdValues

(* The operand of an EInitData that will be refused carries none. *)
RefusedOperand ==
    pc = "CHECK_CS1_VALID" /\ ~ (instr.cs1.tag /\ instr.cs1.otype # Unsealed) =>
        currentEid = Invalid

(* An untagged operand is one of the untagged values. *)
LEMMA UntaggedOperand ==
    ASSUME NEW c \in Operand1, ~ c.tag
    PROVE  c.otype \in Untagged
<1>1. ASSUME NEW o, c \in Cs1(TRUE, o)
      PROVE  FALSE
  BY <1>1 DEF Cs1
<1>2. ASSUME NEW o, c \in Cs1(FALSE, o)
      PROVE  c.otype = o
  BY <1>2 DEF Cs1
<1>3. c \notin {[tag |-> TRUE, otype |-> identSeal(x[1]), sec |-> x[2]] : x \in Codes}
  OBVIOUS
<1>4. \E o \in Untagged : c \in Cs1(FALSE, o)
  BY <1>1, <1>3 DEF Operand1
<1> QED
  BY <1>2, <1>4

(* Only a request for an unfinished entry starts such a search. *)
LEMMA NoNewSearch ==
    ASSUME NEW s \in Store, Filled(s), s.fsm \in {"idle", "initEntry", "getHash"}, NEW req,
           req.op \in {"idle", "initEntry", "getHash"}
    PROVE  StoreCycle(s, req).next.fsm # "getUnfinishedEntry"
<1>1. CASE s.fsm = "idle"
  BY <1>1, IdleCycle DEF StoreFsm
<1>2. CASE s.fsm = "initEntry"
  BY <1>2, InitEntryCycle DEF Creates
<1>3. CASE s.fsm = "getHash"
  BY <1>3, HashCycle
<1> QED
  BY <1>1, <1>2, <1>3

(* Every cycle keeps the two. *)
LEMMA NextNoStale ==
    ASSUME RefusedCarryNoId
    PROVE  PInv /\ NoStaleSearch /\ RefusedOperand /\ [Next]_vars
              => NoStaleSearch' /\ RefusedOperand'
<1> SUFFICES ASSUME PInv, NoStaleSearch, RefusedOperand, [Next]_vars
             PROVE  NoStaleSearch' /\ RefusedOperand'
  OBVIOUS
<1>1. /\ store \in Store /\ Filled(store) /\ store.fsm \in StoreFsm
      /\ pc # "CHECK_CS1_VALID" => store.fsm # "getUnfinishedEntry"
  BY StoreFields DEF PInv, TypeOK, NoStaleSearch
<1>2. ASSUME NEW line, Clock(NoRequest, line),
             pc \notin {"initEntry", "CHECK_CS1_VALID", "STORE_HASH", "GET_HASH"}
      PROVE  store'.fsm = "idle"
  BY <1>1, <1>2, ClockQuiet
<1>3. CASE IssueEInitData
  <2>1. PICK c \in Operand1, r \in Operands, v \in Views :
            Issue("CHECK_CS1_VALID", [op |-> "EInitData", cs1 |-> c, rs1 |-> r[1],
                                      rs2 |-> r[2], view |-> v])
    BY <1>3 DEF IssueEInitData
  <2>2. store'.fsm = "idle" /\ instr'.cs1 = c
    BY <1>2, <2>1 DEF Issue
  <2>3. ~ (c.tag /\ c.otype # Unsealed) => assignFromOtype(c.otype) = Invalid
    <3>1. IdValues \in Nat /\ Otypes \in Nat
      BY StoreFacts, ProteusAssumption
    <3>2. ASSUME NEW o \in Untagged \cup {Unsealed}
          PROVE  assignFromOtype(o) = Invalid
      <4>1. o \in Int /\ o >= IdValues
        BY <3>1, ProteusAssumption DEF RefusedCarryNoId, Unsealed
      <4> QED
        BY <3>1, <4>1 DEF assignFromOtype
    <3> QED
      BY <3>2, UntaggedOperand
  <2> QED
    BY <2>2, <2>3 DEF NoStaleSearch, RefusedOperand, currentEid
<1>4. CASE CheckCs1Valid
  <2> DEFINE req == Ask("getUnfinishedEntry", instr.cs1.otype)
             n == StoreCycle(store, req).next
             a == StoreCycle(store, req).answer
             accepted == instr.cs1.tag /\ instr.cs1.otype # Unsealed
  <2>1. req.op = "getUnfinishedEntry" /\ req.eid = currentEid /\ req.op \in StoreFsm
    BY DEF Ask, NoRequest, StoreFsm, currentEid
  <2>2. /\ pc = "CHECK_CS1_VALID" /\ store' = n
        /\ \/ ~ accepted /\ pc' = "IDLE"
           \/ accepted /\ pc' = "CHECK_CS1_VALID" /\ instr' = instr
           \/ a.port = "result" /\ pc' \in {"START", "IDLE"}
    <3>1. /\ pc = "CHECK_CS1_VALID" /\ store' = n
          /\ \/ ~ accepted /\ Fail
             \/ accepted /\ Goto("CHECK_CS1_VALID", cur)
             \/ a.port = "result" /\ Goto("START", cur)
             \/ a.port = "result" /\ Fail
      BY <1>4 DEF CheckCs1Valid, Clock, Reply
    <3> HIDE DEF n, a, accepted
    <3> QED
      BY <3>1 DEF Goto, Fail, Finish
  <2>3. store.fsm \in {"idle", "getUnfinishedEntry"}
    BY <1>1, <2>2 DEF PInv, Searching, StoreFsm
  <2> HIDE DEF req
  <2>4. n.fsm = "getUnfinishedEntry" => a = NoAnswer
    <3>1. CASE store.fsm = "idle"
      BY <1>1, <2>1, <3>1, IdleCycle
    <3>2. CASE store.fsm = "getUnfinishedEntry"
      BY <1>1, <3>2, GetUnfinishedCycle
    <3> QED
      BY <2>3, <3>1, <3>2
  <2>5. ~ accepted => n.fsm = "idle"
    <3>1. ~ accepted => store.fsm = "idle" /\ req.eid = Invalid
      BY <2>1, <2>2, <2>3 DEF NoStaleSearch, RefusedOperand
    <3> QED
      BY <1>1, <2>1, <3>1, IdleCycle
  <2> HIDE DEF n, a
  <2>6. NoStaleSearch'
    BY <2>2, <2>4, <2>5, Answers DEF NoStaleSearch
  <2>7. RefusedOperand'
    BY <2>2 DEF RefusedOperand
  <2> QED
    BY <2>6, <2>7
<1>5. CASE InitEntry
  <2> DEFINE req == [NoRequest EXCEPT !.op = "initEntry"]
  <2>1. /\ pc = "initEntry" /\ pc' # "CHECK_CS1_VALID"
        /\ store' = StoreCycle(store, req).next
    BY <1>5 DEF InitEntry, Clock, Goto, Fail, Finish
  <2>2. req.op = "initEntry"
    BY DEF NoRequest
  <2> HIDE DEF req
  <2>3. store.fsm \in {"idle", "initEntry"}
    BY <1>1, <2>1 DEF PInv, Searching, StoreFsm
  <2>4. store'.fsm # "getUnfinishedEntry"
    BY <1>1, <2>1, <2>2, <2>3, NoNewSearch
  <2> QED
    BY <2>1, <2>4 DEF NoStaleSearch, RefusedOperand
<1>6. CASE GetHash
  <2>1. /\ pc = "GET_HASH" /\ pc' # "CHECK_CS1_VALID"
        /\ store' = StoreCycle(store, Ask("getHash", instr.otype)).next
    BY <1>6 DEF GetHash, Clock, Goto, Fail, Finish
  <2>2. Ask("getHash", instr.otype).op = "getHash"
    BY DEF NoRequest, Ask
  <2>3. store.fsm \in {"idle", "getHash"}
    BY <1>1, <2>1 DEF PInv, Searching, StoreFsm
  <2>4. store'.fsm # "getUnfinishedEntry"
    BY <1>1, <2>1, <2>2, <2>3, NoNewSearch
  <2> QED
    BY <2>1, <2>4 DEF NoStaleSearch, RefusedOperand
<1>7. CASE StoreHash
  <2>1. store'.fsm # "getUnfinishedEntry" /\ pc' # "CHECK_CS1_VALID"
    BY <1>7, StoreHashCases DEF Goto, Fail, Finish
  <2> QED
    BY <2>1 DEF NoStaleSearch, RefusedOperand
<1>8. CASE Bubble \/ IssueEInitCode \/ IssueEStoreId \/ Interrupt \/ Wait
  <2>1. store'.fsm = "idle"
    BY <1>2, <1>8 DEF Bubble, IssueEInitCode, IssueEStoreId, Issue, Interrupt, Wait, PInv, Staged
  <2>2. pc' # "CHECK_CS1_VALID"
    BY <1>8 DEF Bubble, IssueEInitCode, IssueEStoreId, Issue, Interrupt, Wait, PInv, Staged
  <2> QED
    BY <2>1, <2>2 DEF NoStaleSearch, RefusedOperand
<1>9. CASE \/ Start \/ ClaimPipeline \/ CheckRegs \/ CheckDdc \/ CheckPcc \/ CheckScrs
           \/ GetAddress \/ GetCap \/ HashStart \/ LoadWord \/ HashWord \/ StoreSeal \/ StoreId
  <2>1. store'.fsm = "idle"
    BY <1>2, <1>9 DEF Start, ClaimPipeline, CheckRegs, CheckDdc, CheckPcc, CheckScrs,
       GetAddress, GetCap, HashStart, LoadWord, HashWord, StoreSeal, StoreId, Check
  <2>2. pc' # "CHECK_CS1_VALID"
    BY <1>9 DEF Start, ClaimPipeline, CheckRegs, CheckDdc, CheckPcc, CheckScrs,
       GetAddress, GetCap, HashStart, LoadWord, HashWord, StoreSeal, StoreId, Check,
       Goto, Fail, Finish
  <2> QED
    BY <2>1, <2>2 DEF NoStaleSearch, RefusedOperand
<1>10. CASE UNCHANGED vars
  BY <1>10 DEF vars, NoStaleSearch, RefusedOperand, currentEid
<1> QED
  BY <1>3, <1>4, <1>5, <1>6, <1>7, <1>8, <1>9, <1>10 DEF Next, Busy

(* EInitCode fails only when no entry or no id is left, as long as software gives
   EInitData no untagged value with an enclave's id in it: the store would go on
   searching for that id and answer the next EInitCode. *)
THEOREM FailsWhenFullCorrect ==
    ASSUME RefusedCarryNoId
    PROVE  Spec => EInitCodeFailsWhenFull
<1>1. Init => NoStaleSearch /\ RefusedOperand
  BY DEF Init, StoreInit, NoStaleSearch, RefusedOperand
<1>2. Spec => [](PInv /\ NoStaleSearch)
  BY <1>1, InitPInv, NextPInv, NextNoStale, PTL DEF Spec
<1>3. PInv /\ NoStaleSearch /\ [Next]_vars =>
         [pc = "initEntry" /\ pc' = "IDLE" /\ wb' = Nop => Used = Idx \/ ~ idAvailable(store)]_vars
  <2> SUFFICES ASSUME PInv, NoStaleSearch, Next, pc = "initEntry", pc' = "IDLE", wb' = Nop
               PROVE  Used = Idx \/ ~ idAvailable(store)
    OBVIOUS
  <2>1. InitEntry
    BY DEF Next, Busy, Bubble, Interrupt, IssueEInitCode, IssueEInitData, IssueEStoreId, Issue,
       Wait, CheckCs1Valid, Start, ClaimPipeline, CheckRegs, CheckDdc, CheckPcc, CheckScrs,
       GetAddress, GetCap, HashStart, LoadWord, HashWord, StoreHash, StoreSeal, GetHash, StoreId
  <2>2. store.fsm # "getUnfinishedEntry"
    BY DEF NoStaleSearch
  <2>3. ASSUME Creates(store, store', Result(store.nextId)),
               Finish([op |-> "EInitCode", id |-> store.nextId, sec |-> instr.sec])
        PROVE  FALSE
    <3>1. store.nextId \in Id /\ instr.sec \in Section
      BY <2>3, StoreFacts DEF Creates, PInv, Staged, CodeInstr
    <3> QED
      BY <2>3, <3>1, ResultNotNop DEF Finish
  <2>4. ~ idAvailable(store) \/ store.nextId = NumEntries
    BY <2>1, <2>2, <2>3, InitEntryCases DEF Goto
  <2>5. store.nextId = NumEntries => Used = Idx
    <3>1. \A i \in Idx : store.entries[i].used <=> i < store.nextId
      BY DEF PInv, Filled
    <3>2. \A i \in Idx : i < NumEntries
      BY StoreFacts DEF Idx
    <3> QED
      BY <3>1, <3>2 DEF Used
  <2> QED
    BY <2>4, <2>5
<1> QED
  BY <1>2, <1>3, PTL DEF Spec, EInitCodeFailsWhenFull
-----------------------------------------------------------------------------
(* The sweep.                                                              *)

(* Granules next to each other are not both tagged. *)
SparseTags == \A v \in Views : \A k \in v.tagged : k + 1 \notin v.tagged

(* The scan: it stops when nobody asks, is reset at rest, and moves on. *)
LEMMA ScanMoves ==
    ASSUME NEW c \in Scan
    PROVE  /\ ScanNext(c, "none").fsm # "CHECK_TAG"
           /\ c.fsm = "IDLE" => ScanNext(c, "none") = c
           /\ c.fsm = "IDLE" => /\ ScanNext(c, "findNext").fsm = "CHECK_TAG"
                                /\ ScanNext(c, "findNext").tagIdx = c.tagIdx
           /\ c.fsm = "DONE" => /\ ScanNext(c, "none").fsm = "DONE"
                                /\ ScanNext(c, "findNext").fsm = "DONE"
           /\ c.fsm # "CHECK_TAG" => /\ ScanNext(c, "reset").fsm = "IDLE"
                                     /\ ScanNext(c, "reset").tagIdx = 0
           /\ c.fsm = "CHECK_TAG" /\ c.tagIdx = NumTags - 1 =>
                 /\ ScanNext(c, "none").fsm = "DONE"
                 /\ ScanNext(c, "findNext").fsm = "DONE"
           /\ c.fsm = "CHECK_TAG" /\ c.tagIdx # NumTags - 1 =>
                 /\ ScanNext(c, "none").fsm = "IDLE"
                 /\ ScanNext(c, "none").tagIdx = c.tagIdx + 1
                 /\ ScanNext(c, "findNext").fsm = "CHECK_TAG"
                 /\ ScanNext(c, "findNext").tagIdx = c.tagIdx + 1
<1>1. CASE c.fsm = "IDLE"
  BY <1>1 DEF ScanNext, Scan
<1>2. CASE c.fsm = "CHECK_TAG"
  <2>1. \A line : ScanNext(c, line) = CheckTag(c, line)
    BY <1>2 DEF ScanNext
  <2>2. CASE c.tagIdx = NumTags - 1
    BY <1>2, <2>1, <2>2 DEF CheckTag, Scan
  <2>3. CASE c.tagIdx # NumTags - 1
    BY <1>2, <2>1, <2>3 DEF CheckTag
  <2> QED
    BY <2>2, <2>3
<1>3. CASE c.fsm = "DONE"
  BY <1>3 DEF ScanNext
<1> QED
  BY <1>1, <1>2, <1>3 DEF Scan

(* Whether a place overlaps depends on the instruction only. *)
LEMMA OverlapFrame ==
    ASSUME instr' = instr, NEW p
    PROVE  Overlap(p)' <=> Overlap(p)
  BY DEF Overlap, Code

(* What EInitData found elsewhere. *)
LEMMA ViewFacts ==
    ASSUME PInv, pc \in DataStates
    PROVE  /\ instr.view \in Views /\ instr.view \in View
           /\ instr.view.tagged \subseteq Tag
           /\ instr.view.place[1] = "mem" => instr.view.place[2] \in instr.view.tagged
<1>1. instr.view \in Views
  BY DEF PInv, Staged, DataInstr
<1> QED
  BY <1>1, ProteusAssumption

(* A cycle that ends EInitData, or has nothing to do with it. *)
LEMMA SweepOver ==
    ASSUME scan'.fsm # "CHECK_TAG", pc' \notin DataStates \ {"CHECK_CS1_VALID", "START"},
           Elsewhere'
    PROVE  Swept'
  BY DEF Swept, RegsSwept, InStep, MemorySwept, DataStates, Found, Hashing, PastScrs,
     PastPcc, PastDdc, PastRegs

(* Outside EInitData there is no other capability to speak of. *)
LEMMA ElsewhereStays ==
    ASSUME Elsewhere, pc' \in DataStates => pc \in DataStates /\ instr' = instr
    PROVE  Elsewhere'
  BY DEF Elsewhere

(* The registers, one after the other. *)
LEMMA RegSteps ==
    ASSUME PInv, Swept, Start \/ ClaimPipeline \/ CheckRegs \/ CheckDdc \/ CheckPcc \/ CheckScrs
    PROVE  Swept'
<1> USE DEF Found, DataStates, Hashing, PastScrs, PastPcc, PastDdc, PastRegs
<1>1. scan \in Scan /\ cur \in Nat
  BY DEF PInv, TypeOK
<1>2. CASE Start
  <2>1. /\ pc = "START" /\ pc' = "CLAIM_PIPELINE" /\ instr' = instr
        /\ scan' = ScanNext(scan, "reset")
    BY <1>2 DEF Start, Goto, Clock
  <2>2. scan'.fsm = "IDLE" /\ scan'.tagIdx = 0
    BY <1>1, <2>1, ScanMoves DEF Swept, InStep
  <2> QED
    BY <2>1, <2>2, ElsewhereStays DEF Swept, RegsSwept, InStep, MemorySwept
<1>3. ASSUME pc \in {"CLAIM_PIPELINE", "CHECK_REGS", "CHECK_DDC", "CHECK_PCC", "CHECK_SCRS"},
             Clock(NoRequest, "none")
      PROVE  scan.fsm = "IDLE" /\ scan.tagIdx = 0 /\ scan' = scan
  BY <1>1, <1>3, ScanMoves DEF Swept, InStep, Clock
<1>4. CASE ClaimPipeline
  <2>1. /\ pc = "CLAIM_PIPELINE" /\ pc' = "CHECK_REGS" /\ cur' = 1 /\ instr' = instr
        /\ scan.fsm = "IDLE" /\ scan.tagIdx = 0 /\ scan' = scan
    BY <1>3, <1>4 DEF ClaimPipeline, Goto
  <2>2. Elsewhere' /\ 1 \in 1 .. NumRegs - 1
    BY <2>1, ElsewhereStays, ProteusAssumption DEF Swept
  <2> QED
    BY <2>1, <2>2, ProteusAssumption DEF Swept, RegsSwept, InStep, MemorySwept
<1>5. ASSUME NEW overlap, NEW state \in DataStates \ {"START", "CHECK_CS1_VALID"}, NEW n,
             Check(overlap, state, n),
             pc \in {"CHECK_REGS", "CHECK_DDC", "CHECK_PCC", "CHECK_SCRS"}
      PROVE  /\ scan.fsm = "IDLE" /\ scan.tagIdx = 0 /\ scan' = scan /\ Elsewhere'
             /\ \/ pc' = "IDLE" /\ Swept'
                \/ pc' = state /\ cur' = n /\ instr' = instr /\ ~ overlap
  <2>1. scan.fsm = "IDLE" /\ scan.tagIdx = 0 /\ scan' = scan
    BY <1>3, <1>5 DEF Check
  <2>2. \/ pc' = "IDLE"
        \/ pc' = state /\ cur' = n /\ instr' = instr /\ ~ overlap
    BY <1>5 DEF Check, Fail, Finish, Goto
  <2>3. Elsewhere'
    BY <1>5, <2>2, ElsewhereStays DEF Swept
  <2>4. pc' = "IDLE" => Swept'
    BY <2>1, <2>3, SweepOver
  <2> QED
    BY <2>1, <2>2, <2>3, <2>4
<1>6. CASE CheckRegs
  <2> DEFINE overlap == cur \notin {instr.rs1, instr.rs2} /\ Overlap(<<"reg", cur>>)
  <2>1. /\ pc = "CHECK_REGS"
        /\ IF cur = NumRegs - 1 THEN Check(overlap, "CHECK_DDC", 0)
           ELSE Check(overlap, "CHECK_REGS", cur + 1)
    BY <1>6 DEF CheckRegs
  <2>2. /\ cur \in 1 .. NumRegs - 1 /\ NumRegs \in Nat
        /\ \A r \in 1 .. NumRegs - 1 : r < cur => ~ Overlap(<<"reg", r>>)
    BY <2>1, ProteusAssumption DEF Swept, RegsSwept
  <2>3. cur \in {instr.rs1, instr.rs2} => ~ Overlap(<<"reg", cur>>)
    BY <2>1 DEF Swept, Elsewhere, Overlap
  <2>4. ~ overlap => \A r \in 1 .. NumRegs - 1 : r < cur + 1 => ~ Overlap(<<"reg", r>>)
    BY <2>2, <2>3
  <2> HIDE DEF overlap
  <2>5. CASE cur = NumRegs - 1
    <3>1. /\ scan.fsm = "IDLE" /\ scan.tagIdx = 0 /\ scan' = scan /\ Elsewhere'
          /\ \/ pc' = "IDLE" /\ Swept'
             \/ pc' = "CHECK_DDC" /\ cur' = 0 /\ instr' = instr /\ ~ overlap
      BY <1>5, <2>1, <2>5
    <3>2. ASSUME pc' = "CHECK_DDC", instr' = instr, ~ overlap
          PROVE  Swept'
      <4>1. \A r \in 1 .. NumRegs - 1 : ~ Overlap(<<"reg", r>>)'
        <5>1. \A r \in 1 .. NumRegs - 1 : r < cur + 1
          BY <2>2, <2>5
        <5>2. \A r \in 1 .. NumRegs - 1 : ~ Overlap(<<"reg", r>>)
          BY <2>4, <3>2, <5>1
        <5> QED
          BY <3>2, <5>2, OverlapFrame
      <4> QED
        BY <3>1, <3>2, <4>1 DEF Swept, RegsSwept, InStep, MemorySwept
    <3> QED
      BY <3>1, <3>2
  <2>6. CASE cur # NumRegs - 1
    <3>1. /\ scan.fsm = "IDLE" /\ scan.tagIdx = 0 /\ scan' = scan /\ Elsewhere'
          /\ \/ pc' = "IDLE" /\ Swept'
             \/ pc' = "CHECK_REGS" /\ cur' = cur + 1 /\ instr' = instr /\ ~ overlap
      BY <1>5, <2>1, <2>6
    <3>2. ASSUME pc' = "CHECK_REGS", cur' = cur + 1, instr' = instr, ~ overlap
          PROVE  Swept'
      <4>1. \A r \in 1 .. NumRegs - 1 : r < cur + 1 => ~ Overlap(<<"reg", r>>)'
        BY <2>4, <3>2, OverlapFrame
      <4>2. cur + 1 \in 1 .. NumRegs - 1
        BY <2>2, <2>6
      <4> QED
        BY <3>1, <3>2, <4>1, <4>2 DEF Swept, RegsSwept, InStep, MemorySwept
    <3> QED
      BY <3>1, <3>2
  <2> QED
    BY <2>5, <2>6
<1>7. CASE CheckDdc
  <2>1. /\ pc = "CHECK_DDC"
        /\ scan.fsm = "IDLE" /\ scan.tagIdx = 0 /\ scan' = scan /\ Elsewhere'
        /\ \/ pc' = "IDLE" /\ Swept'
           \/ pc' = "CHECK_PCC" /\ instr' = instr /\ ~ Overlap(<<"ddc", 0>>)
    BY <1>5, <1>7 DEF CheckDdc
  <2>2. ASSUME pc' = "CHECK_PCC", instr' = instr, ~ Overlap(<<"ddc", 0>>)
        PROVE  Swept'
    <3>1. /\ \A r \in 1 .. NumRegs - 1 : ~ Overlap(<<"reg", r>>)'
          /\ ~ Overlap(<<"ddc", 0>>)'
      BY <2>1, <2>2, OverlapFrame DEF Swept, RegsSwept
    <3> QED
      BY <2>1, <2>2, <3>1 DEF Swept, RegsSwept, InStep, MemorySwept
  <2> QED
    BY <2>1, <2>2
<1>8. CASE CheckPcc
  <2>1. /\ pc = "CHECK_PCC"
        /\ scan.fsm = "IDLE" /\ scan.tagIdx = 0 /\ scan' = scan /\ Elsewhere'
        /\ \/ pc' = "IDLE" /\ Swept'
           \/ pc' = "CHECK_SCRS" /\ cur' = 0 /\ instr' = instr /\ ~ Overlap(<<"pcc", 0>>)
    BY <1>5, <1>8 DEF CheckPcc
  <2>2. ASSUME pc' = "CHECK_SCRS", cur' = 0, instr' = instr, ~ Overlap(<<"pcc", 0>>)
        PROVE  Swept'
    <3>1. /\ \A r \in 1 .. NumRegs - 1 : ~ Overlap(<<"reg", r>>)'
          /\ ~ Overlap(<<"ddc", 0>>)' /\ ~ Overlap(<<"pcc", 0>>)'
      BY <2>1, <2>2, OverlapFrame DEF Swept, RegsSwept
    <3>2. 0 \in 0 .. NumScrs - 1 /\ \A k \in 0 .. NumScrs - 1 : ~ (k < 0)
      BY ProteusAssumption
    <3> QED
      BY <2>1, <2>2, <3>1, <3>2 DEF Swept, RegsSwept, InStep, MemorySwept
  <2> QED
    BY <2>1, <2>2
<1>9. CASE CheckScrs
  <2>1. /\ pc = "CHECK_SCRS" /\ NumScrs \in Nat \ {0} /\ cur \in 0 .. NumScrs - 1
        /\ \A k \in 0 .. NumScrs - 1 : k < cur => ~ Overlap(<<"scr", k>>)
        /\ \A r \in 1 .. NumRegs - 1 : ~ Overlap(<<"reg", r>>)
        /\ ~ Overlap(<<"ddc", 0>>) /\ ~ Overlap(<<"pcc", 0>>)
    BY <1>9, ProteusAssumption DEF CheckScrs, Swept, RegsSwept
  <2>2. ~ Overlap(<<"scr", cur>>) =>
           \A k \in 0 .. NumScrs - 1 : k < cur + 1 => ~ Overlap(<<"scr", k>>)
    BY <2>1
  <2>3. CASE cur = NumScrs - 1
    <3>1. /\ scan.fsm = "IDLE" /\ scan.tagIdx = 0 /\ scan' = scan /\ Elsewhere'
          /\ \/ pc' = "IDLE" /\ Swept'
             \/ pc' = "GET_ADDRESS" /\ instr' = instr /\ ~ Overlap(<<"scr", cur>>)
      BY <1>5, <1>9, <2>1, <2>3 DEF CheckScrs
    <3>2. ASSUME pc' = "GET_ADDRESS", instr' = instr, ~ Overlap(<<"scr", cur>>)
          PROVE  Swept'
      <4>1. \A k \in 0 .. NumScrs - 1 : ~ Overlap(<<"scr", k>>)'
        <5>1. \A k \in 0 .. NumScrs - 1 : k < cur + 1
          BY <2>1, <2>3
        <5>2. \A k \in 0 .. NumScrs - 1 : ~ Overlap(<<"scr", k>>)
          BY <2>2, <3>2, <5>1
        <5> QED
          BY <3>2, <5>2, OverlapFrame
      <4>2. /\ \A r \in 1 .. NumRegs - 1 : ~ Overlap(<<"reg", r>>)'
            /\ ~ Overlap(<<"ddc", 0>>)' /\ ~ Overlap(<<"pcc", 0>>)'
        BY <2>1, <3>2, OverlapFrame
      <4>3. \A k \in instr'.view.tagged : ~ Scanned(k)'
        <5>1. instr.view.tagged \subseteq Nat
          BY <2>1, ViewFacts, NumTagsAssumption DEF Tag
        <5> QED
          BY <3>1, <3>2, <5>1 DEF Scanned
      <4> QED
        BY <3>1, <3>2, <4>1, <4>2, <4>3 DEF Swept, RegsSwept, InStep, MemorySwept
    <3> QED
      BY <3>1, <3>2
  <2>4. CASE cur # NumScrs - 1
    <3>1. /\ scan.fsm = "IDLE" /\ scan.tagIdx = 0 /\ scan' = scan /\ Elsewhere'
          /\ \/ pc' = "IDLE" /\ Swept'
             \/ pc' = "CHECK_SCRS" /\ cur' = cur + 1 /\ instr' = instr /\ ~ Overlap(<<"scr", cur>>)
      BY <1>5, <1>9, <2>1, <2>4 DEF CheckScrs
    <3>2. ASSUME pc' = "CHECK_SCRS", cur' = cur + 1, instr' = instr, ~ Overlap(<<"scr", cur>>)
          PROVE  Swept'
      <4>1. /\ \A k \in 0 .. NumScrs - 1 : k < cur + 1 => ~ Overlap(<<"scr", k>>)'
            /\ \A r \in 1 .. NumRegs - 1 : ~ Overlap(<<"reg", r>>)'
            /\ ~ Overlap(<<"ddc", 0>>)' /\ ~ Overlap(<<"pcc", 0>>)'
        BY <2>1, <2>2, <3>2, OverlapFrame
      <4>2. cur + 1 \in 0 .. NumScrs - 1
        BY <2>1, <2>4
      <4> QED
        BY <3>1, <3>2, <4>1, <4>2 DEF Swept, RegsSwept, InStep, MemorySwept
    <3> QED
      BY <3>1, <3>2
  <2> QED
    BY <2>3, <2>4
<1> QED
  BY <1>2, <1>4, <1>6, <1>7, <1>8, <1>9

(* A cycle of GET_CAP: the scan may leave one more granule behind, the one after
   the granule that is being read. *)
LEMMA CapCycle ==
    ASSUME SparseTags, PInv, Swept, pc = "GET_CAP", scan' = ScanNext(scan, "none")
    PROVE  /\ scan'.fsm # "CHECK_TAG"
           /\ \A k \in instr.view.tagged \ {cur} : Scanned(k)' => ~ Overlap(<<"mem", k>>)
<1>1. scan \in Scan /\ scan.fsm \in {"IDLE", "CHECK_TAG", "DONE"} /\ cur \in Nat
  BY DEF PInv, TypeOK, Scan
<1>2. /\ cur \in instr.view.tagged
      /\ scan.fsm = "CHECK_TAG" => scan.tagIdx = cur + 1
      /\ \A k \in instr.view.tagged \ {cur} : Scanned(k) => ~ Overlap(<<"mem", k>>)
  BY DEF Swept, InStep, MemorySwept
<1>3. instr.view.tagged \subseteq Tag /\ cur + 1 \notin instr.view.tagged /\ NumTags \in Nat
  BY <1>2, ViewFacts, NumTagsAssumption DEF SparseTags, DataStates, Found
<1>4. scan'.fsm # "CHECK_TAG"
  BY <1>1, ScanMoves
<1>5. ASSUME NEW k \in instr.view.tagged \ {cur}, Scanned(k)'
      PROVE  Scanned(k)
  <2>1. k \in Nat /\ k <= NumTags - 1 /\ k # cur + 1 /\ k # cur
    BY <1>3 DEF Tag
  <2>2. CASE scan.fsm = "IDLE"
    BY <1>1, <1>5, <2>2, ScanMoves DEF Scanned
  <2>3. CASE scan.fsm = "DONE"
    BY <2>3 DEF Scanned
  <2>4. CASE scan.fsm = "CHECK_TAG"
    <3>1. scan.tagIdx = cur + 1
      BY <1>2, <2>4
    <3>2. k < cur + 1 + 1
      <4>1. CASE scan.tagIdx = NumTags - 1
        BY <1>1, <1>3, <2>1, <3>1, <4>1
      <4>2. CASE scan.tagIdx # NumTags - 1
        <5>1. scan'.fsm = "IDLE" /\ scan'.tagIdx = scan.tagIdx + 1
          BY <1>1, <2>4, <4>2, ScanMoves
        <5> QED
          BY <1>5, <3>1, <5>1 DEF Scanned
      <4> QED
        BY <4>1, <4>2
    <3>3. k < cur + 1
      BY <1>1, <2>1, <3>2
    <3> QED
      BY <3>1, <3>3 DEF Scanned
  <2> QED
    BY <1>1, <2>2, <2>3, <2>4
<1> QED
  BY <1>2, <1>4, <1>5

(* The registers stay swept while the memory is. *)
LEMMA RegsStaySwept ==
    ASSUME RegsSwept, pc \in PastScrs, pc' \in PastScrs, instr' = instr
    PROVE  RegsSwept'
<1> USE DEF Hashing, PastScrs, PastPcc, PastDdc, PastRegs
<1>1. /\ \A r \in 1 .. NumRegs - 1 : ~ Overlap(<<"reg", r>>)
      /\ ~ Overlap(<<"ddc", 0>>) /\ ~ Overlap(<<"pcc", 0>>)
      /\ \A k \in 0 .. NumScrs - 1 : ~ Overlap(<<"scr", k>>)
  BY DEF RegsSwept
<1>2. /\ \A r \in 1 .. NumRegs - 1 : ~ Overlap(<<"reg", r>>)'
      /\ ~ Overlap(<<"ddc", 0>>)' /\ ~ Overlap(<<"pcc", 0>>)'
      /\ \A k \in 0 .. NumScrs - 1 : ~ Overlap(<<"scr", k>>)'
  BY <1>1, OverlapFrame
<1> QED
  BY <1>2 DEF RegsSwept

(* The granules, one after the other. *)
LEMMA MemorySteps ==
    ASSUME SparseTags, PInv, Swept, GetAddress \/ GetCap \/ (Wait /\ pc = "GET_CAP")
    PROVE  Swept'
<1> USE DEF Found, DataStates, Hashing, PastScrs, PastPcc, PastDdc, PastRegs
<1>1. scan \in Scan /\ scan.fsm \in {"IDLE", "CHECK_TAG", "DONE"} /\ cur \in Nat
      /\ scan.tagIdx \in Tag /\ NumTags \in Nat
  BY NumTagsAssumption DEF PInv, TypeOK, Scan
<1>2. CASE GetCap \/ (Wait /\ pc = "GET_CAP")
  <2>1. pc = "GET_CAP" /\ scan' = ScanNext(scan, "none")
    BY <1>2 DEF GetCap, Check, Wait, Clock
  <2>2. /\ scan'.fsm # "CHECK_TAG" /\ cur \in instr.view.tagged
        /\ \A k \in instr.view.tagged \ {cur} : Scanned(k)' => ~ Overlap(<<"mem", k>>)
    BY <2>1, CapCycle DEF Swept, InStep
  <2>3. \/ pc' = "IDLE"
        \/ pc' = "GET_ADDRESS" /\ instr' = instr /\ ~ Overlap(<<"mem", cur>>)
        \/ pc' = "GET_CAP" /\ instr' = instr /\ cur' = cur
    BY <1>2 DEF GetCap, Check, Wait, Goto, Fail, Finish
  <2>4. Elsewhere'
    BY <2>1, <2>3, ElsewhereStays DEF Swept
  <2>5. CASE pc' = "IDLE"
    BY <2>2, <2>4, <2>5, SweepOver
  <2>6. CASE pc' = "GET_ADDRESS" /\ instr' = instr /\ ~ Overlap(<<"mem", cur>>)
    <3>1. RegsSwept'
      BY <2>1, <2>6, RegsStaySwept DEF Swept
    <3>2. \A k \in instr'.view.tagged : Scanned(k)' => ~ Overlap(<<"mem", k>>)'
      BY <2>2, <2>6, OverlapFrame
    <3> QED
      BY <2>2, <2>4, <2>6, <3>1, <3>2 DEF Swept, InStep, MemorySwept
  <2>7. CASE pc' = "GET_CAP" /\ instr' = instr /\ cur' = cur
    <3>1. RegsSwept'
      BY <2>1, <2>7, RegsStaySwept DEF Swept
    <3>2. \A k \in instr'.view.tagged \ {cur'} : Scanned(k)' => ~ Overlap(<<"mem", k>>)'
      BY <2>2, <2>7, OverlapFrame
    <3> QED
      BY <2>2, <2>4, <2>7, <3>1, <3>2 DEF Swept, InStep, MemorySwept
  <2> QED
    BY <2>3, <2>5, <2>6, <2>7
<1>3. CASE GetAddress
  <2> DEFINE item == ScanItem(scan, "findNext", instr.view.tagged)
             T == instr.view.tagged
  <2>1. /\ pc = "GET_ADDRESS" /\ scan' = ScanNext(scan, "findNext") /\ instr' = instr
        /\ \/ ~ item.ready /\ pc' = "GET_ADDRESS"
           \/ item.ready /\ item.valid /\ pc' = "GET_CAP" /\ cur' = item.address
           \/ item.ready /\ ~ item.valid /\ pc' = "HASH_START"
    BY <1>3 DEF GetAddress, Goto, Clock
  <2>2. Elsewhere' /\ RegsSwept'
    BY <2>1, ElsewhereStays, RegsStaySwept DEF Swept
  <2>3. \A k \in T : Scanned(k) => ~ Overlap(<<"mem", k>>)
    BY <2>1 DEF Swept, MemorySwept
  <2>4. T \subseteq Tag /\ T \subseteq Nat
    BY <1>1, <2>1, ViewFacts DEF Tag
  <2>5. CASE scan.fsm = "IDLE"
    <3>1. item = NoItem
      BY <2>5 DEF ScanItem
    <3>2. pc' = "GET_ADDRESS" /\ scan'.fsm = "CHECK_TAG" /\ scan'.tagIdx = scan.tagIdx
      BY <1>1, <2>1, <2>5, <3>1, ScanMoves DEF NoItem
    <3>3. \A k \in T : Scanned(k)' => ~ Overlap(<<"mem", k>>)'
      BY <2>1, <2>3, <3>2, OverlapFrame DEF Scanned
    <3> QED
      BY <2>1, <2>2, <3>2, <3>3 DEF Swept, InStep, MemorySwept
  <2>6. CASE scan.fsm = "DONE"
    <3>1. item = LastItem
      BY <2>6 DEF ScanItem
    <3>2. pc' = "HASH_START" /\ scan'.fsm = "DONE"
      BY <1>1, <2>1, <2>6, <3>1, ScanMoves DEF LastItem
    <3>3. \A k \in T : ~ Overlap(<<"mem", k>>)'
      BY <2>1, <2>3, <2>6, OverlapFrame DEF Scanned
    <3> QED
      BY <2>1, <2>2, <3>2, <3>3 DEF Swept, InStep, MemorySwept
  <2>7. CASE scan.fsm = "CHECK_TAG"
    <3>1. \/ scan.tagIdx = NumTags - 1 /\ scan'.fsm = "DONE"
          \/ /\ scan.tagIdx # NumTags - 1 /\ scan'.fsm = "CHECK_TAG"
             /\ scan'.tagIdx = scan.tagIdx + 1
      BY <1>1, <2>1, <2>7, ScanMoves
    <3>2. ASSUME NEW k \in T \ {scan.tagIdx}, Scanned(k)'
          PROVE  ~ Overlap(<<"mem", k>>)'
      <4>1. k \in Nat /\ k <= NumTags - 1 /\ scan.tagIdx \in Nat /\ k # scan.tagIdx
        BY <1>1, <2>4 DEF Tag
      <4>2. k < scan.tagIdx
        <5>1. CASE scan.tagIdx = NumTags - 1
          BY <1>1, <4>1, <5>1
        <5>2. CASE scan.tagIdx # NumTags - 1
          BY <3>1, <3>2, <4>1, <5>2 DEF Scanned
        <5> QED
          BY <5>1, <5>2
      <4>3. ~ Overlap(<<"mem", k>>)
        BY <2>3, <4>2 DEF Scanned
      <4> QED
        BY <2>1, <4>3, OverlapFrame
    <3>3. CASE scan.tagIdx \in T
      <4>1. item = ItemAt(scan.tagIdx)
        BY <2>7, <3>3 DEF ScanItem
      <4>2. pc' = "GET_CAP" /\ cur' = scan.tagIdx
        BY <2>1, <4>1 DEF ItemAt
      <4>3. InStep'
        BY <2>1, <3>1, <3>3, <4>2 DEF InStep
      <4>4. MemorySwept'
        BY <2>1, <3>2, <4>2 DEF MemorySwept
      <4> QED
        BY <2>2, <4>3, <4>4 DEF Swept
    <3>4. CASE scan.tagIdx \notin T
      <4>1. item = NoItem
        BY <2>7, <3>4 DEF ScanItem
      <4>2. pc' = "GET_ADDRESS"
        BY <2>1, <4>1 DEF NoItem
      <4>3. MemorySwept'
        BY <2>1, <3>2, <3>4, <4>2 DEF MemorySwept
      <4> QED
        BY <2>2, <4>2, <4>3 DEF Swept, InStep
    <3> QED
      BY <3>3, <3>4
  <2> QED
    BY <1>1, <2>5, <2>6, <2>7
<1> QED
  BY <1>2, <1>3

(* Once swept, the sections stay so until the enclave is ready. *)
LEMMA HashSteps ==
    ASSUME PInv, Swept, pc \in Hashing, scan'.fsm # "CHECK_TAG",
           (pc' \in Hashing /\ instr' = instr) \/ pc' = "IDLE"
    PROVE  Swept'
<1> USE DEF Found, DataStates, Hashing, PastScrs, PastPcc, PastDdc, PastRegs
<1>1. Elsewhere'
  BY ElsewhereStays DEF Swept
<1>2. CASE pc' = "IDLE"
  BY <1>1, <1>2, SweepOver
<1>3. CASE pc' \in Hashing /\ instr' = instr
  <2>1. RegsSwept'
    BY <1>3, RegsStaySwept DEF Swept
  <2>2. \A k \in instr'.view.tagged : ~ Overlap(<<"mem", k>>)'
    BY <1>3, OverlapFrame DEF Swept, MemorySwept
  <2> QED
    BY <1>1, <1>3, <2>1, <2>2 DEF Swept, InStep, MemorySwept
<1> QED
  BY <1>2, <1>3

(* Every cycle. *)
LEMMA NextSwept ==
    ASSUME SparseTags
    PROVE  PInv /\ Swept /\ [Next]_vars => Swept'
<1> SUFFICES ASSUME PInv, Swept, [Next]_vars
             PROVE  Swept'
  OBVIOUS
<1>1. scan \in Scan
  BY DEF PInv, TypeOK
<1>2. ASSUME NEW req, Clock(req, "none")
      PROVE  scan'.fsm # "CHECK_TAG"
  BY <1>1, <1>2, ScanMoves DEF Clock
<1>3. CASE Start \/ ClaimPipeline \/ CheckRegs \/ CheckDdc \/ CheckPcc \/ CheckScrs
  BY <1>3, RegSteps
<1>4. CASE GetAddress \/ GetCap \/ (Wait /\ pc = "GET_CAP")
  BY <1>4, MemorySteps
<1>5. CASE HashStart \/ LoadWord \/ HashWord \/ StoreHash \/ StoreSeal
  <2>1. pc \in Hashing /\ scan'.fsm # "CHECK_TAG"
    BY <1>2, <1>5 DEF HashStart, LoadWord, HashWord, StoreHash, StoreSeal, Hashing
  <2>2. (pc' \in Hashing /\ instr' = instr) \/ pc' = "IDLE"
    BY <1>5 DEF HashStart, LoadWord, HashWord, StoreHash, StoreSeal, Hashing, Goto, Fail, Finish
  <2> QED
    BY <2>1, <2>2, HashSteps
<1>6. CASE Wait /\ pc # "GET_CAP"
  <2>1. /\ scan'.fsm # "CHECK_TAG" /\ pc' = pc /\ instr' = instr
        /\ pc \in Hashing \/ pc = "STORE_ID"
    BY <1>2, <1>6 DEF Wait, Hashing
  <2>2. CASE pc \in Hashing
    BY <2>1, <2>2, HashSteps
  <2>3. CASE pc = "STORE_ID"
    BY <2>1, <2>3, ElsewhereStays, SweepOver DEF Swept, DataStates, Found
  <2> QED
    BY <2>1, <2>2, <2>3
<1>7. CASE CheckCs1Valid
  <2>1. /\ scan'.fsm # "CHECK_TAG" /\ pc = "CHECK_CS1_VALID"
        /\ \/ pc' \in {"CHECK_CS1_VALID", "START"} /\ instr' = instr
           \/ pc' = "IDLE"
    BY <1>2, <1>7 DEF CheckCs1Valid, Goto, Fail, Finish
  <2>2. Elsewhere'
    BY <2>1, ElsewhereStays DEF Swept, DataStates, Found
  <2> QED
    BY <2>1, <2>2, SweepOver DEF DataStates, Found
<1>8. CASE IssueEInitData
  <2>1. PICK c \in Operand1, r \in Operands, v \in Views :
            /\ v.place \notin {<<"reg", r[1]>>, <<"reg", r[2]>>}
            /\ Issue("CHECK_CS1_VALID", [op |-> "EInitData", cs1 |-> c, rs1 |-> r[1],
                                         rs2 |-> r[2], view |-> v])
    BY <1>8 DEF IssueEInitData
  <2>2. /\ scan'.fsm # "CHECK_TAG" /\ pc' = "CHECK_CS1_VALID"
        /\ instr'.rs1 = r[1] /\ instr'.rs2 = r[2] /\ instr'.view = v
    BY <1>2, <2>1 DEF Issue
  <2>3. Elsewhere'
    BY <2>1, <2>2 DEF Elsewhere
  <2> QED
    BY <2>2, <2>3, SweepOver
<1>9. CASE Bubble \/ IssueEInitCode \/ IssueEStoreId \/ Interrupt \/ InitEntry \/ GetHash \/ StoreId
  <2>1. scan'.fsm # "CHECK_TAG"
    BY <1>2, <1>9 DEF Bubble, IssueEInitCode, IssueEStoreId, Issue, Interrupt, InitEntry,
       GetHash, StoreId
  <2>2. pc' \notin DataStates
    BY <1>9 DEF Bubble, IssueEInitCode, IssueEStoreId, Issue, Interrupt, InitEntry,
       GetHash, StoreId, Goto, Fail, Finish, PInv, Staged, DataStates, Found
  <2> QED
    BY <2>1, <2>2, SweepOver, ElsewhereStays DEF Swept
<1>10. CASE UNCHANGED vars
  <2>1. scan' = scan /\ pc' = pc /\ cur' = cur /\ instr' = instr
    BY <1>10 DEF vars
  <2>2. Elsewhere' /\ InStep'
    BY <2>1 DEF Swept, Elsewhere, InStep
  <2>3. RegsSwept' /\ MemorySwept'
    BY <2>1, OverlapFrame DEF Swept, RegsSwept, MemorySwept, Scanned
  <2> QED
    BY <2>2, <2>3 DEF Swept
<1> QED
  BY <1>3, <1>4, <1>5, <1>6, <1>7, <1>8, <1>9, <1>10 DEF Next, Busy

(* The sweep is sound as long as no two neighbouring granules are tagged: an
   enclave is hashed, and becomes ready, only when no other valid capability, in
   any register, special register or granule, shares a byte with its sections. *)
THEOREM SweepSoundCorrect ==
    ASSUME SparseTags
    PROVE  Spec => []SweepSound
<1>1. Init => Swept
  BY DEF Init, ScanInit, Swept, Elsewhere, RegsSwept, InStep, MemorySwept, DataStates, Found,
     Hashing, PastScrs, PastPcc, PastDdc, PastRegs
<1>2. PInv /\ Swept => SweepSound
  <2> SUFFICES ASSUME PInv, Swept, pc \in Hashing, instr.view.tag
               PROVE  ~ (SharesByte(instr.view, Code) \/ SharesByte(instr.view, Data))
    BY DEF SweepSound, Hashing
  <2> DEFINE v == instr.view
  <2>1. pc \in DataStates /\ pc \in PastScrs /\ pc \in PastPcc /\ pc \in PastDdc /\ pc \in PastRegs
    BY DEF DataStates, Found, Hashing, PastScrs, PastPcc, PastDdc, PastRegs
  <2>2. /\ v \in View /\ (v.place[1] = "mem" => v.place[2] \in v.tagged)
        /\ instr.cs1.sec \in Section
    BY <2>1, ViewFacts DEF PInv, Staged, DataInstr
  <2>3. ~ Overlap(v.place)
    <3>1. v.place \in {<<"reg", r>> : r \in 1 .. NumRegs - 1} \cup {<<"ddc", 0>>, <<"pcc", 0>>}
                        \cup {<<"scr", k>> : k \in 0 .. NumScrs - 1}
                        \cup {<<"mem", k>> : k \in Tag}
      BY <2>2 DEF View
    <3>2. ASSUME NEW k \in Tag, v.place = <<"mem", k>>
          PROVE  ~ Overlap(v.place)
      BY <2>2, <3>2 DEF Swept, MemorySwept
    <3> HIDE DEF v
    <3> QED
      BY <2>1, <3>1, <3>2 DEF Swept, RegsSwept
  <2>4. ~ overlaps(v, Code) /\ ~ overlaps(v, Data)
    BY <2>3 DEF Overlap
  <2>5. v.base \in Nat /\ v.top \in Nat
    BY <2>2 DEF View
  <2>6. Code.base \in Nat /\ Code.top \in Nat /\ Data.base \in Nat /\ Data.top \in Nat
        /\ Space \in Nat
    BY <2>2, ProteusAssumption DEF Code
  <2>7. ASSUME NEW c, c.base \in Nat, c.top \in Nat, ~ overlaps(v, c)
        PROVE  ~ SharesByte(v, c)
    BY <2>5, <2>6, <2>7 DEF overlaps, SharesByte
  <2> QED
    BY <2>4, <2>6, <2>7
<1>3. Spec => [](PInv /\ Swept)
  BY <1>1, InitPInv, NextPInv, NextSwept, PTL DEF Spec
<1> QED
  BY <1>2, <1>3, PTL
=====
