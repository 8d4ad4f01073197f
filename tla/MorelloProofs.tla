---------------------------- MODULE MorelloProofs ---------------------------
(***************************************************************************)
(* Theorems about MorelloEL2: the identity store is filled in order, the   *)
(* sweep of EINIT_DATA leaves an enclave alone with its sections and its   *)
(* key until it is entered, the store holds the hash of the code that will *)
(* run, and store and counter implement the abstract trusted base.         *)
(***************************************************************************)
EXTENDS MorelloEL2, FiniteSetTheorems, TLAPS

-----------------------------------------------------------------------------
(* The inductive invariant.                                                *)

(* The first k entries are taken; entry i got id i + 1, as long as there were
   ids; the counter has passed as many; an entry that is ready has an id and
   a hash. *)
FilledTo(k, store, counter) ==
    /\ \A i \in Idx :
          /\ store[i].used <=> i < k
          /\ store[i].id = IF i < k /\ i < numEnclaveIds THEN i + 1 ELSE Invalid
          /\ store[i].ready => i < k /\ i < numEnclaveIds /\ store[i].hash # ZeroHash
    /\ counter = initIDCounter + IF k < numEnclaveIds THEN k ELSE numEnclaveIds

Filled(store, counter) == \E k \in 0 .. MAX_ENTRIES : FilledTo(k, store, counter)

(* The entry of id e is ready. *)
Ready(store, e) == e - 1 \in Idx /\ store[e - 1].ready

(* What a tagged value can be: a capability to the arena or the key of an id
   whose entry is ready, unsealed or under the identSeal of an id. *)
Made(v, store) ==
    /\ v.kind = "mem" => v.top <= Granules
    /\ v.otype = unsealed \/ \E e \in Eid : v.otype = identSeal(e)
    /\ v.kind = "key" => \E e \in Eid : v.base = signSeal(e) /\ Ready(store, e)

Known ==
    /\ \A r \in Reg : IsCap(c[r]) => Made(c[r], identityStore)
    /\ \A s \in Special : IsCap(scr[s]) => scr[s] = OsCap \/ Made(scr[s], identityStore)
    /\ \A g \in Granule : IsCap(mem[g]) => Made(mem[g], identityStore)

Sections(rec) == Bounds(rec.code) \cup rec.data

Waiting(rec) == rec.data # {} /\ ~ rec.entered

(* A capability v leaves enclave e alone, whose sections and state are rec. *)
Respects(v, e, rec) ==
    /\ Waiting(rec) /\ Bounds(v) \cap Sections(rec) # {} => v.otype = identSeal(e)
    /\ v.kind = "key" /\ v.base = signSeal(e) => rec.entered

(* Exclusive and KeyConfined, one holder of capabilities at a time. *)
Isolated ==
    \A e \in Eid :
       /\ \A r \in Reg : IsCap(c[r]) => Respects(c[r], e, enclave[e])
       /\ \A s \in Special : IsCap(scr[s]) => Respects(scr[s], e, enclave[e])
       /\ \A g \in Granule \ enclave[e].data :
             IsCap(mem[g]) => Respects(mem[g], e, enclave[e])

(* An enclave has sections only once its entry is ready. *)
ClaimedReady ==
    \A e \in Eid : enclave[e].data # {} =>
       Ready(identityStore, e) /\ enclave[e].code.top <= Granules

StoreOK == Filled(identityStore, IDCounter)

MInv == TypeOK /\ StoreOK /\ Known /\ Isolated /\ ClaimedReady /\ Measured
-----------------------------------------------------------------------------
(* Facts about otypes, capabilities and the identity store.                *)

(* The seals of an id are otypes, different for different ids, and never
   "unsealed". *)
LEMMA SealFacts ==
    ASSUME NEW e \in Eid
    PROVE  /\ e \in Int /\ e >= 1 /\ e <= numEnclaveIds
           /\ identSeal(e) \in Otype /\ identSeal(e) # unsealed
           /\ signSeal(e) \in Otype /\ signSeal(e) + 2 \in Otype
           /\ assignIDFromOtype(identSeal(e)) = e
           /\ \A f \in Eid : /\ identSeal(f) = identSeal(e) => f = e
                             /\ signSeal(f) = signSeal(e) => f = e
<1>1. numEnclaveIds \in Nat
  BY StoreAssumption
<1>2. e \in Int /\ e >= 1 /\ e <= numEnclaveIds
  BY <1>1 DEF Eid
<1>3. (4 * e + 2) \div 4 = e
  BY <1>2
<1> QED
  BY <1>1, <1>2, <1>3
  DEF Eid, identSeal, signSeal, assignIDFromOtype, Otype, unsealed

(* Tagged values are the capabilities. *)
LEMMA IsCapFacts ==
    /\ \A v \in Cap : IsCap(v)
    /\ \A v \in Cap \cup {Null} : IsCap(v) => v \in Cap
    /\ \A v \in Cap \cup Word : IsCap(v) => v \in Cap
    /\ \A v \in Word : ~ IsCap(v)
    /\ ~ IsCap(Null)
  BY MorelloAssumption DEF IsCap

(* The fields of a capability. *)
LEMMA CapFields ==
    ASSUME NEW v \in Cap
    PROVE  /\ v.kind = "mem" => v \in MemCap
           /\ v.kind = "key" => v \in KeyCap
           /\ v.kind \in {"mem", "key"}
           /\ v.base \in Int /\ v.top \in Int /\ v.otype \in Otype
  BY MorelloAssumption, StoreAssumption DEF Cap, MemCap, KeyCap, Otype

(* Sealing and unsealing change the otype only. *)
LEMMA SealOnly ==
    ASSUME NEW v \in Cap, NEW o \in Otype
    PROVE  /\ cheri_seal(v, o) \in Cap /\ cheri_seal(v, o).otype = o
           /\ cheri_seal(v, o).kind = v.kind /\ cheri_seal(v, o).base = v.base
           /\ cheri_seal(v, o).top = v.top
           /\ v.kind = "mem" => cheri_seal(v, o) \in MemCap
           /\ cheri_unseal(v) = cheri_seal(v, unsealed)
<1>1. CASE v \in MemCap
  BY <1>1 DEF cheri_seal, cheri_unseal, Cap, MemCap
<1>2. CASE v \in KeyCap
  BY <1>2 DEF cheri_seal, cheri_unseal, Cap, KeyCap
<1> QED
  BY <1>1, <1>2 DEF Cap

(* "unsealed" is an otype. *)
LEMMA UnsealedOtype == unsealed \in Otype
  BY StoreAssumption DEF unsealed, Otype
-----------------------------------------------------------------------------
(* The identity store.                                                     *)

(* initTable is filled to nowhere. *)
LEMMA InitFilled == FilledTo(0, initTable, initIDCounter) /\ initTable \in [Idx -> Entry]
  BY StoreAssumption DEF FilledTo, initTable, initIDCounter, Idx, Entry, Invalid

(* The searches find the entry of an id, which is the one before it, if it is
   in the state they look for, and no other. *)
LEMMA Searches ==
    ASSUME NEW k \in 0 .. MAX_ENTRIES, NEW store \in [Idx -> Entry], NEW counter,
           FilledTo(k, store, counter), NEW otype \in Otype, NEW i
    PROVE  /\ i \in Unfinished(store, otype) <=>
                 /\ i \in Idx /\ i = assignIDFromOtype(otype) - 1
                 /\ i < k /\ i < numEnclaveIds /\ ~ store[i].ready
           /\ i \in getHashEntry(store, otype) <=>
                 /\ i \in Idx /\ i = assignIDFromOtype(otype) - 1
                 /\ store[i].ready
<1> DEFINE id == assignIDFromOtype(otype)
<1>1. id \in Nat
  BY StoreAssumption DEF Otype, assignIDFromOtype
<1> HIDE DEF id
<1>2. k \in Int /\ numEnclaveIds \in Nat /\ MAX_ENTRIES \in Nat
  BY StoreAssumption
<1>3. \A j \in Idx : store[j].id = id <=> j < k /\ j < numEnclaveIds /\ j = id - 1
  BY <1>1, <1>2 DEF FilledTo, Invalid, Idx
<1>4. \A j \in Idx : store[j].used <=> j < k
  BY DEF FilledTo
<1>5. \A j \in Idx : store[j].ready => j < k /\ j < numEnclaveIds
  BY DEF FilledTo
<1>6. ASSUME NEW j \in Idx, NEW l \in 0 .. j - 1 PROVE l \in Idx /\ l # j
  BY <1>2 DEF Idx
<1>7. i \in Unfinished(store, otype) <=>
         /\ i \in Idx /\ store[i].used /\ ~ store[i].ready /\ store[i].id = id
         /\ \A j \in 0 .. i - 1 : ~ (store[j].used /\ ~ store[j].ready /\ store[j].id = id)
  BY DEF Unfinished, First, id
<1>8. i \in getHashEntry(store, otype) <=>
         /\ i \in Idx /\ store[i].used /\ store[i].ready /\ store[i].id = id
         /\ \A j \in 0 .. i - 1 : ~ (store[j].used /\ store[j].ready /\ store[j].id = id)
  BY DEF getHashEntry, First, id
<1>9. i \in Unfinished(store, otype) <=>
         /\ i \in Idx /\ i = id - 1
         /\ i < k /\ i < numEnclaveIds /\ ~ store[i].ready
  BY <1>3, <1>4, <1>6, <1>7
<1>10. i \in getHashEntry(store, otype) <=> i \in Idx /\ i = id - 1 /\ store[i].ready
  BY <1>3, <1>4, <1>5, <1>6, <1>8
<1> QED
  BY <1>9, <1>10 DEF id

(* initEntry takes the next entry, and the next id if there is one. *)
LEMMA InitEntryFills ==
    ASSUME NEW k \in 0 .. MAX_ENTRIES, NEW store \in [Idx -> Entry], NEW counter,
           FilledTo(k, store, counter), NEW idx \in FreeEntry(store)
    PROVE  /\ idx = k /\ k \in Idx /\ k + 1 \in 0 .. MAX_ENTRIES
           /\ counter \in Nat /\ initEntry(store, idx, counter) \in [Idx -> Entry]
           /\ FilledTo(k + 1, initEntry(store, idx, counter), nextIDCounter(counter))
           /\ generateEnclaveID(counter) = IF k < numEnclaveIds THEN k + 1 ELSE Invalid
           /\ \A i \in Idx : /\ initEntry(store, idx, counter)[i].ready = store[i].ready
                             /\ initEntry(store, idx, counter)[i].hash = store[i].hash
           /\ ~ store[k].ready
<1> DEFINE new == initEntry(store, idx, counter)
<1>1. k \in Int /\ numEnclaveIds \in Nat /\ MAX_ENTRIES \in Nat
  BY StoreAssumption
<1>2. idx \in Idx /\ ~ store[idx].used /\ \A j \in 0 .. idx - 1 : store[j].used
  BY DEF FreeEntry, First
<1>3. idx = k /\ k \in Idx /\ k + 1 \in 0 .. MAX_ENTRIES
  <2>1. ~ (idx < k)
    BY <1>2 DEF FilledTo
  <2>2. k \in 0 .. idx - 1 => k \in Idx
    BY <1>1, <1>2 DEF Idx
  <2>3. ~ (k < idx)
    BY <1>1, <1>2, <2>2 DEF FilledTo, Idx
  <2> QED
    BY <1>1, <1>2, <2>1, <2>3 DEF Idx
<1>4. /\ counter \in Nat
      /\ generateEnclaveID(counter) = IF k < numEnclaveIds THEN k + 1 ELSE Invalid
      /\ nextIDCounter(counter) = 1 + IF k + 1 < numEnclaveIds THEN k + 1 ELSE numEnclaveIds
  BY <1>1 DEF FilledTo, generateEnclaveID, nextIDCounter, initIDCounter
<1>5. generateEnclaveID(counter) \in Eid \cup {Invalid}
  BY <1>1, <1>4 DEF Eid
<1>6. \A i \in Idx : store[i] \in Entry
  OBVIOUS
<1>7. \A i \in Idx : i # k => new[i] = store[i]
  BY <1>3 DEF initEntry
<1>8. /\ new[k].used = TRUE /\ new[k].id = generateEnclaveID(counter)
      /\ new[k].ready = store[k].ready /\ new[k].hash = store[k].hash
      /\ new[k] \in Entry /\ new \in [Idx -> Entry]
  BY <1>3, <1>5, <1>6 DEF initEntry, Entry
<1>9. ~ store[k].ready
  BY <1>1, <1>3 DEF FilledTo
<1> HIDE DEF new
<1>10. FilledTo(k + 1, new, nextIDCounter(counter))
  <2>1. ASSUME NEW i \in Idx
        PROVE  /\ new[i].used <=> i < k + 1
               /\ new[i].id = IF i < k + 1 /\ i < numEnclaveIds THEN i + 1 ELSE Invalid
               /\ new[i].ready => i < k + 1 /\ i < numEnclaveIds /\ new[i].hash # ZeroHash
    <3>1. i \in Int
      BY DEF Idx
    <3>2. CASE i = k
      BY <1>1, <1>4, <1>8, <1>9, <3>2
    <3>3. CASE i # k
      <4>1. /\ store[i].used <=> i < k
            /\ store[i].id = IF i < k /\ i < numEnclaveIds THEN i + 1 ELSE Invalid
            /\ store[i].ready => i < k /\ i < numEnclaveIds /\ store[i].hash # ZeroHash
        BY DEF FilledTo
      <4> QED
        BY <1>1, <1>7, <3>1, <3>3, <4>1
    <3> QED
      BY <3>2, <3>3
  <2> QED
    BY <1>4, <2>1 DEF FilledTo, initIDCounter
<1> QED
  BY <1>3, <1>4, <1>7, <1>8, <1>9, <1>10 DEF new

(* finishEntry makes one entry ready. *)
LEMMA FinishFills ==
    ASSUME NEW k \in 0 .. MAX_ENTRIES, NEW store \in [Idx -> Entry], NEW counter,
           FilledTo(k, store, counter), NEW idx \in Idx, idx < k, idx < numEnclaveIds,
           NEW hash \in Hash
    PROVE  /\ finishEntry(store, idx, hash) \in [Idx -> Entry]
           /\ FilledTo(k, finishEntry(store, idx, hash), counter)
           /\ finishEntry(store, idx, hash)[idx].ready
           /\ finishEntry(store, idx, hash)[idx].hash = hash
           /\ \A i \in Idx : i # idx => finishEntry(store, idx, hash)[i] = store[i]
<1> DEFINE new == finishEntry(store, idx, hash)
<1>1. hash # ZeroHash
  BY StoreAssumption
<1>2. \A i \in Idx : store[i] \in Entry
  OBVIOUS
<1>3. /\ new[idx].ready = TRUE /\ new[idx].hash = hash
      /\ new[idx].used = store[idx].used /\ new[idx].id = store[idx].id
      /\ new \in [Idx -> Entry]
  BY <1>2 DEF finishEntry, Entry
<1>4. \A i \in Idx : i # idx => new[i] = store[i]
  BY DEF finishEntry
<1> HIDE DEF new
<1>5. FilledTo(k, new, counter)
  <2>1. ASSUME NEW i \in Idx
        PROVE  /\ new[i].used <=> i < k
               /\ new[i].id = IF i < k /\ i < numEnclaveIds THEN i + 1 ELSE Invalid
               /\ new[i].ready => i < k /\ i < numEnclaveIds /\ new[i].hash # ZeroHash
    BY <1>1, <1>3, <1>4 DEF FilledTo
  <2> QED
    BY <2>1 DEF FilledTo
<1> QED
  BY <1>3, <1>4, <1>5 DEF new
-----------------------------------------------------------------------------
(* The properties of the runs follow from the invariant.                   *)

(* Filled counts: there are as many ids as the counter has passed. *)
LEMMA FilledInOrder == ASSUME TypeOK, StoreOK PROVE StoreInOrder
<1>1. PICK k \in 0 .. MAX_ENTRIES : FilledTo(k, identityStore, IDCounter)
  BY DEF StoreOK, Filled
<1>2. k \in Int /\ numEnclaveIds \in Nat /\ MAX_ENTRIES \in Nat
  BY StoreAssumption
<1>3. ASSUME NEW i \in Idx, identityStore[i].used
      PROVE  /\ identityStore[i].id = IF i < numEnclaveIds THEN i + 1 ELSE Invalid
             /\ \A j \in 0 .. i : identityStore[j].used
  <2>1. i < k
    BY <1>1, <1>3 DEF FilledTo
  <2>2. \A j \in 0 .. i : j \in Idx /\ j < k
    BY <1>2, <2>1 DEF Idx
  <2> QED
    BY <1>1, <2>1, <2>2 DEF FilledTo
<1>4. ASSUME NEW i \in Idx, identityStore[i].ready
      PROVE  /\ identityStore[i].used /\ identityStore[i].id # Invalid
             /\ identityStore[i].hash # ZeroHash
  <2>1. i \in Int /\ i >= 0
    BY DEF Idx
  <2> QED
    BY <1>1, <1>4, <2>1 DEF FilledTo, Invalid
<1>5. IDCounter = initIDCounter + Cardinality({i \in Idx : identityStore[i].id # Invalid})
  <2> DEFINE n == IF k < numEnclaveIds THEN k ELSE numEnclaveIds
  <2>1. n \in Nat /\ n <= MAX_ENTRIES
    BY <1>2
  <2>2. ASSUME NEW i \in Idx PROVE identityStore[i].id # Invalid <=> i < n
    <3>1. identityStore[i].id = IF i < k /\ i < numEnclaveIds THEN i + 1 ELSE Invalid
      BY <1>1 DEF FilledTo
    <3> QED
      BY <1>2, <3>1 DEF Idx, Invalid
  <2>3. IDCounter = initIDCounter + n
    BY <1>1 DEF FilledTo
  <2> HIDE DEF n
  <2>4. {i \in Idx : identityStore[i].id # Invalid} = 0 .. n - 1
    BY <1>2, <2>1, <2>2 DEF Idx
  <2>5. Cardinality(0 .. n - 1) = n
    BY <2>1, FS_Interval
  <2> QED
    BY <2>3, <2>4, <2>5
<1> QED
  BY <1>3, <1>4, <1>5 DEF StoreInOrder

(* Isolated is the two confinement properties at once. *)
LEMMA IsolatedImplies == ASSUME TypeOK, Isolated PROVE Exclusive /\ KeyConfined
<1>1. ASSUME NEW e \in Eid, NEW v \in Outside(e) PROVE Respects(v, e, enclave[e])
  <2>1. IsCap(v) /\ \/ \E r \in Reg : v = c[r]
                    \/ \E s \in Special : v = scr[s]
                    \/ \E g \in Granule \ enclave[e].data : v = mem[g]
    BY DEF Outside
  <2> QED
    BY <2>1 DEF Isolated
<1>2. Exclusive
  BY <1>1 DEF Exclusive, Untouched, Respects, Waiting, Sections
<1>3. KeyConfined
  BY <1>1 DEF KeyConfined, Respects
<1> QED
  BY <1>2, <1>3
-----------------------------------------------------------------------------
(* What software can come by.                                              *)

(* v is no capability, or one that was made and leaves every enclave alone. *)
Good(v, store, records) ==
    IsCap(v) => /\ Made(v, store)
                /\ \A e \in Eid : Respects(v, e, records[e])

(* The registers of EL1 hold such values; so do the special ones, but for the
   OsCap they start with. *)
LEMMA RegsGood ==
    ASSUME MInv
    PROVE  /\ \A r \in Reg : Good(c[r], identityStore, enclave)
           /\ \A s \in Special : scr[s] # OsCap => Good(scr[s], identityStore, enclave)
  BY DEF MInv, Known, Isolated, Good

(* So do the granules that are in no waiting enclave's data section. *)
LEMMA GranulesGood ==
    ASSUME MInv, NEW g \in Granule,
           \A e \in Eid : Waiting(enclave[e]) => g \notin enclave[e].data
    PROVE  Good(mem[g], identityStore, enclave)
<1>1. ASSUME NEW e \in Eid, IsCap(mem[g]) PROVE Respects(mem[g], e, enclave[e])
  BY <1>1 DEF MInv, Isolated, Respects, Waiting
<1> QED
  BY <1>1 DEF MInv, Known, Good

(* An unsealed capability in a register reaches no section of an enclave that
   waits. *)
LEMMA UnsealedApart ==
    ASSUME MInv, NEW r \in Reg, IsCap(c[r]), ~ cheri_is_sealed(c[r])
    PROVE  \A e \in Eid : Waiting(enclave[e]) => Bounds(c[r]) \cap Sections(enclave[e]) = {}
<1>1. \A e \in Eid : c[r].otype # identSeal(e)
  BY SealFacts DEF cheri_is_sealed
<1> QED
  BY <1>1 DEF MInv, Isolated, Respects

(* So a capability to memory with no more than its bounds is good under any
   seal of an id. *)
LEMMA NarrowedGood ==
    ASSUME MInv, NEW r \in Reg, IsCap(c[r]), ~ cheri_is_sealed(c[r]),
           NEW v, v.kind = "mem", Bounds(v) \subseteq Bounds(c[r]), v.top <= Granules,
           v.otype = unsealed \/ \E e \in Eid : v.otype = identSeal(e)
    PROVE  Good(v, identityStore, enclave)
<1>1. \A e \in Eid : Waiting(enclave[e]) => Bounds(c[r]) \cap Sections(enclave[e]) = {}
  BY UnsealedApart
<1>2. \A e \in Eid : Respects(v, e, enclave[e])
  BY <1>1 DEF Respects
<1> QED
  BY <1>2 DEF Good, Made

(* Steps that leave memory, store and history alone. *)
LEMMA StoreAndMemoryKept ==
    ASSUME MInv, UNCHANGED <<identityStore, IDCounter, mem, enclave>>
    PROVE  StoreOK' /\ ClaimedReady' /\ Measured'
<1>1. StoreOK' /\ ClaimedReady'
  BY DEF MInv, StoreOK, ClaimedReady
<1>2. Measured'
  BY DEF MInv, Measured, Untouched
<1> QED
  BY <1>1, <1>2

(* Writing such a value to a register keeps the invariant. *)
LEMMA SetCKeeps ==
    ASSUME MInv, NEW r \in Reg, NEW v \in Cap \cup {Null},
           Good(v, identityStore, enclave), SetC(r, v)
    PROVE  MInv'
<1>1. c \in [Reg -> Cap \cup {Null}]
  BY DEF MInv, TypeOK
<1>2. c' = [c EXCEPT ![r] = v] /\ UNCHANGED <<identityStore, IDCounter, scr, mem, hung, enclave>>
  BY DEF SetC
<1>3. c' \in [Reg -> Cap \cup {Null}]
  BY <1>1, <1>2
<1>4. \A q \in Reg : c'[q] = c[q] \/ c'[q] = v
  BY <1>1, <1>2
<1>5. TypeOK'
  BY <1>2, <1>3 DEF MInv, TypeOK
<1>6. Known'
  BY <1>2, <1>4 DEF MInv, Known, Good
<1>7. Isolated'
  BY <1>2, <1>4 DEF MInv, Isolated, Good
<1> QED
  BY <1>2, <1>5, <1>6, <1>7, StoreAndMemoryKept DEF MInv

(* The same for a special register. *)
LEMMA SetScrKeeps ==
    ASSUME MInv, NEW s \in Special, NEW v \in Cap \cup {Null},
           Good(v, identityStore, enclave), SetScr(s, v)
    PROVE  MInv'
<1>1. scr \in [Special -> Cap \cup {Null}]
  BY DEF MInv, TypeOK
<1>2. scr' = [scr EXCEPT ![s] = v] /\ UNCHANGED <<identityStore, IDCounter, c, mem, hung, enclave>>
  BY DEF SetScr
<1>3. scr' \in [Special -> Cap \cup {Null}]
  BY <1>1, <1>2
<1>4. \A q \in Special : scr'[q] = scr[q] \/ scr'[q] = v
  BY <1>1, <1>2
<1>5. TypeOK'
  BY <1>2, <1>3 DEF MInv, TypeOK
<1>6. Known'
  BY <1>2, <1>4 DEF MInv, Known, Good
<1>7. Isolated'
  BY <1>2, <1>4 DEF MInv, Isolated, Good
<1> QED
  BY <1>2, <1>5, <1>6, <1>7, StoreAndMemoryKept DEF MInv

(* A store that touches no waiting enclave's sections keeps Measured. *)
LEMMA MeasuredElsewhere ==
    ASSUME TypeOK, Measured, UNCHANGED <<identityStore, enclave>>,
           \A e \in Eid : Waiting(enclave[e]) =>
              \A g \in Bounds(enclave[e].code) : mem'[g] = mem[g]
    PROVE  Measured'
<1> SUFFICES ASSUME NEW e \in Eid, Untouched(e), ~ enclave[e].ragged,
                    Bounds(enclave[e].code) \cap enclave[e].data = {}
             PROVE  \E idx \in getHashEntry(identityStore, identSeal(e)) :
                       identityStore[idx].hash =
                          [i \in 1 .. enclave[e].code.top - enclave[e].code.base |->
                              mem'[enclave[e].code.base + i - 1]]
  BY DEF Measured, Untouched
<1> DEFINE code == enclave[e].code
           n == code.top - code.base
<1>1. PICK idx \in getHashEntry(identityStore, identSeal(e)) :
          identityStore[idx].hash = [i \in 1 .. n |-> mem[code.base + i - 1]]
  BY DEF Measured
<1>2. \A g \in Bounds(code) : mem'[g] = mem[g]
  BY DEF Untouched, Waiting
<1>3. ASSUME NEW i \in 1 .. n PROVE mem'[code.base + i - 1] = mem[code.base + i - 1]
  <2>1. code \in MemCap
    BY DEF TypeOK
  <2>2. code.kind = "mem" /\ code.base \in Int /\ code.top \in Int
    BY <2>1, MorelloAssumption DEF MemCap
  <2> QED
    BY <1>2, <2>2 DEF Bounds
<1> QED
  BY <1>1, <1>3

(* Storing such a value outside every waiting enclave's sections does too. *)
LEMMA SetMemKeeps ==
    ASSUME MInv, NEW g \in Granule, NEW v \in Cap \cup Word,
           Good(v, identityStore, enclave),
           \A e \in Eid : Waiting(enclave[e]) => g \notin Sections(enclave[e]),
           SetMem(g, v)
    PROVE  MInv'
<1>1. mem \in [Granule -> Cap \cup Word]
  BY DEF MInv, TypeOK
<1>2. mem' = [mem EXCEPT ![g] = v] /\ UNCHANGED <<identityStore, IDCounter, c, scr, hung, enclave>>
  BY DEF SetMem
<1>3. mem' \in [Granule -> Cap \cup Word]
  BY <1>1, <1>2
<1>4. \A q \in Granule : mem'[q] = mem[q] \/ mem'[q] = v
  BY <1>1, <1>2
<1>5. TypeOK'
  BY <1>2, <1>3 DEF MInv, TypeOK
<1>6. Known'
  BY <1>2, <1>4 DEF MInv, Known, Good
<1>7. Isolated'
  BY <1>2, <1>4 DEF MInv, Isolated, Good
<1>8. StoreOK' /\ ClaimedReady'
  BY <1>2 DEF MInv, StoreOK, ClaimedReady
<1>9. Measured'
  <2>1. \A e \in Eid : Waiting(enclave[e]) =>
           \A q \in Bounds(enclave[e].code) : mem'[q] = mem[q]
    BY <1>1, <1>2 DEF Sections
  <2> QED
    BY <1>2, <2>1, MeasuredElsewhere DEF MInv
<1> QED
  BY <1>5, <1>6, <1>7, <1>8, <1>9 DEF MInv

(* The vector's return keeps it, if the result is such a value. *)
LEMMA ReturnKeeps ==
    ASSUME MInv, NEW v \in Cap \cup {Null}, Good(v, identityStore, enclave), Return(v),
           UNCHANGED <<identityStore, IDCounter, mem, enclave>>
    PROVE  MInv'
<1>1. c \in [Reg -> Cap \cup {Null}] /\ "c0" \in Reg /\ "c1" \in Reg
  BY DEF MInv, TypeOK, Reg
<1>2. c' = [c EXCEPT !["c0"] = v, !["c1"] = c["c0"]] /\ UNCHANGED <<scr, hung>>
  BY DEF Return
<1>3. c' \in [Reg -> Cap \cup {Null}]
  BY <1>1, <1>2
<1>4. \A q \in Reg : c'[q] = c[q] \/ c'[q] = v \/ c'[q] = c["c0"]
  BY <1>1, <1>2
<1>5. TypeOK'
  BY <1>2, <1>3 DEF MInv, TypeOK
<1>6. Known'
  BY <1>1, <1>2, <1>4 DEF MInv, Known, Good
<1>7. Isolated'
  BY <1>1, <1>2, <1>4 DEF MInv, Isolated, Good
<1> QED
  BY <1>5, <1>6, <1>7, StoreAndMemoryKept DEF MInv

(* EL2 that hangs leaves everything as it was. *)
LEMMA HangKeeps ==
    ASSUME MInv, Hang, UNCHANGED <<identityStore, IDCounter>>
    PROVE  MInv'
<1>1. hung' = TRUE /\ UNCHANGED <<c, scr, mem, enclave>>
  BY DEF Hang
<1>2. TypeOK'
  BY <1>1 DEF MInv, TypeOK
<1>3. Known' /\ Isolated'
  BY <1>1 DEF MInv, Known, Isolated
<1> QED
  BY <1>1, <1>2, <1>3, StoreAndMemoryKept DEF MInv
-----------------------------------------------------------------------------
(* EL1 software.                                                           *)

(* What an access that does not fault goes through. *)
LEMMA GrantsFacts ==
    ASSUME MInv, NEW r \in Reg, NEW ps, Grants(c[r], ps)
    PROVE  /\ IsCap(c[r]) /\ c[r] \in MemCap /\ c[r].kind = "mem"
           /\ ~ cheri_is_sealed(c[r]) /\ c[r].otype = unsealed
           /\ c[r].top <= Granules /\ Bounds(c[r]) = c[r].base .. c[r].top - 1
           /\ Bounds(c[r]) \subseteq Granule
<1>1. IsCap(c[r]) /\ c[r].kind = "mem" /\ ~ cheri_is_sealed(c[r])
  BY DEF Grants
<1>2. c[r] \in Cap
  BY <1>1, IsCapFacts DEF MInv, TypeOK
<1>3. c[r] \in MemCap
  BY <1>1, <1>2, CapFields
<1>4. c[r].top <= Granules
  BY <1>1 DEF MInv, Known, Made
<1>5. Bounds(c[r]) \subseteq Granule
  BY <1>3, <1>4, MorelloAssumption DEF Bounds, MemCap, Granule
<1> QED
  BY <1>1, <1>3, <1>4, <1>5 DEF Bounds, cheri_is_sealed

(* Moving, clearing and reading back a register. *)
LEMMA MovesKeep ==
    ASSUME MInv, NEW d \in Reg, NEW r \in Reg, NEW s \in Special,
           Move(d, r) \/ ClearTag(d) \/ ReadSpecial(d, s)
    PROVE  MInv'
<1>1. c[r] \in Cap \cup {Null} /\ scr[s] \in Cap \cup {Null}
  BY DEF MInv, TypeOK
<1>2. CASE Move(d, r)
  BY <1>1, <1>2, RegsGood, SetCKeeps DEF Move
<1>3. CASE ClearTag(d)
  <2>1. Good(Null, identityStore, enclave)
    BY IsCapFacts DEF Good
  <2> QED
    BY <1>3, <2>1, SetCKeeps DEF ClearTag
<1>4. CASE ReadSpecial(d, s)
  BY <1>1, <1>4, RegsGood, SetCKeeps DEF ReadSpecial
<1> QED
  BY <1>2, <1>3, <1>4

(* Narrowing an unsealed capability. *)
LEMMA NarrowingKeeps ==
    ASSUME MInv, NEW d \in Reg, NEW r \in Reg, SetBounds(d, r) \/ AndPerm(d, r)
    PROVE  MInv'
<1>1. Grants(c[r], {})
  BY DEF SetBounds, AndPerm
<1>2. /\ IsCap(c[r]) /\ c[r] \in MemCap /\ c[r].kind = "mem"
      /\ ~ cheri_is_sealed(c[r]) /\ c[r].otype = unsealed
      /\ c[r].top <= Granules /\ Bounds(c[r]) = c[r].base .. c[r].top - 1
  BY <1>1, GrantsFacts
<1>3. CASE SetBounds(d, r)
  <2>1. PICK base \in c[r].base .. c[r].top, top \in c[r].base .. c[r].top :
            base < top /\ SetC(d, [c[r] EXCEPT !.base = base, !.top = top])
    BY <1>3 DEF SetBounds
  <2> DEFINE v == [c[r] EXCEPT !.base = base, !.top = top]
  <2>2. v \in MemCap /\ v.kind = "mem" /\ v.base = base /\ v.top = top /\ v.otype = unsealed
    <3>1. base \in 0 .. Granules + 1 /\ top \in 0 .. Granules + 1
      BY <1>2, MorelloAssumption DEF MemCap
    <3> QED
      BY <1>2, <3>1 DEF MemCap
  <2> HIDE DEF v
  <2>3. Bounds(v) \subseteq Bounds(c[r]) /\ v.top <= Granules
    <3>1. c[r].base \in Int /\ c[r].top \in Int /\ Granules \in Int
      BY <1>2, MorelloAssumption DEF MemCap
    <3>2. Bounds(v) = base .. top - 1
      BY <2>2 DEF Bounds
    <3> QED
      BY <1>2, <2>2, <3>1, <3>2
  <2>4. Good(v, identityStore, enclave)
    BY <1>2, <2>2, <2>3, NarrowedGood
  <2> QED
    BY <2>1, <2>2, <2>4, SetCKeeps DEF v, Cap
<1>4. CASE AndPerm(d, r)
  <2>1. PICK perms \in PermSets : SetC(d, [c[r] EXCEPT !.perms = perms])
    BY <1>4 DEF AndPerm
  <2> DEFINE v == [c[r] EXCEPT !.perms = perms]
  <2>2. /\ v \in MemCap /\ v.kind = "mem" /\ v.base = c[r].base /\ v.top = c[r].top
        /\ v.otype = unsealed
    BY <1>2, MorelloAssumption DEF MemCap
  <2> HIDE DEF v
  <2>3. Bounds(v) \subseteq Bounds(c[r]) /\ v.top <= Granules
    BY <1>2, <2>2 DEF Bounds
  <2>4. Good(v, identityStore, enclave)
    BY <1>2, <2>2, <2>3, NarrowedGood
  <2> QED
    BY <2>1, <2>2, <2>4, SetCKeeps DEF v, Cap
<1> QED
  BY <1>3, <1>4

(* Loads and stores. *)
LEMMA AccessesKeep ==
    ASSUME MInv, NEW d \in Reg, NEW r \in Reg, NEW w \in Word,
           LoadCap(d, r) \/ StoreCap(r, d) \/ StoreWord(r, w)
    PROVE  MInv'
<1>1. PICK ps : Grants(c[r], ps)
  BY DEF LoadCap, StoreCap, StoreWord
<1>2. IsCap(c[r]) /\ ~ cheri_is_sealed(c[r])
  BY <1>1, GrantsFacts
<1>3. \A e \in Eid : Waiting(enclave[e]) => Bounds(c[r]) \cap Sections(enclave[e]) = {}
  BY <1>2, UnsealedApart
<1>4. CASE LoadCap(d, r)
  <2>1. PICK g \in Bounds(c[r]) \cap Granule : SetC(d, IF IsCap(mem[g]) THEN mem[g] ELSE Null)
    BY <1>4 DEF LoadCap
  <2> DEFINE v == IF IsCap(mem[g]) THEN mem[g] ELSE Null
  <2>2. Good(mem[g], identityStore, enclave)
    BY <1>3, GranulesGood DEF Sections
  <2>3. Good(v, identityStore, enclave)
    BY <2>2, IsCapFacts DEF Good
  <2>4. v \in Cap \cup {Null}
    BY IsCapFacts DEF MInv, TypeOK
  <2> HIDE DEF v
  <2> QED
    BY <2>1, <2>3, <2>4, SetCKeeps DEF v
<1>5. CASE StoreCap(r, d)
  <2>1. PICK g \in Bounds(c[r]) \cap Granule : SetMem(g, c[d])
    BY <1>5 DEF StoreCap
  <2>2. c[d] \in Cap
    BY <1>5, IsCapFacts DEF StoreCap, MInv, TypeOK
  <2> QED
    BY <1>3, <2>1, <2>2, RegsGood, SetMemKeeps
<1>6. CASE StoreWord(r, w)
  <2>1. PICK g \in Bounds(c[r]) \cap Granule : SetMem(g, w)
    BY <1>6 DEF StoreWord
  <2>2. Good(w, identityStore, enclave)
    BY IsCapFacts DEF Good
  <2> QED
    BY <1>3, <2>1, <2>2, SetMemKeeps
<1> QED
  BY <1>4, <1>5, <1>6

(* A pair is unsealed together: what its seal kept from an enclave that waits
   was the enclave's own, and that enclave is entered now. *)
LEMMA BranchKeeps ==
    ASSUME MInv, NEW r \in Reg, NEW d \in Reg, BranchSealedPair(r, d)
    PROVE  MInv'
<1> DEFINE o == c[r].otype
           x == cheri_unseal(c[r])
           y == cheri_unseal(c[d])
<1>1. /\ IsCap(c[r]) /\ IsCap(c[d]) /\ o # unsealed /\ c[d].otype = o
      /\ scr' = [scr EXCEPT !["CELR_EL2"] = x] /\ c' = [c EXCEPT ![C29] = y]
      /\ enclave' = [enclave EXCEPT ![assignIDFromOtype(o)].entered = TRUE]
      /\ UNCHANGED <<identityStore, IDCounter, mem, hung>>
  BY DEF BranchSealedPair, cheri_is_sealed
<1>2. PICK f \in Eid : o = identSeal(f)
  BY <1>1 DEF MInv, Known, Made
<1>3. assignIDFromOtype(o) = f
  BY <1>2, SealFacts
<1>4. TypeOK
  BY DEF MInv
<1>5. c[r] \in Cap /\ c[d] \in Cap
  BY <1>1, <1>4, IsCapFacts DEF TypeOK
<1>6. /\ x \in Cap /\ x.otype = unsealed /\ x.kind = c[r].kind /\ x.base = c[r].base
      /\ x.top = c[r].top
      /\ y \in Cap /\ y.otype = unsealed /\ y.kind = c[d].kind /\ y.base = c[d].base
      /\ y.top = c[d].top
  BY <1>5, UnsealedOtype, SealOnly
<1>7. \A e \in Eid : /\ enclave'[e].code = enclave[e].code /\ enclave'[e].data = enclave[e].data
                     /\ enclave'[e].ragged = enclave[e].ragged
                     /\ enclave'[e].entered = (e = f \/ enclave[e].entered)
  BY <1>1, <1>3, <1>4 DEF TypeOK
<1>8. enclave' \in [Eid -> [code : MemCap, ragged : BOOLEAN, data : SUBSET Granule,
                            entered : BOOLEAN]]
  BY <1>1, <1>3, <1>4 DEF TypeOK
<1>9. c \in [Reg -> Cap \cup {Null}] /\ scr \in [Special -> Cap \cup {Null}] /\ C29 \in Reg
      /\ "CELR_EL2" \in Special
  BY <1>4, MorelloAssumption DEF TypeOK, Special
<1> HIDE DEF o, x, y
<1>10. /\ c' \in [Reg -> Cap \cup {Null}] /\ scr' \in [Special -> Cap \cup {Null}]
       /\ \A q \in Reg : c'[q] = c[q] \/ c'[q] = y
       /\ \A q \in Special : scr'[q] = scr[q] \/ scr'[q] = x
  BY <1>1, <1>6, <1>9
<1>11. TypeOK'
  BY <1>1, <1>4, <1>8, <1>10 DEF TypeOK
<1>12. \A e \in Eid : \A v : Respects(v, e, enclave[e]) => Respects(v, e, enclave'[e])
  BY <1>7 DEF Respects, Waiting, Sections
<1>13. ASSUME NEW e \in Eid, NEW v, NEW u, Respects(v, e, enclave[e]), v.otype = o,
              u.kind = v.kind, u.base = v.base, u.top = v.top
       PROVE  Respects(u, e, enclave'[e])
  <2>1. Bounds(u) = Bounds(v)
    BY <1>13 DEF Bounds
  <2>2. CASE e = f
    BY <1>7, <2>2 DEF Respects, Waiting
  <2>3. CASE e # f
    <3>1. o # identSeal(e)
      BY <1>2, <2>3, SealFacts
    <3> QED
      BY <1>7, <1>13, <2>1, <2>3, <3>1 DEF Respects, Waiting, Sections
  <2> QED
    BY <2>2, <2>3
<1>14. /\ Made(c[r], identityStore) /\ \A e \in Eid : Respects(c[r], e, enclave[e])
       /\ Made(c[d], identityStore) /\ \A e \in Eid : Respects(c[d], e, enclave[e])
  BY <1>1 DEF MInv, Known, Isolated
<1>15. Made(x, identityStore) /\ \A e \in Eid : Respects(x, e, enclave'[e])
  BY <1>6, <1>13, <1>14 DEF Made, o
<1>16. Made(y, identityStore) /\ \A e \in Eid : Respects(y, e, enclave'[e])
  BY <1>1, <1>6, <1>13, <1>14 DEF Made
<1>17. Known'
  BY <1>1, <1>10, <1>15, <1>16 DEF MInv, Known
<1>18. Isolated'
  <2>1. ASSUME NEW e \in Eid, NEW q \in Reg, IsCap(c'[q]) PROVE Respects(c'[q], e, enclave'[e])
    BY <1>10, <1>12, <1>16, <2>1 DEF MInv, Isolated
  <2>2. ASSUME NEW e \in Eid, NEW s \in Special, IsCap(scr'[s])
        PROVE  Respects(scr'[s], e, enclave'[e])
    BY <1>10, <1>12, <1>15, <2>2 DEF MInv, Isolated
  <2>3. ASSUME NEW e \in Eid, NEW g \in Granule \ enclave'[e].data, IsCap(mem'[g])
        PROVE  Respects(mem'[g], e, enclave'[e])
    <3>1. mem'[g] = mem[g] /\ g \in Granule \ enclave[e].data
      BY <1>1, <1>7
    <3> QED
      BY <1>12, <2>3, <3>1 DEF MInv, Isolated
  <2> QED
    BY <2>1, <2>2, <2>3 DEF Isolated
<1>19. StoreOK' /\ ClaimedReady'
  BY <1>1, <1>7 DEF MInv, StoreOK, ClaimedReady
<1>20. Measured'
  <2> SUFFICES ASSUME NEW e \in Eid, Untouched(e)', ~ enclave'[e].ragged,
                      Bounds(enclave'[e].code) \cap enclave'[e].data = {}
               PROVE  \E idx \in getHashEntry(identityStore', identSeal(e)) :
                         identityStore'[idx].hash =
                            [i \in 1 .. enclave'[e].code.top - enclave'[e].code.base |->
                                mem'[enclave'[e].code.base + i - 1]]
    BY DEF Measured
  <2>1. /\ Untouched(e) /\ enclave'[e].code = enclave[e].code
        /\ enclave'[e].data = enclave[e].data /\ enclave'[e].ragged = enclave[e].ragged
    BY <1>7 DEF Untouched
  <2> QED
    BY <1>1, <2>1 DEF MInv, Measured
<1> QED
  BY <1>11, <1>17, <1>18, <1>19, <1>20 DEF MInv

(* Whatever EL1 software does keeps the invariant. *)
LEMMA SoftwareKeeps == ASSUME MInv, Software PROVE MInv'
<1>1. ASSUME NEW d \in Reg, NEW r \in Reg, Move(d, r) PROVE MInv'
  <2>1. "CELR_EL2" \in Special
    BY DEF Special
  <2> QED
    BY <1>1, <2>1, MovesKeep
<1>2. ASSUME NEW d \in Reg, NEW r \in Reg, SetBounds(d, r) \/ AndPerm(d, r) PROVE MInv'
  BY <1>2, NarrowingKeeps
<1>3. ASSUME NEW d \in Reg, NEW r \in Reg, LoadCap(d, r) \/ StoreCap(r, d) PROVE MInv'
  BY <1>3, AccessesKeep, MorelloAssumption
<1>4. ASSUME NEW r \in Reg, NEW w \in Word, StoreWord(r, w) PROVE MInv'
  BY <1>4, AccessesKeep
<1>5. ASSUME NEW d \in Reg, NEW r \in Reg, BranchSealedPair(r, d) PROVE MInv'
  BY <1>5, BranchKeeps
<1>6. ASSUME NEW r \in Reg, ClearTag(r) PROVE MInv'
  <2>1. "CELR_EL2" \in Special
    BY DEF Special
  <2> QED
    BY <1>6, <2>1, MovesKeep
<1>7. ASSUME NEW r \in Reg, NEW s \in Scr, ReadSpecial(r, s) PROVE MInv'
  <2>1. s \in Special
    BY MorelloAssumption
  <2> QED
    BY <1>7, <2>1, MovesKeep
<1>8. ASSUME NEW r \in Reg, NEW s \in Scr, WriteSpecial(s, r) PROVE MInv'
  <2>1. s \in Special /\ c[r] \in Cap \cup {Null}
    BY MorelloAssumption DEF MInv, TypeOK
  <2> QED
    BY <1>8, <2>1, RegsGood, SetScrKeeps DEF WriteSpecial
<1> QED
  BY <1>1, <1>2, <1>3, <1>4, <1>5, <1>6, <1>7, <1>8 DEF Software
-----------------------------------------------------------------------------
(* The calls.                                                              *)

(* EINIT_CODE: the capability comes back under a seal no enclave has yet. *)
LEMMA EINIT_CODEKeeps == ASSUME MInv, EINIT_CODE PROVE MInv'
<1>1. TypeOK /\ "c0" \in Reg /\ "c1" \in Reg
  BY DEF MInv, Reg
<1>2. Good(Null, identityStore, enclave)
  BY IsCapFacts DEF Good
<1>3. CASE /\ Return(Null)
           /\ UNCHANGED <<identityStore, IDCounter, mem, enclave>>
  BY <1>2, <1>3, ReturnKeeps
<1>4. ASSUME NEW idx \in FreeEntry(identityStore),
             identityStore' = initEntry(identityStore, idx, IDCounter),
             IDCounter' = nextIDCounter(IDCounter),
             Return(IF /\ generateEnclaveID(IDCounter) # Invalid
                       /\ IsCap(c["c0"]) /\ ~ cheri_is_sealed(c["c0"])
                    THEN cheri_seal(c["c0"], identSeal(generateEnclaveID(IDCounter)))
                    ELSE Null),
             UNCHANGED <<mem, enclave>>
      PROVE  MInv'
  <2>1. PICK k \in 0 .. MAX_ENTRIES : FilledTo(k, identityStore, IDCounter)
    BY DEF MInv, StoreOK, Filled
  <2>2. identityStore \in [Idx -> Entry] /\ k \in Int /\ numEnclaveIds \in Nat
    BY <1>1, StoreAssumption DEF TypeOK
  <2>3. /\ k + 1 \in 0 .. MAX_ENTRIES /\ identityStore' \in [Idx -> Entry]
        /\ FilledTo(k + 1, identityStore', IDCounter')
    BY <1>4, <2>1, <2>2, InitEntryFills
  <2>4. \A i \in Idx : /\ identityStore'[i].ready = identityStore[i].ready
                       /\ identityStore'[i].hash = identityStore[i].hash
    BY <1>4, <2>1, <2>2, InitEntryFills
  <2>5. generateEnclaveID(IDCounter) # Invalid => generateEnclaveID(IDCounter) \in Eid
    <3>1. generateEnclaveID(IDCounter) = IF k < numEnclaveIds THEN k + 1 ELSE Invalid
      BY <1>4, <2>1, <2>2, InitEntryFills
    <3> QED
      BY <2>2, <3>1 DEF Eid
  <2>6. StoreOK'
    BY <2>3 DEF StoreOK, Filled
  <2>7. \A e \in Eid : Ready(identityStore', e) <=> Ready(identityStore, e)
    BY <2>4 DEF Ready
  <2>8. \A v : Made(v, identityStore) => Made(v, identityStore')
    BY <2>7 DEF Made
  <2> DEFINE v == IF /\ generateEnclaveID(IDCounter) # Invalid
                     /\ IsCap(c["c0"]) /\ ~ cheri_is_sealed(c["c0"])
                  THEN cheri_seal(c["c0"], identSeal(generateEnclaveID(IDCounter)))
                  ELSE Null
  <2>9. v \in Cap \cup {Null} /\ Good(v, identityStore, enclave)
    <3>1. CASE v = Null
      BY <1>2, <3>1
    <3>2. CASE v # Null
      <4> DEFINE id == generateEnclaveID(IDCounter)
                 w == cheri_seal(c["c0"], identSeal(id))
      <4>1. id \in Eid /\ IsCap(c["c0"]) /\ ~ cheri_is_sealed(c["c0"]) /\ v = w
        BY <2>5, <3>2
      <4>2. c["c0"] \in Cap /\ identSeal(id) \in Otype
        BY <1>1, <4>1, IsCapFacts, SealFacts DEF TypeOK
      <4>3. /\ w \in Cap /\ w.otype = identSeal(id)
            /\ w.kind = c["c0"].kind /\ w.base = c["c0"].base /\ w.top = c["c0"].top
        BY <4>2, SealOnly
      <4> HIDE DEF id, w, v
      <4>4. Bounds(w) = Bounds(c["c0"])
        BY <4>3 DEF Bounds
      <4>5. \A e \in Eid : Waiting(enclave[e]) => Bounds(w) \cap Sections(enclave[e]) = {}
        BY <1>1, <4>1, <4>4, UnsealedApart
      <4>6. Made(c["c0"], identityStore) /\ \A e \in Eid : Respects(c["c0"], e, enclave[e])
        BY <1>1, <4>1 DEF MInv, Known, Isolated
      <4>7. Made(w, identityStore)
        BY <4>1, <4>3, <4>6 DEF Made
      <4>8. \A e \in Eid : Respects(w, e, enclave[e])
        BY <4>3, <4>5, <4>6 DEF Respects
      <4> QED
        BY <4>1, <4>3, <4>7, <4>8 DEF Good
    <3> QED
      BY <3>1, <3>2
  <2>10. Return(v)
    BY <1>4
  <2> HIDE DEF v
  <2>11. /\ c' \in [Reg -> Cap \cup {Null}] /\ UNCHANGED <<scr, hung>>
         /\ \A q \in Reg : c'[q] = c[q] \/ c'[q] = v \/ c'[q] = c["c0"]
    BY <1>1, <2>9, <2>10 DEF Return, TypeOK
  <2>12. TypeOK'
    <3>1. IDCounter' \in initIDCounter .. numEnclaveIds + 1
      BY <2>2, <2>3, StoreAssumption DEF FilledTo, initIDCounter
    <3> QED
      BY <1>1, <1>4, <2>3, <2>11, <3>1 DEF TypeOK
  <2>13. Known'
    BY <1>1, <1>4, <2>8, <2>9, <2>11 DEF MInv, Known, Good
  <2>14. Isolated'
    BY <1>1, <1>4, <2>9, <2>11 DEF MInv, Isolated, Good
  <2>15. ClaimedReady'
    BY <1>4, <2>7 DEF MInv, ClaimedReady
  <2>16. Measured'
    <3>1. \A e \in Eid : getHashEntry(identityStore', identSeal(e))
                            = getHashEntry(identityStore, identSeal(e))
      <4> SUFFICES ASSUME NEW e \in Eid
                   PROVE  \A i : i \in getHashEntry(identityStore', identSeal(e))
                                   <=> i \in getHashEntry(identityStore, identSeal(e))
        OBVIOUS
      <4> TAKE i
      <4>1. identSeal(e) \in Otype
        BY SealFacts
      <4>2. i \in getHashEntry(identityStore', identSeal(e)) <=>
               /\ i \in Idx /\ i = assignIDFromOtype(identSeal(e)) - 1
               /\ identityStore'[i].ready
        BY <2>3, <4>1, Searches
      <4>3. i \in getHashEntry(identityStore, identSeal(e)) <=>
               /\ i \in Idx /\ i = assignIDFromOtype(identSeal(e)) - 1
               /\ identityStore[i].ready
        BY <2>1, <2>2, <4>1, Searches
      <4> QED
        BY <2>4, <4>2, <4>3
    <3>2. \A e \in Eid : getHashEntry(identityStore, identSeal(e)) \subseteq Idx
      BY DEF getHashEntry, First
    <3> SUFFICES ASSUME NEW e \in Eid, Untouched(e), ~ enclave[e].ragged,
                        Bounds(enclave[e].code) \cap enclave[e].data = {}
                 PROVE  \E j \in getHashEntry(identityStore', identSeal(e)) :
                           identityStore'[j].hash =
                              [i \in 1 .. enclave[e].code.top - enclave[e].code.base |->
                                  mem[enclave[e].code.base + i - 1]]
      BY <1>4 DEF Measured, Untouched
    <3>3. PICK j \in getHashEntry(identityStore, identSeal(e)) :
             identityStore[j].hash =
                [i \in 1 .. enclave[e].code.top - enclave[e].code.base |->
                    mem[enclave[e].code.base + i - 1]]
      BY DEF MInv, Measured
    <3> QED
      BY <2>4, <3>1, <3>2, <3>3
  <2> QED
    BY <2>6, <2>12, <2>13, <2>14, <2>15, <2>16 DEF MInv
<1> QED
  BY <1>3, <1>4 DEF EINIT_CODE

(* ESTORE_ID writes through a capability its caller holds unsealed. *)
LEMMA ESTORE_IDKeeps == ASSUME MInv, ESTORE_ID PROVE MInv'
<1>1. TypeOK /\ "c0" \in Reg /\ "c1" \in Reg
  BY DEF MInv, Reg
<1>2. UNCHANGED <<identityStore, IDCounter, enclave>>
  BY DEF ESTORE_ID
<1>3. Good(Null, identityStore, enclave)
  BY IsCapFacts DEF Good
<1>4. CASE Return(Null) /\ UNCHANGED mem
  BY <1>2, <1>3, <1>4, ReturnKeeps
<1>5. CASE Hang
  BY <1>2, <1>5, HangKeeps
<1>6. ASSUME NEW memHash_cap \in Bits(c["c1"]), NEW written \in SUBSET Bounds(memHash_cap),
             Grants(c["c1"], {"store"}),
             mem' = [g \in Granule |-> IF g \in written THEN HashWord ELSE mem[g]],
             Return(Null)
      PROVE  MInv'
  <2>1. IsCap(c["c1"]) /\ ~ cheri_is_sealed(c["c1"])
    BY <1>1, <1>6, GrantsFacts
  <2>2. memHash_cap = c["c1"]
    BY <2>1 DEF Bits
  <2>3. \A e \in Eid : Waiting(enclave[e]) => written \cap Sections(enclave[e]) = {}
    BY <1>1, <2>1, <2>2, UnsealedApart
  <2>4. mem \in [Granule -> Cap \cup Word] /\ HashWord \in Word /\ ~ IsCap(HashWord)
    BY <1>1, MorelloAssumption, IsCapFacts DEF TypeOK
  <2>5. /\ mem' \in [Granule -> Cap \cup Word]
        /\ \A g \in Granule : mem'[g] = mem[g] \/ ~ IsCap(mem'[g])
        /\ \A g \in Granule : g \notin written => mem'[g] = mem[g]
    BY <1>6, <2>4
  <2>6. /\ c' \in [Reg -> Cap \cup {Null}] /\ UNCHANGED <<scr, hung>>
        /\ \A q \in Reg : c'[q] = c[q] \/ c'[q] = Null \/ c'[q] = c["c0"]
    BY <1>1, <1>6 DEF Return, TypeOK
  <2>7. TypeOK'
    BY <1>1, <1>2, <2>5, <2>6 DEF TypeOK
  <2>8. Known'
    BY <1>1, <1>2, <2>5, <2>6, IsCapFacts DEF MInv, Known
  <2>9. Isolated'
    BY <1>1, <1>2, <2>5, <2>6, IsCapFacts DEF MInv, Isolated
  <2>10. StoreOK' /\ ClaimedReady'
    BY <1>2 DEF MInv, StoreOK, ClaimedReady
  <2>11. Measured'
    <3>1. ASSUME NEW e \in Eid, Waiting(enclave[e]), NEW g \in Bounds(enclave[e].code)
          PROVE  mem'[g] = mem[g]
      <4>1. enclave[e].code \in MemCap /\ enclave[e].code.top <= Granules
        BY <1>1, <3>1 DEF TypeOK, MInv, ClaimedReady, Waiting
      <4>2. g \in Granule
        BY <4>1, MorelloAssumption DEF MemCap, Bounds, Granule
      <4> QED
        BY <2>3, <2>5, <3>1, <4>2 DEF Sections
    <3> QED
      BY <1>1, <1>2, <3>1, MeasuredElsewhere DEF MInv
  <2> QED
    BY <2>7, <2>8, <2>9, <2>10, <2>11 DEF MInv
<1> QED
  BY <1>4, <1>5, <1>6 DEF ESTORE_ID

(* EINIT_DATA, first half: what finishing an entry does to the store. *)
LEMMA FinishStore ==
    ASSUME MInv, NEW otype \in Otype, NEW idx \in Unfinished(identityStore, otype),
           NEW hash \in Hash, NEW id, id = assignIDFromOtype(otype),
           identityStore' = finishEntry(identityStore, idx, hash), UNCHANGED IDCounter
    PROVE  /\ id \in Eid /\ idx \in Idx /\ enclave[id].data = {}
           /\ identityStore' \in [Idx -> Entry] /\ StoreOK'
           /\ ~ Ready(identityStore, id) /\ Ready(identityStore', id)
           /\ \A e \in Eid : Ready(identityStore, e) => Ready(identityStore', e)
           /\ \A v : Made(v, identityStore) => Made(v, identityStore')
           /\ idx \in getHashEntry(identityStore', identSeal(id))
           /\ identityStore'[idx].hash = hash
           /\ \A e \in Eid \ {id} : \A i \in getHashEntry(identityStore, identSeal(e)) :
                 /\ i \in getHashEntry(identityStore', identSeal(e))
                 /\ identityStore'[i].hash = identityStore[i].hash
<1>1. PICK k \in 0 .. MAX_ENTRIES : FilledTo(k, identityStore, IDCounter)
  BY DEF MInv, StoreOK, Filled
<1>2. /\ identityStore \in [Idx -> Entry] /\ k \in Int /\ numEnclaveIds \in Nat
      /\ MAX_ENTRIES \in Nat
  BY StoreAssumption DEF MInv, TypeOK
<1>3. /\ idx \in Idx /\ idx = id - 1 /\ idx < k /\ idx < numEnclaveIds
      /\ ~ identityStore[idx].ready
  BY <1>1, <1>2, Searches
<1>4. id \in Nat
  BY StoreAssumption DEF Otype, assignIDFromOtype
<1>5. id \in Eid
  BY <1>2, <1>3, <1>4 DEF Eid, Idx
<1>6. /\ identityStore' \in [Idx -> Entry] /\ FilledTo(k, identityStore', IDCounter)
      /\ identityStore'[idx].ready /\ identityStore'[idx].hash = hash
      /\ \A i \in Idx : i # idx => identityStore'[i] = identityStore[i]
  BY <1>1, <1>2, <1>3, FinishFills
<1>7. StoreOK'
  BY <1>6 DEF StoreOK, Filled
<1>8. ~ Ready(identityStore, id) /\ Ready(identityStore', id)
  BY <1>3, <1>6 DEF Ready
<1>9. enclave[id].data = {}
  BY <1>5, <1>8 DEF MInv, ClaimedReady
<1>10. \A e \in Eid : Ready(identityStore, e) => Ready(identityStore', e)
  BY <1>6 DEF Ready
<1>11. \A v : Made(v, identityStore) => Made(v, identityStore')
  BY <1>10 DEF Made
<1>12. idx \in getHashEntry(identityStore', identSeal(id))
  <2>1. identSeal(id) \in Otype /\ assignIDFromOtype(identSeal(id)) = id
    BY <1>5, SealFacts
  <2>2. \A i : i \in getHashEntry(identityStore', identSeal(id)) <=>
                  i \in Idx /\ i = id - 1 /\ identityStore'[i].ready
    BY <1>6, <2>1, Searches
  <2> QED
    BY <1>3, <1>6, <2>2
<1>13. ASSUME NEW e \in Eid \ {id}, NEW i \in getHashEntry(identityStore, identSeal(e))
       PROVE  /\ i \in getHashEntry(identityStore', identSeal(e))
              /\ identityStore'[i].hash = identityStore[i].hash
  <2>1. identSeal(e) \in Otype /\ assignIDFromOtype(identSeal(e)) = e /\ e \in Int
    BY SealFacts
  <2>2. i \in Idx /\ i = e - 1 /\ identityStore[i].ready
    BY <1>1, <1>2, <2>1, Searches
  <2>3. i # idx
    BY <1>3, <1>4, <2>1, <2>2
  <2>4. identityStore'[i] = identityStore[i]
    BY <1>6, <2>2, <2>3
  <2>5. i \in getHashEntry(identityStore', identSeal(e)) <=>
                  i \in Idx /\ i = e - 1 /\ identityStore'[i].ready
    BY <1>6, <2>1, Searches
  <2> QED
    BY <2>2, <2>4, <2>5
<1> QED
  BY <1>3, <1>5, <1>6, <1>7, <1>8, <1>9, <1>10, <1>11, <1>12, <1>13

(* The operands of EINIT_DATA. *)
LEMMA OperandFacts ==
    ASSUME MInv, NEW r \in Reg, NEW cap \in Bits(c[r])
    PROVE  /\ cap \in Cap /\ cap.otype \in Otype
           /\ IsCap(c[r]) => cap = c[r]
<1>1. cap \in Cap
  BY MorelloAssumption, IsCapFacts DEF Bits, MInv, TypeOK, Cap
<1> QED
  BY <1>1, CapFields DEF Bits

(* Code that was read lies in the arena, and what was hashed are words. *)
LEMMA HashIsHash ==
    ASSUME MInv, NEW code_cap \in Bits(c["c0"]), NEW ragged \in BOOLEAN, NEW atBase, NEW id,
           Loads(code_cap, ragged) => Readable(code_cap, id, atBase),
           codeCap_sweep(code_cap, ragged)
    PROVE  generateHash(code_cap, ragged) \subseteq Hash
<1>1. CASE ragged
  BY <1>1 DEF generateHash
<1>2. CASE ~ ragged
  <2> DEFINE n == code_cap.top - code_cap.base
             h == [i \in 1 .. n |-> mem[code_cap.base + i - 1]]
  <2>1. IsCap(c["c0"]) /\ code_cap.kind = "mem" /\ Bounds(code_cap) # {}
    BY <1>2 DEF Loads, Readable
  <2>2. "c0" \in Reg
    BY DEF Reg
  <2>3. code_cap \in Cap /\ code_cap = c["c0"]
    BY <2>1, <2>2, OperandFacts
  <2>4. code_cap \in MemCap
    BY <2>1, <2>3, CapFields
  <2>5. code_cap.top <= Granules
    BY <2>1, <2>2, <2>3 DEF MInv, Known, Made
  <2>6. /\ code_cap.base \in Nat /\ code_cap.top \in Nat /\ Granules \in Nat
        /\ Bounds(code_cap) = code_cap.base .. code_cap.top - 1
    BY <2>1, <2>4, MorelloAssumption DEF MemCap, Bounds
  <2>7. n \in 0 .. Granules
    BY <2>1, <2>5, <2>6
  <2>8. ASSUME NEW i \in 1 .. n PROVE mem[code_cap.base + i - 1] \in Word
    <3>1. code_cap.base + i - 1 \in Bounds(code_cap) \cap Granule
      BY <2>5, <2>6 DEF Granule
    <3>2. ~ IsCap(mem[code_cap.base + i - 1])
      BY <1>2, <3>1 DEF codeCap_sweep, Whole
    <3>3. mem[code_cap.base + i - 1] \in Cap \cup Word
      BY <3>1 DEF MInv, TypeOK
    <3> QED
      BY <3>2, <3>3, IsCapFacts
  <2>9. h \in [1 .. n -> Word]
    BY <2>8
  <2> HIDE DEF n
  <2>10. h \in Hash
    BY <2>7, <2>9, HashAssumption
  <2> QED
    BY <1>2, <2>10 DEF generateHash, n
<1> QED
  BY <1>1, <1>2

(* The sweep: what passes check_reg reaches neither section. *)
LEMMA CheckRegApart ==
    ASSUME NEW code_cap \in Cap, NEW data_cap \in Cap, NEW v \in Cap,
           check_reg(code_cap, data_cap, v)
    PROVE  Bounds(v) \cap (Bounds(code_cap) \cup Bounds(data_cap)) = {}
<1>1. bounds_nonoverlap_check_twocap(code_cap, data_cap, v)
  BY IsCapFacts DEF check_reg
<1>2. ASSUME NEW s \in Cap, s.kind # v.kind \/ s.top <= v.base \/ s.base >= v.top
      PROVE  Bounds(v) \cap Bounds(s) = {}
  <2>1. s.base \in Int /\ s.top \in Int /\ v.base \in Int /\ v.top \in Int
    BY CapFields
  <2> QED
    BY <1>2, <2>1 DEF Bounds
<1> QED
  BY <1>1, <1>2 DEF bounds_nonoverlap_check_twocap

(* Measured for the enclaves a finished entry does not belong to. *)
LEMMA MeasuredOthers ==
    ASSUME MInv, NEW id \in Eid, NEW e \in Eid \ {id}, Untouched(e), ~ enclave[e].ragged,
           Bounds(enclave[e].code) \cap enclave[e].data = {},
           \A i \in getHashEntry(identityStore, identSeal(e)) :
              /\ i \in getHashEntry(identityStore', identSeal(e))
              /\ identityStore'[i].hash = identityStore[i].hash,
           \A g \in Bounds(enclave[e].code) : mem'[g] = mem[g]
    PROVE  \E idx \in getHashEntry(identityStore', identSeal(e)) :
              identityStore'[idx].hash =
                 [i \in 1 .. enclave[e].code.top - enclave[e].code.base |->
                     mem'[enclave[e].code.base + i - 1]]
<1> DEFINE code == enclave[e].code
           n == code.top - code.base
<1>1. PICK idx \in getHashEntry(identityStore, identSeal(e)) :
          identityStore[idx].hash = [i \in 1 .. n |-> mem[code.base + i - 1]]
  BY DEF MInv, Measured
<1>2. code.kind = "mem" /\ code.base \in Int /\ code.top \in Int
  <2>1. code \in MemCap
    BY DEF MInv, TypeOK
  <2> QED
    BY <2>1, MorelloAssumption DEF MemCap
<1>3. ASSUME NEW i \in 1 .. n PROVE mem'[code.base + i - 1] = mem[code.base + i - 1]
  BY <1>2 DEF Bounds
<1>4. [i \in 1 .. n |-> mem'[code.base + i - 1]] = [i \in 1 .. n |-> mem[code.base + i - 1]]
  BY <1>3
<1> HIDE DEF n, code
<1>5. identityStore'[idx].hash = [i \in 1 .. n |-> mem'[code.base + i - 1]]
  BY <1>1, <1>4
<1> QED
  BY <1>1, <1>5 DEF n, code

(* EINIT_DATA that faults on the store of the keys: the entry is ready and
   nobody has its key. *)
LEMMA FinishHangKeeps ==
    ASSUME MInv, NEW otype \in Otype, NEW idx \in Unfinished(identityStore, otype),
           NEW hash \in Hash,
           identityStore' = finishEntry(identityStore, idx, hash), UNCHANGED IDCounter,
           Hang
    PROVE  MInv'
<1> DEFINE id == assignIDFromOtype(otype)
<1>1. hung' = TRUE /\ UNCHANGED <<c, scr, mem, enclave>>
  BY DEF Hang
<1>2. /\ id \in Eid /\ enclave[id].data = {}
      /\ identityStore' \in [Idx -> Entry] /\ StoreOK'
      /\ \A e \in Eid : Ready(identityStore, e) => Ready(identityStore', e)
      /\ \A v : Made(v, identityStore) => Made(v, identityStore')
      /\ \A e \in Eid \ {id} : \A i \in getHashEntry(identityStore, identSeal(e)) :
            /\ i \in getHashEntry(identityStore', identSeal(e))
            /\ identityStore'[i].hash = identityStore[i].hash
  BY FinishStore
<1> HIDE DEF id
<1>3. TypeOK'
  BY <1>1, <1>2 DEF MInv, TypeOK
<1>4. Known' /\ Isolated'
  BY <1>1, <1>2 DEF MInv, Known, Isolated
<1>5. ClaimedReady'
  BY <1>1, <1>2 DEF MInv, ClaimedReady
<1>6. Measured'
  <2> SUFFICES ASSUME NEW e \in Eid, Untouched(e), ~ enclave[e].ragged,
                      Bounds(enclave[e].code) \cap enclave[e].data = {}
               PROVE  \E i \in getHashEntry(identityStore', identSeal(e)) :
                         identityStore'[i].hash =
                            [j \in 1 .. enclave[e].code.top - enclave[e].code.base |->
                                mem'[enclave[e].code.base + j - 1]]
    BY <1>1 DEF Measured, Untouched
  <2>1. e # id
    BY <1>2 DEF Untouched
  <2> QED
    BY <1>1, <1>2, <2>1, MeasuredOthers
<1> QED
  BY <1>2, <1>3, <1>4, <1>5, <1>6 DEF MInv

(* The key signEncSeal makes is a capability of its id that reaches no
   memory. *)
LEMMA KeyFacts ==
    ASSUME NEW id \in Eid, NEW store, Ready(store, id)
    PROVE  /\ signEncSeal(id) \in Cap /\ Made(signEncSeal(id), store)
           /\ \A e \in Eid \ {id} : \A rec : Respects(signEncSeal(id), e, rec)
<1> DEFINE key == signEncSeal(id)
<1>1. /\ key.kind = "key" /\ key.base = signSeal(id) /\ key.otype = unsealed
      /\ key \in KeyCap
  BY SealFacts, UnsealedOtype DEF signEncSeal, KeyCap
<1> HIDE DEF key
<1>2. Bounds(key) = {}
  BY <1>1 DEF Bounds
<1>3. Made(key, store)
  BY <1>1 DEF Made
<1>4. ASSUME NEW e \in Eid \ {id}, NEW rec PROVE Respects(key, e, rec)
  BY <1>1, <1>2, SealFacts DEF Respects
<1> QED
  BY <1>1, <1>3, <1>4 DEF key, Cap

(* What a successful EINIT_DATA claims lies within its two operands. *)
LEMMA ClaimFacts ==
    ASSUME MInv, NEW code_cap \in Bits(c["c0"]), NEW data_cap \in Bits(c["c1"]),
           NEW ragged \in BOOLEAN, NEW id \in Eid, Grants(c["c1"], {"store"}),
           Claim(id, code_cap, ragged, data_cap)
    PROVE  /\ data_cap = c["c1"] /\ data_cap \in MemCap /\ data_cap.otype = unsealed
           /\ data_cap.top <= Granules
           /\ Bounds(data_cap) \subseteq Granule
           /\ enclave' \in [Eid -> [code : MemCap, ragged : BOOLEAN, data : SUBSET Granule,
                                    entered : BOOLEAN]]
           /\ \A e \in Eid \ {id} : enclave'[e] = enclave[e]
           /\ enclave'[id].data = Bounds(data_cap)
           /\ enclave'[id].ragged = ragged
           /\ ~ enclave'[id].entered
           /\ Sections(enclave'[id]) \subseteq Bounds(code_cap) \cup Bounds(data_cap)
           /\ enclave'[id].code.top <= Granules
           /\ IsCap(c["c0"]) /\ code_cap.kind = "mem" =>
                 /\ enclave'[id].code.base = code_cap.base
                 /\ enclave'[id].code.top = code_cap.top
<1>1. TypeOK /\ "c0" \in Reg /\ "c1" \in Reg /\ code_cap \in Cap
  BY OperandFacts DEF MInv, Reg
<1>2. /\ data_cap = c["c1"] /\ data_cap \in MemCap /\ data_cap.otype = unsealed
      /\ Bounds(data_cap) \subseteq Granule /\ data_cap.top <= Granules
  <2>1. IsCap(c["c1"]) /\ c["c1"] \in MemCap /\ c["c1"].otype = unsealed
        /\ Bounds(c["c1"]) \subseteq Granule /\ c["c1"].top <= Granules
    BY <1>1, GrantsFacts
  <2> QED
    BY <1>1, <2>1, OperandFacts
<1> DEFINE code == IF IsCap(c["c0"]) /\ code_cap.kind = "mem"
                   THEN cheri_unseal(code_cap) ELSE NoEnclave.code
           data == Bounds(data_cap) \cap Granule
<1>3. /\ code \in MemCap /\ code.top <= Granules
      /\ Bounds(code) \subseteq Bounds(code_cap)
      /\ IsCap(c["c0"]) /\ code_cap.kind = "mem" =>
            code.base = code_cap.base /\ code.top = code_cap.top
  <2>1. CASE IsCap(c["c0"]) /\ code_cap.kind = "mem"
    <3>1. code = cheri_seal(code_cap, unsealed)
      BY <1>1, <2>1, SealOnly, UnsealedOtype
    <3>2. /\ code \in MemCap /\ code.kind = "mem"
          /\ code.base = code_cap.base /\ code.top = code_cap.top
      BY <1>1, <2>1, <3>1, SealOnly, UnsealedOtype
    <3>3. code_cap.top <= Granules
      <4>1. code_cap = c["c0"]
        BY <1>1, <2>1, OperandFacts
      <4> QED
        BY <1>1, <2>1, <4>1 DEF MInv, Known, Made
    <3> HIDE DEF code
    <3> QED
      BY <2>1, <3>2, <3>3 DEF Bounds
  <2>2. CASE ~ (IsCap(c["c0"]) /\ code_cap.kind = "mem")
    <3>1. code = MemCapOf(0, 0, FullPerms)
      BY <2>2 DEF NoEnclave
    <3>2. MemCapOf(0, 0, FullPerms) \in MemCap
      BY MorelloAssumption, UnsealedOtype DEF MemCapOf, MemCap
    <3>3. /\ MemCapOf(0, 0, FullPerms).top <= Granules
          /\ Bounds(MemCapOf(0, 0, FullPerms)) = {}
      BY MorelloAssumption DEF MemCapOf, Bounds
    <3> HIDE DEF code
    <3> QED
      BY <2>2, <3>1, <3>2, <3>3
  <2> QED
    BY <2>1, <2>2
<1>4. enclave' = [enclave EXCEPT ![id] = [code |-> code, ragged |-> ragged, data |-> data,
                                          entered |-> FALSE]]
  BY DEF Claim
<1>5. data = Bounds(data_cap) /\ data \in SUBSET Granule
  BY <1>2
<1> HIDE DEF code, data
<1>6. /\ enclave'[id] = [code |-> code, ragged |-> ragged, data |-> data, entered |-> FALSE]
      /\ \A e \in Eid \ {id} : enclave'[e] = enclave[e]
      /\ enclave' \in [Eid -> [code : MemCap, ragged : BOOLEAN, data : SUBSET Granule,
                               entered : BOOLEAN]]
  BY <1>1, <1>3, <1>4, <1>5 DEF TypeOK
<1>7. /\ enclave'[id].code = code /\ enclave'[id].data = data
      /\ enclave'[id].ragged = ragged /\ enclave'[id].entered = FALSE
  BY <1>6
<1>8. Sections(enclave'[id]) \subseteq Bounds(code_cap) \cup Bounds(data_cap)
  BY <1>3, <1>5, <1>7 DEF Sections
<1> QED
  BY <1>2, <1>3, <1>5, <1>6, <1>7, <1>8

(* EINIT_DATA that succeeds: whatever reaches a section afterwards, outside
   the data section, carries the enclave's seal, and the only key is where it
   was stored. *)
LEMMA FinishKeeps ==
    ASSUME MInv, NEW code_cap \in Bits(c["c0"]), NEW data_cap \in Bits(c["c1"]),
           NEW atBase, NEW ragged \in BOOLEAN, NEW id, id = assignIDFromOtype(code_cap.otype),
           NEW idx \in Unfinished(identityStore, code_cap.otype),
           Loads(code_cap, ragged) => Readable(code_cap, id, atBase),
           sweep(code_cap, data_cap, ragged),
           NEW hash \in generateHash(code_cap, ragged),
           identityStore' = finishEntry(identityStore, idx, hash), UNCHANGED IDCounter,
           Grants(c["c1"], {"store"}),
           NEW g \in Bounds(data_cap), mem' = [mem EXCEPT ![g] = signEncSeal(id)],
           Return(cheri_seal(data_cap, identSeal(id))),
           Claim(id, code_cap, ragged, data_cap)
    PROVE  MInv'
<1>1. /\ TypeOK /\ "c0" \in Reg /\ "c1" \in Reg /\ code_cap \in Cap /\ data_cap \in Cap
      /\ code_cap.otype \in Otype
  BY OperandFacts DEF MInv, Reg
<1>2. hash \in Hash
  BY HashIsHash DEF sweep
<1>3. /\ id \in Eid /\ enclave[id].data = {}
      /\ identityStore' \in [Idx -> Entry] /\ StoreOK'
      /\ ~ Ready(identityStore, id) /\ Ready(identityStore', id)
      /\ \A e \in Eid : Ready(identityStore, e) => Ready(identityStore', e)
      /\ \A v : Made(v, identityStore) => Made(v, identityStore')
      /\ idx \in getHashEntry(identityStore', identSeal(id))
      /\ identityStore'[idx].hash = hash
      /\ \A e \in Eid \ {id} : \A i \in getHashEntry(identityStore, identSeal(e)) :
            /\ i \in getHashEntry(identityStore', identSeal(e))
            /\ identityStore'[i].hash = identityStore[i].hash
  BY <1>1, <1>2, FinishStore
<1>4. /\ data_cap = c["c1"] /\ data_cap \in MemCap /\ data_cap.otype = unsealed
      /\ data_cap.top <= Granules
      /\ Bounds(data_cap) \subseteq Granule
      /\ enclave' \in [Eid -> [code : MemCap, ragged : BOOLEAN, data : SUBSET Granule,
                               entered : BOOLEAN]]
      /\ \A e \in Eid \ {id} : enclave'[e] = enclave[e]
      /\ enclave'[id].data = Bounds(data_cap)
      /\ enclave'[id].ragged = ragged
      /\ ~ enclave'[id].entered
      /\ Sections(enclave'[id]) \subseteq Bounds(code_cap) \cup Bounds(data_cap)
      /\ enclave'[id].code.top <= Granules
      /\ IsCap(c["c0"]) /\ code_cap.kind = "mem" =>
            /\ enclave'[id].code.base = code_cap.base
            /\ enclave'[id].code.top = code_cap.top
  BY <1>3, ClaimFacts
<1> DEFINE d == cheri_seal(data_cap, identSeal(id))
           key == signEncSeal(id)
<1>5. /\ d \in Cap /\ d.kind = "mem" /\ d.otype = identSeal(id)
      /\ d.base = data_cap.base /\ d.top = data_cap.top
  <2>1. identSeal(id) \in Otype /\ data_cap.kind = "mem"
    BY <1>3, <1>4, SealFacts DEF MemCap
  <2> QED
    BY <1>1, <2>1, SealOnly
<1>6. key \in Cap /\ Made(key, identityStore')
      /\ \A e \in Eid \ {id} : \A rec : Respects(key, e, rec)
  BY <1>3, KeyFacts
<1> HIDE DEF d, key
<1>7. /\ c' \in [Reg -> Cap \cup {Null}] /\ UNCHANGED <<scr, hung>>
      /\ c'["c0"] = d /\ c'["c1"] = c["c0"]
      /\ \A q \in Reg \ {"c0", "c1"} : c'[q] = c[q]
  BY <1>1, <1>5 DEF Return, TypeOK, d
<1>8. /\ mem' \in [Granule -> Cap \cup Word] /\ g \in Granule /\ mem'[g] = key
      /\ \A q \in Granule \ {g} : mem'[q] = mem[q]
  BY <1>1, <1>4, <1>6 DEF TypeOK, key
<1>9. TypeOK'
  BY <1>1, <1>3, <1>4, <1>7, <1>8 DEF TypeOK
<1>10. Made(d, identityStore')
  BY <1>3, <1>4, <1>5 DEF Made
<1>11. Known'
  <2>1. ASSUME NEW q \in Reg, IsCap(c'[q]) PROVE Made(c'[q], identityStore')
    BY <1>1, <1>3, <1>7, <1>10, <2>1 DEF MInv, Known
  <2>2. ASSUME NEW s \in Special, IsCap(scr'[s])
        PROVE  scr'[s] = OsCap \/ Made(scr'[s], identityStore')
    BY <1>3, <1>7, <2>2 DEF MInv, Known
  <2>3. ASSUME NEW q \in Granule, IsCap(mem'[q]) PROVE Made(mem'[q], identityStore')
    BY <1>3, <1>6, <1>8, <2>3 DEF MInv, Known
  <2> QED
    BY <2>1, <2>2, <2>3 DEF Known
<1>12. ASSUME NEW v, Made(v, identityStore) \/ v = OsCap
       PROVE  ~ (v.kind = "key" /\ v.base = signSeal(id))
  <2>1. OsCap.kind = "mem"
    BY DEF OsCap, MemCapOf
  <2> QED
    BY <1>3, <1>12, <2>1, SealFacts DEF Made
<1>13. ASSUME NEW v \in Cap, check_reg(code_cap, data_cap, v),
              Made(v, identityStore) \/ v = OsCap
       PROVE  Respects(v, id, enclave'[id])
  <2>1. Bounds(v) \cap Sections(enclave'[id]) = {}
    BY <1>1, <1>4, <1>13, CheckRegApart
  <2> QED
    BY <1>12, <1>13, <2>1 DEF Respects
<1>14. \A e \in Eid \ {id} : Waiting(enclave[e])
          => Bounds(data_cap) \cap Sections(enclave[e]) = {}
  BY <1>1, <1>4, UnsealedApart DEF Grants
<1>15. ASSUME NEW e \in Eid PROVE Respects(d, e, enclave'[e])
  <2>1. Bounds(d) = Bounds(data_cap)
    BY <1>4, <1>5 DEF Bounds, MemCap
  <2> QED
    BY <1>4, <1>5, <1>14, <2>1 DEF Respects
<1>16. ASSUME NEW e \in Eid, IsCap(c["c0"]) PROVE Respects(c["c0"], e, enclave'[e])
  <2>1. CASE e # id
    BY <1>1, <1>4, <1>16, <2>1 DEF MInv, Isolated
  <2>2. CASE e = id
    <3>1. code_cap = c["c0"] /\ Made(c["c0"], identityStore)
      BY <1>1, <1>16, OperandFacts DEF MInv, Known
    <3>2. code_cap.otype # unsealed
      BY <1>3, SealFacts DEF unsealed, assignIDFromOtype
    <3>3. code_cap.otype = identSeal(id)
      BY <3>1, <3>2, SealFacts DEF Made
    <3> QED
      BY <1>12, <2>2, <3>1, <3>3 DEF Respects
  <2> QED
    BY <2>1, <2>2
<1>17. Isolated'
  <2>1. ASSUME NEW e \in Eid, NEW q \in Reg, IsCap(c'[q]) PROVE Respects(c'[q], e, enclave'[e])
    <3>1. CASE q \in {"c0", "c1"}
      BY <1>7, <1>15, <1>16, <2>1, <3>1
    <3>2. CASE q \notin {"c0", "c1"}
      <4>1. c'[q] = c[q] /\ c[q] \in Cap
        BY <1>1, <1>7, <2>1, <3>2, IsCapFacts DEF TypeOK
      <4>2. CASE e # id
        BY <1>4, <2>1, <4>1, <4>2 DEF MInv, Isolated
      <4>3. CASE e = id
        <5>1. check_reg(code_cap, data_cap, c[q])
          BY <3>2 DEF sweep, reg_sweep, gpreg_sweep
        <5>2. Made(c[q], identityStore)
          BY <2>1, <4>1 DEF MInv, Known
        <5> QED
          BY <1>13, <4>1, <4>3, <5>1, <5>2
      <4> QED
        BY <4>2, <4>3
    <3> QED
      BY <3>1, <3>2
  <2>2. ASSUME NEW e \in Eid, NEW s \in Special, IsCap(scr'[s])
        PROVE  Respects(scr'[s], e, enclave'[e])
    <3>1. scr'[s] = scr[s] /\ scr[s] \in Cap
      BY <1>1, <1>7, <2>2, IsCapFacts DEF TypeOK
    <3>2. CASE e # id
      BY <1>4, <2>2, <3>1, <3>2 DEF MInv, Isolated
    <3>3. CASE e = id
      <4>1. check_reg(code_cap, data_cap, scr[s])
        BY DEF sweep, reg_sweep, scrs_sweep
      <4>2. scr[s] = OsCap \/ Made(scr[s], identityStore)
        BY <2>2, <3>1 DEF MInv, Known
      <4> QED
        BY <1>13, <3>1, <3>3, <4>1, <4>2
    <3> QED
      BY <3>2, <3>3
  <2>3. ASSUME NEW e \in Eid, NEW q \in Granule \ enclave'[e].data, IsCap(mem'[q])
        PROVE  Respects(mem'[q], e, enclave'[e])
    <3>1. CASE q = g
      <4>1. e # id
        BY <1>4, <2>3, <3>1
      <4> QED
        BY <1>6, <1>8, <3>1, <4>1
    <3>2. CASE q # g
      <4>1. mem'[q] = mem[q] /\ mem[q] \in Cap
        BY <1>1, <1>8, <2>3, <3>2, IsCapFacts DEF TypeOK
      <4>2. CASE e # id
        BY <1>4, <2>3, <4>1, <4>2 DEF MInv, Isolated
      <4>3. CASE e = id
        <5>1. check_reg(code_cap, data_cap, mem[q])
          BY DEF sweep, mem_sweep
        <5>2. Made(mem[q], identityStore)
          BY <2>3, <4>1 DEF MInv, Known
        <5> QED
          BY <1>13, <4>1, <4>3, <5>1, <5>2
      <4> QED
        BY <4>2, <4>3
    <3> QED
      BY <3>1, <3>2
  <2> QED
    BY <2>1, <2>2, <2>3 DEF Isolated
<1>18. ClaimedReady'
  BY <1>3, <1>4 DEF MInv, ClaimedReady
<1>19. Measured'
  <2> SUFFICES ASSUME NEW e \in Eid, Waiting(enclave'[e]), ~ enclave'[e].ragged,
                      Bounds(enclave'[e].code) \cap enclave'[e].data = {}
               PROVE  \E i \in getHashEntry(identityStore', identSeal(e)) :
                         identityStore'[i].hash =
                            [j \in 1 .. enclave'[e].code.top - enclave'[e].code.base |->
                                mem'[enclave'[e].code.base + j - 1]]
    BY DEF Measured, Untouched, Waiting
  <2>1. CASE e # id
    <3>1. enclave'[e] = enclave[e]
      BY <1>4, <2>1
    <3>2. Untouched(e)
      BY <3>1 DEF Untouched, Waiting
    <3>3. ASSUME NEW q \in Bounds(enclave[e].code) PROVE mem'[q] = mem[q]
      <4>1. enclave[e].code \in MemCap /\ enclave[e].code.top <= Granules
        BY <1>1, <3>2 DEF TypeOK, MInv, ClaimedReady, Untouched
      <4>2. q \in Granule
        BY <4>1, MorelloAssumption DEF MemCap, Bounds, Granule
      <4>3. q # g
        BY <1>14, <2>1, <3>1 DEF Sections
      <4> QED
        BY <1>8, <4>2, <4>3
    <3> QED
      BY <1>3, <2>1, <3>1, <3>2, <3>3, MeasuredOthers
  <2>2. CASE e = id
    <3>1. IsCap(c["c0"]) /\ code_cap.kind = "mem"
      BY <1>4, <2>2 DEF Loads, Readable
    <3>2. /\ enclave'[e].code.base = code_cap.base /\ enclave'[e].code.top = code_cap.top
          /\ enclave'[e].code \in MemCap
      BY <1>4, <2>2, <3>1
    <3>3. hash = [i \in 1 .. code_cap.top - code_cap.base |-> mem[code_cap.base + i - 1]]
      BY <1>4, <2>2 DEF generateHash
    <3>4. code_cap.top <= Granules
      BY <1>4, <2>2, <3>2
    <3>5. ASSUME NEW i \in 1 .. code_cap.top - code_cap.base
          PROVE  mem'[code_cap.base + i - 1] = mem[code_cap.base + i - 1]
      <4>1. /\ code_cap.base \in Nat /\ code_cap.top \in Nat /\ Granules \in Nat
            /\ enclave'[e].code.kind = "mem"
        BY <3>2, MorelloAssumption DEF MemCap
      <4>2. code_cap.base + i - 1 \in Bounds(enclave'[e].code)
        BY <3>2, <4>1 DEF Bounds
      <4>3. code_cap.base + i - 1 # g
        BY <1>4, <2>2, <4>2
      <4>4. code_cap.base + i - 1 \in Granule
        BY <3>4, <4>1 DEF Granule
      <4> QED
        BY <1>8, <4>3, <4>4
    <3>6. hash = [i \in 1 .. code_cap.top - code_cap.base |-> mem'[code_cap.base + i - 1]]
      BY <3>3, <3>5
    <3>7. identityStore'[idx].hash =
             [j \in 1 .. enclave'[e].code.top - enclave'[e].code.base |->
                 mem'[enclave'[e].code.base + j - 1]]
      <4>1. identityStore'[idx].hash = hash
        BY <1>3
      <4> QED
        BY <3>2, <3>6, <4>1
    <3>8. idx \in getHashEntry(identityStore', identSeal(e))
      BY <1>3, <2>2
    <3> QED
      BY <3>7, <3>8
  <2> QED
    BY <2>1, <2>2
<1> QED
  BY <1>3, <1>9, <1>11, <1>17, <1>18, <1>19 DEF MInv

(* EINIT_DATA, whichever way it ends. *)
LEMMA EINIT_DATAKeeps == ASSUME MInv, EINIT_DATA PROVE MInv'
<1>1. PICK code_cap \in Bits(c["c0"]), data_cap \in Bits(c["c1"]),
           atBase \in BOOLEAN, ragged \in BOOLEAN :
         \/ /\ Return(Null)
            /\ UNCHANGED <<identityStore, IDCounter, mem, enclave>>
         \/ Hang /\ UNCHANGED <<identityStore, IDCounter>>
         \/ \E idx \in Unfinished(identityStore, code_cap.otype) :
            /\ Loads(code_cap, ragged)
                  => Readable(code_cap, assignIDFromOtype(code_cap.otype), atBase)
            /\ sweep(code_cap, data_cap, ragged)
            /\ FinishData(assignIDFromOtype(code_cap.otype), idx, code_cap, ragged, data_cap)
  BY DEF EINIT_DATA
<1>2. CASE Return(Null) /\ UNCHANGED <<identityStore, IDCounter, mem, enclave>>
  <2>1. Good(Null, identityStore, enclave)
    BY IsCapFacts DEF Good
  <2> QED
    BY <1>2, <2>1, ReturnKeeps
<1>3. CASE Hang /\ UNCHANGED <<identityStore, IDCounter>>
  BY <1>3, HangKeeps
<1>4. ASSUME NEW idx \in Unfinished(identityStore, code_cap.otype),
             Loads(code_cap, ragged)
                => Readable(code_cap, assignIDFromOtype(code_cap.otype), atBase),
             sweep(code_cap, data_cap, ragged),
             FinishData(assignIDFromOtype(code_cap.otype), idx, code_cap, ragged, data_cap)
      PROVE  MInv'
  <2> DEFINE id == assignIDFromOtype(code_cap.otype)
  <2>1. PICK hash \in generateHash(code_cap, ragged) :
          /\ identityStore' = finishEntry(identityStore, idx, hash)
          /\ UNCHANGED IDCounter
          /\ \/ /\ Grants(c["c1"], {"store"})
                /\ \E g \in Bounds(data_cap) : mem' = [mem EXCEPT ![g] = signEncSeal(id)]
                /\ Return(cheri_seal(data_cap, identSeal(id)))
                /\ Claim(id, code_cap, ragged, data_cap)
             \/ Hang
    BY <1>4 DEF FinishData
  <2>2. CASE Hang
    <3>1. hash \in Hash
      BY <1>4, HashIsHash DEF sweep
    <3>2. "c0" \in Reg
      BY DEF Reg
    <3>3. code_cap.otype \in Otype
      BY <3>2, OperandFacts
    <3> QED
      BY <1>4, <2>1, <2>2, <3>1, <3>3, FinishHangKeeps
  <2>3. CASE ~ Hang
    <3>1. PICK g \in Bounds(data_cap) : mem' = [mem EXCEPT ![g] = signEncSeal(id)]
      BY <2>1, <2>3
    <3> QED
      BY <1>4, <2>1, <2>3, <3>1, FinishKeeps
  <2> QED
    BY <2>2, <2>3
<1> QED
  BY <1>1, <1>2, <1>3, <1>4

(* Every call keeps the invariant. *)
LEMMA CallsKeep == ASSUME MInv, syncHandlerEL2N PROVE MInv'
<1>1. CASE SweepCalls
  <2>1. "c0" \in Reg /\ c["c0"] \in Cap \cup {Null}
    BY DEF Reg, MInv, TypeOK
  <2>2. Good(c["c0"], identityStore, enclave)
    BY <2>1, RegsGood
  <2> QED
    BY <1>1, <2>1, <2>2, ReturnKeeps, HangKeeps DEF SweepCalls
<1>2. CASE UnknownCall
  <2>1. Good(Null, identityStore, enclave)
    BY IsCapFacts DEF Good
  <2> QED
    BY <1>2, <2>1, ReturnKeeps DEF UnknownCall
<1>3. CASE Trapped
  BY <1>3, HangKeeps DEF Trapped
<1> QED
  BY <1>1, <1>2, <1>3, EINIT_CODEKeeps, EINIT_DATAKeeps, ESTORE_IDKeeps DEF syncHandlerEL2N
-----------------------------------------------------------------------------
(* The theorems.                                                           *)

(* The invariant holds when EL1 starts. *)
LEMMA InitMInv == Init => MInv
<1> SUFFICES ASSUME Init PROVE MInv
  OBVIOUS
<1>1. /\ identityStore = initTable /\ IDCounter = initIDCounter /\ c = BootCaps
      /\ scr = [s \in Special |->
                  IF s \in {"CELR_EL2", "CSP_EL1", "CVBAR_EL1"} THEN OsCap ELSE Null]
      /\ mem \in [Granule -> Word] /\ hung = FALSE
      /\ enclave = [e \in Eid |-> NoEnclave]
  BY DEF Init
<1>2. OsCap \in MemCap /\ OsCap.kind = "mem" /\ OsCap.otype = unsealed
  BY MorelloAssumption, UnsealedOtype DEF OsCap, MemCapOf, MemCap
<1>3. /\ NoEnclave \in [code : MemCap, ragged : BOOLEAN, data : SUBSET Granule,
                        entered : BOOLEAN]
      /\ NoEnclave.data = {}
  <2>1. MemCapOf(0, 0, FullPerms) \in MemCap
    BY MorelloAssumption, UnsealedOtype DEF MemCapOf, MemCap
  <2> QED
    BY <2>1 DEF NoEnclave
<1>4. TypeOK
  <2>1. identityStore \in [Idx -> Entry]
    BY <1>1, InitFilled
  <2>2. IDCounter \in initIDCounter .. numEnclaveIds + 1
    BY <1>1, StoreAssumption DEF initIDCounter
  <2>3. c \in [Reg -> Cap \cup {Null}]
    BY <1>1, MorelloAssumption DEF Cap
  <2>4. scr \in [Special -> Cap \cup {Null}]
    BY <1>1, <1>2 DEF Cap
  <2> QED
    BY <1>1, <1>3, <2>1, <2>2, <2>3, <2>4 DEF TypeOK
<1>5. StoreOK
  BY <1>1, InitFilled, StoreAssumption DEF StoreOK, Filled
<1>6. \A e \in Eid : enclave[e].data = {}
  BY <1>1, <1>3
<1>7. \A g \in Granule : ~ IsCap(mem[g])
  BY <1>1, IsCapFacts
<1>8. \A r \in Reg : IsCap(c[r]) =>
         c[r].kind = "mem" /\ c[r].top <= Granules /\ c[r].otype = unsealed
  <2>1. \A r \in Reg : IsCap(c[r]) => c[r] \in MemCap /\ c[r] # Null
    BY <1>1, MorelloAssumption, IsCapFacts
  <2> QED
    BY <1>1, <2>1, MorelloAssumption DEF MemCap
<1>9. \A s \in Special : IsCap(scr[s]) => scr[s] = OsCap
  BY <1>1, IsCapFacts
<1>10. Known
  BY <1>7, <1>8, <1>9 DEF Known, Made
<1>11. Isolated
  BY <1>2, <1>6, <1>7, <1>8, <1>9 DEF Isolated, Respects, Waiting
<1>12. ClaimedReady /\ Measured
  BY <1>6 DEF ClaimedReady, Measured, Untouched
<1> QED
  BY <1>4, <1>5, <1>10, <1>11, <1>12 DEF MInv

(* Calls and software keep it. *)
LEMMA NextMInv == MInv /\ [Next]_vars => MInv'
<1> SUFFICES ASSUME MInv, [Next]_vars PROVE MInv'
  OBVIOUS
<1>1. CASE UNCHANGED vars
  <2>1. TypeOK' /\ Known' /\ Isolated'
    BY <1>1 DEF MInv, vars, TypeOK, Known, Isolated
  <2> QED
    BY <1>1, <2>1, StoreAndMemoryKept DEF MInv, vars
<1> QED
  BY <1>1, CallsKeep, SoftwareKeeps DEF Next, Spin

(* So it is an invariant. *)
LEMMA MInvCorrect == Spec => []MInv
  BY InitMInv, NextMInv, PTL DEF Spec

(* The identity store is always filled in order, and every value of the
   machine has its type: for any number of entries, ids, registers and
   granules. *)
THEOREM StoreInOrderCorrect == Spec => []StoreInOrder
<1>1. MInv => StoreInOrder
  BY FilledInOrder DEF MInv
<1> QED
  BY <1>1, MInvCorrect, PTL

(* Between EINIT_DATA and the first entry nobody but the enclave reaches its
   sections, whatever calls and instructions EL1 uses. *)
THEOREM ExclusiveCorrect == Spec => []Exclusive
<1>1. MInv => Exclusive
  BY IsolatedImplies DEF MInv
<1> QED
  BY <1>1, MInvCorrect, PTL

(* The key EINIT_DATA stores stays in the data section until then. *)
THEOREM KeyConfinedCorrect == Spec => []KeyConfined
<1>1. MInv => KeyConfined
  BY IsolatedImplies DEF MInv
<1> QED
  BY <1>1, MInvCorrect, PTL

(* The hash in the store is the hash of the code that will run. *)
THEOREM MeasuredCorrect == Spec => []Measured
<1>1. MInv => Measured
  BY DEF MInv
<1> QED
  BY <1>1, MInvCorrect, PTL
-----------------------------------------------------------------------------
(* The store implements the abstract trusted base.                         *)

(* Where an id is in its life, from its entry. *)
StatusIn(k, store, e) ==
    IF e - 1 \in Idx /\ e - 1 < k
    THEN IF store[e - 1].ready THEN "perm" ELSE "temp"
    ELSE "unused"

IdentityIn(store, e) == IF Ready(store, e) THEN store[e - 1].hash ELSE ZeroHash

(* What the searches tell of an id. *)
LEMMA SearchedStatus ==
    ASSUME NEW k \in 0 .. MAX_ENTRIES, NEW store \in [Idx -> Entry], NEW counter,
           FilledTo(k, store, counter), NEW e \in Eid
    PROVE  /\ StatusIn(k, store, e) =
                 IF Unfinished(store, identSeal(e)) # {} THEN "temp"
                 ELSE IF getHashEntry(store, identSeal(e)) # {} THEN "perm" ELSE "unused"
           /\ IdentityIn(store, e) =
                 IF getHashEntry(store, identSeal(e)) = {} THEN ZeroHash
                 ELSE store[CHOOSE i \in getHashEntry(store, identSeal(e)) : TRUE].hash
<1>1. identSeal(e) \in Otype /\ assignIDFromOtype(identSeal(e)) = e
  BY SealFacts
<1>2. e \in Int /\ e - 1 < numEnclaveIds /\ numEnclaveIds \in Int
  BY SealFacts, StoreAssumption
<1>3. \A i : i \in Unfinished(store, identSeal(e)) <=>
                i \in Idx /\ i = e - 1 /\ i < k /\ i < numEnclaveIds /\ ~ store[i].ready
  BY <1>1, Searches
<1>4. \A i : i \in getHashEntry(store, identSeal(e)) <=>
                i \in Idx /\ i = e - 1 /\ store[i].ready
  BY <1>1, Searches
<1>5. \A i \in Idx : store[i].ready => i < k
  BY DEF FilledTo
<1>6. Unfinished(store, identSeal(e)) # {} <=>
         e - 1 \in Idx /\ e - 1 < k /\ ~ store[e - 1].ready
  BY <1>2, <1>3
<1>7. getHashEntry(store, identSeal(e)) # {} <=> Ready(store, e)
  BY <1>2, <1>4 DEF Ready
<1>8. ASSUME getHashEntry(store, identSeal(e)) # {}
      PROVE  (CHOOSE i \in getHashEntry(store, identSeal(e)) : TRUE) = e - 1
  <2>1. (CHOOSE i \in getHashEntry(store, identSeal(e)) : TRUE)
           \in getHashEntry(store, identSeal(e))
    BY <1>8
  <2> QED
    BY <1>4, <2>1
<1> QED
  BY <1>5, <1>6, <1>7, <1>8 DEF StatusIn, IdentityIn, Ready

(* So the two maps of the refinement are these, in any state... *)
LEMMA MapFacts ==
    ASSUME NEW k \in 0 .. MAX_ENTRIES, identityStore \in [Idx -> Entry],
           FilledTo(k, identityStore, IDCounter)
    PROVE  /\ StatusMap = [e \in Eid |-> StatusIn(k, identityStore, e)]
           /\ IdentityMap = [e \in Eid |-> IdentityIn(identityStore, e)]
  BY SearchedStatus DEF StatusMap, IdentityMap

(* ... and in the next one. *)
LEMMA MapFactsPrime ==
    ASSUME NEW k \in 0 .. MAX_ENTRIES, identityStore' \in [Idx -> Entry],
           FilledTo(k, identityStore', IDCounter')
    PROVE  /\ StatusMap' = [e \in Eid |-> StatusIn(k, identityStore', e)]
           /\ IdentityMap' = [e \in Eid |-> IdentityIn(identityStore', e)]
  BY SearchedStatus DEF StatusMap, IdentityMap

(* An EINIT_CODE that gets an id is Create; one that comes too late for an id
   takes an entry and changes nothing the trusted base promises. *)
LEMMA CreateStep ==
    ASSUME MInv, NEW idx \in FreeEntry(identityStore),
           identityStore' = initEntry(identityStore, idx, IDCounter),
           IDCounter' = nextIDCounter(IDCounter)
    PROVE  TCB!Next \/ UNCHANGED TCB!vars
<1>1. PICK k \in 0 .. MAX_ENTRIES : FilledTo(k, identityStore, IDCounter)
  BY DEF MInv, StoreOK, Filled
<1>2. /\ identityStore \in [Idx -> Entry] /\ k \in Nat /\ numEnclaveIds \in Nat
      /\ MAX_ENTRIES \in Nat
  BY StoreAssumption DEF MInv, TypeOK
<1>3. /\ k \in Idx /\ k + 1 \in 0 .. MAX_ENTRIES /\ identityStore' \in [Idx -> Entry]
      /\ FilledTo(k + 1, identityStore', IDCounter')
      /\ \A i \in Idx : /\ identityStore'[i].ready = identityStore[i].ready
                        /\ identityStore'[i].hash = identityStore[i].hash
      /\ ~ identityStore[k].ready
  BY <1>1, <1>2, InitEntryFills
<1>4. /\ StatusMap = [e \in Eid |-> StatusIn(k, identityStore, e)]
      /\ IdentityMap = [e \in Eid |-> IdentityIn(identityStore, e)]
  BY <1>1, <1>2, MapFacts
<1>5. /\ StatusMap' = [e \in Eid |-> StatusIn(k + 1, identityStore', e)]
      /\ IdentityMap' = [e \in Eid |-> IdentityIn(identityStore', e)]
  BY <1>3, MapFactsPrime
<1>6. ASSUME NEW e \in Eid PROVE IdentityIn(identityStore', e) = IdentityIn(identityStore, e)
  BY <1>3 DEF IdentityIn, Ready
<1>7. IdentityMap' = IdentityMap
  BY <1>4, <1>5, <1>6
<1>8. ASSUME NEW e \in Eid, e # k + 1
      PROVE  StatusIn(k + 1, identityStore', e) = StatusIn(k, identityStore, e)
  <2>1. e \in Int
    BY SealFacts
  <2>2. e - 1 < k + 1 <=> e - 1 < k
    BY <1>2, <1>8, <2>1
  <2> QED
    BY <1>3, <2>2 DEF StatusIn
<1>9. CASE k < numEnclaveIds
  <2> DEFINE f == k + 1
  <2>1. f \in Eid /\ f - 1 = k
    BY <1>2, <1>9 DEF Eid
  <2>2. StatusIn(k, identityStore, f) = "unused"
    BY <1>2, <2>1 DEF StatusIn
  <2>3. StatusIn(k + 1, identityStore', f) = "temp"
    BY <1>2, <1>3, <2>1 DEF StatusIn
  <2> HIDE DEF f
  <2>4. StatusMap' = [StatusMap EXCEPT ![f] = "temp"]
    BY <1>4, <1>5, <1>8, <2>1, <2>3 DEF f
  <2>5. Cardinality(TCB!Live(StatusMap)) < MAX_ENTRIES
    <3> DEFINE L == TCB!Live(StatusMap)
    <3>1. L \subseteq 1 .. k
      <4> SUFFICES ASSUME NEW e \in L PROVE e \in 1 .. k
        OBVIOUS
      <4>1. e \in Eid /\ StatusIn(k, identityStore, e) # "unused"
        BY <1>4 DEF TCB!Live
      <4>2. e - 1 < k
        BY <4>1 DEF StatusIn
      <4> QED
        BY <1>2, <4>1, <4>2, SealFacts
    <3> HIDE DEF L
    <3>2. IsFiniteSet(1 .. k) /\ Cardinality(1 .. k) = k
      BY <1>2, FS_Interval
    <3>3. IsFiniteSet(L) /\ Cardinality(L) <= k
      BY <3>1, <3>2, FS_Subset
    <3>4. Cardinality(L) \in Nat
      BY <3>3, FS_CardinalityType
    <3> QED
      BY <1>2, <1>3, <3>3, <3>4 DEF L
  <2>6. TCB!Cardinality(TCB!Live(StatusMap)) = Cardinality(TCB!Live(StatusMap))
    BY DEF TCB!Cardinality, Cardinality
  <2>7. StatusMap[f] = "unused"
    BY <1>4, <2>1, <2>2
  <2>8. TCB!Create(f)
    BY <1>7, <2>4, <2>5, <2>6, <2>7 DEF TCB!Create
  <2> QED
    BY <2>1, <2>8 DEF TCB!Next
<1>10. CASE ~ (k < numEnclaveIds)
  <2>1. \A e \in Eid : e # k + 1
    BY <1>2, <1>10 DEF Eid
  <2>2. StatusMap' = StatusMap
    BY <1>4, <1>5, <1>8, <2>1
  <2> QED
    BY <1>7, <2>2 DEF TCB!vars
<1> QED
  BY <1>9, <1>10

(* finishEntry is Attest. *)
LEMMA AttestStep ==
    ASSUME MInv, NEW otype \in Otype, NEW idx \in Unfinished(identityStore, otype),
           NEW hash \in Hash,
           identityStore' = finishEntry(identityStore, idx, hash), UNCHANGED IDCounter
    PROVE  TCB!Next
<1> DEFINE f == assignIDFromOtype(otype)
<1>1. PICK k \in 0 .. MAX_ENTRIES : FilledTo(k, identityStore, IDCounter)
  BY DEF MInv, StoreOK, Filled
<1>2. identityStore \in [Idx -> Entry] /\ k \in Nat
  BY DEF MInv, TypeOK
<1>3. /\ idx \in Idx /\ idx = f - 1 /\ idx < k /\ idx < numEnclaveIds
      /\ ~ identityStore[idx].ready
  BY <1>1, <1>2, Searches
<1>4. f \in Eid
  BY FinishStore
<1> HIDE DEF f
<1>5. /\ identityStore' \in [Idx -> Entry] /\ FilledTo(k, identityStore', IDCounter')
      /\ identityStore'[idx].ready /\ identityStore'[idx].hash = hash
      /\ \A i \in Idx : i # idx => identityStore'[i] = identityStore[i]
  BY <1>1, <1>2, <1>3, FinishFills
<1>6. /\ StatusMap = [e \in Eid |-> StatusIn(k, identityStore, e)]
      /\ IdentityMap = [e \in Eid |-> IdentityIn(identityStore, e)]
  BY <1>1, <1>2, MapFacts
<1>7. /\ StatusMap' = [e \in Eid |-> StatusIn(k, identityStore', e)]
      /\ IdentityMap' = [e \in Eid |-> IdentityIn(identityStore', e)]
  BY <1>5, MapFactsPrime
<1>8. ASSUME NEW e \in Eid, e # f
      PROVE  /\ StatusIn(k, identityStore', e) = StatusIn(k, identityStore, e)
             /\ IdentityIn(identityStore', e) = IdentityIn(identityStore, e)
  <2>1. e \in Int /\ f \in Int
    BY <1>4, SealFacts
  <2>2. e - 1 # idx
    BY <1>3, <1>8, <2>1
  <2> QED
    BY <1>5, <2>2 DEF StatusIn, IdentityIn, Ready
<1>9. StatusIn(k, identityStore, f) = "temp"
  BY <1>3 DEF StatusIn
<1>10. StatusIn(k, identityStore', f) = "perm" /\ IdentityIn(identityStore', f) = hash
  BY <1>3, <1>5 DEF StatusIn, IdentityIn, Ready
<1>11. /\ StatusMap[f] = "temp"
       /\ StatusMap' = [StatusMap EXCEPT ![f] = "perm"]
       /\ IdentityMap' = [IdentityMap EXCEPT ![f] = hash]
  BY <1>4, <1>6, <1>7, <1>8, <1>9, <1>10
<1>12. TCB!Attest(f, hash)
  BY <1>11 DEF TCB!Attest
<1> QED
  BY <1>4, <1>12 DEF TCB!Next

(* Every step that changes the store or the counter is one of these. *)
LEMMA TCBStep == ASSUME MInv, Next, tcb' # tcb PROVE TCB!Next \/ UNCHANGED TCB!vars
<1>1. CASE Software
  BY <1>1 DEF Software, Move, SetBounds, AndPerm, LoadCap, StoreCap, BranchSealedPair,
              ClearTag, StoreWord, WriteSpecial, ReadSpecial, SetC, SetMem, SetScr, tcb
<1>2. CASE EINIT_CODE
  BY <1>2, CreateStep DEF EINIT_CODE, tcb
<1>3. CASE EINIT_DATA
  <2> DEFINE Done(code_cap, data_cap, atBase, ragged, idx) ==
               /\ Loads(code_cap, ragged)
                     => Readable(code_cap, assignIDFromOtype(code_cap.otype), atBase)
               /\ sweep(code_cap, data_cap, ragged)
               /\ FinishData(assignIDFromOtype(code_cap.otype), idx, code_cap, ragged, data_cap)
  <2>0. PICK code_cap \in Bits(c["c0"]), data_cap \in Bits(c["c1"]),
             atBase \in BOOLEAN, ragged \in BOOLEAN :
           \E idx \in Unfinished(identityStore, code_cap.otype) :
              Done(code_cap, data_cap, atBase, ragged, idx)
    BY <1>3 DEF EINIT_DATA, tcb
  <2>1. PICK idx \in Unfinished(identityStore, code_cap.otype) :
           Done(code_cap, data_cap, atBase, ragged, idx)
    BY <2>0
  <2>2. PICK hash \in generateHash(code_cap, ragged) :
          identityStore' = finishEntry(identityStore, idx, hash) /\ UNCHANGED IDCounter
    BY <2>1 DEF FinishData
  <2>3. hash \in Hash
    BY <2>1, HashIsHash DEF sweep
  <2>4. "c0" \in Reg
    BY DEF Reg
  <2>5. code_cap.otype \in Otype
    BY <2>4, OperandFacts
  <2> QED
    BY <2>2, <2>3, <2>5, AttestStep
<1>4. CASE ESTORE_ID \/ SweepCalls \/ UnknownCall \/ Trapped \/ Spin
  BY <1>4 DEF ESTORE_ID, SweepCalls, UnknownCall, Trapped, Spin, vars, tcb
<1> QED
  BY <1>1, <1>2, <1>3, <1>4 DEF Next, syncHandlerEL2N

(* initTable is the initial state of the abstract trusted base. *)
LEMMA TCBInit == Init => TCB!Init
<1> SUFFICES ASSUME Init PROVE TCB!Init
  OBVIOUS
<1>1. /\ identityStore \in [Idx -> Entry] /\ FilledTo(0, identityStore, IDCounter)
      /\ 0 \in 0 .. MAX_ENTRIES
  BY InitFilled, StoreAssumption DEF Init
<1>2. /\ StatusMap = [e \in Eid |-> StatusIn(0, identityStore, e)]
      /\ IdentityMap = [e \in Eid |-> IdentityIn(identityStore, e)]
  BY <1>1, MapFacts
<1>3. \A i \in Idx : ~ identityStore[i].ready
  BY DEF Init, initTable
<1>4. ASSUME NEW e \in Eid
      PROVE  StatusIn(0, identityStore, e) = "unused" /\ IdentityIn(identityStore, e) = ZeroHash
  <2>1. e \in Int /\ e >= 1
    BY SealFacts
  <2> QED
    BY <1>3, <2>1 DEF StatusIn, IdentityIn, Ready
<1> QED
  BY <1>2, <1>4 DEF TCB!Init

(* The Morello store keeps what the abstract trusted base promises, for every
   size: an identity is set once and never changed, an id never goes back, and
   there are never more than MAX_ENTRIES of them. *)
THEOREM MorelloRefinesTCB == Spec => RefinesTCB
<1>1. MInv /\ [Next]_vars => [tcb' # tcb => TCB!Next \/ UNCHANGED TCB!vars]_vars
  BY TCBStep
<1>2. Spec => TCB!Init
  BY TCBInit DEF Spec
<1> QED
  BY <1>1, <1>2, MInvCorrect, PTL DEF Spec, RefinesTCB
=============================================================================
