---------------------------- MODULE SailProofs -----------------------------
(***************************************************************************)
(* Theorems about SailEnclave: its type invariant, and that the table of   *)
(* the TCB never holds two entries of one id, nor an id that gen_eid did   *)
(* not issue; and that the table and the id counter implement the abstract *)
(* trusted computing base: ids are not reused, an identity is set once and *)
(* never changed, and the table never holds more than TableSize entries;   *)
(* and that what EInitData's sweep achieves stays true whatever programs   *)
(* do afterwards: until an enclave is entered nobody else can reach its    *)
(* sections, its keys stay in its data section, and its entry in the table *)
(* is the measurement of what the code section holds.                      *)
(***************************************************************************)
EXTENDS SailEnclave, FiniteSetTheorems, TLAPS

-----------------------------------------------------------------------------
(* Otypes and ids.                                                         *)

(* What the assumption on the constants says of the number of otypes. *)
LEMMA OtypeFacts ==
    /\ Otypes \in Nat /\ Otypes % 4 = 0
    /\ Reserved \in Nat /\ Reserved >= 2 /\ Otypes >= Reserved + 4
  BY OtypeAssumption DEF Otypes

(* The id of an otype is an id, and the otype of an id an otype. *)
LEMMA EidFacts ==
    /\ \A o \in Otype : otype_to_eid(o) \in Eid
    /\ \A e \in Eid : EntryOtype(e) \in Otype /\ 4 * e \in Otype /\ 4 * e + 4 \in 0 .. Otypes
    /\ otype_unsealed \in Otype /\ otype_sentry \in Otype
  BY OtypeFacts DEF Otype, Eid, otype_to_eid, EntryOtype, otype_unsealed, otype_sentry

(* gen_eid: an id it returns is the counter itself, is not cut off by its
   width, and its otypes are not reserved. *)
LEMMA GenEidFacts ==
    ASSUME NEW counter \in Nat, NEW e \in gen_eid(counter)
    PROVE  e = counter /\ e \in Eid /\ 4 * e + 3 <= cap_max_otype
<1>1. 4 * counter + 3 <= cap_max_otype /\ e = counter % (Otypes \div 4)
  BY OtypeFacts DEF gen_eid, cap_max_otype
<1>2. counter \in Eid
  BY <1>1, OtypeFacts DEF cap_max_otype, Eid
<1>3. counter % (Otypes \div 4) = counter
  BY <1>2, OtypeFacts DEF Eid
<1> QED
  BY <1>1, <1>2, <1>3
-----------------------------------------------------------------------------
(* The functions of cheri_enclave.sail.                                    *)

(* The table part of TableOK, of any table and counter. *)
TableInv(table, counter) ==
    /\ \A i, j \in Idx : \A e \in Eid :
          Holds(table, i, e) /\ Holds(table, j, e) => i = j
    /\ \A i \in Idx : table[i] # None =>
          /\ table[i].eid < counter
          /\ 4 * table[i].eid + 3 <= cap_max_otype

(* initETable: the empty table is a table, and satisfies the invariant. *)
LEMMA EmptyTableInv ==
    EmptyTable \in ETables /\ \A counter \in Nat : TableInv(EmptyTable, counter)
  BY DEF EmptyTable, ETables, TableInv, Holds

(* The functions that change the table return tables. *)
LEMMA TableTypes ==
    ASSUME NEW table \in ETables, NEW e \in Eid
    PROVE  /\ \A idx \in Idx : addTempMapping(table, e, idx) \in ETables
           /\ \A h \in Hash : makeMappingPerm(table, e, h) \in ETables
           /\ removeMapping(table, e) \in ETables
<1>1. [id |-> ZeroHash, eid |-> e, is_temp |-> TRUE] \in EMapping
  BY DEF EMapping
<1>2. \A h \in Hash : [id |-> h, eid |-> e, is_temp |-> FALSE] \in EMapping
  BY DEF EMapping
<1>3. \A idx \in Idx : addTempMapping(table, e, idx) \in ETables
  BY <1>1 DEF addTempMapping, ETables
<1>4. \A h \in Hash : makeMappingPerm(table, e, h) \in ETables
  BY <1>2 DEF makeMappingPerm, ETables
<1>5. removeMapping(table, e) \in ETables
  BY DEF removeMapping, ETables
<1> QED
  BY <1>3, <1>4, <1>5

(* addTempMapping with the id that gen_eid returned: no entry has it yet. *)
LEMMA AddTempInv ==
    ASSUME NEW table \in ETables, NEW counter \in Nat, TableInv(table, counter),
           NEW e \in gen_eid(counter), NEW idx \in findFreeIdx(table)
    PROVE  TableInv(addTempMapping(table, e, idx), counter + 1)
<1> DEFINE new == [id |-> ZeroHash, eid |-> e, is_temp |-> TRUE]
           t == addTempMapping(table, e, idx)
<1>1. e = counter /\ e \in Eid /\ 4 * e + 3 <= cap_max_otype
  BY GenEidFacts
<1>2. idx \in Idx
  BY DEF findFreeIdx
<1>3. new \in EMapping /\ new # None
  <2>1. new \in EMapping
    BY <1>1 DEF EMapping
  <2> QED
    BY <2>1, NoneAssumption
<1>5. \A i \in Idx : t[i] = IF i = idx THEN new ELSE table[i]
  BY <1>2 DEF addTempMapping, ETables
<1>6. \A i \in Idx : table[i] # None => table[i].eid \in Nat /\ table[i].eid < counter
  BY DEF TableInv, ETables, EMapping, Eid
<1>7. ASSUME NEW i \in Idx, NEW j \in Idx, NEW f \in Eid, Holds(t, i, f), Holds(t, j, f)
      PROVE  i = j
  <2>1. CASE i = idx /\ j # idx
    BY <2>1, <1>1, <1>3, <1>5, <1>6, <1>7 DEF Holds
  <2>2. CASE i # idx /\ j = idx
    BY <2>2, <1>1, <1>3, <1>5, <1>6, <1>7 DEF Holds
  <2>3. CASE i # idx /\ j # idx
    BY <2>3, <1>5, <1>7 DEF Holds, TableInv
  <2> QED
    BY <2>1, <2>2, <2>3
<1>8. ASSUME NEW i \in Idx, t[i] # None
      PROVE  t[i].eid < counter + 1 /\ 4 * t[i].eid + 3 <= cap_max_otype
  <2>1. CASE i = idx
    BY <2>1, <1>1, <1>5
  <2>2. CASE i # idx
    BY <2>2, <1>5, <1>6, <1>8 DEF TableInv
  <2> QED
    BY <2>1, <2>2
<1> HIDE DEF t
<1> QED
  BY <1>7, <1>8 DEF t, TableInv

(* removeMapping keeps the invariant. *)
LEMMA RemoveInv ==
    ASSUME NEW table \in ETables, NEW counter \in Nat, TableInv(table, counter), NEW e
    PROVE  TableInv(removeMapping(table, e), counter)
<1> DEFINE t == removeMapping(table, e)
<1>2. \A i \in Idx : t[i] # None => t[i] = table[i]
  BY DEF removeMapping
<1> HIDE DEF t
<1>3. \A i, j \in Idx : \A f \in Eid : Holds(t, i, f) /\ Holds(t, j, f) => i = j
  BY <1>2 DEF Holds, TableInv
<1> QED
  BY <1>2, <1>3 DEF t, TableInv

(* makeMappingPerm keeps the invariant: it changes no id. *)
LEMMA MakePermInv ==
    ASSUME NEW table \in ETables, NEW counter \in Nat, TableInv(table, counter),
           NEW e \in Eid, NEW h \in Hash
    PROVE  TableInv(makeMappingPerm(table, e, h), counter)
<1> DEFINE t == makeMappingPerm(table, e, h)
<1>3. \A i \in Idx : /\ t[i] # None => table[i] # None /\ t[i].eid = table[i].eid
  BY DEF makeMappingPerm, Hit, Holds
<1> HIDE DEF t
<1>4. \A i, j \in Idx : \A f \in Eid : Holds(t, i, f) /\ Holds(t, j, f) => i = j
  BY <1>3 DEF Holds, TableInv
<1>5. \A i \in Idx : t[i] # None => t[i].eid < counter /\ 4 * t[i].eid + 3 <= cap_max_otype
  BY <1>3 DEF TableInv
<1> QED
  BY <1>4, <1>5 DEF t, TableInv
-----------------------------------------------------------------------------
(* The type invariant.                                                     *)

(* The trap vector is never written: the sweeps of EInitData always see the
   handler's own capability, so no section reaches past the arena. *)
Inv == TypeOK /\ scr.MTCC = OsCap

(* A tagged value of a register, a special register or a granule. *)
LEMMA IsCapFacts ==
    /\ \A v \in Cap \cup {Null} : IsCap(v) => v \in Cap
    /\ \A v \in Cap \cup Word : IsCap(v) => v \in Cap
    /\ \A v \in Cap \cup Word : ~ IsCap(v) => v \in Word
    /\ \A v \in Cap : IsCap(v)
  BY SailAssumption DEF IsCap

(* The fields of a capability. *)
LEMMA CapFields ==
    ASSUME NEW c \in Cap
    PROVE  /\ c.otype \in Otype /\ c.base \in Nat /\ c.top \in Nat
           /\ c.kind = "mem" => c \in MemCap
           /\ c.kind # "mem" => c \in KeyCap /\ c.otype = otype_unsealed
<1>1. CASE c \in MemCap
  <2>1. c.kind = "mem" /\ c.otype \in Otype
    BY <1>1 DEF MemCap
  <2>2. c.base \in 0 .. Granules + 1 /\ c.top \in 0 .. Granules + 1
    BY <1>1 DEF MemCap
  <2> QED
    BY <1>1, <2>1, <2>2, SailAssumption
<1>2. CASE c \in KeyCap
  <2>1. c.kind = "key" /\ c.otype = otype_unsealed
    BY <1>2 DEF KeyCap
  <2>2. c.base \in Otype /\ c.top \in 0 .. Otypes
    BY <1>2 DEF KeyCap
  <2>3. c.base \in Nat /\ c.top \in Nat
    BY <2>2, OtypeFacts DEF Otype
  <2> QED
    BY <1>2, <2>1, <2>3, EidFacts
<1> QED
  BY <1>1, <1>2 DEF Cap

(* Sealing, unsealing, new bounds and fewer permissions give capabilities to
   memory again. *)
LEMMA MemCapEdits ==
    ASSUME NEW c \in MemCap
    PROVE  /\ \A o \in Otype : sealCap(c, o) \in MemCap
           /\ unsealCap(c) \in MemCap
           /\ \A b, t \in c.base .. c.top : [c EXCEPT !.base = b, !.top = t] \in MemCap
           /\ \A ps \in PermSets : [c EXCEPT !.perms = ps] \in MemCap
<1>1. \A o \in Otype : sealCap(c, o) \in MemCap
  BY DEF MemCap, sealCap
<1>2. unsealCap(c) \in MemCap
  BY EidFacts DEF MemCap, unsealCap
<1>3. ASSUME NEW b \in c.base .. c.top, NEW t \in c.base .. c.top
      PROVE  [c EXCEPT !.base = b, !.top = t] \in MemCap
  <2>1. b \in 0 .. Granules + 1 /\ t \in 0 .. Granules + 1
    BY SailAssumption DEF MemCap
  <2>2. [c EXCEPT !.base = b] \in MemCap
    BY <2>1 DEF MemCap
  <2> QED
    BY <2>1, <2>2 DEF MemCap
<1>4. \A ps \in PermSets : [c EXCEPT !.perms = ps] \in MemCap
  BY DEF MemCap
<1> QED
  BY <1>1, <1>2, <1>3, <1>4

(* The handler's capability is one. *)
LEMMA OsCapType == OsCap \in Cap
  BY SailAssumption, EidFacts DEF OsCap, MemCapOf, Cap, MemCap

(* make_key: the keys of an enclave. *)
LEMMA KeyType == \A e \in Eid : make_key(4 * e, 4) \in Cap
  BY EidFacts DEF make_key, Cap, KeyCap

(* The registers after boot and the memory. *)
LEMMA InitType == Init => Inv
<1> SUFFICES ASSUME Init PROVE Inv
  OBVIOUS
<1>1. ETable \in ETables /\ EidCounter \in Nat
  BY EmptyTableInv DEF Init
<1>2. C \in [Reg -> Cap \cup {Null}]
  BY SailAssumption DEF Init, Cap
<1>3. scr \in [{"PCC", "DDC", "MEPCC", "MTCC"} -> Cap \cup {Null}] /\ scr.MTCC = OsCap
  BY OsCapType DEF Init
<1>4. mem \in [Granule -> Cap \cup Word]
  BY DEF Init
<1>5. enclave \in [Eid -> [code : SUBSET Granule, data : SUBSET Granule, entered : BOOLEAN]]
  <2>1. NoEnclave \in [code : SUBSET Granule, data : SUBSET Granule, entered : BOOLEAN]
    BY DEF NoEnclave
  <2> QED
    BY <2>1 DEF Init
<1> QED
  BY <1>1, <1>2, <1>3, <1>4, <1>5 DEF Inv, TypeOK

(* A register is written. *)
LEMMA SetCType ==
    ASSUME Inv, NEW cd \in Reg, NEW v \in Cap \cup {Null}, SetC(cd, v)
    PROVE  Inv'
  BY DEF SetC, Inv, TypeOK

(* A granule is written. *)
LEMMA SetMemType ==
    ASSUME Inv, NEW g \in Granule, NEW v \in Cap \cup Word, SetMem(g, v)
    PROVE  Inv'
  BY DEF SetMem, Inv, TypeOK

(* The handler is entered. *)
LEMMA EnterHandlerType ==
    ASSUME Inv, EnterHandler
    PROVE  /\ scr' \in [{"PCC", "DDC", "MEPCC", "MTCC"} -> Cap \cup {Null}]
           /\ scr'.MTCC = OsCap
  BY DEF EnterHandler, Inv, TypeOK

(* An instruction that fails enters the handler and does nothing else. *)
LEMMA ExceptionType == ASSUME Inv, Exception PROVE Inv'
  BY EnterHandlerType DEF Exception, Inv, TypeOK

(* make_hash of a section that passed the sweep: the section lies in the
   arena, because it does not overlap the handler's capability, and holds
   data words only. *)
LEMMA HashType ==
    ASSUME Inv, NEW cd \in Reg, NEW cs1 \in Reg, NEW cs2 \in Reg,
           EInitDataOk(cd, cs1, cs2)
    PROVE  C[cs1] \in MemCap /\ make_hash(C[cs1]) \in Hash
<1> DEFINE c == C[cs1]
           n == IF Length(c) < 0 THEN 0 ELSE Length(c)
<1>1. c \in MemCap
  <2>1. c \in Cap /\ isCapSealed(c)
    BY IsCapFacts DEF EInitDataOk, Inv, TypeOK
  <2> QED
    BY <2>1, CapFields DEF isCapSealed
<1>2. c.base \in 0 .. Granules + 1 /\ c.top \in 0 .. Granules + 1 /\ c.kind = "mem"
  BY <1>1 DEF MemCap
<1>3. Granules \in Nat
  BY SailAssumption
<1>4. c.base <= Granules => c.top <= Granules
  <2>1. ~ overlap(scr.MTCC, c)
    BY DEF EInitDataOk, sweep2, sweep_regs2, overlap_special, Inv, TypeOK
  <2>2. IsCap(OsCap) /\ IsCap(c) /\ scr.MTCC = OsCap
    BY OsCapType, IsCapFacts DEF Inv, EInitDataOk
  <2>3. OsCap.kind = "mem" /\ OsCap.base = Granules /\ OsCap.top = Granules + 1
    BY DEF OsCap, MemCapOf
  <2> QED
    BY <1>2, <1>3, <2>1, <2>2, <2>3 DEF overlap
<1>5. \A g \in InBounds(c) : mem[g] \in Word
  <2>1. \A g \in InBounds(c) : ~ IsCap(mem[g]) /\ g \in Granule
    BY DEF EInitDataOk, sweep2, sweep_mem2, InBounds
  <2>2. mem \in [Granule -> Cap \cup Word]
    BY DEF Inv, TypeOK
  <2> QED
    BY <2>1, <2>2, IsCapFacts
<1>6. \A i \in 1 .. Length(c) : c.base + i - 1 \in InBounds(c)
  BY <1>2, <1>3, <1>4 DEF Length, InBounds, Granule
<1>7. n \in 0 .. Granules + 1 /\ 1 .. Length(c) = 1 .. n
  BY <1>2, <1>3 DEF Length
<1>8. make_hash(c) \in [1 .. n -> Word]
  BY <1>5, <1>6, <1>7 DEF make_hash
<1> QED
  BY <1>1, <1>7, <1>8, SailAssumption

(* EInitCode: what it seals is a capability to memory, for keys do not let
   anything be loaded. *)
LEMMA EInitCodeType ==
    ASSUME Inv, NEW cd \in Reg, NEW cs1 \in Reg, EInitCode(cd, cs1)
    PROVE  Inv'
<1>1. CASE EInitCodeOk(cd, cs1)
  <2>1. PICK idx \in findFreeIdx(ETable), eid \in gen_eid(EidCounter) :
            /\ ETable' = addTempMapping(ETable, eid, idx)
            /\ C' = [C EXCEPT ![cd] = sealCap(C[cs1], EntryOtype(eid))]
    BY <1>1 DEF EInitCode
  <2>2. idx \in Idx /\ eid \in Eid /\ EidCounter \in Nat /\ ETable \in ETables
    BY GenEidFacts DEF findFreeIdx, Inv, TypeOK
  <2>3. ETable' \in ETables
    BY <2>1, <2>2, TableTypes
  <2>4. C[cs1] \in MemCap
    <3>1. C[cs1] \in Cap /\ "load" \in C[cs1].perms
      BY <1>1, IsCapFacts DEF EInitCodeOk, Inv, TypeOK
    <3>2. C[cs1] \notin KeyCap
      BY <3>1 DEF KeyCap
    <3> QED
      BY <3>1, <3>2 DEF Cap
  <2>5. sealCap(C[cs1], EntryOtype(eid)) \in Cap
    BY <2>2, <2>4, MemCapEdits, EidFacts DEF Cap
  <2>6. C' \in [Reg -> Cap \cup {Null}]
    BY <2>1, <2>5 DEF Inv, TypeOK
  <2>7. EidCounter' = EidCounter + 1 /\ UNCHANGED <<scr, mem, enclave>>
    BY <1>1 DEF EInitCode
  <2> QED
    BY <2>2, <2>3, <2>6, <2>7 DEF Inv, TypeOK
<1>2. CASE Exception
  BY <1>2, ExceptionType
<1> QED
  BY <1>1, <1>2 DEF EInitCode

(* EInitData: the hash is one, and key and seal are those of an id. *)
LEMMA EInitDataType ==
    ASSUME Inv, NEW cd \in Reg, NEW cs1 \in Reg, NEW cs2 \in Reg,
           EInitData(cd, cs1, cs2)
    PROVE  Inv'
<1> DEFINE eid == otype_to_eid(C[cs1].otype)
<1>1. CASE EInitDataOk(cd, cs1, cs2)
  <2>1. C[cs1] \in MemCap /\ make_hash(C[cs1]) \in Hash
    BY <1>1, HashType
  <2>2. C[cs1].otype \in Otype /\ eid \in Eid
    BY <2>1, EidFacts DEF MemCap
  <2>3. ETable' = makeMappingPerm(ETable, eid, make_hash(C[cs1])) /\ EidCounter' = EidCounter
    BY <1>1 DEF EInitData
  <2>4. ETable' \in ETables /\ EidCounter' \in Nat
    BY <2>1, <2>2, <2>3, TableTypes DEF Inv, TypeOK
  <2>5. C[cs2] \in MemCap
    <3>1. C[cs2] \in Cap /\ "store" \in C[cs2].perms
      BY <1>1, IsCapFacts DEF EInitDataOk, Inv, TypeOK
    <3>2. C[cs2] \notin KeyCap
      BY <3>1 DEF KeyCap
    <3> QED
      BY <3>1, <3>2 DEF Cap
  <2>6. CASE /\ StoreKey(eid, cs2)
             /\ C' = [C EXCEPT ![cd] = sealCap(C[cs2], C[cs1].otype)]
             /\ enclave' = [enclave EXCEPT ![eid].code = InBounds(C[cs1]),
                                           ![eid].data = InBounds(C[cs2])]
             /\ UNCHANGED scr
    <3>1. C' \in [Reg -> Cap \cup {Null}]
      <4>1. sealCap(C[cs2], C[cs1].otype) \in Cap
        BY <2>2, <2>5, MemCapEdits DEF Cap
      <4> QED
        BY <2>6, <4>1 DEF Inv, TypeOK
    <3>2. mem' \in [Granule -> Cap \cup Word]
      BY <2>2, <2>6, KeyType DEF StoreKey, Inv, TypeOK
    <3>3. enclave' \in [Eid -> [code : SUBSET Granule, data : SUBSET Granule,
                                entered : BOOLEAN]]
      <4> DEFINE Rec == [code : SUBSET Granule, data : SUBSET Granule, entered : BOOLEAN]
                 one == [enclave EXCEPT ![eid].code = InBounds(C[cs1])]
      <4>1. InBounds(C[cs1]) \in SUBSET Granule /\ InBounds(C[cs2]) \in SUBSET Granule
        BY DEF InBounds
      <4>2. enclave \in [Eid -> Rec]
        BY DEF Inv, TypeOK
      <4>3. \A r \in Rec, X \in SUBSET Granule :
               [r EXCEPT !.code = X] \in Rec /\ [r EXCEPT !.data = X] \in Rec
        OBVIOUS
      <4> HIDE DEF Rec
      <4>4. one \in [Eid -> Rec]
        BY <4>1, <4>2, <4>3, <2>2
      <4>5. enclave' = [one EXCEPT ![eid].data = InBounds(C[cs2])]
        BY <2>6
      <4> HIDE DEF one, eid
      <4>6. enclave' \in [Eid -> Rec]
        BY <4>1, <4>3, <4>4, <4>5, <2>2
      <4> QED
        BY <4>6 DEF Rec
    <3> QED
      BY <2>4, <2>6, <3>1, <3>2, <3>3 DEF Inv, TypeOK
  <2>7. CASE EnterHandler /\ UNCHANGED <<C, mem, enclave>>
    BY <2>4, <2>7, EnterHandlerType DEF Inv, TypeOK
  <2> QED
    BY <1>1, <2>6, <2>7 DEF EInitData
<1>2. CASE Exception
  BY <1>2, ExceptionType
<1> QED
  BY <1>1, <1>2 DEF EInitData

(* EStoreId writes data words, or fails. *)
LEMMA EStoreIdType ==
    ASSUME Inv, NEW otype \in Asked, NEW cs2 \in Reg, EStoreId(otype, cs2)
    PROVE  Inv'
<1>1. CASE Exception
  BY <1>1, ExceptionType
<1>2. ASSUME NEW at,
             mem' = [h \in Granule |-> IF h \in at THEN HashWord ELSE mem[h]],
             UNCHANGED <<scr, ETable, EidCounter, C, enclave>>
      PROVE  Inv'
  BY <1>2, SailAssumption DEF Inv, TypeOK
<1>3. CASE EnterHandler /\ UNCHANGED <<mem, ETable, EidCounter, C, enclave>>
  BY <1>3, EnterHandlerType DEF Inv, TypeOK
<1> QED
  BY <1>1, <1>2, <1>3 DEF EStoreId

(* EDeinit removes an entry, or fails. *)
LEMMA EDeinitType ==
    ASSUME Inv, NEW cs1 \in Reg, EDeinit(cs1)
    PROVE  Inv'
<1>1. PICK cursor \in Asked :
        \/ /\ EDeinitOk(cs1, cursor)
           /\ ETable' = removeMapping(ETable, otype_to_eid(cursor))
           /\ UNCHANGED <<EidCounter, C, scr, mem, enclave>>
        \/ ~ EDeinitOk(cs1, cursor) /\ Exception
  BY DEF EDeinit
<1>2. otype_to_eid(cursor) \in Eid
  BY SailAssumption, EidFacts
<1>3. ETable \in ETables
  BY DEF Inv, TypeOK
<1>4. removeMapping(ETable, otype_to_eid(cursor)) \in ETables
  BY <1>2, <1>3, TableTypes
<1> QED
  BY <1>1, <1>4, ExceptionType DEF Inv, TypeOK

(* The enclave instructions preserve the types. *)
LEMMA EnclavesType == ASSUME Inv, Enclaves PROVE Inv'
  BY EInitCodeType, EInitDataType, EStoreIdType, EDeinitType DEF Enclaves

(* Grants: the authority of an access is an unsealed capability to memory. *)
LEMMA GrantsFacts ==
    \A v \in Cap \cup {Null} : \A ps : Grants(v, ps) => v \in MemCap
  BY IsCapFacts, CapFields DEF Grants

(* The other instructions preserve the types. *)
LEMMA ProgramsType == ASSUME Inv, Programs PROVE Inv'
<1> USE DEF Inv, TypeOK
<1>1. ASSUME NEW cd \in Reg, NEW cs1 \in Reg, CMove(cd, cs1) PROVE Inv'
  BY <1>1, SetCType DEF CMove
<1>2. ASSUME NEW cd \in Reg, CClearTag(cd) PROVE Inv'
  BY <1>2, SetCType DEF CClearTag
<1>3. ASSUME NEW cd \in Reg, NEW cs1 \in Reg, CSetBounds(cd, cs1) PROVE Inv'
  <2>1. C[cs1] \in MemCap
    BY <1>3, GrantsFacts DEF CSetBounds
  <2>2. PICK b, t \in C[cs1].base .. C[cs1].top :
            SetC(cd, [C[cs1] EXCEPT !.base = b, !.top = t])
    BY <1>3 DEF CSetBounds
  <2>3. [C[cs1] EXCEPT !.base = b, !.top = t] \in Cap
    BY <2>1, MemCapEdits DEF Cap
  <2> QED
    BY <2>2, <2>3, SetCType
<1>4. ASSUME NEW cd \in Reg, NEW cs1 \in Reg, CAndPerm(cd, cs1) PROVE Inv'
  <2>1. C[cs1] \in MemCap
    BY <1>4, GrantsFacts DEF CAndPerm
  <2>2. PICK perms \in PermSets : SetC(cd, [C[cs1] EXCEPT !.perms = perms])
    BY <1>4 DEF CAndPerm
  <2>3. [C[cs1] EXCEPT !.perms = perms] \in Cap
    BY <2>1, MemCapEdits DEF Cap
  <2> QED
    BY <2>2, <2>3, SetCType
<1>5. ASSUME NEW cd \in Reg, NEW cs1 \in Reg, CSealEntry(cd, cs1) PROVE Inv'
  <2>1. C[cs1] \in MemCap
    BY <1>5, GrantsFacts DEF CSealEntry
  <2>2. sealCap(C[cs1], otype_sentry) \in Cap
    BY <2>1, MemCapEdits, EidFacts DEF Cap
  <2> QED
    BY <1>5, <2>2, SetCType DEF CSealEntry
<1>6. ASSUME NEW cd \in Reg, NEW cs1 \in Reg, NEW cs2 \in Reg, CSeal(cd, cs1, cs2)
      PROVE  Inv'
  <2>1. C[cs1] \in MemCap /\ C[cs2] \in Cap
    BY <1>6, GrantsFacts, IsCapFacts DEF CSeal, IsKey
  <2>2. PICK otype \in C[cs2].base .. C[cs2].top - 1 :
            otype <= cap_max_otype /\ SetC(cd, sealCap(C[cs1], otype))
    BY <1>6 DEF CSeal
  <2>3. otype \in Otype
    BY <2>1, <2>2, CapFields, OtypeFacts DEF cap_max_otype, Otype
  <2>4. sealCap(C[cs1], otype) \in Cap
    BY <2>1, <2>3, MemCapEdits DEF Cap
  <2> QED
    BY <2>2, <2>4, SetCType
<1>7. ASSUME NEW cd \in Reg, NEW cs1 \in Reg, NEW cs2 \in Reg, CUnseal(cd, cs1, cs2)
      PROVE  Inv'
  <2>1. C[cs1] \in MemCap
    BY <1>7, IsCapFacts, CapFields DEF CUnseal, isCapSealed
  <2>2. unsealCap(C[cs1]) \in Cap
    BY <2>1, MemCapEdits DEF Cap
  <2> QED
    BY <1>7, <2>2, SetCType DEF CUnseal
<1>8. ASSUME NEW cd \in Reg, LoadCap(cd) PROVE Inv'
  <2>1. PICK g \in Granule : SetC(cd, IF IsCap(mem[g]) THEN mem[g] ELSE Null)
    BY <1>8 DEF LoadCap, InBounds
  <2>2. (IF IsCap(mem[g]) THEN mem[g] ELSE Null) \in Cap \cup {Null}
    BY IsCapFacts
  <2> QED
    BY <2>1, <2>2, SetCType
<1>9. ASSUME NEW cs2 \in Reg, StoreCap(cs2) PROVE Inv'
  <2>1. C[cs2] \in Cap
    BY <1>9, IsCapFacts DEF StoreCap
  <2>2. PICK g \in Granule : SetMem(g, C[cs2])
    BY <1>9 DEF StoreCap, InBounds
  <2> QED
    BY <2>1, <2>2, SetMemType
<1>10. ASSUME NEW w \in Word, StoreData(w) PROVE Inv'
  <2>1. PICK g \in Granule : SetMem(g, w)
    BY <1>10 DEF StoreData, InBounds
  <2> QED
    BY <2>1, SetMemType
<1>11. ASSUME NEW cd \in Reg, NEW cs1 \in Reg, NEW s \in Scr, CSpecialRW(cd, s, cs1)
       PROVE  Inv'
  <2>1. s \in {"DDC", "MEPCC"}
    BY SailAssumption
  <2>2. C' \in [Reg -> Cap \cup {Null}]
    BY <1>11, <2>1 DEF CSpecialRW
  <2>3. /\ scr' \in [{"PCC", "DDC", "MEPCC", "MTCC"} -> Cap \cup {Null}]
        /\ scr'.MTCC = OsCap
    BY <1>11, <2>1 DEF CSpecialRW
  <2> QED
    BY <1>11, <2>2, <2>3 DEF CSpecialRW
<1>12. ASSUME NEW cs1 \in Reg, NEW cs2 \in Reg, CInvoke(cs1, cs2) PROVE Inv'
  <2>1. C[cs1] \in MemCap /\ C[cs2] \in MemCap
    <3>1. C[cs1] \in Cap /\ C[cs2] \in Cap
      BY <1>12, IsCapFacts DEF CInvoke
    <3>2. C[cs1].otype # otype_unsealed /\ C[cs2].otype # otype_unsealed
      BY <1>12, <3>1, CapFields, OtypeFacts DEF CInvoke, cap_max_otype, otype_unsealed, Otype
    <3> QED
      BY <3>1, <3>2, CapFields
  <2>2. unsealCap(C[cs1]) \in Cap /\ unsealCap(C[cs2]) \in Cap
    BY <2>1, MemCapEdits DEF Cap
  <2>3. C' \in [Reg -> Cap \cup {Null}]
    BY <1>12, <2>2, SailAssumption DEF CInvoke
  <2>4. /\ scr' \in [{"PCC", "DDC", "MEPCC", "MTCC"} -> Cap \cup {Null}]
        /\ scr'.MTCC = OsCap
    BY <1>12, <2>2 DEF CInvoke
  <2>5. otype_to_eid(C[cs1].otype) \in Eid
    BY <2>1, EidFacts DEF MemCap
  <2>6. enclave' \in [Eid -> [code : SUBSET Granule, data : SUBSET Granule,
                              entered : BOOLEAN]]
    BY <1>12, <2>5 DEF CInvoke
  <2> QED
    BY <1>12, <2>3, <2>4, <2>6 DEF CInvoke
<1>13. CASE Trap
  BY <1>13, ExceptionType DEF Trap
<1>14. CASE MRet
  <2>1. scr.MEPCC \in MemCap
    <3>1. scr.MEPCC \in Cap /\ "exec" \in scr.MEPCC.perms
      BY <1>14, IsCapFacts DEF MRet
    <3>2. scr.MEPCC \notin KeyCap
      BY <3>1 DEF KeyCap
    <3> QED
      BY <3>1, <3>2 DEF Cap
  <2>2. unsealCap(scr.MEPCC) \in Cap
    BY <2>1, MemCapEdits DEF Cap
  <2> QED
    BY <1>14, <2>2 DEF MRet
<1> QED
  BY <1>1, <1>2, <1>3, <1>4, <1>5, <1>6, <1>7, <1>8, <1>9, <1>10, <1>11,
     <1>12, <1>13, <1>14 DEF Programs

(* The types, and that the trap vector stays the handler's. *)
LEMMA InvCorrect == Spec => []Inv
<1>1. Init => Inv
  BY InitType
<1>2. Inv /\ [Next]_vars => Inv'
  <2> SUFFICES ASSUME Inv, [Next]_vars PROVE Inv'
    OBVIOUS
  <2>1. CASE Enclaves
    BY <2>1, EnclavesType
  <2>2. CASE Programs
    BY <2>2, ProgramsType
  <2>3. CASE UNCHANGED vars
    BY <2>3 DEF vars, Inv, TypeOK
  <2> QED
    BY <2>1, <2>2, <2>3 DEF Next
<1> QED
  BY <1>1, <1>2, PTL DEF Spec

(* The registers, the special registers, the memory and the table hold values
   of their types in every state, for every machine. *)
THEOREM TypeCorrect == Spec => []TypeOK
<1>1. Inv => TypeOK
  BY DEF Inv
<1> QED
  BY <1>1, InvCorrect, PTL
-----------------------------------------------------------------------------
(* The table.                                                              *)

(* The property of the runs is TableInv of the two registers of the TCB. *)
LEMMA TableOKDef == TableOK <=> TableInv(ETable, EidCounter)
  BY DEF TableOK, TableInv

(* The same in the next state. *)
LEMMA TableOKDefPrime == TableOK' <=> TableInv(ETable', EidCounter')
  BY DEF TableOK, TableInv, Holds

(* No program changes the registers of the TCB. *)
LEMMA ProgramsKeepTCB == Programs => UNCHANGED <<ETable, EidCounter>>
  BY DEF Programs, CMove, CClearTag, CSetBounds, CAndPerm, CSealEntry, CSeal,
         CUnseal, LoadCap, StoreCap, StoreData, CSpecialRW, CInvoke, Trap, MRet,
         SetC, SetMem, Exception

(* The enclave instructions keep the table in order: EInitCode because the
   counter runs ahead of every id in the table, EInitData and EDeinit because
   they change no id. *)
LEMMA EnclavesTable == ASSUME Inv, TableOK, Enclaves PROVE TableOK'
<1>0. ETable \in ETables /\ EidCounter \in Nat /\ TableInv(ETable, EidCounter)
  BY TableOKDef DEF Inv, TypeOK
<1>1. CASE UNCHANGED <<ETable, EidCounter>>
  BY <1>0, <1>1, TableOKDefPrime
<1>2. ASSUME NEW cd \in Reg, NEW cs1 \in Reg, EInitCode(cd, cs1) PROVE TableOK'
  <2>1. CASE EInitCodeOk(cd, cs1)
    <3>1. PICK idx \in findFreeIdx(ETable), eid \in gen_eid(EidCounter) :
              ETable' = addTempMapping(ETable, eid, idx)
      BY <1>2, <2>1 DEF EInitCode
    <3>2. EidCounter' = EidCounter + 1
      BY <1>2, <2>1 DEF EInitCode
    <3>3. TableInv(addTempMapping(ETable, eid, idx), EidCounter + 1)
      BY <1>0, <3>1, AddTempInv
    <3> QED
      BY <3>1, <3>2, <3>3, TableOKDefPrime
  <2>2. CASE Exception
    BY <1>1, <2>2 DEF Exception
  <2> QED
    BY <1>2, <2>1, <2>2 DEF EInitCode
<1>3. ASSUME NEW cd \in Reg, NEW cs1 \in Reg, NEW cs2 \in Reg, EInitData(cd, cs1, cs2)
      PROVE  TableOK'
  <2>1. CASE EInitDataOk(cd, cs1, cs2)
    <3>1. C[cs1] \in MemCap /\ make_hash(C[cs1]) \in Hash
      BY <2>1, HashType
    <3>2. otype_to_eid(C[cs1].otype) \in Eid
      BY <3>1, EidFacts DEF MemCap
    <3>3. /\ ETable' = makeMappingPerm(ETable, otype_to_eid(C[cs1].otype), make_hash(C[cs1]))
          /\ EidCounter' = EidCounter
      BY <1>3, <2>1 DEF EInitData
    <3> QED
      BY <1>0, <3>1, <3>2, <3>3, MakePermInv, TableOKDefPrime
  <2>2. CASE Exception
    BY <1>1, <2>2 DEF Exception
  <2> QED
    BY <1>3, <2>1, <2>2 DEF EInitData
<1>4. ASSUME NEW otype \in Asked, NEW cs2 \in Reg, EStoreId(otype, cs2) PROVE TableOK'
  BY <1>1, <1>4 DEF EStoreId, Exception
<1>5. ASSUME NEW cs1 \in Reg, EDeinit(cs1) PROVE TableOK'
  <2>1. PICK cursor \in Asked :
          \/ /\ ETable' = removeMapping(ETable, otype_to_eid(cursor))
             /\ EidCounter' = EidCounter
          \/ Exception
    BY <1>5 DEF EDeinit
  <2>2. CASE Exception
    BY <1>1, <2>2 DEF Exception
  <2> QED
    BY <1>0, <2>1, <2>2, RemoveInv, TableOKDefPrime
<1> QED
  BY <1>2, <1>3, <1>4, <1>5 DEF Enclaves

(* No two entries of ETable share an id, every id in it was issued by gen_eid,
   and none of its otypes is reserved, for every size of the table and every
   width of an otype. *)
THEOREM TableCorrect == Spec => []TableOK
<1>1. Init => Inv /\ TableOK
  BY InitType, EmptyTableInv, TableOKDef DEF Init
<1>2. (Inv /\ TableOK) /\ [Next]_vars => (Inv /\ TableOK)'
  <2> SUFFICES ASSUME Inv, TableOK, [Next]_vars PROVE Inv' /\ TableOK'
    OBVIOUS
  <2>1. CASE Enclaves
    BY <2>1, EnclavesType, EnclavesTable
  <2>2. CASE Programs
    BY <2>2, ProgramsType, ProgramsKeepTCB, TableOKDef, TableOKDefPrime
  <2>3. CASE UNCHANGED vars
    BY <2>3, TableOKDef, TableOKDefPrime DEF vars, Inv, TypeOK
  <2> QED
    BY <2>1, <2>2, <2>3 DEF Next
<1> QED
  BY <1>1, <1>2, PTL DEF Spec
-----------------------------------------------------------------------------
(* Looking up an id in a table in which no two entries share an id.        *)

(* The walk of the table stops at the only entry of the id. *)
LEMMA HitFacts ==
    ASSUME NEW table, NEW counter, TableInv(table, counter), NEW e \in Eid,
           NEW i \in Idx, Holds(table, i, e)
    PROVE  Hit(table, e) = {i}
<1>1. \A k, j \in Idx : Holds(table, k, e) /\ Holds(table, j, e) => k = j
  BY DEF TableInv
<1>2. \A j \in 0 .. i - 1 : j \in Idx /\ j # i
  BY TableSizeAssumption DEF Idx
<1> QED
  BY <1>1, <1>2 DEF Hit

(* What getId returns is that entry, if its flag is the one asked for. *)
LEMMA LookupFacts ==
    ASSUME NEW table, NEW counter, TableInv(table, counter), NEW e \in Eid, NEW b
    PROVE  /\ \A m \in getId(table, e, b) :
                 \E i \in Idx : Holds(table, i, e) /\ table[i].is_temp = b /\ m = table[i]
           /\ \A i \in Idx : Holds(table, i, e) /\ table[i].is_temp = b
                 => getId(table, e, b) = {table[i]}
<1>1. \A i \in Idx : Holds(table, i, e) => Hit(table, e) = {i}
  BY HitFacts
<1>2. \A i \in Hit(table, e) : i \in Idx /\ Holds(table, i, e)
  BY DEF Hit
<1> QED
  BY <1>1, <1>2 DEF getId

(* An entry is temporary or permanent, not both. *)
LEMMA LookupOne ==
    ASSUME NEW table, NEW counter, TableInv(table, counter), NEW e \in Eid
    PROVE  getId(table, e, TRUE) # {} => getId(table, e, FALSE) = {}
<1>1. \A i, j \in Idx : Holds(table, i, e) /\ Holds(table, j, e) => i = j
  BY DEF TableInv
<1> SUFFICES ASSUME NEW m \in getId(table, e, TRUE), NEW n \in getId(table, e, FALSE)
             PROVE  FALSE
  OBVIOUS
<1>2. PICK i \in Idx : Holds(table, i, e) /\ table[i].is_temp = TRUE
  BY DEF getId, Hit
<1>3. PICK j \in Idx : Holds(table, j, e) /\ table[j].is_temp = FALSE
  BY DEF getId, Hit
<1> QED
  BY <1>1, <1>2, <1>3

(* Two tables with the same entries of an id give the same answers. *)
LEMMA LookupSame ==
    ASSUME NEW table, NEW counter, TableInv(table, counter),
           NEW table2, NEW counter2, TableInv(table2, counter2), NEW e \in Eid,
           \A i \in Idx : Holds(table, i, e) \/ Holds(table2, i, e) => table[i] = table2[i]
    PROVE  \A b : getId(table, e, b) = getId(table2, e, b)
<1>1. \A i \in Idx : Holds(table, i, e) <=> Holds(table2, i, e)
  BY DEF Holds
<1> SUFFICES ASSUME NEW b PROVE getId(table, e, b) = getId(table2, e, b)
  OBVIOUS
<1>2. \A m \in getId(table, e, b) :
         \E i \in Idx : Holds(table, i, e) /\ table[i].is_temp = b /\ m = table[i]
  BY LookupFacts
<1>3. \A i \in Idx : Holds(table, i, e) /\ table[i].is_temp = b
         => getId(table, e, b) = {table[i]}
  BY LookupFacts
<1>4. \A m \in getId(table2, e, b) :
         \E i \in Idx : Holds(table2, i, e) /\ table2[i].is_temp = b /\ m = table2[i]
  BY LookupFacts
<1>5. \A i \in Idx : Holds(table2, i, e) /\ table2[i].is_temp = b
         => getId(table2, e, b) = {table2[i]}
  BY LookupFacts
<1> QED
  BY <1>1, <1>2, <1>3, <1>4, <1>5

(* addTempMapping changes no other id's answer. *)
LEMMA LookupAddOther ==
    ASSUME NEW table \in ETables, NEW counter \in Nat, TableInv(table, counter),
           NEW e \in gen_eid(counter), NEW idx \in findFreeIdx(table),
           NEW f \in Eid, f # e
    PROVE  /\ getId(addTempMapping(table, e, idx), f, TRUE) = getId(table, f, TRUE)
           /\ getId(addTempMapping(table, e, idx), f, FALSE) = getId(table, f, FALSE)
<1> DEFINE t == addTempMapping(table, e, idx)
<1>1. idx \in Idx /\ table[idx] = None
  BY DEF findFreeIdx
<1>2. TableInv(t, counter + 1)
  BY AddTempInv
<1>3. \A i \in Idx : i # idx => t[i] = table[i]
  BY <1>1 DEF addTempMapping, ETables
<1>4. t[idx].eid = e
  BY <1>1 DEF addTempMapping, ETables
<1> HIDE DEF t
<1>5. \A i \in Idx : Holds(t, i, f) \/ Holds(table, i, f) => t[i] = table[i]
  BY <1>1, <1>3, <1>4 DEF Holds
<1>6. \A b : getId(t, f, b) = getId(table, f, b)
  BY <1>2, <1>5, LookupSame
<1>7. getId(t, f, TRUE) = getId(table, f, TRUE)
  BY <1>6, Zenon
<1>8. getId(t, f, FALSE) = getId(table, f, FALSE)
  BY <1>6, Zenon
<1> QED
  BY <1>7, <1>8 DEF t

(* The id addTempMapping adds had no entry, and has a temporary one now. *)
LEMMA LookupAdd ==
    ASSUME NEW table \in ETables, NEW counter \in Nat, TableInv(table, counter),
           NEW e \in gen_eid(counter), NEW idx \in findFreeIdx(table)
    PROVE  /\ getId(addTempMapping(table, e, idx), e, TRUE) # {}
           /\ getId(addTempMapping(table, e, idx), e, FALSE) = {}
           /\ getId(table, e, TRUE) = {} /\ getId(table, e, FALSE) = {}
<1> DEFINE new == [id |-> ZeroHash, eid |-> e, is_temp |-> TRUE]
           t == addTempMapping(table, e, idx)
<1>1. e = counter /\ e \in Eid
  BY GenEidFacts
<1>2. idx \in Idx
  BY DEF findFreeIdx
<1>3. new # None /\ new.eid = e /\ new.is_temp = TRUE
  <2>1. new \in EMapping
    BY <1>1 DEF EMapping
  <2> QED
    BY <2>1, NoneAssumption
<1>4. TableInv(t, counter + 1)
  BY AddTempInv
<1>5. t[idx] = new
  BY <1>2 DEF addTempMapping, ETables
<1> HIDE DEF t, new
<1>6. Holds(t, idx, e) /\ t[idx].is_temp = TRUE
  BY <1>3, <1>5 DEF Holds
<1>7. Hit(t, e) = {idx}
  BY <1>1, <1>2, <1>4, <1>6, HitFacts
<1>8. getId(t, e, TRUE) # {}
  BY <1>6, <1>7 DEF getId
<1>9. getId(t, e, FALSE) = {}
  BY <1>6, <1>7 DEF getId
<1>10. \A i \in Idx : ~ Holds(table, i, e)
  BY <1>1 DEF TableInv, Holds, Eid
<1>11. getId(table, e, TRUE) = {} /\ getId(table, e, FALSE) = {}
  BY <1>10 DEF getId, Hit
<1> QED
  BY <1>8, <1>9, <1>11 DEF t

(* removeMapping changes no other id's answer. *)
LEMMA LookupRemoveOther ==
    ASSUME NEW table \in ETables, NEW counter \in Nat, TableInv(table, counter),
           NEW e \in Eid, NEW f \in Eid, f # e
    PROVE  /\ getId(removeMapping(table, e), f, TRUE) = getId(table, f, TRUE)
           /\ getId(removeMapping(table, e), f, FALSE) = getId(table, f, FALSE)
<1> DEFINE t == removeMapping(table, e)
<1>1. TableInv(t, counter)
  BY RemoveInv
<1>2. \A i \in Idx : t[i] = IF i \in Hit(table, e) THEN None ELSE table[i]
  BY DEF removeMapping
<1>3. \A i \in Hit(table, e) : Holds(table, i, e)
  BY DEF Hit
<1> HIDE DEF t
<1>4. \A i \in Idx : Holds(t, i, f) \/ Holds(table, i, f) => t[i] = table[i]
  BY <1>2, <1>3 DEF Holds
<1>5. \A b : getId(t, f, b) = getId(table, f, b)
  BY <1>1, <1>4, LookupSame
<1>6. getId(t, f, TRUE) = getId(table, f, TRUE)
  BY <1>5, Zenon
<1>7. getId(t, f, FALSE) = getId(table, f, FALSE)
  BY <1>5, Zenon
<1> QED
  BY <1>6, <1>7 DEF t

(* The id removeMapping removes has no entry any more. *)
LEMMA LookupRemove ==
    ASSUME NEW table \in ETables, NEW counter \in Nat, TableInv(table, counter),
           NEW e \in Eid
    PROVE  /\ getId(removeMapping(table, e), e, TRUE) = {}
           /\ getId(removeMapping(table, e), e, FALSE) = {}
<1> DEFINE t == removeMapping(table, e)
<1>1. \A i \in Idx : t[i] = IF i \in Hit(table, e) THEN None ELSE table[i]
  BY DEF removeMapping
<1>2. \A i \in Idx : Holds(table, i, e) => i \in Hit(table, e)
  BY HitFacts
<1> HIDE DEF t
<1>3. \A i \in Idx : ~ Holds(t, i, e)
  BY <1>1, <1>2 DEF Holds
<1>4. getId(t, e, TRUE) = {} /\ getId(t, e, FALSE) = {}
  BY <1>3 DEF getId, Hit
<1> QED
  BY <1>4 DEF t

(* makeMappingPerm changes no other id's answer. *)
LEMMA LookupPermOther ==
    ASSUME NEW table \in ETables, NEW counter \in Nat, TableInv(table, counter),
           NEW e \in Eid, NEW h \in Hash, NEW f \in Eid, f # e
    PROVE  /\ getId(makeMappingPerm(table, e, h), f, TRUE) = getId(table, f, TRUE)
           /\ getId(makeMappingPerm(table, e, h), f, FALSE) = getId(table, f, FALSE)
<1> DEFINE new == [id |-> h, eid |-> e, is_temp |-> FALSE]
           t == makeMappingPerm(table, e, h)
<1>1. TableInv(t, counter)
  BY MakePermInv
<1>2. \A i \in Idx : t[i] = new \/ t[i] = table[i]
  BY DEF makeMappingPerm
<1>3. \A i \in Idx : t[i] # table[i] => Holds(table, i, e)
  BY DEF makeMappingPerm, Hit
<1>4. new.eid = e
  OBVIOUS
<1> HIDE DEF t, new
<1>5. \A i \in Idx : Holds(t, i, f) \/ Holds(table, i, f) => t[i] = table[i]
  BY <1>2, <1>3, <1>4 DEF Holds
<1>6. \A b : getId(t, f, b) = getId(table, f, b)
  BY <1>1, <1>5, LookupSame
<1>7. getId(t, f, TRUE) = getId(table, f, TRUE)
  BY <1>6, Zenon
<1>8. getId(t, f, FALSE) = getId(table, f, FALSE)
  BY <1>6, Zenon
<1> QED
  BY <1>7, <1>8 DEF t

(* A temporary id that makeMappingPerm makes permanent has the identity it
   was given. *)
LEMMA LookupPerm ==
    ASSUME NEW table \in ETables, NEW counter \in Nat, TableInv(table, counter),
           NEW e \in Eid, NEW h \in Hash, getId(table, e, TRUE) # {}
    PROVE  /\ getId(makeMappingPerm(table, e, h), e, TRUE) = {}
           /\ getId(makeMappingPerm(table, e, h), e, FALSE)
                 = {[id |-> h, eid |-> e, is_temp |-> FALSE]}
<1> DEFINE new == [id |-> h, eid |-> e, is_temp |-> FALSE]
           t == makeMappingPerm(table, e, h)
<1>1. TableInv(t, counter)
  BY MakePermInv
<1>2. \A i \in Idx : i \in Hit(table, e) /\ table[i].is_temp => t[i] = new
  BY DEF makeMappingPerm
<1>3. PICK i \in Idx : i \in Hit(table, e) /\ table[i].is_temp
  BY DEF getId, Hit
<1>4. new # None /\ new.eid = e /\ new.is_temp = FALSE
  <2>1. new \in EMapping
    BY DEF EMapping
  <2> QED
    BY <2>1, NoneAssumption
<1> HIDE DEF t, new
<1>5. t[i] = new /\ Holds(t, i, e) /\ t[i].is_temp = FALSE
  BY <1>2, <1>3, <1>4 DEF Holds
<1>6. Hit(t, e) = {i}
  BY <1>1, <1>5, HitFacts
<1>7. getId(t, e, FALSE) = {new}
  BY <1>5, <1>6 DEF getId
<1>8. getId(t, e, TRUE) = {}
  BY <1>5, <1>6 DEF getId
<1> QED
  BY <1>7, <1>8 DEF t, new

-----------------------------------------------------------------------------
(* Refinement of the abstract trusted computing base.                      *)


(* What the two maps say of an id with a temporary entry, with a permanent
   one, and with none. *)
LEMMA StatusFacts ==
    ASSUME NEW e \in Eid
    PROVE  /\ getId(ETable, e, TRUE) # {} => StatusMap[e] = "temp"
           /\ getId(ETable, e, TRUE) = {} /\ getId(ETable, e, FALSE) # {}
                 => StatusMap[e] = "perm"
           /\ getId(ETable, e, TRUE) = {} /\ getId(ETable, e, FALSE) = {}
                 => StatusMap[e] = IF e < EidCounter THEN "gone" ELSE "unused"
           /\ getId(ETable, e, FALSE) = {} => IdentityMap[e] = ZeroHash
           /\ \A m : getId(ETable, e, FALSE) = {m} => IdentityMap[e] = m.id
  BY DEF StatusMap, IdentityMap

(* The status and the identity of an id, from what the table answers. *)
StatusOf(temp, perm, last) ==
    IF temp # {} THEN "temp" ELSE IF perm # {} THEN "perm" ELSE last

IdentityOf(perm) == IF perm = {} THEN ZeroHash ELSE (CHOOSE m \in perm : TRUE).id

Last(e, counter) == IF e < counter THEN "gone" ELSE "unused"

(* The two maps say no more than that. *)
LEMMA MapFacts ==
    ASSUME NEW e \in Eid
    PROVE  /\ StatusMap[e] = StatusOf(getId(ETable, e, TRUE), getId(ETable, e, FALSE),
                                     Last(e, EidCounter))
           /\ StatusMap'[e] = StatusOf(getId(ETable', e, TRUE), getId(ETable', e, FALSE),
                                      Last(e, EidCounter'))
           /\ IdentityMap[e] = IdentityOf(getId(ETable, e, FALSE))
           /\ IdentityMap'[e] = IdentityOf(getId(ETable', e, FALSE))
  BY DEF StatusMap, IdentityMap, StatusOf, IdentityOf, Last

(* An id whose entry does not change keeps its status, unless it is the one
   the counter passes. *)
LEMMA StatusSame ==
    ASSUME NEW e \in Eid,
           getId(ETable', e, TRUE) = getId(ETable, e, TRUE),
           getId(ETable', e, FALSE) = getId(ETable, e, FALSE),
           Last(e, EidCounter') = Last(e, EidCounter)
    PROVE  StatusMap'[e] = StatusMap[e] /\ IdentityMap'[e] = IdentityMap[e]
  BY MapFacts

(* Every live id has a slot of its own: with a slot free there are fewer than
   TableSize of them. *)
LEMMA RoomLeft ==
    ASSUME Inv, TableOK, NEW idx \in findFreeIdx(ETable)
    PROVE  Cardinality(TCB!Live(StatusMap)) < TableSize
<1> DEFINE L == TCB!Live(StatusMap)
           T == Idx \ {idx}
           slot == [e \in L |-> CHOOSE i \in Idx : Holds(ETable, i, e)]
<1>1. ASSUME NEW e \in L PROVE e \in Eid /\ \E i \in Idx : Holds(ETable, i, e)
  <2>1. e \in Eid /\ StatusMap[e] \in {"temp", "perm"}
    BY DEF TCB!Live
  <2>2. getId(ETable, e, TRUE) # {} \/ getId(ETable, e, FALSE) # {}
    BY <2>1, StatusFacts
  <2> QED
    BY <2>1, <2>2 DEF getId, Hit
<1>2. ASSUME NEW e \in L PROVE slot[e] \in T /\ Holds(ETable, slot[e], e)
  <2>1. slot[e] \in Idx /\ Holds(ETable, slot[e], e)
    BY <1>1
  <2>2. ETable[idx] = None
    BY DEF findFreeIdx
  <2> QED
    BY <2>1, <2>2 DEF Holds
<1>3. slot \in Injection(L, T)
  <2>1. \A e, f \in L : slot[e] = slot[f] => e = f
    BY <1>2 DEF Holds
  <2>2. slot \in [L -> T]
    BY <1>2
  <2> QED
    BY <2>1, <2>2 DEF Injection, IsInjective
<1>4. IsFiniteSet(Idx) /\ Cardinality(Idx) = TableSize
  BY TableSizeAssumption, FS_Interval DEF Idx
<1>5. IsFiniteSet(T) /\ Cardinality(T) = TableSize - 1
  <2>1. idx \in Idx
    BY DEF findFreeIdx
  <2> QED
    BY <1>4, <2>1, FS_RemoveElement
<1> HIDE DEF L, T, slot
<1>6. IsFiniteSet(L) /\ Cardinality(L) <= Cardinality(T)
  BY <1>3, <1>5, FS_Injection
<1>7. Cardinality(L) \in Nat
  BY <1>6, FS_CardinalityType
<1> QED
  BY <1>5, <1>6, <1>7, TableSizeAssumption DEF L
-----------------------------------------------------------------------------
(* The maps are functions on the ids: the next map is the old one changed at
   one id if it differs nowhere else. *)
LEMMA MapsChangeAt ==
    ASSUME NEW f \in Eid, NEW s, NEW i, StatusMap'[f] = s, IdentityMap'[f] = i,
           \A e \in Eid \ {f} : StatusMap'[e] = StatusMap[e] /\ IdentityMap'[e] = IdentityMap[e]
    PROVE  /\ StatusMap' = [StatusMap EXCEPT ![f] = s]
           /\ IdentityMap' = [IdentityMap EXCEPT ![f] = i]
           /\ i = IdentityMap[f] => IdentityMap' = IdentityMap
<1>1. /\ StatusMap = [e \in Eid |-> StatusMap[e]] /\ StatusMap' = [e \in Eid |-> StatusMap'[e]]
      /\ IdentityMap = [e \in Eid |-> IdentityMap[e]]
      /\ IdentityMap' = [e \in Eid |-> IdentityMap'[e]]
  BY DEF StatusMap, IdentityMap
<1> QED
  BY <1>1

(* EInitCode that succeeds is Create of the id gen_eid returned. *)
LEMMA CreateStep ==
    ASSUME Inv, TableOK, NEW cd \in Reg, NEW cs1 \in Reg, EInitCode(cd, cs1),
           EInitCodeOk(cd, cs1)
    PROVE  TCB!Next
<1>1. PICK idx \in findFreeIdx(ETable), f \in gen_eid(EidCounter) :
          ETable' = addTempMapping(ETable, f, idx)
  BY DEF EInitCode
<1>2. EidCounter' = EidCounter + 1
  BY DEF EInitCode
<1>3. ETable \in ETables /\ EidCounter \in Nat /\ TableInv(ETable, EidCounter)
  BY TableOKDef DEF Inv, TypeOK
<1>4. f = EidCounter /\ f \in Eid
  BY <1>3, GenEidFacts
<1>5. getId(ETable', f, TRUE) # {}
  BY <1>1, <1>3, LookupAdd
<1>6. getId(ETable', f, FALSE) = {}
  BY <1>1, <1>3, LookupAdd
<1>7. getId(ETable, f, TRUE) = {} /\ getId(ETable, f, FALSE) = {}
  BY <1>1, <1>3, LookupAdd
<1>8. ASSUME NEW e \in Eid \ {f}
      PROVE  StatusMap'[e] = StatusMap[e] /\ IdentityMap'[e] = IdentityMap[e]
  <2>1. /\ getId(ETable', e, TRUE) = getId(ETable, e, TRUE)
        /\ getId(ETable', e, FALSE) = getId(ETable, e, FALSE)
    BY <1>1, <1>3, LookupAddOther
  <2>2. e \in Int
    BY OtypeFacts DEF Eid
  <2>3. Last(e, EidCounter') = Last(e, EidCounter)
    BY <1>2, <1>3, <1>4, <2>2 DEF Last
  <2> QED
    BY <2>1, <2>3, StatusSame
<1>9. StatusMap[f] = "unused" /\ IdentityMap[f] = ZeroHash
  <2>1. Last(f, EidCounter) = "unused"
    BY <1>3, <1>4 DEF Last
  <2> QED
    BY <1>4, <1>7, <2>1, MapFacts DEF StatusOf, IdentityOf
<1>10. StatusMap'[f] = "temp" /\ IdentityMap'[f] = ZeroHash
  BY <1>4, <1>5, <1>6, MapFacts DEF StatusOf, IdentityOf
<1>11. StatusMap' = [StatusMap EXCEPT ![f] = "temp"] /\ IdentityMap' = IdentityMap
  BY <1>4, <1>8, <1>9, <1>10, MapsChangeAt
<1>12. Cardinality(TCB!Live(StatusMap)) < TableSize
  BY <1>1, RoomLeft
<1>13. TCB!Create(f)
  <2>1. TCB!Cardinality(TCB!Live(StatusMap)) = Cardinality(TCB!Live(StatusMap))
    BY DEF TCB!Cardinality, Cardinality
  <2> QED
    BY <1>9, <1>11, <1>12, <2>1 DEF TCB!Create
<1> QED
  BY <1>4, <1>13 DEF TCB!Next

(* EInitData that passes its checks is Attest, even if its key store fails. *)
LEMMA AttestStep ==
    ASSUME Inv, TableOK, NEW cd \in Reg, NEW cs1 \in Reg, NEW cs2 \in Reg,
           EInitData(cd, cs1, cs2), EInitDataOk(cd, cs1, cs2)
    PROVE  TCB!Next
<1> DEFINE f == otype_to_eid(C[cs1].otype)
           h == make_hash(C[cs1])
<1>1. C[cs1] \in MemCap /\ h \in Hash
  BY HashType
<1>2. f \in Eid
  BY <1>1, EidFacts DEF MemCap
<1>3. ETable' = makeMappingPerm(ETable, f, h) /\ EidCounter' = EidCounter
  BY DEF EInitData
<1>4. ETable \in ETables /\ EidCounter \in Nat /\ TableInv(ETable, EidCounter)
  BY TableOKDef DEF Inv, TypeOK
<1>5. getId(ETable, f, TRUE) # {}
  BY DEF EInitDataOk
<1> HIDE DEF f, h
<1>6. getId(ETable', f, TRUE) = {}
  BY <1>1, <1>2, <1>3, <1>4, <1>5, LookupPerm
<1>7. getId(ETable', f, FALSE) = {[id |-> h, eid |-> f, is_temp |-> FALSE]}
  BY <1>1, <1>2, <1>3, <1>4, <1>5, LookupPerm
<1>8. ASSUME NEW e \in Eid \ {f}
      PROVE  StatusMap'[e] = StatusMap[e] /\ IdentityMap'[e] = IdentityMap[e]
  <2>1. /\ getId(ETable', e, TRUE) = getId(ETable, e, TRUE)
        /\ getId(ETable', e, FALSE) = getId(ETable, e, FALSE)
    BY <1>1, <1>2, <1>3, <1>4, LookupPermOther
  <2> QED
    BY <1>3, <2>1, StatusSame
<1>9. StatusMap[f] = "temp"
  BY <1>2, <1>5, MapFacts DEF StatusOf
<1>10. StatusMap'[f] = "perm" /\ IdentityMap'[f] = h
  <2> DEFINE new == [id |-> h, eid |-> f, is_temp |-> FALSE]
  <2>1. StatusOf({}, {new}, Last(f, EidCounter')) = "perm"
    BY DEF StatusOf
  <2>2. new.id = h
    OBVIOUS
  <2> HIDE DEF new
  <2>5. IdentityOf({new}) = h
    <3>1. (CHOOSE m \in {new} : TRUE) = new /\ {new} # {}
      BY Zenon
    <3> QED
      BY <2>2, <3>1 DEF IdentityOf
  <2>3. /\ StatusMap'[f] = StatusOf(getId(ETable', f, TRUE), getId(ETable', f, FALSE),
                                   Last(f, EidCounter'))
        /\ IdentityMap'[f] = IdentityOf(getId(ETable', f, FALSE))
    BY <1>2, MapFacts
  <2>4. getId(ETable', f, FALSE) = {new}
    BY <1>7 DEF new
  <2> QED
    BY <1>6, <2>1, <2>5, <2>3, <2>4
<1>11. /\ StatusMap' = [StatusMap EXCEPT ![f] = "perm"]
       /\ IdentityMap' = [IdentityMap EXCEPT ![f] = h]
  BY <1>2, <1>8, <1>10, MapsChangeAt
<1>12. TCB!Attest(f, h)
  BY <1>9, <1>11 DEF TCB!Attest
<1> QED
  BY <1>1, <1>2, <1>12 DEF TCB!Next

(* EDeinit is Remove, or changes nothing because no entry has the id. *)
LEMMA RemoveStep ==
    ASSUME Inv, TableOK, NEW f \in Eid, ETable' = removeMapping(ETable, f),
           EidCounter' = EidCounter, tcb' # tcb
    PROVE  TCB!Next
<1>1. ETable \in ETables /\ EidCounter \in Nat /\ TableInv(ETable, EidCounter)
  BY TableOKDef DEF Inv, TypeOK
<1>2. PICK i \in Idx : i \in Hit(ETable, f) /\ Holds(ETable, i, f)
  <2>1. Hit(ETable, f) # {}
    <3>1. CASE Hit(ETable, f) = {}
      <4>1. ETable' = [i \in Idx |-> ETable[i]]
        BY <3>1 DEF removeMapping
      <4>2. ETable' = ETable
        BY <1>1, <4>1 DEF ETables
      <4> QED
        BY <4>2 DEF tcb
    <3> QED
      BY <3>1
  <2> QED
    BY <2>1 DEF Hit
<1>3. getId(ETable, f, TRUE) # {} \/ getId(ETable, f, FALSE) # {}
  <2>1. ETable[i].is_temp \in BOOLEAN
    BY <1>1, <1>2 DEF ETables, EMapping, Holds
  <2> QED
    BY <1>2, <2>1 DEF getId
<1>4. getId(ETable', f, TRUE) = {} /\ getId(ETable', f, FALSE) = {}
  BY <1>1, LookupRemove
<1>5. ASSUME NEW e \in Eid \ {f}
      PROVE  StatusMap'[e] = StatusMap[e] /\ IdentityMap'[e] = IdentityMap[e]
  <2>1. /\ getId(ETable', e, TRUE) = getId(ETable, e, TRUE)
        /\ getId(ETable', e, FALSE) = getId(ETable, e, FALSE)
    BY <1>1, LookupRemoveOther
  <2> QED
    BY <2>1, StatusSame
<1>6. f < EidCounter
  BY <1>1, <1>2 DEF TableInv, Holds
<1>7. StatusMap[f] \in {"temp", "perm"}
  BY <1>3, MapFacts DEF StatusOf
<1>8. StatusMap'[f] = "gone" /\ IdentityMap'[f] = ZeroHash
  <2>1. Last(f, EidCounter') = "gone"
    BY <1>6 DEF Last
  <2> QED
    BY <1>4, <2>1, MapFacts DEF StatusOf, IdentityOf
<1>9. /\ StatusMap' = [StatusMap EXCEPT ![f] = "gone"]
      /\ IdentityMap' = [IdentityMap EXCEPT ![f] = ZeroHash]
  BY <1>5, <1>8, MapsChangeAt
<1>10. TCB!Remove(f)
  BY <1>7, <1>9 DEF TCB!Remove
<1> QED
  BY <1>10 DEF TCB!Next

(* Every step that changes a register of the TCB is one of these. *)
LEMMA TCBStep == ASSUME Inv, TableOK, Next, tcb' # tcb PROVE TCB!Next
<1>1. CASE Programs
  BY <1>1, ProgramsKeepTCB DEF tcb
<1>2. ASSUME NEW cd \in Reg, NEW cs1 \in Reg, EInitCode(cd, cs1) PROVE TCB!Next
  BY <1>2, CreateStep DEF EInitCode, Exception, tcb
<1>3. ASSUME NEW cd \in Reg, NEW cs1 \in Reg, NEW cs2 \in Reg, EInitData(cd, cs1, cs2)
      PROVE  TCB!Next
  BY <1>3, AttestStep DEF EInitData, Exception, tcb
<1>4. ASSUME NEW otype \in Asked, NEW cs2 \in Reg, EStoreId(otype, cs2) PROVE TCB!Next
  BY <1>4 DEF EStoreId, Exception, tcb
<1>5. ASSUME NEW cs1 \in Reg, EDeinit(cs1) PROVE TCB!Next
  <2>1. PICK cursor \in Asked :
          \/ /\ ETable' = removeMapping(ETable, otype_to_eid(cursor))
             /\ EidCounter' = EidCounter
          \/ UNCHANGED <<ETable, EidCounter>>
    BY <1>5 DEF EDeinit, Exception
  <2>2. otype_to_eid(cursor) \in Eid
    BY SailAssumption, EidFacts
  <2> QED
    BY <2>1, <2>2, RemoveStep DEF tcb
<1> QED
  BY <1>1, <1>2, <1>3, <1>4, <1>5 DEF Next, Enclaves

(* The empty table is the initial state of the abstract trusted base. *)
LEMMA TCBInit == Init => TCB!Init
<1> SUFFICES ASSUME Init PROVE TCB!Init
  OBVIOUS
<1>1. \A e \in Eid : getId(ETable, e, TRUE) = {} /\ getId(ETable, e, FALSE) = {}
  BY DEF Init, EmptyTable, getId, Hit, Holds
<1>2. \A e \in Eid : Last(e, EidCounter) = "unused"
  BY OtypeFacts DEF Init, Last, Eid
<1>3. \A e \in Eid : StatusMap[e] = "unused" /\ IdentityMap[e] = ZeroHash
  BY <1>1, <1>2, MapFacts DEF StatusOf, IdentityOf
<1>4. StatusMap = [e \in Eid |-> StatusMap[e]] /\ IdentityMap = [e \in Eid |-> IdentityMap[e]]
  BY DEF StatusMap, IdentityMap
<1> QED
  BY <1>3, <1>4 DEF TCB!Init

(* Every step of the machine that changes the table or the counter is a step
   of the abstract trusted base: no id is reused, an identity is set once and
   never changed, and there are never more than TableSize entries. *)
THEOREM SailRefinesTCB == Spec => RefinesTCB
<1>1. Spec => [](Inv /\ TableOK)
  <2>1. Spec => []TableOK
    BY TableCorrect
  <2>2. Spec => []Inv
    BY InvCorrect
  <2> QED
    BY <2>1, <2>2, PTL
<1>2. Inv /\ TableOK /\ [Next]_vars => [tcb' # tcb => TCB!Next]_vars
  BY TCBStep
<1>3. Spec => TCB!Init
  BY TCBInit DEF Spec
<1> QED
  BY <1>1, <1>2, <1>3, PTL DEF Spec, RefinesTCB

(* So the machine implements the specification of the trusted base. *)
THEOREM SailImplementsTCB == Spec => TCB!Spec
<1>1. Spec => [](Inv /\ TableOK)
  <2>1. Spec => []TableOK
    BY TableCorrect
  <2>2. Spec => []Inv
    BY InvCorrect
  <2> QED
    BY <2>1, <2>2, PTL
<1>2. Inv /\ TableOK /\ [Next]_vars => [TCB!Next]_(TCB!vars)
  <2>1. CASE UNCHANGED tcb
    BY <2>1 DEF TCB!vars, StatusMap, IdentityMap, getId, Hit, Holds, tcb
  <2> QED
    BY <2>1, TCBStep DEF vars, tcb
<1>3. Spec => TCB!Init
  BY TCBInit DEF Spec
<1> QED
  BY <1>1, <1>2, <1>3, PTL DEF Spec, TCB!Spec

-----------------------------------------------------------------------------
(* Isolation and measurement: the inductive invariant.                     *)

Special == {"PCC", "DDC", "MEPCC", "MTCC"}

Claimed(rec) == rec.code \cup rec.data

Waiting(rec) == rec.data # {} /\ ~ rec.entered

(* A capability c leaves enclave e alone, whose sections and state are rec:
   it does not reach the sections of e unless it carries the seal of e, and
   is no key of e unless e has been entered. *)
Respects(c, e, rec) ==
    /\ Waiting(rec) /\ c.kind = "mem" /\ InBounds(c) \cap Claimed(rec) # {}
          => c.otype = EntryOtype(e)
    /\ IsKey(c) /\ c.base <= EntryOtype(e) /\ EntryOtype(e) < c.top
          => rec.data # {} /\ rec.entered

(* Exclusive and KeyConfined, one holder of capabilities at a time. *)
Isolated ==
    \A e \in Eid :
       /\ \A r \in Reg : IsCap(C[r]) => Respects(C[r], e, enclave[e])
       /\ \A s \in Special : IsCap(scr[s]) => Respects(scr[s], e, enclave[e])
       /\ \A g \in Granule \ enclave[e].data :
             IsCap(mem[g]) => Respects(mem[g], e, enclave[e])
       /\ Waiting(enclave[e]) => \A g \in enclave[e].code : ~ IsCap(mem[g])
       /\ \A f \in Eid \ {e} : Waiting(enclave[e]) /\ Waiting(enclave[f])
             => Claimed(enclave[e]) \cap Claimed(enclave[f]) = {}

(* An enclave has sections only once its entry is no longer temporary, and
   only if its otypes are not reserved. *)
ClaimedIssued ==
    \A e \in Eid : enclave[e].data # {} =>
       /\ e < EidCounter
       /\ 4 * e + 3 <= cap_max_otype
       /\ getId(ETable, e, TRUE) = {}

(* What every tagged value was made with: a key covers the four otypes of
   one id, and a seal is a sentry's or that of an id gen_eid has issued. *)
MintedWith(c, counter) ==
    /\ IsKey(c) => \E f \in Eid : c.base = 4 * f /\ c.top = 4 * f + 4
    /\ isCapSealed(c) => c.otype = otype_sentry \/ otype_to_eid(c.otype) < counter

Minted ==
    /\ \A r \in Reg : IsCap(C[r]) => MintedWith(C[r], EidCounter)
    /\ \A s \in Special : IsCap(scr[s]) => MintedWith(scr[s], EidCounter)
    /\ \A g \in Granule : IsCap(mem[g]) => MintedWith(mem[g], EidCounter)

IsoInv ==
    /\ Inv /\ TableOK
    /\ Isolated /\ ClaimedIssued /\ Minted
    /\ OneCodeSection /\ Measured

(* A value programs can come by: it leaves every enclave alone, is a key of
   one id or carries a seal that was made, and if the seal is that of a
   temporary entry the value was somewhere before. *)
Derivable(v, records) ==
    IsCap(v) =>
       /\ \A e \in Eid : Respects(v, e, records[e])
       /\ MintedWith(v, EidCounter)
       /\ isCapSealed(v) /\ getId(ETable, otype_to_eid(v.otype), TRUE) # {}
             => v \in Everywhere

(* What a step may do to the history: an enclave that waits has its sections
   from before, and one that was entered stays entered. *)
HistoryGrows ==
    \A e \in Eid :
       /\ enclave'[e].code = enclave[e].code
       /\ enclave'[e].data = enclave[e].data
       /\ enclave[e].entered => enclave'[e].entered

(* The otypes of an enclave are neither "unsealed" nor a sentry's. *)
LEMMA EntryOtypeFacts ==
    ASSUME NEW e \in Eid
    PROVE  /\ EntryOtype(e) # otype_unsealed
           /\ 4 * e + 3 <= cap_max_otype => EntryOtype(e) # otype_sentry
           /\ otype_to_eid(EntryOtype(e)) = e
           /\ \A f \in Eid : EntryOtype(f) = EntryOtype(e) => f = e
           /\ 4 * e + 3 <= cap_max_otype => e # otype_to_eid(otype_sentry)
  BY OtypeFacts DEF Eid, EntryOtype, otype_unsealed, otype_sentry, cap_max_otype, otype_to_eid

(* An enclave that is entered asks for no more than one that waits. *)
LEMMA RespectsGrows ==
    ASSUME NEW c, NEW e, NEW old, NEW new,
           new.code = old.code, new.data = old.data, old.entered => new.entered,
           Respects(c, e, old)
    PROVE  Respects(c, e, new)
  BY DEF Respects, Waiting, Claimed

(* Members of Everywhere. *)
LEMMA EverywhereFacts ==
    ASSUME TypeOK
    PROVE  /\ \A r \in Reg : IsCap(C[r]) => C[r] \in Everywhere
           /\ \A s \in Special : IsCap(scr[s]) => scr[s] \in Everywhere
           /\ \A g \in Granule : IsCap(mem[g]) => mem[g] \in Everywhere
           /\ \A c \in Everywhere : /\ IsCap(c)
                                    /\ \/ \E r \in Reg : c = C[r]
                                       \/ \E s \in Special : c = scr[s]
                                       \/ \E g \in Granule : c = mem[g]
  BY DEF Everywhere, TypeOK, Special

(* Registers hold values programs can come by. *)
LEMMA RegsDerivable ==
    ASSUME IsoInv, HistoryGrows
    PROVE  /\ \A r \in Reg : Derivable(C[r], enclave')
           /\ \A s \in Special : Derivable(scr[s], enclave')
<1>1. \A e \in Eid : \A c : Respects(c, e, enclave[e]) => Respects(c, e, enclave'[e])
  BY RespectsGrows DEF HistoryGrows
<1>2. TypeOK
  BY DEF IsoInv, Inv
<1>3. ASSUME NEW r \in Reg PROVE Derivable(C[r], enclave')
  BY <1>1, <1>2, EverywhereFacts DEF Derivable, IsoInv, Isolated, Minted
<1>4. ASSUME NEW s \in Special PROVE Derivable(scr[s], enclave')
  BY <1>1, <1>2, EverywhereFacts DEF Derivable, IsoInv, Isolated, Minted
<1> QED
  BY <1>3, <1>4

(* So do granules, but for the keys in the data section of an enclave that
   was not entered. *)
LEMMA GranulesDerivable ==
    ASSUME IsoInv, HistoryGrows, NEW g \in Granule,
           \A e \in Eid : Waiting(enclave[e]) => g \notin enclave[e].data
    PROVE  Derivable(mem[g], enclave')
<1>1. \A e \in Eid : \A c : Respects(c, e, enclave[e]) => Respects(c, e, enclave'[e])
  BY RespectsGrows DEF HistoryGrows
<1>2. TypeOK
  BY DEF IsoInv, Inv
<1>3. ASSUME NEW e \in Eid, IsCap(mem[g]) PROVE Respects(mem[g], e, enclave'[e])
  <2>1. CASE g \notin enclave[e].data
    BY <1>1, <1>3, <2>1 DEF IsoInv, Isolated
  <2>2. CASE g \in enclave[e].data
    <3>1. enclave[e].data # {} /\ enclave[e].entered
      BY <2>2 DEF Waiting
    <3> QED
      BY <1>1, <3>1 DEF Respects, Waiting
  <2> QED
    BY <2>1, <2>2
<1>4. IsCap(mem[g]) => MintedWith(mem[g], EidCounter) /\ mem[g] \in Everywhere
  BY <1>2, EverywhereFacts DEF IsoInv, Minted
<1> QED
  BY <1>3, <1>4 DEF Derivable

(* Authority that programs hold unsealed does not reach an enclave that was
   not entered. *)
LEMMA UnsealedApart ==
    ASSUME IsoInv, NEW v \in Cap, ~ isCapSealed(v), v.kind = "mem",
           \/ \E r \in Reg : v = C[r]
           \/ \E s \in Special : v = scr[s]
    PROVE  \A e \in Eid : Waiting(enclave[e]) => InBounds(v) \cap Claimed(enclave[e]) = {}
<1> SUFFICES ASSUME NEW e \in Eid, Waiting(enclave[e]) 
             PROVE  InBounds(v) \cap Claimed(enclave[e]) = {}
  OBVIOUS
<1>1. IsCap(v)
  BY IsCapFacts
<1>2. Respects(v, e, enclave[e])
  BY <1>1 DEF IsoInv, Isolated
<1>3. v.otype # EntryOtype(e)
  BY EntryOtypeFacts DEF isCapSealed
<1> QED
  BY <1>2, <1>3 DEF Respects

(* What an unsealed capability to memory can be made into: the same or
   smaller bounds, unsealed, or sealed with an otype that is no temporary
   entry's. *)
LEMMA UnsealedDerivable ==
    ASSUME IsoInv, NEW c \in Cap, ~ isCapSealed(c), c.kind = "mem",
           \/ \E r \in Reg : c = C[r]
           \/ \E s \in Special : c = scr[s],
           NEW d, d.kind = "mem", InBounds(d) \subseteq InBounds(c),
           isCapSealed(d) =>
              /\ d.otype = otype_sentry \/ otype_to_eid(d.otype) < EidCounter
              /\ getId(ETable, otype_to_eid(d.otype), TRUE) = {}
    PROVE  Derivable(d, enclave)
<1>1. \A e \in Eid : Waiting(enclave[e]) => InBounds(c) \cap Claimed(enclave[e]) = {}
  BY UnsealedApart
<1>2. \A e \in Eid : Respects(d, e, enclave[e])
  BY <1>1 DEF Respects, IsKey
<1> QED
  BY <1>2 DEF Derivable, MintedWith, IsKey

(* The property of the runs follows. *)
LEMMA IsoInvImplies == IsoInv => Exclusive /\ KeyConfined
<1> SUFFICES ASSUME IsoInv PROVE Exclusive /\ KeyConfined
  OBVIOUS
<1>1. ASSUME NEW e \in Eid, NEW c \in Outside(e) PROVE IsCap(c) /\ Respects(c, e, enclave[e])
  <2>1. IsCap(c) /\ \/ \E r \in Reg : c = C[r]
                    \/ \E s \in Special : c = scr[s]
                    \/ \E g \in Granule \ enclave[e].data : c = mem[g]
    BY DEF Outside, IsoInv, Inv, TypeOK, Special
  <2> QED
    BY <2>1 DEF IsoInv, Isolated
<1>2. \A e \in Eid : Untouched(e) <=> Waiting(enclave[e])
  BY DEF Untouched, Waiting
<1>3. Exclusive
  BY <1>1, <1>2 DEF Exclusive, Respects, IsoInv, Isolated, Claimed
<1>4. KeyConfined
  BY <1>1 DEF KeyConfined, Respects
<1> QED
  BY <1>3, <1>4
-----------------------------------------------------------------------------
(* Steps that leave the table alone.                                       *)

(* A step that puts only derivable values into registers and memory, and
   writes to no code section of an enclave that was not entered. *)
LEMMA ProgramStep ==
    ASSUME IsoInv, Inv', UNCHANGED <<ETable, EidCounter>>, HistoryGrows,
           \A r \in Reg : Derivable(C'[r], enclave'),
           \A s \in Special : Derivable(scr'[s], enclave'),
           \A g \in Granule :
              \/ mem'[g] = mem[g]
              \/ /\ Derivable(mem'[g], enclave')
                 /\ \A e \in Eid : Waiting(enclave[e]) => g \notin enclave[e].code
    PROVE  IsoInv'
<1>1. TypeOK /\ TypeOK'
  BY DEF IsoInv, Inv
<1>2. \A e \in Eid : \A c : Respects(c, e, enclave[e]) => Respects(c, e, enclave'[e])
  BY RespectsGrows DEF HistoryGrows
<1>3. \A e \in Eid : Waiting(enclave'[e]) => Waiting(enclave[e])
  BY DEF HistoryGrows, Waiting
<1>4. \A e \in Eid : Claimed(enclave'[e]) = Claimed(enclave[e])
  BY DEF HistoryGrows, Claimed
<1>5. \A e \in Eid : Waiting(enclave'[e]) => \A g \in enclave[e].code : mem'[g] = mem[g]
  <2>1. \A e \in Eid : enclave[e].code \subseteq Granule
    BY <1>1 DEF TypeOK
  <2> QED
    BY <1>3, <2>1
<1>6. TableOK'
  BY TableOKDef, TableOKDefPrime DEF IsoInv
<1>7. Isolated'
  <2> SUFFICES ASSUME NEW e \in Eid
               PROVE
       /\ \A r \in Reg : IsCap(C'[r]) => Respects(C'[r], e, enclave'[e])
       /\ \A s \in Special : IsCap(scr'[s]) => Respects(scr'[s], e, enclave'[e])
       /\ \A g \in Granule \ enclave'[e].data :
             IsCap(mem'[g]) => Respects(mem'[g], e, enclave'[e])
       /\ Waiting(enclave'[e]) => \A g \in enclave'[e].code : ~ IsCap(mem'[g])
       /\ \A f \in Eid \ {e} : Waiting(enclave'[e]) /\ Waiting(enclave'[f])
             => Claimed(enclave'[e]) \cap Claimed(enclave'[f]) = {}
    BY DEF Isolated
  <2>1. \A r \in Reg : IsCap(C'[r]) => Respects(C'[r], e, enclave'[e])
    BY DEF Derivable
  <2>2. \A s \in Special : IsCap(scr'[s]) => Respects(scr'[s], e, enclave'[e])
    BY DEF Derivable
  <2>3. \A g \in Granule \ enclave'[e].data :
           IsCap(mem'[g]) => Respects(mem'[g], e, enclave'[e])
    <3> SUFFICES ASSUME NEW g \in Granule \ enclave'[e].data, IsCap(mem'[g])
                 PROVE  Respects(mem'[g], e, enclave'[e])
      OBVIOUS
    <3>1. CASE mem'[g] = mem[g]
      <4>1. g \in Granule \ enclave[e].data
        BY DEF HistoryGrows
      <4>2. Respects(mem[g], e, enclave[e])
        BY <3>1, <4>1 DEF IsoInv, Isolated
      <4> QED
        BY <1>2, <3>1, <4>2
    <3>2. CASE Derivable(mem'[g], enclave')
      BY <3>2 DEF Derivable
    <3> QED
      BY <3>1, <3>2
  <2>4. Waiting(enclave'[e]) => \A g \in enclave'[e].code : ~ IsCap(mem'[g])
    BY <1>3, <1>5 DEF IsoInv, Isolated, HistoryGrows
  <2>5. \A f \in Eid \ {e} : Waiting(enclave'[e]) /\ Waiting(enclave'[f])
             => Claimed(enclave'[e]) \cap Claimed(enclave'[f]) = {}
    BY <1>3, <1>4 DEF IsoInv, Isolated
  <2> QED
    BY <2>1, <2>2, <2>3, <2>4, <2>5
<1>8. ClaimedIssued'
  BY DEF IsoInv, ClaimedIssued, HistoryGrows
<1>9. Minted'
  <2>1. \A r \in Reg : IsCap(C'[r]) => MintedWith(C'[r], EidCounter')
    BY DEF Derivable
  <2>2. \A s \in Special : IsCap(scr'[s]) => MintedWith(scr'[s], EidCounter')
    BY DEF Derivable
  <2>3. \A g \in Granule : IsCap(mem'[g]) => MintedWith(mem'[g], EidCounter')
    BY DEF Derivable, IsoInv, Minted
  <2> QED
    BY <2>1, <2>2, <2>3 DEF Minted
<1>10. OneCodeSection'
  <2>1. ASSUME NEW c \in Everywhere', isCapSealed(c),
               getId(ETable, otype_to_eid(c.otype), TRUE) # {}
        PROVE  c \in Everywhere
    <3>1. IsCap(c) /\ \/ \E r \in Reg : c = C'[r]
                      \/ \E s \in Special : c = scr'[s]
                      \/ \E g \in Granule : c = mem'[g]
      BY <1>1, <2>1 DEF Everywhere, TypeOK, Special
    <3>2. \A g \in Granule : IsCap(mem[g]) => mem[g] \in Everywhere
      BY <1>1, EverywhereFacts
    <3> QED
      BY <2>1, <3>1, <3>2 DEF Derivable
  <2> QED
    BY <2>1 DEF IsoInv, OneCodeSection
<1>11. Measured'
  <2> SUFFICES ASSUME NEW e \in Eid, Waiting(enclave'[e])
               PROVE  \E m \in getId(ETable', e, FALSE) :
                         \E base \in 0 .. Granules :
                            /\ enclave'[e].code = base .. base + Len(m.id) - 1
                            /\ \A i \in 1 .. Len(m.id) : mem'[base + i - 1] = m.id[i]
    BY DEF Measured, Untouched, Waiting
  <2>1. PICK m \in getId(ETable, e, FALSE), base \in 0 .. Granules :
            /\ enclave[e].code = base .. base + Len(m.id) - 1
            /\ \A i \in 1 .. Len(m.id) : mem[base + i - 1] = m.id[i]
    BY <1>3 DEF IsoInv, Measured, Untouched, Waiting
  <2>2. \A i \in 1 .. Len(m.id) : base + i - 1 \in enclave[e].code
    BY <2>1, SailAssumption
  <2>3. \A i \in 1 .. Len(m.id) : mem'[base + i - 1] = m.id[i]
    BY <1>5, <2>1, <2>2
  <2> QED
    BY <2>1, <2>3 DEF HistoryGrows
<1> QED
  BY <1>6, <1>7, <1>8, <1>9, <1>10, <1>11 DEF IsoInv

(* Values held now are derivable in a step that leaves the history alone. *)
LEMMA HeldDerivable ==
    ASSUME IsoInv, enclave' = enclave
    PROVE  /\ HistoryGrows
           /\ \A r \in Reg : Derivable(C[r], enclave)
           /\ \A s \in Special : Derivable(scr[s], enclave)
<1>1. HistoryGrows
  BY DEF HistoryGrows
<1> QED
  BY <1>1, RegsDerivable

(* A register is written. *)
LEMMA SetCStep ==
    ASSUME IsoInv, NEW cd \in Reg, NEW v \in Cap \cup {Null}, SetC(cd, v),
           Derivable(v, enclave)
    PROVE  IsoInv'
<1>1. Inv'
  BY SetCType DEF IsoInv
<1>2. UNCHANGED <<ETable, EidCounter, scr, mem, enclave>> /\ C' = [C EXCEPT ![cd] = v]
  BY DEF SetC
<1>3. \A r \in Reg : C'[r] = v \/ C'[r] = C[r]
  BY <1>2 DEF IsoInv, Inv, TypeOK
<1> QED
  BY <1>1, <1>2, <1>3, HeldDerivable, ProgramStep

(* A granule is written, outside the code of enclaves that were not entered. *)
LEMMA SetMemStep ==
    ASSUME IsoInv, NEW g \in Granule, NEW v \in Cap \cup Word, SetMem(g, v),
           Derivable(v, enclave),
           \A e \in Eid : Waiting(enclave[e]) => g \notin enclave[e].code
    PROVE  IsoInv'
<1>1. Inv'
  BY SetMemType DEF IsoInv
<1>2. UNCHANGED <<ETable, EidCounter, scr, C, enclave>> /\ mem' = [mem EXCEPT ![g] = v]
  BY DEF SetMem
<1>3. \A h \in Granule : mem'[h] = mem[h] \/ (h = g /\ mem'[h] = v)
  BY <1>2 DEF IsoInv, Inv, TypeOK
<1> QED
  BY <1>1, <1>2, <1>3, HeldDerivable, ProgramStep

(* The handler is entered. *)
LEMMA EnterHandlerDerivable ==
    ASSUME IsoInv, EnterHandler, enclave' = enclave
    PROVE  \A s \in Special : Derivable(scr'[s], enclave)
<1>1. \A s \in Special : \E t \in Special : scr'[s] = scr[t]
  BY DEF EnterHandler, Special, IsoInv, Inv, TypeOK
<1> QED
  BY <1>1, HeldDerivable

(* An instruction that fails. *)
LEMMA ExceptionStep == ASSUME IsoInv, Exception PROVE IsoInv'
<1>1. UNCHANGED <<ETable, EidCounter, C, mem, enclave>> /\ EnterHandler
  BY DEF Exception
<1>2. Inv'
  BY ExceptionType DEF IsoInv
<1> QED
  BY <1>1, <1>2, HeldDerivable, EnterHandlerDerivable, ProgramStep

(* The authority of an access does not reach an enclave that was not
   entered. *)
LEMMA AuthorityApart ==
    ASSUME IsoInv, NEW ps, NEW auth \in Authority(ps)
    PROVE  \A e \in Eid : Waiting(enclave[e]) => InBounds(auth) \cap Claimed(enclave[e]) = {}
<1>1. Grants(auth, ps) /\ \/ \E r \in Reg : auth = C[r]
                          \/ \E s \in Special : auth = scr[s]
  BY DEF Authority, Special
<1>2. auth \in Cap \cup {Null}
  BY <1>1 DEF IsoInv, Inv, TypeOK, Special
<1>3. auth \in Cap /\ ~ isCapSealed(auth) /\ auth.kind = "mem"
  BY <1>1, <1>2, IsCapFacts DEF Grants
<1> QED
  BY <1>1, <1>3, UnsealedApart

(* What sealing, unsealing, new bounds and fewer permissions leave of a
   capability to memory. *)
LEMMA EditFacts ==
    ASSUME NEW c \in MemCap
    PROVE  /\ \A o \in Otype : /\ sealCap(c, o).kind = "mem" /\ sealCap(c, o).otype = o
                               /\ InBounds(sealCap(c, o)) = InBounds(c)
           /\ unsealCap(c).kind = "mem" /\ unsealCap(c).otype = otype_unsealed
           /\ InBounds(unsealCap(c)) = InBounds(c)
           /\ \A b, t \in c.base .. c.top :
                 LET d == [c EXCEPT !.base = b, !.top = t] IN
                 d.kind = "mem" /\ d.otype = c.otype /\ InBounds(d) \subseteq InBounds(c)
           /\ \A ps \in PermSets :
                 LET d == [c EXCEPT !.perms = ps] IN
                 d.kind = "mem" /\ d.otype = c.otype /\ InBounds(d) = InBounds(c)
<1>1. c = [kind |-> "mem", base |-> c.base, top |-> c.top, perms |-> c.perms, otype |-> c.otype]
  BY DEF MemCap
<1>2. c.base \in 0 .. Granules + 1 /\ c.top \in 0 .. Granules + 1 /\ Granules \in Nat
  BY SailAssumption DEF MemCap
<1>3. ASSUME NEW o \in Otype
      PROVE  /\ sealCap(c, o).kind = "mem" /\ sealCap(c, o).otype = o
             /\ InBounds(sealCap(c, o)) = InBounds(c)
  <2>1. /\ sealCap(c, o).kind = "mem" /\ sealCap(c, o).otype = o
        /\ sealCap(c, o).base = c.base /\ sealCap(c, o).top = c.top
    BY <1>1 DEF sealCap
  <2> QED
    BY <2>1 DEF InBounds
<1>4. /\ unsealCap(c).kind = "mem" /\ unsealCap(c).otype = otype_unsealed
      /\ InBounds(unsealCap(c)) = InBounds(c)
  <2>1. /\ unsealCap(c).kind = "mem" /\ unsealCap(c).otype = otype_unsealed
        /\ unsealCap(c).base = c.base /\ unsealCap(c).top = c.top
    BY <1>1 DEF unsealCap
  <2> QED
    BY <2>1 DEF InBounds
<1>5. ASSUME NEW b \in c.base .. c.top, NEW t \in c.base .. c.top
      PROVE  LET d == [c EXCEPT !.base = b, !.top = t] IN
             d.kind = "mem" /\ d.otype = c.otype /\ InBounds(d) \subseteq InBounds(c)
  <2> DEFINE d == [c EXCEPT !.base = b, !.top = t]
  <2>1. d.kind = "mem" /\ d.otype = c.otype /\ d.base = b /\ d.top = t
    BY <1>1
  <2> HIDE DEF d
  <2>2. InBounds(d) \subseteq InBounds(c)
    BY <1>2, <2>1 DEF InBounds, Granule
  <2> QED
    BY <2>1, <2>2 DEF d
<1>6. ASSUME NEW ps \in PermSets
      PROVE  LET d == [c EXCEPT !.perms = ps] IN
             d.kind = "mem" /\ d.otype = c.otype /\ InBounds(d) = InBounds(c)
  <2> DEFINE d == [c EXCEPT !.perms = ps]
  <2>1. /\ d.kind = "mem" /\ d.otype = c.otype
        /\ d.base = c.base /\ d.top = c.top
    BY <1>1
  <2> QED
    BY <2>1 DEF InBounds
<1> QED
  BY <1>3, <1>4, <1>5, <1>6

(* Null and data words are derivable. *)
LEMMA UntaggedDerivable == \A v \in Word \cup {Null} : Derivable(v, enclave)
  BY DEF Derivable, IsCap

(* Unsealing a capability that no waiting enclave has sealed. *)
LEMMA UnsealDerivable ==
    ASSUME NEW c \in MemCap, NEW records,
           \A e \in Eid : Respects(c, e, records[e]),
           \A e \in Eid : Waiting(records[e]) => c.otype # EntryOtype(e)
    PROVE  Derivable(unsealCap(c), records)
<1>1. /\ unsealCap(c).kind = "mem" /\ unsealCap(c).otype = otype_unsealed
      /\ InBounds(unsealCap(c)) = InBounds(c)
  BY EditFacts
<1>2. c.kind = "mem"
  BY DEF MemCap
<1>3. \A e \in Eid : Respects(unsealCap(c), e, records[e])
  BY <1>1, <1>2 DEF Respects, IsKey
<1> QED
  BY <1>1, <1>3 DEF Derivable, MintedWith, IsKey, isCapSealed

(* A sentry is nobody's seal: no temporary entry has its otype. *)
LEMMA SentryNotTemp ==
    ASSUME IsoInv
    PROVE  getId(ETable, otype_to_eid(otype_sentry), TRUE) = {}
<1> DEFINE e == otype_to_eid(otype_sentry)
<1>1. e \in Eid
  BY EidFacts
<1>2. TableInv(ETable, EidCounter)
  BY TableOKDef DEF IsoInv
<1>3. \A i \in Idx : ~ Holds(ETable, i, e)
  BY <1>1, <1>2, EntryOtypeFacts DEF TableInv, Holds
<1> QED
  BY <1>3 DEF getId, Hit

(* A key that programs hold is that of an enclave that was entered, whose
   entry is therefore not temporary. *)
LEMMA KeyFacts ==
    ASSUME IsoInv, NEW r \in Reg, IsKey(C[r])
    PROVE  \E f \in Eid :
              /\ C[r].base = 4 * f /\ C[r].top = 4 * f + 4
              /\ enclave[f].data # {} /\ enclave[f].entered
              /\ f < EidCounter /\ getId(ETable, f, TRUE) = {}
              /\ \A o \in Otype : C[r].base <= o /\ o < C[r].top => otype_to_eid(o) = f
<1>1. IsCap(C[r])
  BY DEF IsKey
<1>2. PICK f \in Eid : C[r].base = 4 * f /\ C[r].top = 4 * f + 4
  BY <1>1 DEF IsoInv, Minted, MintedWith
<1>3. C[r].base <= EntryOtype(f) /\ EntryOtype(f) < C[r].top
  BY <1>2, OtypeFacts DEF EntryOtype, Eid
<1>4. enclave[f].data # {} /\ enclave[f].entered
  BY <1>1, <1>3 DEF IsoInv, Isolated, Respects
<1>5. f < EidCounter /\ getId(ETable, f, TRUE) = {}
  BY <1>4 DEF IsoInv, ClaimedIssued
<1>6. \A o \in Otype : C[r].base <= o /\ o < C[r].top => otype_to_eid(o) = f
  BY <1>2, OtypeFacts DEF otype_to_eid, Otype, Eid
<1> QED
  BY <1>2, <1>4, <1>5, <1>6

(* The instructions of programs keep the invariant. *)
LEMMA ProgramsIso == ASSUME IsoInv, Programs PROVE IsoInv'
<1>0. Inv /\ C \in [Reg -> Cap \cup {Null}] /\ mem \in [Granule -> Cap \cup Word]
      /\ scr \in [Special -> Cap \cup {Null}]
  BY DEF IsoInv, Inv, TypeOK, Special
<1>1. ASSUME NEW cd \in Reg, NEW cs1 \in Reg, CMove(cd, cs1) PROVE IsoInv'
  <2>1. Derivable(C[cs1], enclave)
    BY <1>1, HeldDerivable DEF CMove, SetC
  <2> QED
    BY <1>0, <1>1, <2>1, SetCStep DEF CMove
<1>2. ASSUME NEW cd \in Reg, CClearTag(cd) PROVE IsoInv'
  BY <1>2, UntaggedDerivable, SetCStep DEF CClearTag
<1>3. ASSUME NEW cd \in Reg, NEW cs1 \in Reg, CSetBounds(cd, cs1) PROVE IsoInv'
  <2>1. C[cs1] \in MemCap /\ ~ isCapSealed(C[cs1]) /\ C[cs1].kind = "mem"
    BY <1>0, <1>3, GrantsFacts DEF CSetBounds, Grants
  <2>2. PICK b, t \in C[cs1].base .. C[cs1].top :
            SetC(cd, [C[cs1] EXCEPT !.base = b, !.top = t])
    BY <1>3 DEF CSetBounds
  <2> DEFINE d == [C[cs1] EXCEPT !.base = b, !.top = t]
  <2>3. d \in Cap
    BY <2>1, MemCapEdits DEF Cap
  <2>4. d.kind = "mem" /\ d.otype = C[cs1].otype /\ InBounds(d) \subseteq InBounds(C[cs1])
    BY <2>1, EditFacts
  <2>5. SetC(cd, d)
    BY <2>2
  <2> HIDE DEF d
  <2>6. ~ isCapSealed(d)
    BY <2>1, <2>4 DEF isCapSealed
  <2>7. Derivable(d, enclave)
    BY <2>1, <2>4, <2>6, UnsealedDerivable DEF Cap
  <2> QED
    BY <2>3, <2>5, <2>7, SetCStep
<1>4. ASSUME NEW cd \in Reg, NEW cs1 \in Reg, CAndPerm(cd, cs1) PROVE IsoInv'
  <2>1. C[cs1] \in MemCap /\ ~ isCapSealed(C[cs1]) /\ C[cs1].kind = "mem"
    BY <1>0, <1>4, GrantsFacts DEF CAndPerm, Grants
  <2>2. PICK perms \in PermSets : SetC(cd, [C[cs1] EXCEPT !.perms = perms])
    BY <1>4 DEF CAndPerm
  <2> DEFINE d == [C[cs1] EXCEPT !.perms = perms]
  <2>3. d \in Cap
    BY <2>1, MemCapEdits DEF Cap
  <2>4. d.kind = "mem" /\ d.otype = C[cs1].otype /\ InBounds(d) = InBounds(C[cs1])
    BY <2>1, EditFacts
  <2>5. SetC(cd, d)
    BY <2>2
  <2> HIDE DEF d
  <2>6. ~ isCapSealed(d)
    BY <2>1, <2>4 DEF isCapSealed
  <2>7. Derivable(d, enclave)
    BY <2>1, <2>4, <2>6, UnsealedDerivable DEF Cap
  <2> QED
    BY <2>3, <2>5, <2>7, SetCStep
<1>5. ASSUME NEW cd \in Reg, NEW cs1 \in Reg, CSealEntry(cd, cs1) PROVE IsoInv'
  <2>1. C[cs1] \in MemCap /\ ~ isCapSealed(C[cs1]) /\ C[cs1].kind = "mem"
    BY <1>0, <1>5, GrantsFacts DEF CSealEntry, Grants
  <2> DEFINE d == sealCap(C[cs1], otype_sentry)
  <2>3. d \in Cap
    BY <2>1, MemCapEdits, EidFacts DEF Cap
  <2>4. d.kind = "mem" /\ d.otype = otype_sentry /\ InBounds(d) = InBounds(C[cs1])
    BY <2>1, EditFacts, EidFacts
  <2>5. SetC(cd, d)
    BY <1>5 DEF CSealEntry
  <2> HIDE DEF d
  <2>6. Derivable(d, enclave)
    BY <2>1, <2>4, SentryNotTemp, UnsealedDerivable DEF Cap
  <2> QED
    BY <2>3, <2>5, <2>6, SetCStep
<1>6. ASSUME NEW cd \in Reg, NEW cs1 \in Reg, NEW cs2 \in Reg, CSeal(cd, cs1, cs2)
      PROVE  IsoInv'
  <2>1. C[cs1] \in MemCap /\ ~ isCapSealed(C[cs1]) /\ C[cs1].kind = "mem"
    BY <1>0, <1>6, GrantsFacts DEF CSeal, Grants
  <2>2. PICK otype \in C[cs2].base .. C[cs2].top - 1 :
            otype <= cap_max_otype /\ SetC(cd, sealCap(C[cs1], otype))
    BY <1>6 DEF CSeal
  <2>3. PICK f \in Eid :
              /\ f < EidCounter /\ getId(ETable, f, TRUE) = {}
              /\ \A o \in Otype : C[cs2].base <= o /\ o < C[cs2].top => otype_to_eid(o) = f
    BY <1>6, KeyFacts DEF CSeal
  <2>4. otype \in Otype /\ C[cs2].base <= otype /\ otype < C[cs2].top
    <3>1. C[cs2] \in Cap
      BY <1>0, <1>6, IsCapFacts DEF CSeal, IsKey
    <3> QED
      BY <2>2, <3>1, CapFields, OtypeFacts DEF cap_max_otype, Otype
  <2>5. otype_to_eid(otype) = f
    BY <2>3, <2>4
  <2> DEFINE d == sealCap(C[cs1], otype)
  <2>6. d \in Cap
    BY <2>1, <2>4, MemCapEdits DEF Cap
  <2>7. d.kind = "mem" /\ d.otype = otype /\ InBounds(d) = InBounds(C[cs1])
    BY <2>1, <2>4, EditFacts
  <2>8. SetC(cd, d)
    BY <2>2
  <2> HIDE DEF d
  <2>9. Derivable(d, enclave)
    BY <2>1, <2>3, <2>5, <2>7, UnsealedDerivable DEF Cap
  <2> QED
    BY <2>6, <2>8, <2>9, SetCStep
<1>7. ASSUME NEW cd \in Reg, NEW cs1 \in Reg, NEW cs2 \in Reg, CUnseal(cd, cs1, cs2)
      PROVE  IsoInv'
  <2>1. C[cs1] \in MemCap /\ IsCap(C[cs1])
    BY <1>0, <1>7, IsCapFacts, CapFields DEF CUnseal, isCapSealed
  <2>2. \A e \in Eid : Respects(C[cs1], e, enclave[e])
    BY <2>1 DEF IsoInv, Isolated
  <2>3. ASSUME NEW e \in Eid, Waiting(enclave[e]) PROVE C[cs1].otype # EntryOtype(e)
    <3>1. Respects(C[cs2], e, enclave[e]) /\ IsKey(C[cs2])
      BY <1>7 DEF CUnseal, IsKey, IsoInv, Isolated
    <3> QED
      BY <1>7, <2>3, <3>1 DEF CUnseal, Respects, Waiting
  <2>4. Derivable(unsealCap(C[cs1]), enclave)
    BY <2>1, <2>2, <2>3, UnsealDerivable
  <2>5. unsealCap(C[cs1]) \in Cap
    BY <2>1, MemCapEdits DEF Cap
  <2> QED
    BY <1>7, <2>4, <2>5, SetCStep DEF CUnseal
<1>8. ASSUME NEW cd \in Reg, LoadCap(cd) PROVE IsoInv'
  <2>1. PICK auth \in Authority({"load"}) : \E g \in InBounds(auth) :
            SetC(cd, IF IsCap(mem[g]) THEN mem[g] ELSE Null)
    BY <1>8 DEF LoadCap
  <2>2. PICK g \in InBounds(auth) : SetC(cd, IF IsCap(mem[g]) THEN mem[g] ELSE Null)
    BY <2>1
  <2>3. g \in Granule /\ enclave' = enclave
    BY <2>2 DEF InBounds, SetC
  <2>4. \A e \in Eid : Waiting(enclave[e]) => g \notin enclave[e].data
    BY AuthorityApart DEF Claimed
  <2>5. Derivable(mem[g], enclave)
    BY <2>3, <2>4, HeldDerivable, GranulesDerivable
  <2> DEFINE v == IF IsCap(mem[g]) THEN mem[g] ELSE Null
  <2>6. v \in Cap \cup {Null} /\ Derivable(v, enclave)
    BY <1>0, <2>3, <2>5, IsCapFacts, UntaggedDerivable
  <2> QED
    BY <2>2, <2>6, SetCStep
<1>9. ASSUME NEW cs2 \in Reg, StoreCap(cs2) PROVE IsoInv'
  <2>1. PICK auth \in Authority({"store", "store_cap"}) :
            \E g \in InBounds(auth) : SetMem(g, C[cs2])
    BY <1>9 DEF StoreCap
  <2>2. PICK g \in InBounds(auth) : SetMem(g, C[cs2])
    BY <2>1
  <2>3. g \in Granule /\ enclave' = enclave
    BY <2>2 DEF InBounds, SetMem
  <2>4. \A e \in Eid : Waiting(enclave[e]) => g \notin enclave[e].code
    BY AuthorityApart DEF Claimed
  <2>5. C[cs2] \in Cap /\ Derivable(C[cs2], enclave)
    BY <1>0, <1>9, <2>3, IsCapFacts, HeldDerivable DEF StoreCap
  <2> QED
    BY <2>2, <2>3, <2>4, <2>5, SetMemStep
<1>10. ASSUME NEW w \in Word, StoreData(w) PROVE IsoInv'
  <2>1. PICK auth \in Authority({"store"}) : \E g \in InBounds(auth) : SetMem(g, w)
    BY <1>10 DEF StoreData
  <2>2. PICK g \in InBounds(auth) : SetMem(g, w)
    BY <2>1
  <2>3. g \in Granule
    BY <2>2 DEF InBounds
  <2>4. \A e \in Eid : Waiting(enclave[e]) => g \notin enclave[e].code
    BY AuthorityApart DEF Claimed
  <2> QED
    BY <2>2, <2>3, <2>4, UntaggedDerivable, SetMemStep
<1>11. ASSUME NEW cd \in Reg, NEW cs1 \in Reg, NEW s \in Scr, CSpecialRW(cd, s, cs1)
       PROVE  IsoInv'
  <2>1. s \in Special
    BY SailAssumption DEF Special
  <2>2. UNCHANGED <<ETable, EidCounter, mem, enclave>>
    BY <1>11 DEF CSpecialRW
  <2>3. \A r \in Reg : C'[r] = C[r] \/ C'[r] = scr[s]
    BY <1>0, <1>11 DEF CSpecialRW
  <2>4. \A t \in Special : scr'[t] = scr[t] \/ scr'[t] = C[cs1]
    BY <1>0, <1>11 DEF CSpecialRW
  <2>5. Inv'
    BY <1>0, <1>11, ProgramsType DEF Programs
  <2> QED
    BY <2>1, <2>2, <2>3, <2>4, <2>5, HeldDerivable, ProgramStep
<1>12. ASSUME NEW cs1 \in Reg, NEW cs2 \in Reg, CInvoke(cs1, cs2) PROVE IsoInv'
  <2> DEFINE f == otype_to_eid(C[cs1].otype)
  <2>1. C[cs1] \in MemCap /\ C[cs2] \in MemCap /\ IsCap(C[cs1]) /\ IsCap(C[cs2])
    <3>1. C[cs1] \in Cap /\ C[cs2] \in Cap
      BY <1>0, <1>12, IsCapFacts DEF CInvoke
    <3>2. C[cs1].otype # otype_unsealed /\ C[cs2].otype # otype_unsealed
      BY <1>12, <3>1, CapFields, OtypeFacts DEF CInvoke, cap_max_otype, otype_unsealed, Otype
    <3> QED
      BY <1>12, <3>1, <3>2, CapFields DEF CInvoke
  <2>2. f \in Eid /\ enclave' = [enclave EXCEPT ![f].entered = TRUE]
    BY <1>12, <2>1, EidFacts DEF CInvoke, MemCap
  <2>3. HistoryGrows /\ ~ Waiting(enclave'[f])
    BY <2>2 DEF HistoryGrows, Waiting, IsoInv, Inv, TypeOK
  <2>4. \A e \in Eid : Waiting(enclave'[e]) => C[cs1].otype # EntryOtype(e)
    <3>1. \A e \in Eid : C[cs1].otype = EntryOtype(e) => e = f
      BY EntryOtypeFacts
    <3> QED
      BY <2>3, <3>1
  <2>5. \A e \in Eid : Respects(C[cs1], e, enclave'[e]) /\ Respects(C[cs2], e, enclave'[e])
    BY <2>1, <2>3, RegsDerivable DEF Derivable
  <2>6. Derivable(unsealCap(C[cs1]), enclave') /\ Derivable(unsealCap(C[cs2]), enclave')
    BY <1>12, <2>1, <2>4, <2>5, UnsealDerivable DEF CInvoke
  <2>7. \A r \in Reg : C'[r] = C[r] \/ C'[r] = unsealCap(C[cs2])
    BY <1>0, <1>12, SailAssumption DEF CInvoke
  <2>8. \A s \in Special : scr'[s] = scr[s] \/ scr'[s] = unsealCap(C[cs1])
    BY <1>0, <1>12 DEF CInvoke, Special
  <2>9. Inv' /\ UNCHANGED <<ETable, EidCounter, mem>>
    BY <1>0, <1>12, ProgramsType DEF Programs, CInvoke
  <2> QED
    BY <2>3, <2>6, <2>7, <2>8, <2>9, RegsDerivable, ProgramStep
<1>13. CASE Trap
  BY <1>13, ExceptionStep DEF Trap
<1>14. CASE MRet
  <2>1. scr.MEPCC \in MemCap /\ IsCap(scr.MEPCC)
    <3>1. scr.MEPCC \in Cap /\ "exec" \in scr.MEPCC.perms
      BY <1>0, <1>14, IsCapFacts DEF MRet, Special
    <3>2. scr.MEPCC \notin KeyCap
      BY <3>1 DEF KeyCap
    <3> QED
      BY <1>14, <3>1, <3>2 DEF Cap, MRet
  <2>2. \A e \in Eid : Respects(scr.MEPCC, e, enclave[e])
    BY <2>1 DEF IsoInv, Isolated, Special
  <2>3. ASSUME NEW e \in Eid, Waiting(enclave[e]) PROVE scr.MEPCC.otype # EntryOtype(e)
    <3>1. 4 * e + 3 <= cap_max_otype
      BY <2>3 DEF IsoInv, ClaimedIssued, Waiting
    <3> QED
      BY <1>14, <3>1, EntryOtypeFacts DEF MRet
  <2>4. Derivable(unsealCap(scr.MEPCC), enclave)
    BY <2>1, <2>2, <2>3, UnsealDerivable
  <2>5. \A s \in Special : scr'[s] = scr[s] \/ scr'[s] = unsealCap(scr.MEPCC)
    BY <1>0, <1>14 DEF MRet, Special
  <2>6. Inv' /\ UNCHANGED <<ETable, EidCounter, C, mem, enclave>>
    BY <1>0, <1>14, ProgramsType DEF Programs, MRet
  <2> QED
    BY <2>4, <2>5, <2>6, HeldDerivable, ProgramStep
<1> QED
  BY <1>1, <1>2, <1>3, <1>4, <1>5, <1>6, <1>7, <1>8, <1>9, <1>10, <1>11,
     <1>12, <1>13, <1>14 DEF Programs
-----------------------------------------------------------------------------
(* The enclave instructions.                                               *)

(* A step that makes no entry temporary, keeps the identity of the enclaves
   that were not entered, and at most enters the handler. *)
LEMMA TableStep ==
    ASSUME IsoInv, Inv', TableOK', UNCHANGED <<EidCounter, C, mem, enclave>>,
           \A s \in Special : \E t \in Special : scr'[s] = scr[t],
           \A e \in Eid : getId(ETable', e, TRUE) # {} => getId(ETable, e, TRUE) # {},
           \A e \in Eid : Waiting(enclave[e]) =>
              getId(ETable', e, FALSE) = getId(ETable, e, FALSE)
    PROVE  IsoInv'
<1>1. TypeOK /\ TypeOK'
  BY DEF IsoInv, Inv
<1>2. Isolated'
  BY DEF IsoInv, Isolated
<1>3. ClaimedIssued'
  BY DEF IsoInv, ClaimedIssued
<1>4. Minted'
  BY DEF IsoInv, Minted
<1>5. OneCodeSection'
  <2>1. \A c \in Everywhere' : c \in Everywhere
    BY <1>1 DEF Everywhere, TypeOK, Special
  <2> QED
    BY <2>1 DEF IsoInv, OneCodeSection
<1>6. Measured'
  <2> SUFFICES ASSUME NEW e \in Eid, Waiting(enclave'[e])
               PROVE  \E m \in getId(ETable', e, FALSE) :
                         \E base \in 0 .. Granules :
                            /\ enclave'[e].code = base .. base + Len(m.id) - 1
                            /\ \A i \in 1 .. Len(m.id) : mem'[base + i - 1] = m.id[i]
    BY DEF Measured, Untouched, Waiting
  <2>1. getId(ETable', e, FALSE) = getId(ETable, e, FALSE)
    OBVIOUS
  <2>2. \E m \in getId(ETable, e, FALSE) :
           \E base \in 0 .. Granules :
              /\ enclave[e].code = base .. base + Len(m.id) - 1
              /\ \A i \in 1 .. Len(m.id) : mem[base + i - 1] = m.id[i]
    BY DEF IsoInv, Measured, Untouched, Waiting
  <2> QED
    BY <2>1, <2>2
<1> QED
  BY <1>2, <1>3, <1>4, <1>5, <1>6 DEF IsoInv

(* EDeinit: only a holder of a key of e removes the entry of e, and by then
   e was entered. *)
LEMMA EDeinitIso ==
    ASSUME IsoInv, NEW cs1 \in Reg, EDeinit(cs1)
    PROVE  IsoInv'
<1>1. PICK cursor \in Asked :
        \/ /\ EDeinitOk(cs1, cursor)
           /\ ETable' = removeMapping(ETable, otype_to_eid(cursor))
           /\ UNCHANGED <<EidCounter, C, scr, mem, enclave>>
        \/ ~ EDeinitOk(cs1, cursor) /\ Exception
  BY DEF EDeinit
<1>2. CASE Exception
  BY <1>2, ExceptionStep
<1>3. CASE /\ EDeinitOk(cs1, cursor)
           /\ ETable' = removeMapping(ETable, otype_to_eid(cursor))
           /\ UNCHANGED <<EidCounter, C, scr, mem, enclave>>
  <2> DEFINE f == otype_to_eid(cursor)
  <2>1. ETable \in ETables /\ EidCounter \in Nat /\ TableInv(ETable, EidCounter)
    BY TableOKDef DEF IsoInv, Inv, TypeOK
  <2>2. cursor \in Otype /\ f \in Eid
    BY SailAssumption, EidFacts
  <2>3. Inv' /\ TableOK'
    BY EnclavesType, EnclavesTable DEF Enclaves, IsoInv
  <2>4. IsKey(C[cs1])
    <3>1. C[cs1] \in Cap /\ IsCap(C[cs1]) /\ {"seal", "unseal"} \subseteq C[cs1].perms
      BY <1>3, IsCapFacts DEF EDeinitOk, IsoInv, Inv, TypeOK
    <3>2. C[cs1] \notin MemCap
      BY <3>1, PermAssumption DEF MemCap, FullPerms
    <3> QED
      BY <3>1, <3>2 DEF Cap, KeyCap, IsKey
  <2>5. enclave[f].entered
    BY <1>3, <2>2, <2>4, KeyFacts DEF EDeinitOk
  <2>6. /\ \A e \in Eid \ {f} : /\ getId(ETable', e, TRUE) = getId(ETable, e, TRUE)
                                /\ getId(ETable', e, FALSE) = getId(ETable, e, FALSE)
        /\ getId(ETable', f, TRUE) = {}
    BY <1>3, <2>1, <2>2, LookupRemove, LookupRemoveOther
  <2>7. \A e \in Eid : getId(ETable', e, TRUE) # {} => getId(ETable, e, TRUE) # {}
    BY <2>6
  <2>8. \A e \in Eid : Waiting(enclave[e]) => getId(ETable', e, FALSE) = getId(ETable, e, FALSE)
    BY <2>5, <2>6 DEF Waiting
  <2> QED
    BY <1>3, <2>3, <2>7, <2>8, TableStep
<1> QED
  BY <1>1, <1>2, <1>3

(* EStoreId writes through an unsealed capability, so to no section of an
   enclave that was not entered. *)
LEMMA EStoreIdIso ==
    ASSUME IsoInv, NEW otype \in Asked, NEW cs2 \in Reg, EStoreId(otype, cs2)
    PROVE  IsoInv'
<1>0. Inv'
  BY EStoreIdType DEF IsoInv
<1>1. CASE Exception
  BY <1>1, ExceptionStep
<1>2. ASSUME NEW at, EStoreIdOk(cs2, at), "store" \in C[cs2].perms,
             mem' = [h \in Granule |-> IF h \in at THEN HashWord ELSE mem[h]],
             UNCHANGED <<scr, ETable, EidCounter, C, enclave>>
      PROVE  IsoInv'
  <2>1. C[cs2] \in Cap /\ "store" \in C[cs2].perms /\ ~ isCapSealed(C[cs2])
    BY <1>2, IsCapFacts DEF EStoreIdOk, IsoInv, Inv, TypeOK
  <2>2. C[cs2].kind = "mem"
    BY <2>1 DEF Cap, KeyCap, MemCap
  <2>3. \A e \in Eid : Waiting(enclave[e]) => InBounds(C[cs2]) \cap Claimed(enclave[e]) = {}
    BY <2>1, <2>2, UnsealedApart
  <2>4. \A g \in Granule : \/ mem'[g] = mem[g]
                           \/ mem'[g] = HashWord /\ g \in InBounds(C[cs2])
    BY <1>2 DEF EStoreIdOk
  <2>5. Derivable(HashWord, enclave)
    BY UntaggedDerivable, SailAssumption
  <2> QED
    BY <1>0, <1>2, <2>3, <2>4, <2>5, HeldDerivable, ProgramStep DEF Claimed
<1>3. CASE EnterHandler /\ UNCHANGED <<mem, ETable, EidCounter, C, enclave>>
  BY <1>0, <1>3, HeldDerivable, EnterHandlerDerivable, ProgramStep
<1>4. PICK g \in Granule :
        LET at == g .. g + HashSize - 1 IN
        \/ Exception
        \/ /\ EStoreIdOk(cs2, at) /\ "store" \in C[cs2].perms
           /\ mem' = [h \in Granule |-> IF h \in at THEN HashWord ELSE mem[h]]
           /\ UNCHANGED <<scr, ETable, EidCounter, C, enclave>>
        \/ EnterHandler /\ UNCHANGED <<mem, ETable, EidCounter, C, enclave>>
  BY DEF EStoreId
<1> QED
  BY <1>1, <1>2, <1>3, <1>4

(* EInitCode: the section gets a seal that nobody has, and keeps away from
   the sections of the enclaves that were not entered. *)
LEMMA EInitCodeIso ==
    ASSUME IsoInv, NEW cd \in Reg, NEW cs1 \in Reg, EInitCode(cd, cs1)
    PROVE  IsoInv'
<1>1. CASE Exception
  BY <1>1, ExceptionStep
<1>2. CASE EInitCodeOk(cd, cs1)
  <2>1. PICK idx \in findFreeIdx(ETable), f \in gen_eid(EidCounter) :
            /\ ETable' = addTempMapping(ETable, f, idx)
            /\ C' = [C EXCEPT ![cd] = sealCap(C[cs1], EntryOtype(f))]
    BY <1>2 DEF EInitCode
  <2>2. EidCounter' = EidCounter + 1 /\ UNCHANGED <<scr, mem, enclave>>
    BY <1>2 DEF EInitCode
  <2>3. /\ ETable \in ETables /\ EidCounter \in Nat /\ TableInv(ETable, EidCounter)
        /\ C \in [Reg -> Cap \cup {Null}]
    BY TableOKDef DEF IsoInv, Inv, TypeOK
  <2>4. f = EidCounter /\ f \in Eid /\ 4 * f + 3 <= cap_max_otype
    BY <2>3, GenEidFacts
  <2>5. Inv' /\ TableOK'
    BY EnclavesType, EnclavesTable DEF Enclaves, IsoInv
  <2>6. C[cs1] \in MemCap /\ ~ isCapSealed(C[cs1]) /\ C[cs1].kind = "mem"
    <3>1. C[cs1] \in Cap /\ "load" \in C[cs1].perms /\ ~ isCapSealed(C[cs1])
      BY <1>2, <2>3, IsCapFacts DEF EInitCodeOk
    <3>2. C[cs1] \notin KeyCap
      BY <3>1 DEF KeyCap
    <3> QED
      BY <3>1, <3>2 DEF Cap, MemCap
  <2> DEFINE d == sealCap(C[cs1], EntryOtype(f))
  <2>7. d \in Cap /\ d.kind = "mem" /\ d.otype = EntryOtype(f) /\ InBounds(d) = InBounds(C[cs1])
    BY <2>4, <2>6, EditFacts, MemCapEdits, EidFacts DEF Cap
  <2>8. \A r \in Reg : C'[r] = d \/ C'[r] = C[r]
    BY <2>1, <2>3
  <2>9. C'[cd] = d
    BY <2>1, <2>3
  <2>10. /\ \A e \in Eid \ {f} : /\ getId(ETable', e, TRUE) = getId(ETable, e, TRUE)
                                 /\ getId(ETable', e, FALSE) = getId(ETable, e, FALSE)
         /\ getId(ETable', f, TRUE) # {}
    <3>1. getId(ETable', f, TRUE) # {}
      BY <2>1, <2>3, LookupAdd
    <3>2. \A e \in Eid \ {f} : /\ getId(ETable', e, TRUE) = getId(ETable, e, TRUE)
                              /\ getId(ETable', e, FALSE) = getId(ETable, e, FALSE)
      BY <2>1, <2>3, LookupAddOther
    <3> QED
      BY <3>1, <3>2
  <2> HIDE DEF d
  <2>11. \A e \in Eid : Waiting(enclave[e]) => InBounds(C[cs1]) \cap Claimed(enclave[e]) = {}
    BY <2>6, UnsealedApart DEF Cap
  <2>12. enclave[f].data = {}
    <3>1. ~ (f < EidCounter)
      BY <2>3, <2>4
    <3> QED
      BY <2>4, <3>1 DEF IsoInv, ClaimedIssued
  <2>13. Isolated'
    <3>1. \A e \in Eid : Respects(d, e, enclave[e])
      BY <2>7, <2>11 DEF Respects, IsKey
    <3> QED
      BY <2>2, <2>8, <3>1 DEF IsoInv, Isolated
  <2>14. ClaimedIssued'
    <3> SUFFICES ASSUME NEW e \in Eid, enclave[e].data # {}
                 PROVE  /\ e < EidCounter' /\ 4 * e + 3 <= cap_max_otype
                        /\ getId(ETable', e, TRUE) = {}
      BY <2>2 DEF ClaimedIssued
    <3>1. e < EidCounter /\ 4 * e + 3 <= cap_max_otype /\ getId(ETable, e, TRUE) = {}
      BY DEF IsoInv, ClaimedIssued
    <3>2. e # f
      BY <2>12
    <3>3. getId(ETable', e, TRUE) = getId(ETable, e, TRUE)
      BY <2>10, <3>2
    <3>4. e < EidCounter'
      BY <2>2, <2>3, <3>1, OtypeFacts DEF Eid
    <3> QED
      BY <3>1, <3>3, <3>4
  <2>15. \A c \in Cap : MintedWith(c, EidCounter) => MintedWith(c, EidCounter')
    <3>1. \A c \in Cap : otype_to_eid(c.otype) \in Int
      BY CapFields, EidFacts DEF Eid
    <3> QED
      BY <2>2, <2>3, <3>1 DEF MintedWith
  <2>16. MintedWith(d, EidCounter')
    BY <2>2, <2>3, <2>4, <2>7, EntryOtypeFacts DEF MintedWith, IsKey
  <2>17. Minted'
    <3>1. \A r \in Reg : IsCap(C'[r]) => MintedWith(C'[r], EidCounter')
      BY <2>3, <2>8, <2>15, <2>16, IsCapFacts DEF IsoInv, Minted
    <3>2. \A s \in Special : IsCap(scr'[s]) => MintedWith(scr'[s], EidCounter')
      BY <2>2, <2>15, IsCapFacts DEF IsoInv, Minted, Inv, TypeOK, Special
    <3>3. \A g \in Granule : IsCap(mem'[g]) => MintedWith(mem'[g], EidCounter')
      BY <2>2, <2>15, IsCapFacts DEF IsoInv, Minted, Inv, TypeOK
    <3> QED
      BY <3>1, <3>2, <3>3 DEF Minted
  <2>18. OneCodeSection'
    <3>1. \A c \in Everywhere' : c = d \/ c \in Everywhere
      BY <2>2, <2>8 DEF Everywhere
    <3>2. ASSUME NEW c \in Everywhere, isCapSealed(c) PROVE otype_to_eid(c.otype) # f
      <4>1. MintedWith(c, EidCounter)
        BY EverywhereFacts DEF IsoInv, Inv, Minted
      <4>2. CASE c.otype = otype_sentry
        BY <2>4, <4>2, EntryOtypeFacts
      <4>3. CASE otype_to_eid(c.otype) < EidCounter
        BY <2>3, <2>4, <4>3
      <4> QED
        BY <3>2, <4>1, <4>2, <4>3 DEF MintedWith
    <3>3. otype_to_eid(d.otype) = f
      BY <2>4, <2>7, EntryOtypeFacts
    <3>4. ASSUME NEW c \in Everywhere', NEW b \in Everywhere', NEW e \in Eid,
                 getId(ETable', e, TRUE) # {},
                 isCapSealed(c), otype_to_eid(c.otype) = e,
                 isCapSealed(b), otype_to_eid(b.otype) = e
          PROVE  c = b /\ c.otype = EntryOtype(e)
      <4>1. CASE e = f
        BY <2>7, <3>1, <3>2, <3>4, <4>1
      <4>2. CASE e # f
        <5>1. c \in Everywhere /\ b \in Everywhere
          BY <3>1, <3>3, <3>4, <4>2
        <5>2. getId(ETable, e, TRUE) # {}
          BY <2>10, <3>4, <4>2
        <5> QED
          BY <3>4, <5>1, <5>2 DEF IsoInv, OneCodeSection
      <4> QED
        BY <4>1, <4>2
    <3> QED
      BY <3>4 DEF OneCodeSection
  <2>19. Measured'
    <3> SUFFICES ASSUME NEW e \in Eid, Waiting(enclave'[e])
                 PROVE  \E m \in getId(ETable', e, FALSE) :
                           \E base \in 0 .. Granules :
                              /\ enclave'[e].code = base .. base + Len(m.id) - 1
                              /\ \A i \in 1 .. Len(m.id) : mem'[base + i - 1] = m.id[i]
      BY DEF Measured, Untouched, Waiting
    <3>1. e # f /\ Waiting(enclave[e])
      BY <2>2, <2>12 DEF Waiting
    <3>2. getId(ETable', e, FALSE) = getId(ETable, e, FALSE)
      BY <2>10, <3>1
    <3>3. \E m \in getId(ETable, e, FALSE) :
             \E base \in 0 .. Granules :
                /\ enclave[e].code = base .. base + Len(m.id) - 1
                /\ \A i \in 1 .. Len(m.id) : mem[base + i - 1] = m.id[i]
      BY <3>1 DEF IsoInv, Measured, Untouched, Waiting
    <3> QED
      BY <2>2, <3>2, <3>3
  <2> QED
    BY <2>5, <2>13, <2>14, <2>17, <2>18, <2>19 DEF IsoInv
<1> QED
  BY <1>1, <1>2 DEF EInitCode

(* overlap: capabilities it lets pass share no granule. *)
LEMMA OverlapFacts ==
    ASSUME NEW c \in MemCap, NEW d \in MemCap, ~ overlap(c, d)
    PROVE  InBounds(c) \cap InBounds(d) = {}
<1>1. IsCap(c) /\ IsCap(d) /\ c.kind = d.kind
  BY IsCapFacts DEF Cap, MemCap
<1>2. /\ c.base \in 0 .. Granules + 1 /\ c.top \in 0 .. Granules + 1
      /\ d.base \in 0 .. Granules + 1 /\ d.top \in 0 .. Granules + 1
      /\ Granules \in Nat
  BY SailAssumption DEF MemCap
<1> QED
  BY <1>1, <1>2 DEF overlap, InBounds, Granule

(* The same for any tagged value: a key overlaps no memory. *)
LEMMA OverlapAny ==
    ASSUME NEW c \in MemCap, NEW v, v \in Cap, v.kind = "mem",
           ~ overlap(c, v) \/ ~ overlap(v, c)
    PROVE  InBounds(v) \cap InBounds(c) = {}
<1>1. v \in MemCap
  BY CapFields
<1>2. CASE ~ overlap(c, v)
  BY <1>1, <1>2, OverlapFacts
<1>3. CASE ~ overlap(v, c)
  BY <1>1, <1>3, OverlapFacts
<1> QED
  BY <1>2, <1>3

(* The length of a sequence given as a function. *)
LEMMA LenFacts == ASSUME NEW S, NEW n \in Nat, NEW s \in [1 .. n -> S] PROVE Len(s) = n
  OBVIOUS

(* make_hash of a section that passed the sweep reads the section itself. *)
LEMMA HashReads ==
    ASSUME Inv, NEW cd \in Reg, NEW cs1 \in Reg, NEW cs2 \in Reg,
           EInitDataOk(cd, cs1, cs2)
    PROVE  \E base \in 0 .. Granules :
              /\ InBounds(C[cs1]) = base .. base + Len(make_hash(C[cs1])) - 1
              /\ \A i \in 1 .. Len(make_hash(C[cs1])) :
                    mem[base + i - 1] = make_hash(C[cs1])[i]
<1> DEFINE c == C[cs1]
           n == IF Length(c) < 0 THEN 0 ELSE Length(c)
           h == make_hash(c)
<1>1. c \in MemCap
  BY HashType
<1>2. c.base \in 0 .. Granules + 1 /\ c.top \in 0 .. Granules + 1 /\ c.kind = "mem"
  BY <1>1 DEF MemCap
<1>3. Granules \in Nat
  BY SailAssumption
<1>4. c.base <= Granules => c.top <= Granules
  <2>1. ~ overlap(scr.MTCC, c)
    BY DEF EInitDataOk, sweep2, sweep_regs2, overlap_special, Inv, TypeOK
  <2>2. IsCap(OsCap) /\ IsCap(c) /\ scr.MTCC = OsCap
    BY OsCapType, IsCapFacts DEF Inv, EInitDataOk
  <2>3. OsCap.kind = "mem" /\ OsCap.base = Granules /\ OsCap.top = Granules + 1
    BY DEF OsCap, MemCapOf
  <2> QED
    BY <1>2, <1>3, <2>1, <2>2, <2>3 DEF overlap
<1>5. n \in Nat /\ 1 .. Length(c) = 1 .. n
  BY <1>2, <1>3 DEF Length
<1>6. h = [i \in 1 .. n |-> mem[c.base + i - 1]]
  BY <1>5 DEF make_hash
<1>7. Len(h) = n
  <2>1. h \in [1 .. n -> {mem[c.base + i - 1] : i \in 1 .. n}]
    BY <1>6
  <2> HIDE DEF h, n
  <2> QED
    BY <1>5, <2>1, LenFacts
<1>8. CASE Length(c) > 0
  <2>1. c.base \in 0 .. Granules /\ n = c.top - c.base /\ c.top <= Granules
    BY <1>2, <1>3, <1>4, <1>8 DEF Length
  <2>2. InBounds(c) = c.base .. c.base + n - 1
    BY <1>2, <1>3, <2>1 DEF InBounds, Granule
  <2>3. \A i \in 1 .. n : mem[c.base + i - 1] = h[i]
    BY <1>6
  <2> HIDE DEF h, n, c
  <2> QED
    BY <1>7, <2>1, <2>2, <2>3 DEF h, c
<1>9. CASE ~ (Length(c) > 0)
  <2>1. InBounds(c) = {} /\ n = 0
    BY <1>2, <1>3, <1>9 DEF InBounds, Granule, Length
  <2>2. 0 \in 0 .. Granules /\ InBounds(c) = 0 .. 0 + Len(h) - 1
    BY <1>3, <1>7, <2>1
  <2>3. \A i \in 1 .. Len(h) : mem[0 + i - 1] = h[i]
    BY <1>7, <2>1
  <2> HIDE DEF h, n, c
  <2> QED
    BY <2>2, <2>3 DEF h, c
<1> QED
  BY <1>8, <1>9

(* What EInitData's conditions say: the section that becomes the code has the
   seal of an entry that is still temporary, so no sections yet and no keys,
   and nobody but cs1 and cs2 reaches the two sections. *)
LEMMA EInitDataFacts ==
    ASSUME IsoInv, NEW cd \in Reg, NEW cs1 \in Reg, NEW cs2 \in Reg,
           EInitDataOk(cd, cs1, cs2), NEW f, f = otype_to_eid(C[cs1].otype)
    PROVE  /\ C[cs1] \in MemCap /\ C[cs2] \in MemCap /\ ~ isCapSealed(C[cs2])
           /\ f \in Eid /\ C[cs1].otype = EntryOtype(f)
           /\ getId(ETable, f, TRUE) # {} /\ enclave[f].data = {}
           /\ f < EidCounter /\ 4 * f + 3 <= cap_max_otype
<1>1. C[cs1] \in MemCap
  BY HashType DEF IsoInv
<1>2. C[cs2] \in MemCap /\ ~ isCapSealed(C[cs2])
  <2>1. C[cs2] \in Cap /\ "store" \in C[cs2].perms
    BY IsCapFacts DEF EInitDataOk, IsoInv, Inv, TypeOK
  <2>2. C[cs2] \notin KeyCap
    BY <2>1 DEF KeyCap
  <2> QED
    BY <2>1, <2>2 DEF Cap, EInitDataOk
<1>3. C[cs1].otype \in Otype /\ f \in Eid /\ C[cs1].otype % 4 = 2
  BY <1>1, EidFacts DEF MemCap, EInitDataOk
<1>4. C[cs1].otype = EntryOtype(f)
  BY <1>3, OtypeFacts DEF EntryOtype, otype_to_eid, Otype
<1>5. getId(ETable, f, TRUE) # {}
  BY DEF EInitDataOk
<1>6. enclave[f].data = {}
  BY <1>3, <1>5 DEF IsoInv, ClaimedIssued
<1>7. PICK i \in Idx : Holds(ETable, i, f)
  BY <1>5 DEF getId, Hit
<1>8. f < EidCounter /\ 4 * f + 3 <= cap_max_otype
  BY <1>7 DEF IsoInv, TableOK, Holds
<1> QED
  BY <1>1, <1>2, <1>3, <1>4, <1>5, <1>6, <1>8

(* The sweep of EInitData, one holder of capabilities at a time. *)
LEMMA SweepFacts ==
    ASSUME IsoInv, NEW cd \in Reg, NEW cs1 \in Reg, NEW cs2 \in Reg,
           EInitDataOk(cd, cs1, cs2), NEW X,
           X = InBounds(C[cs1]) \cup InBounds(C[cs2])
    PROVE  /\ \A r \in Reg \ {cs1, cs2} : IsCap(C[r]) /\ C[r].kind = "mem"
                 => InBounds(C[r]) \cap X = {}
           /\ \A s \in Special : IsCap(scr[s]) /\ scr[s].kind = "mem"
                 => InBounds(scr[s]) \cap X = {}
           /\ \A g \in Granule \ InBounds(C[cs2]) : IsCap(mem[g]) /\ mem[g].kind = "mem"
                 => InBounds(mem[g]) \cap X = {}
           /\ \A g \in InBounds(C[cs1]) : ~ IsCap(mem[g])
           /\ InBounds(C[cs1]) \cap InBounds(C[cs2]) = {}
<1>1. C[cs1] \in MemCap /\ C[cs2] \in MemCap
  BY EInitDataFacts
<1>2. sweep_regs2(cs1, cs2) /\ sweep_mem2(cs1, cs2)
  BY DEF EInitDataOk, sweep2
<1>3. TypeOK
  BY DEF IsoInv, Inv
<1>4. ASSUME NEW v \in Cap, v.kind = "mem",
             ~ overlap(C[cs1], v) \/ ~ overlap(v, C[cs1]),
             ~ overlap(C[cs2], v) \/ ~ overlap(v, C[cs2])
      PROVE  InBounds(v) \cap X = {}
  <2>1. InBounds(v) \cap InBounds(C[cs1]) = {}
    BY <1>1, <1>4, OverlapAny
  <2>2. InBounds(v) \cap InBounds(C[cs2]) = {}
    BY <1>1, <1>4, OverlapAny
  <2> QED
    BY <2>1, <2>2
<1>5. ASSUME NEW r \in Reg \ {cs1, cs2}, IsCap(C[r]), C[r].kind = "mem"
      PROVE  InBounds(C[r]) \cap X = {}
  <2>1. C[r] \in Cap
    BY <1>3, <1>5, IsCapFacts DEF TypeOK
  <2>2. ~ overlap(C[r], C[cs1]) /\ ~ overlap(C[r], C[cs2])
    BY <1>2 DEF sweep_regs2
  <2> QED
    BY <1>4, <1>5, <2>1, <2>2
<1>6. ASSUME NEW s \in Special, IsCap(scr[s]), scr[s].kind = "mem"
      PROVE  InBounds(scr[s]) \cap X = {}
  <2>1. scr[s] \in Cap
    BY <1>3, <1>6, IsCapFacts DEF TypeOK, Special
  <2>2. ~ overlap(scr[s], C[cs1]) /\ ~ overlap(scr[s], C[cs2])
    BY <1>2, <1>3 DEF sweep_regs2, overlap_special, TypeOK, Special
  <2> QED
    BY <1>4, <1>6, <2>1, <2>2
<1>7. \A g \in InBounds(C[cs1]) : ~ IsCap(mem[g])
  BY <1>2 DEF sweep_mem2
<1>8. ASSUME NEW g \in Granule \ InBounds(C[cs2]), IsCap(mem[g]), mem[g].kind = "mem"
      PROVE  InBounds(mem[g]) \cap X = {}
  <2>1. mem[g] \in Cap
    BY <1>3, <1>8, IsCapFacts DEF TypeOK
  <2>2. ~ overlap(C[cs1], mem[g]) /\ ~ overlap(C[cs2], mem[g])
    BY <1>2, <1>7, <1>8 DEF sweep_mem2
  <2> QED
    BY <1>4, <1>8, <2>1, <2>2
<1>9. InBounds(C[cs1]) \cap InBounds(C[cs2]) = {}
  BY <1>1, <1>2, OverlapFacts DEF sweep_regs2
<1> QED
  BY <1>5, <1>6, <1>7, <1>8, <1>9

(* What EInitData does to the table, whether it succeeds or not. *)
LEMMA EInitDataTable ==
    ASSUME IsoInv, NEW cd \in Reg, NEW cs1 \in Reg, NEW cs2 \in Reg,
           EInitDataOk(cd, cs1, cs2), EInitData(cd, cs1, cs2),
           NEW f, f = otype_to_eid(C[cs1].otype)
    PROVE  /\ EidCounter' = EidCounter /\ Inv' /\ TableOK'
           /\ getId(ETable', f, TRUE) = {}
           /\ getId(ETable', f, FALSE)
                 = {[id |-> make_hash(C[cs1]), eid |-> f, is_temp |-> FALSE]}
           /\ \A e \in Eid \ {f} : /\ getId(ETable', e, TRUE) = getId(ETable, e, TRUE)
                                   /\ getId(ETable', e, FALSE) = getId(ETable, e, FALSE)
<1>1. f \in Eid /\ getId(ETable, f, TRUE) # {}
  BY EInitDataFacts
<1>2. make_hash(C[cs1]) \in Hash
  BY HashType DEF IsoInv
<1>3. ETable \in ETables /\ EidCounter \in Nat /\ TableInv(ETable, EidCounter)
  BY TableOKDef DEF IsoInv, Inv, TypeOK
<1>4. ETable' = makeMappingPerm(ETable, f, make_hash(C[cs1])) /\ EidCounter' = EidCounter
  BY DEF EInitData
<1>5. Inv' /\ TableOK'
  BY EnclavesType, EnclavesTable DEF Enclaves, IsoInv
<1>6. /\ getId(ETable', f, TRUE) = {}
      /\ getId(ETable', f, FALSE)
            = {[id |-> make_hash(C[cs1]), eid |-> f, is_temp |-> FALSE]}
  BY <1>1, <1>2, <1>3, <1>4, LookupPerm
<1>7. \A e \in Eid \ {f} : /\ getId(ETable', e, TRUE) = getId(ETable, e, TRUE)
                           /\ getId(ETable', e, FALSE) = getId(ETable, e, FALSE)
  <2> DEFINE h == make_hash(C[cs1])
  <2>1. f \in Eid /\ h \in Hash /\ ETable' = makeMappingPerm(ETable, f, h)
    BY <1>1, <1>2, <1>4
  <2> HIDE DEF h
  <2>2. ASSUME NEW e \in Eid, e # f
        PROVE  /\ getId(makeMappingPerm(ETable, f, h), e, TRUE) = getId(ETable, e, TRUE)
               /\ getId(makeMappingPerm(ETable, f, h), e, FALSE) = getId(ETable, e, FALSE)
    BY <1>3, <2>1, <2>2, LookupPermOther
  <2> QED
    BY <2>1, <2>2
<1> QED
  BY <1>4, <1>5, <1>6, <1>7

(* EInitData, the entry made permanent but the key not stored. *)
LEMMA EInitDataFails ==
    ASSUME IsoInv, NEW cd \in Reg, NEW cs1 \in Reg, NEW cs2 \in Reg,
           EInitDataOk(cd, cs1, cs2), EInitData(cd, cs1, cs2),
           EnterHandler, UNCHANGED <<C, mem, enclave>>
    PROVE  IsoInv'
<1> DEFINE f == otype_to_eid(C[cs1].otype)
<1>1. f \in Eid /\ enclave[f].data = {}
  BY EInitDataFacts
<1>4. EidCounter' = EidCounter /\ Inv' /\ TableOK'
  BY EInitDataTable
<1>6. getId(ETable', f, TRUE) = {}
  BY EInitDataTable
<1>7. \A e \in Eid \ {f} : /\ getId(ETable', e, TRUE) = getId(ETable, e, TRUE)
                           /\ getId(ETable', e, FALSE) = getId(ETable, e, FALSE)
  BY EInitDataTable
<1> HIDE DEF f
<1>8. \A s \in Special : \E t \in Special : scr'[s] = scr[t]
  BY DEF EnterHandler, Special, IsoInv, Inv, TypeOK
<1>9. \A e \in Eid : getId(ETable', e, TRUE) # {} => getId(ETable, e, TRUE) # {}
  BY <1>6, <1>7
<1>10. \A e \in Eid : Waiting(enclave[e]) => getId(ETable', e, FALSE) = getId(ETable, e, FALSE)
  BY <1>1, <1>7 DEF Waiting
<1> QED
  BY <1>4, <1>8, <1>9, <1>10, TableStep

(* EInitData to its end: the sweep found nobody with a way to the two
   sections, and the key goes into the data section. *)
LEMMA EInitDataSucceeds ==
    ASSUME IsoInv, NEW cd \in Reg, NEW cs1 \in Reg, NEW cs2 \in Reg,
           EInitDataOk(cd, cs1, cs2), EInitData(cd, cs1, cs2),
           NEW f, f = otype_to_eid(C[cs1].otype),
           StoreKey(f, cs2),
           C' = [C EXCEPT ![cd] = sealCap(C[cs2], C[cs1].otype)],
           enclave' = [enclave EXCEPT ![f].code = InBounds(C[cs1]),
                                      ![f].data = InBounds(C[cs2])],
           UNCHANGED scr
    PROVE  IsoInv'
<1> DEFINE d == sealCap(C[cs2], C[cs1].otype)
           key == make_key(4 * f, 4)
           X == InBounds(C[cs1]) \cup InBounds(C[cs2])
<1>1. /\ C[cs1] \in MemCap /\ C[cs2] \in MemCap /\ ~ isCapSealed(C[cs2])
      /\ f \in Eid /\ C[cs1].otype = EntryOtype(f)
      /\ enclave[f].data = {} /\ f < EidCounter /\ 4 * f + 3 <= cap_max_otype
  BY EInitDataFacts
<1>3. /\ C \in [Reg -> Cap \cup {Null}] /\ mem \in [Granule -> Cap \cup Word]
      /\ TypeOK
  BY DEF IsoInv, Inv, TypeOK
<1>4. EidCounter' = EidCounter /\ Inv' /\ TableOK'
  BY EInitDataTable
<1>6. /\ getId(ETable', f, TRUE) = {}
      /\ getId(ETable', f, FALSE)
            = {[id |-> make_hash(C[cs1]), eid |-> f, is_temp |-> FALSE]}
  BY EInitDataTable
<1>7. \A e \in Eid \ {f} : /\ getId(ETable', e, TRUE) = getId(ETable, e, TRUE)
                           /\ getId(ETable', e, FALSE) = getId(ETable, e, FALSE)
  BY EInitDataTable
<1>8. PICK g0 \in InBounds(C[cs2]) : mem' = [mem EXCEPT ![g0] = key]
  BY DEF StoreKey
<1>9. /\ cd = cs2 /\ \A r \in Reg : C'[r] = IF r = cs2 THEN d ELSE C[r]
  BY <1>3 DEF EInitDataOk
<1>10. \A g \in Granule : mem'[g] = IF g = g0 THEN key ELSE mem[g]
  BY <1>3, <1>8
<1>11. /\ d.kind = "mem" /\ d.otype = EntryOtype(f) /\ InBounds(d) = InBounds(C[cs2])
  <2>1. EntryOtype(f) \in Otype /\ C[cs2] \in MemCap /\ d = sealCap(C[cs2], EntryOtype(f))
    BY <1>1, EidFacts
  <2> HIDE DEF d
  <2> QED
    BY <2>1, EditFacts
<1>12. key.kind = "key" /\ key.base = 4 * f /\ key.top = 4 * f + 4 /\ key.otype = otype_unsealed
  BY DEF make_key
<1>13. /\ \A e \in Eid \ {f} : enclave'[e] = enclave[e]
       /\ enclave'[f].code = InBounds(C[cs1]) /\ enclave'[f].data = InBounds(C[cs2])
  BY <1>1, <1>3 DEF TypeOK
<1>14. C[cs1].kind = "mem" /\ C[cs2].kind = "mem" /\ IsCap(C[cs1]) /\ IsCap(C[cs2])
  BY <1>1 DEF MemCap, EInitDataOk
<1>15. /\ \A r \in Reg \ {cs1, cs2} : IsCap(C[r]) /\ C[r].kind = "mem"
             => InBounds(C[r]) \cap X = {}
       /\ \A s \in Special : IsCap(scr[s]) /\ scr[s].kind = "mem"
             => InBounds(scr[s]) \cap X = {}
       /\ \A g \in Granule \ InBounds(C[cs2]) : IsCap(mem[g]) /\ mem[g].kind = "mem"
             => InBounds(mem[g]) \cap X = {}
       /\ \A g \in InBounds(C[cs1]) : ~ IsCap(mem[g])
       /\ InBounds(C[cs1]) \cap InBounds(C[cs2]) = {}
  BY SweepFacts
<1>16. \A e \in Eid \ {f} : Waiting(enclave[e]) => X \cap Claimed(enclave[e]) = {}
  <2> SUFFICES ASSUME NEW e \in Eid \ {f}, Waiting(enclave[e])
               PROVE  X \cap Claimed(enclave[e]) = {}
    OBVIOUS
  <2>1. InBounds(C[cs2]) \cap Claimed(enclave[e]) = {}
    BY <1>1, <1>14, UnsealedApart DEF Cap
  <2>2. Respects(C[cs1], e, enclave[e]) /\ C[cs1].otype # EntryOtype(e)
    BY <1>1, <1>14, EntryOtypeFacts DEF IsoInv, Isolated
  <2>3. InBounds(C[cs1]) \cap Claimed(enclave[e]) = {}
    BY <1>14, <2>2 DEF Respects
  <2> QED
    BY <2>1, <2>3
<1>17. g0 \in Granule /\ g0 \notin InBounds(C[cs1])
  BY <1>8, <1>15 DEF InBounds
<1> HIDE DEF d, key, X
<1>18. \A e \in Eid \ {f} : Respects(d, e, enclave[e]) /\ Respects(key, e, enclave[e])
  <2>1. \A e \in Eid \ {f} : Respects(d, e, enclave[e])
    BY <1>11, <1>16 DEF Respects, IsKey, X
  <2>2. \A e \in Eid \ {f} : ~ (key.base <= EntryOtype(e) /\ EntryOtype(e) < key.top)
    <3>1. f \in Nat /\ \A e \in Eid : e \in Nat
      BY <1>1, OtypeFacts DEF Eid
    <3> QED
      BY <1>12, <3>1 DEF EntryOtype
  <2> QED
    BY <1>12, <2>1, <2>2 DEF Respects
<1>19. Claimed(enclave'[f]) = X
  BY <1>13 DEF Claimed, X
<1>20. \A v : Respects(v, f, enclave[f]) /\ (v.kind = "mem" /\ v.otype # EntryOtype(f)
                 => InBounds(v) \cap X = {}) => Respects(v, f, enclave'[f])
  BY <1>1, <1>19 DEF Respects
<1>21. Isolated'
  <2> SUFFICES ASSUME NEW e \in Eid
               PROVE
       /\ \A r \in Reg : IsCap(C'[r]) => Respects(C'[r], e, enclave'[e])
       /\ \A s \in Special : IsCap(scr'[s]) => Respects(scr'[s], e, enclave'[e])
       /\ \A g \in Granule \ enclave'[e].data :
             IsCap(mem'[g]) => Respects(mem'[g], e, enclave'[e])
       /\ Waiting(enclave'[e]) => \A g \in enclave'[e].code : ~ IsCap(mem'[g])
       /\ \A e2 \in Eid \ {e} : Waiting(enclave'[e]) /\ Waiting(enclave'[e2])
             => Claimed(enclave'[e]) \cap Claimed(enclave'[e2]) = {}
    BY DEF Isolated
  <2>0. /\ \A r \in Reg : IsCap(C[r]) => Respects(C[r], e, enclave[e])
        /\ \A s \in Special : IsCap(scr[s]) => Respects(scr[s], e, enclave[e])
        /\ \A g \in Granule \ enclave[e].data : IsCap(mem[g]) => Respects(mem[g], e, enclave[e])
    BY DEF IsoInv, Isolated
  <2>1. CASE e # f
    <3>1. \A r \in Reg : IsCap(C'[r]) => Respects(C'[r], e, enclave'[e])
      <4>1. enclave'[e] = enclave[e] /\ Respects(d, e, enclave[e])
        BY <1>13, <1>18, <2>1
      <4>2. \A r \in Reg : C'[r] = d \/ C'[r] = C[r]
        BY <1>9
      <4> QED
        BY <2>0, <4>1, <4>2
    <3>2. \A s \in Special : IsCap(scr'[s]) => Respects(scr'[s], e, enclave'[e])
      BY <1>13, <2>0, <2>1
    <3>3. \A g \in Granule \ enclave'[e].data :
             IsCap(mem'[g]) => Respects(mem'[g], e, enclave'[e])
      BY <1>10, <1>13, <1>18, <2>0, <2>1
    <3>4. Waiting(enclave'[e]) => \A g \in enclave'[e].code : ~ IsCap(mem'[g])
      <4> SUFFICES ASSUME Waiting(enclave[e]), NEW g \in enclave[e].code
                   PROVE  ~ IsCap(mem'[g])
        BY <1>13, <2>1
      <4>1. g \in Granule /\ g # g0
        BY <1>3, <1>8, <1>16, <2>1 DEF TypeOK, Claimed, X
      <4> QED
        BY <1>10, <4>1 DEF IsoInv, Isolated
    <3>5. \A e2 \in Eid \ {e} : Waiting(enclave'[e]) /\ Waiting(enclave'[e2])
             => Claimed(enclave'[e]) \cap Claimed(enclave'[e2]) = {}
      <4> SUFFICES ASSUME NEW e2 \in Eid \ {e}, Waiting(enclave'[e]), Waiting(enclave'[e2])
                   PROVE  Claimed(enclave'[e]) \cap Claimed(enclave'[e2]) = {}
        OBVIOUS
      <4>1. CASE e2 = f
        BY <1>13, <1>16, <1>19, <2>1, <4>1
      <4>2. CASE e2 # f
        BY <1>13, <2>1, <4>2 DEF IsoInv, Isolated
      <4> QED
        BY <4>1, <4>2
    <3> QED
      BY <3>1, <3>2, <3>3, <3>4, <3>5
  <2>2. CASE e = f
    <3>1. \A r \in Reg : IsCap(C'[r]) => Respects(C'[r], f, enclave'[f])
      <4> SUFFICES ASSUME NEW r \in Reg, IsCap(C'[r]) PROVE Respects(C'[r], f, enclave'[f])
        OBVIOUS
      <4>1. CASE r = cs2
        BY <1>9, <1>11, <4>1 DEF Respects, IsKey
      <4>2. CASE r = cs1 /\ r # cs2
        BY <1>1, <1>9, <1>14, <4>2 DEF Respects, IsKey
      <4>3. CASE r \notin {cs1, cs2}
        BY <1>9, <1>15, <1>20, <2>0, <2>2, <4>3 DEF X
      <4> QED
        BY <4>1, <4>2, <4>3
    <3>2. \A s \in Special : IsCap(scr'[s]) => Respects(scr'[s], f, enclave'[f])
      BY <1>15, <1>20, <2>0, <2>2 DEF X
    <3>3. \A g \in Granule \ enclave'[f].data :
             IsCap(mem'[g]) => Respects(mem'[g], f, enclave'[f])
      <4> SUFFICES ASSUME NEW g \in Granule \ InBounds(C[cs2]), IsCap(mem'[g])
                   PROVE  Respects(mem'[g], f, enclave'[f])
        BY <1>13
      <4>1. mem'[g] = mem[g]
        BY <1>8, <1>10
      <4>2. Respects(mem[g], f, enclave[f])
        BY <1>1, <2>0, <2>2, <4>1
      <4> QED
        BY <1>15, <1>20, <4>1, <4>2 DEF X
    <3>4. \A g \in enclave'[f].code : ~ IsCap(mem'[g])
      <4>1. \A g \in InBounds(C[cs1]) : g \in Granule /\ g # g0
        BY <1>17 DEF InBounds
      <4> QED
        BY <1>10, <1>13, <1>15, <4>1
    <3>5. \A e2 \in Eid \ {f} : Waiting(enclave'[f]) /\ Waiting(enclave'[e2])
             => Claimed(enclave'[f]) \cap Claimed(enclave'[e2]) = {}
      BY <1>13, <1>16, <1>19
    <3> QED
      BY <2>2, <3>1, <3>2, <3>3, <3>4, <3>5
  <2> QED
    BY <2>1, <2>2
<1>22. ClaimedIssued'
  <2> SUFFICES ASSUME NEW e \in Eid, enclave'[e].data # {}
               PROVE  /\ e < EidCounter /\ 4 * e + 3 <= cap_max_otype
                      /\ getId(ETable', e, TRUE) = {}
    BY <1>4 DEF ClaimedIssued
  <2>1. CASE e = f
    BY <1>1, <1>6, <2>1
  <2>2. CASE e # f
    BY <1>7, <1>13, <2>2 DEF IsoInv, ClaimedIssued
  <2> QED
    BY <2>1, <2>2
<1>23. Minted'
  <2>1. MintedWith(d, EidCounter)
    BY <1>1, <1>11, EntryOtypeFacts DEF MintedWith, IsKey
  <2>2. MintedWith(key, EidCounter)
    BY <1>1, <1>12 DEF MintedWith, isCapSealed
  <2> QED
    BY <1>4, <1>9, <1>10, <2>1, <2>2 DEF IsoInv, Minted
<1>24. OneCodeSection'
  <2>1. \A c \in Everywhere' : c \in Everywhere \/ c = d \/ c = key
    BY <1>9, <1>10 DEF Everywhere
  <2>2. otype_to_eid(d.otype) = f /\ ~ isCapSealed(key)
    BY <1>1, <1>11, <1>12, EntryOtypeFacts DEF isCapSealed
  <2>3. ASSUME NEW c \in Everywhere', NEW b \in Everywhere', NEW e \in Eid,
               getId(ETable', e, TRUE) # {},
               isCapSealed(c), otype_to_eid(c.otype) = e,
               isCapSealed(b), otype_to_eid(b.otype) = e
        PROVE  c = b /\ c.otype = EntryOtype(e)
    <3>1. e # f
      BY <1>6, <2>3
    <3>2. getId(ETable, e, TRUE) # {}
      BY <1>7, <2>3, <3>1
    <3>3. c \in Everywhere /\ b \in Everywhere
      BY <2>1, <2>2, <2>3, <3>1
    <3> QED
      BY <2>3, <3>2, <3>3 DEF IsoInv, OneCodeSection
  <2> QED
    BY <2>3 DEF OneCodeSection
<1>25. Measured'
  <2> SUFFICES ASSUME NEW e \in Eid, Waiting(enclave'[e])
               PROVE  \E m \in getId(ETable', e, FALSE) :
                         \E base \in 0 .. Granules :
                            /\ enclave'[e].code = base .. base + Len(m.id) - 1
                            /\ \A i \in 1 .. Len(m.id) : mem'[base + i - 1] = m.id[i]
    BY DEF Measured, Untouched, Waiting
  <2>1. CASE e = f
    <3> DEFINE h == make_hash(C[cs1])
               m == [id |-> h, eid |-> f, is_temp |-> FALSE]
    <3>1. PICK base \in 0 .. Granules :
              /\ InBounds(C[cs1]) = base .. base + Len(h) - 1
              /\ \A i \in 1 .. Len(h) : mem[base + i - 1] = h[i]
      BY HashReads DEF IsoInv
    <3>2. \A i \in 1 .. Len(h) : base + i - 1 \in InBounds(C[cs1])
      BY <3>1, SailAssumption
    <3>3. \A g \in InBounds(C[cs1]) : mem'[g] = mem[g]
      BY <1>10, <1>17 DEF InBounds
    <3>4. \A i \in 1 .. Len(h) : mem'[base + i - 1] = h[i]
      BY <3>1, <3>2, <3>3
    <3>5. m \in getId(ETable', f, FALSE) /\ m.id = h
      BY <1>6
    <3>6. enclave'[f].code = base .. base + Len(h) - 1
      BY <1>13, <3>1
    <3> HIDE DEF m, h
    <3> QED
      BY <2>1, <3>4, <3>5, <3>6
  <2>2. CASE e # f
    <3>1. Waiting(enclave[e]) /\ enclave'[e] = enclave[e]
      BY <1>13, <2>2
    <3>2. PICK m \in getId(ETable, e, FALSE), base \in 0 .. Granules :
              /\ enclave[e].code = base .. base + Len(m.id) - 1
              /\ \A i \in 1 .. Len(m.id) : mem[base + i - 1] = m.id[i]
      BY <3>1 DEF IsoInv, Measured, Untouched, Waiting
    <3>3. \A i \in 1 .. Len(m.id) : base + i - 1 \in enclave[e].code
      BY <3>2, SailAssumption
    <3>4. \A g \in enclave[e].code : g \in Granule /\ g # g0
      BY <1>3, <1>8, <1>16, <2>2, <3>1 DEF TypeOK, Claimed, X
    <3>5. \A i \in 1 .. Len(m.id) : mem'[base + i - 1] = m.id[i]
      BY <1>10, <3>2, <3>3, <3>4
    <3>6. m \in getId(ETable', e, FALSE)
      BY <1>7, <2>2
    <3> QED
      BY <3>1, <3>2, <3>5, <3>6
  <2> QED
    BY <2>1, <2>2
<1> QED
  BY <1>4, <1>21, <1>22, <1>23, <1>24, <1>25 DEF IsoInv

(* EInitData keeps the invariant. *)
LEMMA EInitDataIso ==
    ASSUME IsoInv, NEW cd \in Reg, NEW cs1 \in Reg, NEW cs2 \in Reg,
           EInitData(cd, cs1, cs2)
    PROVE  IsoInv'
<1> DEFINE f == otype_to_eid(C[cs1].otype)
<1>1. CASE Exception
  BY <1>1, ExceptionStep
<1>2. CASE EInitDataOk(cd, cs1, cs2) /\ EnterHandler /\ UNCHANGED <<C, mem, enclave>>
  BY <1>2, EInitDataFails
<1>3. CASE /\ EInitDataOk(cd, cs1, cs2)
           /\ StoreKey(f, cs2)
           /\ C' = [C EXCEPT ![cd] = sealCap(C[cs2], C[cs1].otype)]
           /\ enclave' = [enclave EXCEPT ![f].code = InBounds(C[cs1]),
                                         ![f].data = InBounds(C[cs2])]
           /\ UNCHANGED scr
  BY <1>3, EInitDataSucceeds
<1>4. \/ Exception
      \/ EInitDataOk(cd, cs1, cs2) /\ EnterHandler /\ UNCHANGED <<C, mem, enclave>>
      \/ /\ EInitDataOk(cd, cs1, cs2)
         /\ StoreKey(f, cs2)
         /\ C' = [C EXCEPT ![cd] = sealCap(C[cs2], C[cs1].otype)]
         /\ enclave' = [enclave EXCEPT ![f].code = InBounds(C[cs1]),
                                       ![f].data = InBounds(C[cs2])]
         /\ UNCHANGED scr
  BY DEF EInitData
<1> QED
  BY <1>1, <1>2, <1>3, <1>4

(* The machine starts without enclaves, without keys and without seals. *)
LEMMA InitIso == Init => IsoInv
<1> SUFFICES ASSUME Init PROVE IsoInv
  OBVIOUS
<1>1. Inv /\ TableOK
  BY InitType, EmptyTableInv, TableOKDef DEF Init
<1>2. \A e \in Eid : enclave[e].data = {}
  BY DEF Init, NoEnclave
<1>3. /\ \A r \in Reg : IsCap(C[r]) => C[r].kind = "mem" /\ C[r].otype = otype_unsealed
      /\ \A s \in Special : IsCap(scr[s]) => scr[s].kind = "mem" /\ scr[s].otype = otype_unsealed
      /\ \A g \in Granule : ~ IsCap(mem[g])
  <2>1. \A r \in Reg : IsCap(C[r]) => C[r].kind = "mem" /\ C[r].otype = otype_unsealed
    BY SailAssumption DEF Init, IsCap, MemCap
  <2>2. \A s \in Special : IsCap(scr[s]) => scr[s].kind = "mem" /\ scr[s].otype = otype_unsealed
    <3>1. OsCap.kind = "mem" /\ OsCap.otype = otype_unsealed
      BY DEF OsCap, MemCapOf
    <3>2. \A s \in Special : scr[s] = OsCap \/ scr[s] = Null
      BY DEF Init, Special
    <3> QED
      BY <3>1, <3>2 DEF IsCap
  <2>3. \A g \in Granule : ~ IsCap(mem[g])
    BY DEF Init, IsCap
  <2> QED
    BY <2>1, <2>2, <2>3
<1>4. \A c, e, rec : c.kind = "mem" /\ rec.data = {} => Respects(c, e, rec)
  BY DEF Respects, Waiting, IsKey
<1>5. Isolated
  BY <1>2, <1>3, <1>4 DEF Isolated, Waiting
<1>6. ClaimedIssued
  BY <1>2 DEF ClaimedIssued
<1>7. Minted
  BY <1>3 DEF Minted, MintedWith, IsKey, isCapSealed
<1>8. OneCodeSection
  <2>1. \A e \in Eid : getId(ETable, e, TRUE) = {}
    BY DEF Init, EmptyTable, getId, Hit, Holds
  <2> QED
    BY <2>1 DEF OneCodeSection
<1>9. Measured
  BY <1>2 DEF Measured, Untouched
<1> QED
  BY <1>1, <1>5, <1>6, <1>7, <1>8, <1>9 DEF IsoInv

(* Every step keeps the invariant. *)
LEMMA NextIso == IsoInv /\ [Next]_vars => IsoInv'
<1> SUFFICES ASSUME IsoInv, [Next]_vars PROVE IsoInv'
  OBVIOUS
<1>1. CASE Enclaves
  BY <1>1, EInitCodeIso, EInitDataIso, EStoreIdIso, EDeinitIso DEF Enclaves
<1>2. CASE Programs
  BY <1>2, ProgramsIso
<1>3. CASE UNCHANGED vars
  <2>1. Inv' /\ enclave' = enclave /\ UNCHANGED <<ETable, EidCounter, C, scr, mem>>
    BY <1>3 DEF vars, IsoInv, Inv, TypeOK
  <2> QED
    BY <2>1, HeldDerivable, ProgramStep
<1> QED
  BY <1>1, <1>2, <1>3 DEF Next
-----------------------------------------------------------------------------
(* The theorems.                                                           *)

(* From the success of EInitData until an enclave is entered, every capability
   to its sections is sealed with its own otype, wherever programs have
   copied it to, its code section holds no capability, and no two enclaves
   share a granule: the sweep is enough, for every number of registers,
   granules and ids. *)
THEOREM ExclusiveCorrect == Spec => []Exclusive
<1>1. IsoInv => Exclusive
  BY IsoInvImplies
<1> QED
  BY <1>1, InitIso, NextIso, PTL DEF Spec

(* The keys of an enclave that EInitData's make_key stored exist nowhere
   outside its data section before it is entered. *)
THEOREM KeyConfinedCorrect == Spec => []KeyConfined
<1>1. IsoInv => KeyConfined
  BY IsoInvImplies
<1> QED
  BY <1>1, InitIso, NextIso, PTL DEF Spec

(* As long as an entry is temporary the section EInitCode sealed is the only
   one with its seal, so the otype check in EInitData is never what refuses. *)
THEOREM OneCodeSectionCorrect == Spec => []OneCodeSection
<1>1. IsoInv => OneCodeSection
  BY DEF IsoInv
<1> QED
  BY <1>1, InitIso, NextIso, PTL DEF Spec

(* Until an enclave is entered its entry stays, and the identity EStoreId
   reports is the hash of what its code section holds at that time. *)
THEOREM MeasuredCorrect == Spec => []Measured
<1>1. IsoInv => Measured
  BY DEF IsoInv
<1> QED
  BY <1>1, InitIso, NextIso, PTL DEF Spec

(* IsUnique answers 1 only if no other register and no granule outside the
   region holds a capability that shares a granule with the one asked about. *)
THEOREM IsUniqueCorrect == Spec => []IsUniqueSound
<1>1. TypeOK => IsUniqueSound
  <2> SUFFICES ASSUME TypeOK, NEW r \in Reg, IsUnique(r)
               PROVE  /\ \A q \in Reg \ {r} : ~ SharesGranule(C[r], C[q])
                      /\ \A s \in DOMAIN scr : ~ SharesGranule(C[r], scr[s])
                      /\ \A g \in Granule \ InBounds(C[r]) : ~ SharesGranule(C[r], mem[g])
    BY DEF IsUniqueSound
  <2>1. sweep_regs(r) /\ sweep_mem(r)
    BY DEF IsUnique, sweep
  <2>2. ASSUME NEW c \in Cap, NEW v \in Cap, SharesGranule(c, v)
        PROVE  overlap(c, v) /\ overlap(v, c)
    <3>1. c \in MemCap /\ v \in MemCap
      BY <2>2, CapFields DEF SharesGranule
    <3> QED
      BY <2>2, <3>1, OverlapFacts DEF SharesGranule
  <2>3. C[r] \in Cap
    BY IsCapFacts DEF IsUnique, TypeOK
  <2>4. \A q \in Reg \ {r} : ~ SharesGranule(C[r], C[q])
    BY <2>1, <2>2, <2>3, IsCapFacts DEF sweep_regs, SharesGranule, TypeOK
  <2>5. \A s \in DOMAIN scr : ~ SharesGranule(C[r], scr[s])
    BY <2>1, <2>2, <2>3, IsCapFacts DEF sweep_regs, overlap_special, SharesGranule, TypeOK
  <2>6. \A g \in Granule \ InBounds(C[r]) : ~ SharesGranule(C[r], mem[g])
    BY <2>1, <2>2, <2>3, IsCapFacts DEF sweep_mem, SharesGranule, TypeOK
  <2> QED
    BY <2>4, <2>5, <2>6
<1> QED
  BY <1>1, TypeCorrect, PTL
=============================================================================
