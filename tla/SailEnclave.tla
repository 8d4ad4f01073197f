---------------------------- MODULE SailEnclave -----------------------------
(***************************************************************************)
(* The enclave instructions of the Sail model (EInitCode, EInitData,       *)
(* EStoreId, IsUnique, EDeinit in cheri_insts.sail) running against        *)
(* programs that use the other capability instructions in any order.       *)
(*                                                                         *)
(* Memory is a row of granules of one capability each; a granule holds a   *)
(* data word or a tagged capability.  A capability has bounds, permissions *)
(* and an otype; its address is a choice made where an instruction uses    *)
(* it.  Untagged register contents are all Null: every enclave instruction *)
(* rejects them before looking further.  Sealing keys live in the otype    *)
(* space, which lies below RAM, so a key never overlaps memory.            *)
(*                                                                         *)
(* The machine starts after boot code has given up the reset capabilities: *)
(* the program runs from OsCap, which lies outside the arena, and its      *)
(* authority over the arena is what BootCaps puts in the registers.        *)
(***************************************************************************)
EXTENDS SailTable, Sequences

CONSTANTS
    Reg,       \* general-purpose capability registers
    BootCaps,  \* the registers after boot: unsealed capabilities to the arena
    C31,       \* the register CInvoke puts the unsealed data capability in
    Scr,       \* special registers programs write: a subset of DDC, MEPCC
    Granules,  \* number of granules of the arena
    Word,      \* the data a granule may hold
    HashWord,  \* the granule content EStoreId leaves behind
    PermSets,  \* sets of permissions a capability may have
    HashSize,  \* granules an identity takes up in memory
    MinLength, \* bound: granules of the shortest region CSetBounds carves out
    Asked,     \* bound: the otypes software passes to EStoreId and EDeinit
    Null       \* an untagged capability

VARIABLES
    ETable,      \* the TCB table
    EidCounter,  \* the id counter
    C,           \* C[r]: general-purpose registers
    scr,         \* special capability registers
    mem,         \* mem[g]: granules of RAM
    enclave      \* history: what each EInitData that succeeded claimed

tcb == <<ETable, EidCounter>>
vars == <<ETable, EidCounter, C, scr, mem, enclave>>

Granule == 0 .. Granules - 1

(* Bounds [base, top) in granules; the granule past the arena is OsCap's. *)
MemCap ==
    [kind : {"mem"}, base : 0 .. Granules + 1, top : 0 .. Granules + 1,
     perms : PermSets, otype : Otype]

(* A key of make_key: seals and unseals with the otypes [base, top). *)
KeyCap ==
    [kind : {"key"}, base : Otype, top : 0 .. Otypes,
     perms : {{"seal", "unseal"}}, otype : {otype_unsealed}]

Cap == MemCap \cup KeyCap

FullPerms == {"load", "store", "store_cap", "exec"}

MemCapOf(base, top, perms, otype) ==
    [kind |-> "mem", base |-> base, top |-> top, perms |-> perms,
     otype |-> otype]

OsCap == MemCapOf(Granules, Granules + 1, FullPerms, otype_unsealed)

ASSUME SailAssumption ==
    /\ Granules \in Nat
    /\ Asked \subseteq Otype
    /\ HashSize \in Nat /\ MinLength \in Nat
    /\ C31 \in Reg
    /\ Scr \subseteq {"DDC", "MEPCC"}
    /\ HashWord \in Word
    /\ FullPerms \in PermSets
    /\ Null \notin Cap /\ Word \cap Cap = {} /\ Null \notin Word
    /\ BootCaps \in [Reg -> MemCap \cup {Null}]
    /\ \A r \in Reg : BootCaps[r] # Null =>
          BootCaps[r].top <= Granules /\ BootCaps[r].otype = otype_unsealed
    /\ Hash = UNION {[1 .. n -> Word] : n \in 0 .. Granules + 1}

(* Boot code keeps no capability to memory that also seals: make_key is the
   only source of sealing keys. *)
ASSUME PermAssumption == PermSets \subseteq SUBSET FullPerms

IsCap(v) == v # Null /\ v \notin Word

isCapSealed(cap) == cap.otype # otype_unsealed

sealCap(cap, otype) == [cap EXCEPT !.otype = otype]

unsealCap(cap) == [cap EXCEPT !.otype = otype_unsealed]

Length(cap) == cap.top - cap.base

(* An unsealed capability to memory that grants every permission of ps. *)
Grants(cap, ps) ==
    IsCap(cap) /\ cap.kind = "mem" /\ ~ isCapSealed(cap) /\ ps \subseteq cap.perms

(* inCapBounds for one granule: the addresses an access through cap may use *)
InBounds(cap) == {g \in Granule : cap.base <= g /\ g < cap.top}
-----------------------------------------------------------------------------
(* The sweeps.  A register or a granule without a tagged capability never
   overlaps.  The comparison of bounds is the source's, top - 1 included. *)
(* Mutant: sections that share one granule at an end are taken for disjoint. *)
overlapOffByOne(cap1, cap2) ==
    /\ IsCap(cap1) /\ IsCap(cap2)
    /\ cap1.kind = cap2.kind
    /\ IF cap1.base < cap2.base
       THEN cap1.top - 1 > cap2.base
       ELSE cap2.top - 1 > cap1.base

overlap(cap1, cap2) ==
    /\ IsCap(cap1) /\ IsCap(cap2)
    /\ cap1.kind = cap2.kind
    /\ IF cap1.base < cap2.base
       THEN cap1.top - 1 >= cap2.base
       ELSE cap2.top - 1 >= cap1.base

(* Mutant: DDC and the trap registers are not looked at. *)
overlap_specialPccOnly(cap) == overlap(scr.PCC, cap)

overlap_special(cap) == \E s \in DOMAIN scr : overlap(scr[s], cap)

sweep_regs(reg) ==
    /\ \A r \in Reg \ {reg} : ~ overlap(C[r], C[reg])
    /\ ~ overlap_special(C[reg])

sweep_mem(reg) ==
    \A g \in Granule \ InBounds(C[reg]) : ~ overlap(C[reg], mem[g])

sweep(reg) == sweep_regs(reg) /\ sweep_mem(reg)

sweep_regs2(reg_code, reg_data) ==
    /\ \A r \in Reg \ {reg_code, reg_data} :
          ~ overlap(C[r], C[reg_code]) /\ ~ overlap(C[r], C[reg_data])
    /\ ~ overlap_special(C[reg_code]) /\ ~ overlap_special(C[reg_data])
    /\ ~ overlap(C[reg_code], C[reg_data])

(* Mutant: memory is not searched for the data section. *)
sweep_mem2CodeOnly(reg_code, reg_data) ==
    /\ \A g \in InBounds(C[reg_code]) : ~ IsCap(mem[g])
    /\ \A g \in Granule \ (InBounds(C[reg_code]) \cup InBounds(C[reg_data])) :
          ~ overlap(C[reg_code], mem[g])

(* Mutant: capabilities inside the code section are let through. *)
sweep_mem2CapsInCode(reg_code, reg_data) ==
    \A g \in Granule \ (InBounds(C[reg_code]) \cup InBounds(C[reg_data])) :
       ~ overlap(C[reg_code], mem[g]) /\ ~ overlap(C[reg_data], mem[g])

sweep_mem2(reg_code, reg_data) ==
    /\ \A g \in InBounds(C[reg_code]) : ~ IsCap(mem[g])
    /\ \A g \in Granule \ (InBounds(C[reg_code]) \cup InBounds(C[reg_data])) :
          ~ overlap(C[reg_code], mem[g]) /\ ~ overlap(C[reg_data], mem[g])

sweep2(reg_code, reg_data) ==
    sweep_regs2(reg_code, reg_data) /\ sweep_mem2(reg_code, reg_data)

(* SHA-256 taken as injective: the words of the section, from base to top. *)
(* Mutant: the last granule is not hashed. *)
make_hashShort(cap) == [i \in 1 .. Length(cap) - 1 |-> mem[cap.base + i - 1]]

make_hash(cap) == [i \in 1 .. Length(cap) |-> mem[cap.base + i - 1]]

make_key(otype, size) ==
    [kind |-> "key", base |-> otype, top |-> otype + size,
     perms |-> {"seal", "unseal"}, otype |-> otype_unsealed]
-----------------------------------------------------------------------------
NoEnclave == [code |-> {}, data |-> {}, entered |-> FALSE]

Init ==
    /\ ETable = EmptyTable
    /\ EidCounter = 0
    /\ C = BootCaps
    /\ scr = [PCC |-> OsCap, DDC |-> Null, MEPCC |-> OsCap, MTCC |-> OsCap]
    /\ mem \in [Granule -> Word]
    /\ enclave = [e \in Eid |-> NoEnclave]

(* An exception or an interrupt: PCC goes to MEPCC and the handler runs. *)
EnterHandler == scr' = [scr EXCEPT !.MEPCC = scr.PCC, !.PCC = scr.MTCC]

Exception == EnterHandler /\ UNCHANGED <<ETable, EidCounter, C, mem, enclave>>
-----------------------------------------------------------------------------
(* The enclave instructions. *)

(* Setting the address of a tagged capability to its base is always
   representable, so that error path of the two instructions is not taken. *)
EInitCodeOk(cd, cs1) ==
    /\ IsCap(C[cs1])
    /\ ~ isCapSealed(C[cs1])
    /\ "load" \in C[cs1].perms
    /\ cd = cs1
    /\ findFreeIdx(ETable) # {}
    /\ gen_eid(EidCounter) # {}

(* Mutant: the id counter is not advanced. *)
EInitCodeNoAdvance(cd, cs1) ==
    \/ /\ EInitCodeOk(cd, cs1)
       /\ \E idx \in findFreeIdx(ETable), eid \in gen_eid(EidCounter) :
             /\ ETable' = addTempMapping(ETable, eid, idx)
             /\ C' = [C EXCEPT ![cd] = sealCap(C[cs1], EntryOtype(eid))]
       /\ UNCHANGED <<EidCounter, scr, mem, enclave>>
    \/ ~ EInitCodeOk(cd, cs1) /\ Exception

EInitCode(cd, cs1) ==
    \/ /\ EInitCodeOk(cd, cs1)
       /\ \E idx \in findFreeIdx(ETable), eid \in gen_eid(EidCounter) :
             /\ ETable' = addTempMapping(ETable, eid, idx)
             /\ C' = [C EXCEPT ![cd] = sealCap(C[cs1], EntryOtype(eid))]
       /\ EidCounter' = EidCounter + 1
       /\ UNCHANGED <<scr, mem, enclave>>
    \/ ~ EInitCodeOk(cd, cs1) /\ Exception

EInitDataOk(cd, cs1, cs2) ==
    /\ IsCap(C[cs1]) /\ IsCap(C[cs2])
    /\ isCapSealed(C[cs1]) /\ ~ isCapSealed(C[cs2])
    /\ "store" \in C[cs2].perms
    /\ cd = cs2
    /\ Length(C[cs2]) >= 1
    /\ C[cs1].otype % 4 = 2
    /\ getId(ETable, otype_to_eid(C[cs1].otype), TRUE) # {}
    /\ sweep2(cs1, cs2)

(* The key goes to the address of cs2, which need not be its base. *)
StoreKey(eid, cs2) ==
    /\ "store_cap" \in C[cs2].perms
    /\ \E g \in InBounds(C[cs2]) : mem' = [mem EXCEPT ![g] = make_key(4 * eid, 4)]

(* Mutant: the data capability is returned unsealed. *)
EInitDataNoSeal(cd, cs1, cs2) ==
    LET eid == otype_to_eid(C[cs1].otype) IN
    \/ /\ EInitDataOk(cd, cs1, cs2)
       /\ ETable' = makeMappingPerm(ETable, eid, make_hash(C[cs1]))
       /\ StoreKey(eid, cs2)
       /\ enclave' = [enclave EXCEPT ![eid].code = InBounds(C[cs1]),
                                     ![eid].data = InBounds(C[cs2])]
       /\ UNCHANGED <<EidCounter, C, scr>>
    \/ ~ EInitDataOk(cd, cs1, cs2) /\ Exception

(* The entry is made permanent before the key is stored: when the store is
   refused (no permission to store capabilities, or an address that is out
   of bounds or misaligned) the instruction fails and the entry stays. *)
EInitData(cd, cs1, cs2) ==
    LET eid == otype_to_eid(C[cs1].otype) IN
    \/ /\ EInitDataOk(cd, cs1, cs2)
       /\ ETable' = makeMappingPerm(ETable, eid, make_hash(C[cs1]))
       /\ \/ /\ StoreKey(eid, cs2)
             /\ C' = [C EXCEPT ![cd] = sealCap(C[cs2], C[cs1].otype)]
             /\ enclave' = [enclave EXCEPT ![eid].code = InBounds(C[cs1]),
                                           ![eid].data = InBounds(C[cs2])]
             /\ UNCHANGED scr
          \/ EnterHandler /\ UNCHANGED <<C, mem, enclave>>
       /\ UNCHANGED EidCounter
    \/ ~ EInitDataOk(cd, cs1, cs2) /\ Exception

EStoreIdOk(cs2, at) ==
    /\ IsCap(C[cs2])
    /\ ~ isCapSealed(C[cs2])
    /\ at \subseteq InBounds(C[cs2])

(* The otype comes from an integer register, so it is any otype at all.  rd
   is set to 1 if Lookup finds an entry, to 0 if not; with C0 as cs2 that is
   all EStoreId does. *)
Lookup(otype) == getId(ETable, otype_to_eid(otype), FALSE)

EStoreId(otype, cs2) ==
    \E g \in Granule :
       LET at == g .. g + HashSize - 1 IN
       \/ ~ EStoreIdOk(cs2, at) /\ Exception
       \/ /\ EStoreIdOk(cs2, at) /\ Lookup(otype) # {}
          /\ \/ /\ "store" \in C[cs2].perms
                /\ mem' = [h \in Granule |-> IF h \in at THEN HashWord ELSE mem[h]]
                /\ UNCHANGED scr
             \/ "store" \notin C[cs2].perms /\ EnterHandler /\ UNCHANGED mem
          /\ UNCHANGED <<ETable, EidCounter, C, enclave>>

(* IsUnique, what it writes to rd; it changes nothing else. *)
IsUnique(cs1) == IsCap(C[cs1]) /\ sweep(cs1)

EDeinitOk(cs1, cursor) ==
    /\ IsCap(C[cs1])
    /\ C[cs1].base <= cursor /\ cursor < C[cs1].top
    /\ cursor <= cap_max_otype
    /\ {"seal", "unseal"} \subseteq C[cs1].perms

(* Mutant: the id that is removed is given out again. *)
EDeinitReuse(cs1) ==
    \E cursor \in Asked :
       /\ EDeinitOk(cs1, cursor)
       /\ ETable' = removeMapping(ETable, otype_to_eid(cursor))
       /\ EidCounter' = otype_to_eid(cursor)
       /\ UNCHANGED <<C, scr, mem, enclave>>

EDeinit(cs1) ==
    \E cursor \in Asked :
       \/ /\ EDeinitOk(cs1, cursor)
          /\ ETable' = removeMapping(ETable, otype_to_eid(cursor))
          /\ UNCHANGED <<EidCounter, C, scr, mem, enclave>>
       \/ ~ EDeinitOk(cs1, cursor) /\ Exception
-----------------------------------------------------------------------------
(* The rest of the machine: instructions of the programs around the TCB.
   Only their successful executions are listed; a refused one raises the
   Exception that Trap stands for. *)

SetC(cd, v) ==
    C' = [C EXCEPT ![cd] = v] /\ UNCHANGED <<ETable, EidCounter, scr, mem, enclave>>

SetMem(g, v) ==
    mem' = [mem EXCEPT ![g] = v] /\ UNCHANGED <<ETable, EidCounter, C, scr, enclave>>

CMove(cd, cs1) == SetC(cd, C[cs1])

CClearTag(cd) == SetC(cd, Null)

CSetBounds(cd, cs1) ==
    /\ Grants(C[cs1], {})
    /\ \E base, top \in C[cs1].base .. C[cs1].top :
          /\ top - base >= MinLength
          /\ SetC(cd, [C[cs1] EXCEPT !.base = base, !.top = top])

CAndPerm(cd, cs1) ==
    /\ Grants(C[cs1], {})
    /\ \E perms \in PermSets :
          /\ perms \subseteq C[cs1].perms
          /\ SetC(cd, [C[cs1] EXCEPT !.perms = perms])

CSealEntry(cd, cs1) ==
    Grants(C[cs1], {"exec"}) /\ SetC(cd, sealCap(C[cs1], otype_sentry))

IsKey(cap) == IsCap(cap) /\ cap.kind = "key"

(* Keys are used on capabilities to memory; a sealed key is not modelled. *)
CSeal(cd, cs1, cs2) ==
    /\ Grants(C[cs1], {}) /\ IsKey(C[cs2])
    /\ \E otype \in C[cs2].base .. C[cs2].top - 1 :
          otype <= cap_max_otype /\ SetC(cd, sealCap(C[cs1], otype))

CUnseal(cd, cs1, cs2) ==
    /\ IsCap(C[cs1]) /\ isCapSealed(C[cs1]) /\ IsKey(C[cs2])
    /\ C[cs1].otype <= cap_max_otype
    /\ C[cs2].base <= C[cs1].otype /\ C[cs1].otype < C[cs2].top
    /\ SetC(cd, unsealCap(C[cs1]))

(* An access goes through a register or, in the DDC forms, through DDC. *)
Authority(ps) == {c \in {C[r] : r \in Reg} \cup {scr.DDC} : Grants(c, ps)}

LoadCap(cd) ==
    \E auth \in Authority({"load"}) : \E g \in InBounds(auth) :
       SetC(cd, IF IsCap(mem[g]) THEN mem[g] ELSE Null)

StoreCap(cs2) ==
    /\ IsCap(C[cs2])
    /\ \E auth \in Authority({"store", "store_cap"}) :
          \E g \in InBounds(auth) : SetMem(g, C[cs2])

StoreData(w) ==
    \E auth \in Authority({"store"}) : \E g \in InBounds(auth) : SetMem(g, w)

(* MEPCC needs Permit_Access_System_Registers: only the handler has it. *)
CSpecialRW(cd, s, cs1) ==
    /\ s \in Scr
    /\ s = "MEPCC" => scr.PCC = OsCap
    /\ C' = [C EXCEPT ![cd] = scr[s]]
    /\ scr' = [scr EXCEPT ![s] = C[cs1]]
    /\ UNCHANGED <<ETable, EidCounter, mem, enclave>>

CInvoke(cs1, cs2) ==
    /\ IsCap(C[cs1]) /\ IsCap(C[cs2])
    /\ C[cs1].otype <= cap_max_otype
    /\ C[cs1].otype = C[cs2].otype
    /\ "exec" \in C[cs1].perms /\ "exec" \notin C[cs2].perms
    /\ Length(C[cs1]) >= 1
    /\ C' = [C EXCEPT ![C31] = unsealCap(C[cs2])]
    /\ scr' = [scr EXCEPT !.PCC = unsealCap(C[cs1])]
    /\ enclave' = [enclave EXCEPT ![otype_to_eid(C[cs1].otype)].entered = TRUE]
    /\ UNCHANGED <<ETable, EidCounter, mem>>

Trap == Exception

(* The handler resumes what it interrupted; a sentry in MEPCC is unsealed. *)
MRet ==
    /\ scr.PCC = OsCap
    /\ IsCap(scr.MEPCC) /\ scr.MEPCC.otype \in {otype_unsealed, otype_sentry}
    /\ "exec" \in scr.MEPCC.perms
    /\ scr' = [scr EXCEPT !.PCC = unsealCap(scr.MEPCC)]
    /\ UNCHANGED <<ETable, EidCounter, C, mem, enclave>>

Enclaves ==
    \/ \E cd, cs1 \in Reg : EInitCode(cd, cs1)
    \/ \E cd, cs1, cs2 \in Reg : EInitData(cd, cs1, cs2)
    \/ \E otype \in Asked, cs2 \in Reg : EStoreId(otype, cs2)
    \/ \E cs1 \in Reg : EDeinit(cs1)

Programs ==
    \/ \E cd, cs1 \in Reg : CMove(cd, cs1)
    \/ \E cd \in Reg : CClearTag(cd)
    \/ \E cd, cs1 \in Reg : CSetBounds(cd, cs1)
    \/ \E cd, cs1 \in Reg : CAndPerm(cd, cs1)
    \/ \E cd, cs1 \in Reg : CSealEntry(cd, cs1)
    \/ \E cd, cs1, cs2 \in Reg : CSeal(cd, cs1, cs2)
    \/ \E cd, cs1, cs2 \in Reg : CUnseal(cd, cs1, cs2)
    \/ \E cd \in Reg : LoadCap(cd)
    \/ \E cs2 \in Reg : StoreCap(cs2)
    \/ \E w \in Word : StoreData(w)
    \/ \E cd, cs1 \in Reg, s \in Scr : CSpecialRW(cd, s, cs1)
    \/ \E cs1, cs2 \in Reg : CInvoke(cs1, cs2)
    \/ Trap
    \/ MRet

Next == Enclaves \/ Programs

Spec == Init /\ [][Next]_vars
-----------------------------------------------------------------------------
(* Registers, granules and table entries hold what their types say, in
   particular: what a sealed code section is hashed to is a string of words,
   because EInitData's sweep lets no capability into the code section. *)
TypeOK ==
    /\ ETable \in ETables
    /\ EidCounter \in Nat
    /\ C \in [Reg -> Cap \cup {Null}]
    /\ scr \in [{"PCC", "DDC", "MEPCC", "MTCC"} -> Cap \cup {Null}]
    /\ mem \in [Granule -> Cap \cup Word]
    /\ enclave \in [Eid -> [code : SUBSET Granule, data : SUBSET Granule,
                            entered : BOOLEAN]]

(* Ids are given out once ("otypes are not reused", cheri_enclave.sail:49):
   no two entries share an id, so that stopping a walk of the table at the
   first hit is right, every id was issued by gen_eid, and none of its four
   otypes is reserved: the seal of an enclave is never a sentry's. *)
TableOK ==
    /\ \A i, j \in Idx : \A e \in Eid :
          Holds(ETable, i, e) /\ Holds(ETable, j, e) => i = j
    /\ \A i \in Idx : ETable[i] # None =>
          /\ ETable[i].eid < EidCounter
          /\ 4 * ETable[i].eid + 3 <= cap_max_otype

Everywhere == {c \in {C[r] : r \in Reg} \cup {scr[s] : s \in DOMAIN scr}
                     \cup {mem[g] : g \in Granule} : IsCap(c)}

(* What the world outside the data section of e can get at. *)
Outside(e) == {c \in {C[r] : r \in Reg} \cup {scr[s] : s \in DOMAIN scr}
                     \cup {mem[g] : g \in Granule \ enclave[e].data} : IsCap(c)}

Untouched(e) == enclave[e].data # {} /\ ~ enclave[e].entered

(* The promise of EInitData and its sweep: from its success until the enclave
   is first entered, every capability to its sections, wherever programs
   have copied it to, is sealed with the enclave's own otype, and its code
   section holds no capability. *)
Exclusive ==
    \A e \in {f \in Eid : Untouched(f)} :
       LET claimed == enclave[e].code \cup enclave[e].data IN
       /\ \A c \in Outside(e) : c.kind = "mem" /\ InBounds(c) \cap claimed # {}
             => c.otype = EntryOtype(e)
       /\ \A g \in enclave[e].code : ~ IsCap(mem[g])
       /\ \A f \in Eid \ {e} : Untouched(f) =>
             claimed \cap (enclave[f].code \cup enclave[f].data) = {}

(* The identity EStoreId reports is that of the code the enclave will run:
   until it is first entered the entry stays, and its id is the hash of what
   the code section holds now. *)
Measured ==
    \A e \in {f \in Eid : Untouched(f)} :
       \E m \in getId(ETable, e, FALSE) :
          \E base \in 0 .. Granules :
             /\ enclave[e].code = base .. base + Len(m.id) - 1
             /\ \A i \in 1 .. Len(m.id) : mem[base + i - 1] = m.id[i]

(* Keys are made by EInitData only: the keys of e exist only if its EInitData
   came to its end, and stay in its data section until it is entered.  So an
   entry that a failed key store left permanent never gets a key at all. *)
KeyConfined ==
    \A e \in Eid : \A c \in Outside(e) :
       IsKey(c) /\ c.base <= EntryOtype(e) /\ EntryOtype(e) < c.top
          => enclave[e].data # {} /\ enclave[e].entered

(* While an entry is temporary only EInitCode's own capability carries a seal
   of its id: one section, sealed as entry point.  This is what makes the
   otype check of EInitData "technically not necessary" (cheri_insts.sail
   line 2593). *)
OneCodeSection ==
    \A c, d \in Everywhere : \A e \in Eid :
       /\ getId(ETable, e, TRUE) # {}
       /\ isCapSealed(c) /\ otype_to_eid(c.otype) = e
       /\ isCapSealed(d) /\ otype_to_eid(d.otype) = e
       => c = d /\ c.otype = EntryOtype(e)

(* IsUnique answers 1 only if no other register and no granule outside the
   region itself holds a capability that shares a granule with cs1. *)
SharesGranule(c, d) ==
    IsCap(c) /\ c.kind = "mem" /\ IsCap(d) /\ d.kind = "mem"
    /\ InBounds(c) \cap InBounds(d) # {}

IsUniqueSound ==
    \A r \in Reg : IsUnique(r) =>
       /\ \A q \in Reg \ {r} : ~ SharesGranule(C[r], C[q])
       /\ \A s \in DOMAIN scr : ~ SharesGranule(C[r], scr[s])
       /\ \A g \in Granule \ InBounds(C[r]) : ~ SharesGranule(C[r], mem[g])

(* The table and the counter implement the abstract trusted base. *)
StatusMap ==
    [e \in Eid |-> IF getId(ETable, e, TRUE) # {} THEN "temp"
                   ELSE IF getId(ETable, e, FALSE) # {} THEN "perm"
                   ELSE IF e < EidCounter THEN "gone" ELSE "unused"]

IdentityMap ==
    [e \in Eid |-> IF getId(ETable, e, FALSE) = {} THEN ZeroHash
                   ELSE (CHOOSE m \in getId(ETable, e, FALSE) : TRUE).id]

TCB == INSTANCE EnclaveTCB WITH
    Identity <- Hash, NoId <- ZeroHash, Capacity <- TableSize,
    status <- StatusMap, identity <- IdentityMap

(* Every step of the machine is a step of the abstract trusted base or leaves
   it alone: ids are not reused, an identity is set once and never changed,
   the table never holds more than TableSize entries.  A step that changes
   the registers of the TCB is never a stutter of it, so this is slightly
   more than TCB!Spec, and cheaper to evaluate. *)
RefinesTCB == TCB!Init /\ [][tcb' # tcb => TCB!Next]_vars
=============================================================================
