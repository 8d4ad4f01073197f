---------------------------- MODULE MorelloEL2 ------------------------------
(***************************************************************************)
(* The hypervisor calls that make up the enclave instructions on Morello.  *)
(* EL1 software runs; an HVC saves its registers, syncHandlerEL2N does the *)
(* call, and the result goes back in c0.  EL1 stands still meanwhile and   *)
(* EL2 takes no interrupts, so a call is one step.  A fault inside EL2     *)
(* ends in a vector that branches to itself: the machine is hung.          *)
(*                                                                         *)
(* Memory is a row of granules of one capability (16 bytes) each.  A       *)
(* capability has bounds in granules; its address, and whether its length  *)
(* is ragged (ends inside the last granule, at no multiple of 4), are      *)
(* choices made where they are used.  Untagged registers are all Null;     *)
(* where EL2 looks at the bits of one without looking at its tag, the bits *)
(* come from Untagged.  Sealing capabilities have bounds in the otype      *)
(* space, which lies below memory, so they never overlap it.               *)
(*                                                                         *)
(* EL1 starts from OsCap, outside the arena, with BootCaps in c0..c30.     *)
(***************************************************************************)
EXTENDS MorelloTCB, Sequences

CONSTANTS
    Other,      \* general-purpose registers other than c0 and c1
    C29,        \* the register a branch to a sealed pair puts its data in
    BootCaps,   \* the registers when EL1 starts
    Scr,        \* bound: the special registers EL1 writes
    Granules,   \* number of granules of the arena
    Word,       \* the data a granule may hold
    HashWord,   \* the granule content ESTORE_ID leaves behind
    HashSize,   \* granules a hash takes up in memory
    AddressSpace, \* size_t wraps around at this number of granules
    PermSets,   \* bound: the permissions EL1 reduces a capability to
    Untagged,   \* bound: the bits of untagged operands
    Asked,      \* bound: the otypes software passes to ESTORE_ID
    Null        \* an untagged capability

VARIABLES
    identityStore,  \* the TCB table
    IDCounter,      \* the id counter
    c,              \* c[r]: registers of EL1
    scr,            \* special capability registers of EL1
    mem,            \* mem[g]: granules of EL1 memory
    hung,           \* EL2 loops forever
    enclave         \* history: what each EINIT_DATA that succeeded claimed

tcb == <<identityStore, IDCounter>>
vars == <<identityStore, IDCounter, c, scr, mem, hung, enclave>>

Reg == {"c0", "c1"} \cup Other
Granule == 0 .. Granules - 1

(* The special registers scrs_sweep reads.  CELR_EL2 is the PCC of EL1; the
   PCC of EL2 itself, which is swept too, never covers EL1 memory. *)
Special == {"CELR_EL2", "DDC_EL1", "CSP_EL1", "CELR_EL1", "CTPIDR_EL1", "CVBAR_EL1"}

unsealed == 0

FullPerms == {"load", "store", "exec"}

MemCap ==
    [kind : {"mem"}, base : 0 .. Granules + 1, top : 0 .. Granules + 1,
     perms : SUBSET FullPerms, otype : Otype]

KeyCap ==
    [kind : {"key"}, base : Otype, top : Otype, perms : {{"seal", "unseal"}},
     otype : Otype]

Cap == MemCap \cup KeyCap

MemCapOf(base, top, perms) ==
    [kind |-> "mem", base |-> base, top |-> top, perms |-> perms,
     otype |-> unsealed]

OsCap == MemCapOf(Granules, Granules + 1, FullPerms)

ASSUME MorelloAssumption ==
    /\ Granules \in Nat /\ HashSize \in Nat /\ AddressSpace > 2 * Granules
    /\ C29 \in Reg /\ Scr \subseteq Special \ {"CVBAR_EL1"}
    /\ HashWord \in Word
    /\ PermSets \subseteq SUBSET FullPerms
    /\ Untagged \subseteq MemCap
    /\ \A u \in Untagged : u.top <= Granules
    /\ Asked \subseteq Otype
    /\ Null \notin Cap /\ Word \cap Cap = {} /\ Null \notin Word
    /\ BootCaps \in [Reg -> MemCap \cup {Null}]
    /\ \A r \in Reg : BootCaps[r] # Null =>
          BootCaps[r].top <= Granules /\ BootCaps[r].otype = unsealed

(* What generateHash returns for code that holds data words only is a hash. *)
ASSUME HashAssumption ==
    \A n \in 0 .. Granules : [1 .. n -> Word] \subseteq Hash

IsCap(v) == v # Null /\ v \notin Word

cheri_is_sealed(cap) == cap.otype # unsealed

cheri_seal(cap, otype) == [cap EXCEPT !.otype = otype]

cheri_unseal(cap) == [cap EXCEPT !.otype = unsealed]

(* The granules a capability covers, and those it covers to their end. *)
Bounds(cap) == IF cap.kind = "mem" THEN cap.base .. cap.top - 1 ELSE {}

Whole(cap, ragged) == {g \in Bounds(cap) : ragged => g < cap.top - 1}

(* An access through a tagged capability that does not fault. *)
Grants(v, ps) ==
    IsCap(v) /\ v.kind = "mem" /\ ~ cheri_is_sealed(v) /\ ps \subseteq v.perms

(* What EL2 reads from a register when it does not look at the tag. *)
Bits(v) == IF IsCap(v) THEN {v} ELSE Untagged
-----------------------------------------------------------------------------
(* The sweeps. *)
bounds_nonoverlap_check_twocap(code_cap, data_cap, capm) ==
    \A s \in {code_cap, data_cap} :
       \/ s.kind # capm.kind
       \/ s.top <= capm.base \/ s.base >= capm.top

check_reg(code_cap, data_cap, v) ==
    IsCap(v) => bounds_nonoverlap_check_twocap(code_cap, data_cap, v)

(* c0 and c1 hold code_cap and data_cap themselves and are passed over: the
   two are not compared with each other. *)
gpreg_sweep(code_cap, data_cap) ==
    \A r \in Reg \ {"c0", "c1"} : check_reg(code_cap, data_cap, c[r])

(* Mutant: the register EL1 will return to is not looked at. *)
scrs_sweepNoReturn(code_cap, data_cap) ==
    \A s \in Special \ {"CELR_EL2"} : check_reg(code_cap, data_cap, scr[s])

scrs_sweep(code_cap, data_cap) ==
    \A s \in Special : check_reg(code_cap, data_cap, scr[s])

reg_sweep(code_cap, data_cap) ==
    gpreg_sweep(code_cap, data_cap) /\ scrs_sweep(code_cap, data_cap)

mem_sweep(code_cap, data_cap) ==
    \A g \in Granule : check_reg(code_cap, data_cap, mem[g])

codeCap_sweep(code_cap, ragged) ==
    \A g \in Whole(code_cap, ragged) \cap Granule : ~ IsCap(mem[g])

sweep(code_cap, data_cap, ragged) ==
    /\ reg_sweep(code_cap, data_cap)
    /\ mem_sweep(code_cap, data_cap)
    /\ codeCap_sweep(code_cap, ragged)

(* generateHash gives up on a length that is no multiple of 4.  Nobody reads
   the flag it leaves, so the hash is what the stack held before. *)
(* Mutant: the last granule is not hashed. *)
generateHashShort(code_cap, ragged) ==
    IF ragged THEN Hash
    ELSE {[i \in 1 .. code_cap.top - code_cap.base - 1 |-> mem[code_cap.base + i - 1]]}

generateHash(code_cap, ragged) ==
    IF ragged THEN Hash
    ELSE {[i \in 1 .. code_cap.top - code_cap.base |-> mem[code_cap.base + i - 1]]}

signEncSeal(id) ==
    [kind |-> "key", base |-> signSeal(id), top |-> signSeal(id) + 2,
     perms |-> {"seal", "unseal"}, otype |-> unsealed]
-----------------------------------------------------------------------------
NoEnclave ==
    [code |-> MemCapOf(0, 0, FullPerms), ragged |-> FALSE, data |-> {},
     entered |-> FALSE]

Init ==
    /\ identityStore = initTable
    /\ IDCounter = initIDCounter
    /\ c = BootCaps
    /\ scr = [s \in Special |->
                IF s \in {"CELR_EL2", "CSP_EL1", "CVBAR_EL1"} THEN OsCap ELSE Null]
    /\ mem \in [Granule -> Word]
    /\ hung = FALSE
    /\ enclave = [e \in Eid |-> NoEnclave]

(* The vector restores c2..c30, gives the result back in c0 and the old c0 in
   c1; the old c1 is gone. *)
Return(v) == c' = [c EXCEPT !["c0"] = v, !["c1"] = c["c0"]] /\ UNCHANGED <<scr, hung>>

(* A synchronous exception inside EL2: the vector branches to itself. *)
Hang == hung' = TRUE /\ UNCHANGED <<c, scr, mem, enclave>>
-----------------------------------------------------------------------------
(* The calls. *)

(* EINIT_CODE looks at nothing of c0.  What cannot be sealed comes back
   without its tag, and the entry has been taken all the same. *)
EINIT_CODE ==
    \/ /\ FreeEntry(identityStore) = {}
       /\ Return(Null)
       /\ UNCHANGED <<identityStore, IDCounter, mem, enclave>>
    \/ \E idx \in FreeEntry(identityStore) :
          LET id == generateEnclaveID(IDCounter)
              code_cap == c["c0"] IN
          /\ identityStore' = initEntry(identityStore, idx, IDCounter)
          /\ IDCounter' = nextIDCounter(IDCounter)
          /\ Return(IF id # Invalid /\ IsCap(code_cap) /\ ~ cheri_is_sealed(code_cap)
                    THEN cheri_seal(code_cap, identSeal(id)) ELSE Null)
          /\ UNCHANGED <<mem, enclave>>

(* cheri_unseal leaves the tag only if the seal is the entry's identSeal; a
   load through code_cap then needs the permission, and an address at base. *)
Readable(code_cap, id, atBase) ==
    /\ IsCap(c["c0"]) /\ code_cap.otype = identSeal(id)
    /\ code_cap.kind = "mem" /\ "load" \in code_cap.perms
    /\ atBase /\ Bounds(code_cap) # {}

(* Both codeCap_sweep, from one granule up, and generateHash, for a length it
   accepts, load from code_cap. *)
SweepLoads(code_cap, ragged) == Whole(code_cap, ragged) # {}

Loads(code_cap, ragged) == SweepLoads(code_cap, ragged) \/ ~ ragged

(* A code section is claimed only through a capability to memory.  A branch to
   the pair before this call does not count: the sweep has seen what it left. *)
Claim(id, code_cap, ragged, data_cap) ==
    enclave' = [enclave EXCEPT ![id] =
                  [code |-> IF IsCap(c["c0"]) /\ code_cap.kind = "mem"
                            THEN cheri_unseal(code_cap) ELSE NoEnclave.code,
                   ragged |-> ragged,
                   data |-> Bounds(data_cap) \cap Granule,
                   entered |-> FALSE]]

(* Mutant: data_cap is returned as it came. *)
FinishDataNoSeal(id, idx, code_cap, ragged, data_cap) ==
    \E hash \in generateHash(code_cap, ragged), g \in Bounds(data_cap) :
       /\ Grants(c["c1"], {"store"})
       /\ identityStore' = finishEntry(identityStore, idx, hash)
       /\ mem' = [mem EXCEPT ![g] = signEncSeal(id)]
       /\ Return(data_cap)
       /\ Claim(id, code_cap, ragged, data_cap)
       /\ UNCHANGED IDCounter

(* The entry is finished before the seals are stored; a store that faults
   hangs the machine with the entry ready. *)
FinishData(id, idx, code_cap, ragged, data_cap) ==
    \E hash \in generateHash(code_cap, ragged) :
       /\ identityStore' = finishEntry(identityStore, idx, hash)
       /\ UNCHANGED IDCounter
       /\ \/ /\ Grants(c["c1"], {"store"})
             /\ \E g \in Bounds(data_cap) :
                   mem' = [mem EXCEPT ![g] = signEncSeal(id)]
             /\ Return(cheri_seal(data_cap, identSeal(id)))
             /\ Claim(id, code_cap, ragged, data_cap)
          \/ Hang

(* getUnfinishedEntryID looks at the id part of the otype only. *)
EINIT_DATA ==
    \E code_cap \in Bits(c["c0"]), data_cap \in Bits(c["c1"]), atBase, ragged \in BOOLEAN :
       LET id == assignIDFromOtype(code_cap.otype)
           entry == Unfinished(identityStore, code_cap.otype)
           ok == sweep(code_cap, data_cap, ragged)
           readable == Readable(code_cap, id, atBase) IN
       \/ /\ entry = {} \/ ((SweepLoads(code_cap, ragged) => readable) /\ ~ ok)
          /\ Return(Null)
          /\ UNCHANGED <<identityStore, IDCounter, mem, enclave>>
       \/ /\ entry # {} /\ ~ readable
          /\ SweepLoads(code_cap, ragged) \/ (Loads(code_cap, ragged) /\ ok)
          /\ Hang
          /\ UNCHANGED <<identityStore, IDCounter>>
       \/ \E idx \in entry :
          /\ Loads(code_cap, ragged) => readable
          /\ ok
          /\ FinishData(id, idx, code_cap, ragged, data_cap)

(* length - offset in size_t: an address past the top wraps around. *)
Room(buf, at) == (buf.top - at) % AddressSpace

MayStore(buf, at) ==
    ~ cheri_is_sealed(buf) /\ "store" \in buf.perms /\ Room(buf, at) >= HashSize

(* The tag of the buffer is read for a debug message only: what is written
   through an untagged or out-of-bounds buffer faults. *)
ESTORE_ID ==
    \E otype \in Asked, memHash_cap \in Bits(c["c1"]), at \in 0 .. Granules + 1 :
       LET written == at .. at + HashSize - 1
           found == getHashEntry(identityStore, otype) # {} IN
       /\ UNCHANGED <<identityStore, IDCounter, enclave>>
       /\ \/ /\ ~ MayStore(memHash_cap, at) \/ ~ found
             /\ Return(Null) /\ UNCHANGED mem
          \/ /\ MayStore(memHash_cap, at) /\ found
             /\ Grants(c["c1"], {"store"}) /\ written \subseteq Bounds(memHash_cap)
             /\ mem' = [g \in Granule |-> IF g \in written THEN HashWord ELSE mem[g]]
             /\ Return(Null)
          \/ /\ MayStore(memHash_cap, at) /\ found
             /\ ~ (Grants(c["c1"], {"store"}) /\ written \subseteq Bounds(memHash_cap))
             /\ Hang

(* HVC_REGSWEEP, HVC_MEMSWEEP, HVC_SWEEP: the result goes to the UART and c0
   comes back in both registers.  HVC_SWEEP may fault in codeCap_sweep. *)
SweepCalls ==
    /\ Return(c["c0"]) \/ Hang
    /\ UNCHANGED <<identityStore, IDCounter, mem, enclave>>

(* An HVC with another number. *)
UnknownCall ==
    Return(Null) /\ UNCHANGED <<identityStore, IDCounter, mem, enclave>>

(* EL1 touches the registers of its MMU, or another exception comes to EL2. *)
Trapped == Hang /\ UNCHANGED <<identityStore, IDCounter>>

syncHandlerEL2N ==
    \/ EINIT_CODE
    \/ EINIT_DATA
    \/ ESTORE_ID
    \/ SweepCalls
    \/ UnknownCall
    \/ Trapped
-----------------------------------------------------------------------------
(* EL1 software: the Morello instructions that make, move and use
   capabilities, in any order.  Refused ones raise an exception in EL1, which
   is not modelled.  Nor is what an enclave seals with its key: the key exists
   once the entry is ready, and EINIT_DATA turns away every seal of such an
   entry. *)

SetC(r, v) ==
    c' = [c EXCEPT ![r] = v] /\ UNCHANGED <<identityStore, IDCounter, scr, mem, hung, enclave>>

SetMem(g, v) ==
    mem' = [mem EXCEPT ![g] = v] /\ UNCHANGED <<identityStore, IDCounter, c, scr, hung, enclave>>

SetScr(s, v) ==
    scr' = [scr EXCEPT ![s] = v] /\ UNCHANGED <<identityStore, IDCounter, c, mem, hung, enclave>>

Move(d, r) == SetC(d, c[r])

ClearTag(d) == SetC(d, Null)

SetBounds(d, r) ==
    /\ Grants(c[r], {})
    /\ \E base, top \in c[r].base .. c[r].top :
          base < top /\ SetC(d, [c[r] EXCEPT !.base = base, !.top = top])

AndPerm(d, r) ==
    /\ Grants(c[r], {})
    /\ \E perms \in PermSets :
          perms \subseteq c[r].perms /\ SetC(d, [c[r] EXCEPT !.perms = perms])

LoadCap(d, r) ==
    /\ Grants(c[r], {"load"})
    /\ \E g \in Bounds(c[r]) \cap Granule : SetC(d, IF IsCap(mem[g]) THEN mem[g] ELSE Null)

StoreCap(r, v) ==
    /\ Grants(c[r], {"store"}) /\ IsCap(c[v])
    /\ \E g \in Bounds(c[r]) \cap Granule : SetMem(g, c[v])

StoreWord(r, w) ==
    /\ Grants(c[r], {"store"})
    /\ \E g \in Bounds(c[r]) \cap Granule : SetMem(g, w)

(* To write the PCC is to branch. *)
WriteSpecial(s, r) ==
    (s = "CELR_EL2" => Grants(c[r], {"exec"})) /\ SetScr(s, c[r])

(* OsCap, which reaches none of the arena, stays where it is. *)
ReadSpecial(d, s) == scr[s] # OsCap /\ SetC(d, scr[s])

(* Two capabilities under one seal are unsealed together: the code becomes
   the PCC and the data goes to C29. *)
BranchSealedPair(r, d) ==
    /\ IsCap(c[r]) /\ IsCap(c[d])
    /\ cheri_is_sealed(c[r]) /\ c[r].otype = c[d].otype
    /\ "exec" \in c[r].perms
    /\ scr' = [scr EXCEPT !["CELR_EL2"] = cheri_unseal(c[r])]
    /\ c' = [c EXCEPT ![C29] = cheri_unseal(c[d])]
    /\ enclave' = [enclave EXCEPT ![assignIDFromOtype(c[r].otype)].entered = TRUE]
    /\ UNCHANGED <<identityStore, IDCounter, mem, hung>>

Software ==
    \/ \E d, r \in Reg : \/ Move(d, r)
                         \/ SetBounds(d, r)
                         \/ AndPerm(d, r)
                         \/ LoadCap(d, r)
                         \/ StoreCap(r, d)
                         \/ BranchSealedPair(r, d)
    \/ \E r \in Reg : ClearTag(r)
    \/ \E r \in Reg, w \in Word : StoreWord(r, w)
    \/ \E r \in Reg, s \in Scr : WriteSpecial(s, r) \/ ReadSpecial(r, s)

(* EL2 in its endless loop. *)
Spin == hung /\ UNCHANGED vars

Next == (~ hung /\ (syncHandlerEL2N \/ Software)) \/ Spin

Spec == Init /\ [][Next]_vars
-----------------------------------------------------------------------------
(* Registers, memory and store hold what their types say.  A hash is a string
   of data words, because codeCap_sweep lets no capability into the code. *)
TypeOK ==
    /\ identityStore \in [Idx -> Entry]
    /\ IDCounter \in initIDCounter .. numEnclaveIds + 1
    /\ c \in [Reg -> Cap \cup {Null}]
    /\ scr \in [Special -> Cap \cup {Null}]
    /\ mem \in [Granule -> Cap \cup Word]
    /\ hung \in BOOLEAN
    /\ enclave \in [Eid -> [code : MemCap, ragged : BOOLEAN, data : SUBSET Granule,
                            entered : BOOLEAN]]

(* initEntry fills the store from the front and generateEnclaveID counts, so
   entry i holds id i + 1, or no id once they are used up; what is ready has
   an id and a hash.  The searches rely on it: each stops at the first match. *)
StoreInOrder ==
    /\ TypeOK
    /\ \A i \in Idx : identityStore[i].used =>
          /\ identityStore[i].id = IF i < numEnclaveIds THEN i + 1 ELSE Invalid
          /\ \A j \in 0 .. i : identityStore[j].used
    /\ \A i \in Idx : identityStore[i].ready =>
          /\ identityStore[i].used /\ identityStore[i].id # Invalid
          /\ identityStore[i].hash # ZeroHash
    /\ IDCounter = initIDCounter + Cardinality({i \in Idx : identityStore[i].id # Invalid})

Untouched(e) == enclave[e].data # {} /\ ~ enclave[e].entered

(* What software can get at without the data section of e. *)
Outside(e) == {v \in {c[r] : r \in Reg} \cup {scr[s] : s \in Special}
                     \cup {mem[g] : g \in Granule \ enclave[e].data} : IsCap(v)}

(* The promise of EINIT_DATA and its sweep: until the enclave is first
   entered, every capability to its sections outside its data, also those the
   vector left in c0 and c1, is sealed with the enclave's identSeal. *)
Exclusive ==
    \A e \in {f \in Eid : Untouched(f)} : \A v \in Outside(e) :
       Bounds(v) \cap (Bounds(enclave[e].code) \cup enclave[e].data) # {}
          => v.otype = identSeal(e)

(* The identity ESTORE_ID reports is the hash of the code the enclave will
   run, if its sections are disjoint and the code is of whole words: the case
   generateHash and the sweep are written for. *)
Measured ==
    \A e \in {f \in Eid : Untouched(f)} :
       LET code == enclave[e].code IN
       ~ enclave[e].ragged /\ Bounds(code) \cap enclave[e].data = {} =>
          \E idx \in getHashEntry(identityStore, identSeal(e)) :
             identityStore[idx].hash =
                [i \in 1 .. code.top - code.base |-> mem[code.base + i - 1]]

(* The sealing capability of an enclave stays in its data section until the
   enclave is entered. *)
KeyConfined ==
    \A e \in Eid : \A v \in Outside(e) :
       v.kind = "key" /\ v.base = signSeal(e) => enclave[e].entered

(* EINIT_DATA.c step 5: the code section of an enclave contains no
   capability, until the enclave is entered. *)
CodeHoldsNoCap ==
    \A e \in {f \in Eid : Untouched(f)} :
       \A g \in Whole(enclave[e].code, enclave[e].ragged) : ~ IsCap(mem[g])

(* The store and the counter implement the abstract trusted base. *)
StatusMap ==
    [e \in Eid |-> IF Unfinished(identityStore, identSeal(e)) # {} THEN "temp"
                   ELSE IF getHashEntry(identityStore, identSeal(e)) # {} THEN "perm"
                   ELSE "unused"]

IdentityMap ==
    [e \in Eid |-> IF getHashEntry(identityStore, identSeal(e)) = {} THEN ZeroHash
                   ELSE LET i == CHOOSE i \in getHashEntry(identityStore, identSeal(e)) : TRUE
                        IN identityStore[i].hash]

TCB == INSTANCE EnclaveTCB WITH
    Identity <- Hash, NoId <- ZeroHash, Capacity <- MAX_ENTRIES,
    status <- StatusMap, identity <- IdentityMap

(* Every step is a step of the abstract trusted base or leaves it alone: an
   identity is set once and never changed, and an id never goes back. *)
RefinesTCB == TCB!Init /\ [][tcb' # tcb => TCB!Next \/ UNCHANGED TCB!vars]_vars
=============================================================================
