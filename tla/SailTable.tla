----------------------------- MODULE SailTable ------------------------------
(***************************************************************************)
(* The bookkeeping functions of cheri_enclave.sail over the register       *)
(* ETable, and the id generator gen_eid over the register EidCounter.      *)
(* ETable is a function on 0 .. TableSize-1 whose values are a mapping or  *)
(* None.  The Sail functions walk the table by recursion on the index and  *)
(* stop at the first hit; here the hit is named directly.                  *)
(* A Sail option is a set of at most one element.                          *)
(***************************************************************************)
EXTENDS Integers

CONSTANTS
    TableSize,   \* number of entries of ETable (128 in the source)
    OtypeWidth,  \* cap_otype_width: bits of an object type (18)
    Reserved,    \* reserved_otypes: how many otypes at the top are reserved
    Hash,        \* the values make_hash may return
    ZeroHash,    \* zeros(id_hash_size): the id field of a temporary entry
    None         \* None(): an empty slot of ETable

ASSUME TableSizeAssumption == TableSize \in Nat \ {0}

(* otype_unsealed and otype_sentry are the two topmost otypes, both reserved;
   an enclave has four otypes. *)
ASSUME OtypeAssumption ==
    /\ OtypeWidth \in Nat
    /\ Reserved \in Nat
    /\ 2 ^ OtypeWidth \in Nat
    /\ 2 ^ OtypeWidth % 4 = 0
    /\ Reserved >= 2
    /\ 2 ^ OtypeWidth >= Reserved + 4

Otypes == 2 ^ OtypeWidth

cap_max_otype == Otypes - 1 - Reserved
otype_unsealed == Otypes - 1
otype_sentry == Otypes - 2

Otype == 0 .. Otypes - 1

(* eid_type = bits(cap_otype_width - 2) *)
Eid == 0 .. (Otypes \div 4) - 1

Idx == 0 .. TableSize - 1

EMapping == [id : Hash \cup {ZeroHash}, eid : Eid, is_temp : BOOLEAN]

ASSUME NoneAssumption == None \notin EMapping

ETables == [Idx -> EMapping \cup {None}]

(* initETable *)
EmptyTable == [i \in Idx |-> None]

otype_to_eid(otype) == otype \div 4

(* eid @ 0b10: the otype that seals the code and the data of an enclave *)
EntryOtype(eid) == 4 * eid + 2

Holds(table, i, eid) == table[i] # None /\ table[i].eid = eid

(* The index at which a walk of the table from 0 stops for eid. *)
Hit(table, eid) ==
    {i \in Idx : /\ Holds(table, i, eid)
                 /\ \A j \in 0 .. i - 1 : ~ Holds(table, j, eid)}

(* getIdH gives up at the first entry of eid if its flag is the wrong one. *)
getId(table, eid, is_temp) ==
    {table[i] : i \in {j \in Hit(table, eid) : table[j].is_temp = is_temp}}

findFreeIdx(table) ==
    {i \in Idx : /\ table[i] = None
                 /\ \A j \in 0 .. i - 1 : table[j] # None}

addTempMapping(table, eid, idx) ==
    [table EXCEPT ![idx] = [id |-> ZeroHash, eid |-> eid, is_temp |-> TRUE]]

removeMapping(table, eid) ==
    [i \in Idx |-> IF i \in Hit(table, eid) THEN None ELSE table[i]]

makeMappingPerm(table, eid, id) ==
    [i \in Idx |-> IF i \in Hit(table, eid) /\ table[i].is_temp
                   THEN [id |-> id, eid |-> eid, is_temp |-> FALSE]
                   ELSE table[i]]

(* gen_eid: the next id, if its four otypes are below the reserved ones. *)
gen_eid(counter) ==
    IF 4 * counter + 3 > cap_max_otype THEN {} ELSE {counter % (Otypes \div 4)}
=============================================================================
