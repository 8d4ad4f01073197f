---------------------------- MODULE MorelloTCB ------------------------------
(***************************************************************************)
(* The identity store and the id counter that the Morello EL2 code keeps   *)
(* (identityStore.c, enclaveIDManager.c, enclaveid.c), as operators on     *)
(* their values.  A C function that changes the store is an operator from  *)
(* the store to the store; one that returns a value is an operator of its  *)
(* own.  The searches run from entry 0 up and stop at the first match.     *)
(***************************************************************************)
EXTENDS Integers, FiniteSets

CONSTANTS
    MAX_ENTRIES,    \* entries of identityStore
    numEnclaveIds,  \* ids there are, (OTYPE_RANGE_END - OTYPE_RANGE_START) / 4
    Hash,           \* the values a hash may take
    ZeroHash        \* what initTable puts in the hash of an entry

ASSUME StoreAssumption ==
    /\ MAX_ENTRIES \in Nat \ {0}
    /\ numEnclaveIds \in Nat
    /\ ZeroHash \notin Hash

Idx == 0 .. MAX_ENTRIES - 1

(* setInvalidEnclaveID: all ones, which no otype shifted right by two is. *)
Invalid == -1

Eid == 1 .. numEnclaveIds

Entry ==
    [used : BOOLEAN, ready : BOOLEAN, id : Eid \cup {Invalid},
     hash : Hash \cup {ZeroHash}]

initTable ==
    [i \in Idx |-> [used |-> FALSE, ready |-> FALSE, id |-> Invalid,
                    hash |-> ZeroHash]]

(* Ids start at 1, because Morello reserves the otypes below 4. *)
initIDCounter == 1

assignIDFromOtype(otype) == otype \div 4

signSeal(id) == 4 * id

identSeal(id) == 4 * id + 2

Otype == 0 .. 4 * numEnclaveIds + 3

(* The first entry of which P holds; no entry at all is the empty set. *)
First(P(_)) == {i \in Idx : P(i) /\ \A j \in 0 .. i - 1 : ~ P(j)}

generateEnclaveID(counter) ==
    IF counter < numEnclaveIds + 1 THEN counter ELSE Invalid

(* Mutant: the counter is left where it is. *)
nextIDCounterStuck(counter) == counter

nextIDCounter(counter) ==
    IF counter < numEnclaveIds + 1 THEN counter + 1 ELSE counter

FreeEntry(store) == First(LAMBDA i : ~ store[i].used)

(* The entry is taken before an id is generated for it: when the ids are used
   up it stays taken, with the invalid id. *)
initEntry(store, idx, counter) ==
    [store EXCEPT ![idx].used = TRUE, ![idx].id = generateEnclaveID(counter)]

(* Mutant: finished entries match as well. *)
UnfinishedAny(store, otype) ==
    First(LAMBDA i : store[i].used /\ store[i].id = assignIDFromOtype(otype))

Unfinished(store, otype) ==
    First(LAMBDA i : /\ store[i].used /\ ~ store[i].ready
                     /\ store[i].id = assignIDFromOtype(otype))

finishEntry(store, idx, hash) ==
    [store EXCEPT ![idx].hash = hash, ![idx].ready = TRUE]

getHashEntry(store, otype) ==
    First(LAMBDA i : /\ store[i].used /\ store[i].ready
                     /\ store[i].id = assignIDFromOtype(otype))
=============================================================================
