---------------------------- MODULE TaggedWords -----------------------------
(***************************************************************************)
(* The address space of the tagged memory and the accesses of its client.  *)
(***************************************************************************)
EXTENDS Naturals

CONSTANTS
    CapWords,      \* words of a capability: clen / xlen
    Granules,
    InMemory,      \* the granules that have a tag
    Value,
    DataAddresses, \* words the client loads and stores
    Caps,          \* the words of the capabilities it stores
    None

Offset == 0 .. CapWords - 1
Granule == 0 .. Granules - 1
Word == 0 .. CapWords * Granules - 1

granuleOf(a) == a \div CapWords
wordOf(g, i) == g * CapWords + i

ASSUME MemoryAssumption ==
    /\ CapWords \in Nat \ {0, 1} /\ Granules \in Nat \ {0}
    /\ InMemory \subseteq Granule /\ DataAddresses \subseteq Word
    /\ Caps \subseteq [Offset -> Value] /\ 0 \in Value /\ None \notin Word

DataOp == [op : {"load"}, address : DataAddresses]
          \cup [op : {"store"}, address : DataAddresses, data : Value]
CapOp == [op : {"loadcap"}, granule : Granule]
         \cup [op : {"storecap"}, granule : Granule, cap : Caps, tag : BOOLEAN]
Idle == [op |-> "idle"]

CapAt(mem, g) == [i \in Offset |-> mem[wordOf(g, i)]]

(* The contents with a capability in a granule. *)
WithCap(mem, g, cap) ==
    [a \in Word |-> IF granuleOf(a) = g THEN cap[a % CapWords] ELSE mem[a]]

(* The tags with that of a granule set, if it has one. *)
WithTag(tag, g, t) == [h \in InMemory |-> IF h = g THEN t ELSE tag[h]]
=============================================================================
