---------------------------- MODULE ProteusStore ----------------------------
(***************************************************************************)
(* The identity store of the Proteus core (IdentityStore.scala), its id    *)
(* generator (EnclaveIdManager.scala) and the arithmetic of enclave ids    *)
(* (EnclaveId.scala), as functions of the store's registers and of the     *)
(* request on its port.                                                    *)
(*                                                                         *)
(* One use of StoreCycle is one clock cycle.  A search looks at one entry  *)
(* per cycle and goes on until it ends, whether or not the request is      *)
(* still there; it reads the request again in every cycle, and its answer  *)
(* is a pulse that goes to whoever is listening in that cycle.             *)
(***************************************************************************)
EXTENDS Integers

CONSTANTS
    NumEntries,  \* entries of the store (32 in Core.scala)
    NumIds,      \* numEnclaveIds (256)
    IdValues,    \* 2 ^ enclaveIdWidth: number of values of an id (256)
    Digest,      \* the hashes
    None         \* no hash

ASSUME StoreAssumption ==
    /\ NumEntries \in Nat \ {0}
    /\ NumIds \in Nat \ {0}
    /\ IdValues \in Nat /\ NumIds <= IdValues
    /\ None \notin Digest

(* An entry is never given back, so no more ids are given out than there are
   entries (32), and the seals of that many ids are below the largest id. *)
ASSUME IdsAssumption == 4 * NumEntries <= IdValues

Invalid == -1                        \* EnclaveId.setInvalid

Id == 0 .. IdValues - 1

Idx == 0 .. NumEntries - 1

Entry == [used : BOOLEAN, ready : BOOLEAN, id : Id \cup {Invalid},
          hash : Digest \cup {None}]

StoreFsm == {"idle", "initEntry", "getUnfinishedEntry", "finishEntry", "getHash"}

Store == [fsm : StoreFsm, searchIdx : Idx, entries : [Idx -> Entry],
          nextId : 0 .. NumIds]

Request == [op : StoreFsm, eid : Id \cup {Invalid}, hash : Digest \cup {None}]

Empty == [used |-> FALSE, ready |-> FALSE, id |-> Invalid, hash |-> None]

StoreInit == [fsm |-> "idle", searchIdx |-> 0,
              entries |-> [i \in Idx |-> Empty], nextId |-> 0]

signSeal(id) == 4 * id
encSeal(id) == 4 * id + 1
identSeal(id) == 4 * id + 2

(* The otype, not the id it carries, is compared with the largest id. *)
assignFromOtype(otype) == IF otype <= IdValues - 1 THEN otype \div 4 ELSE Invalid

(* nextId is a Counter(NumIds + 1): it stays at NumIds. *)
idAvailable(s) == s.nextId < NumIds
-----------------------------------------------------------------------------
(* A cycle: the next registers, and the answer.  It is an id (or Invalid) on
   io.result, or a hash (or None) on io.hashResult. *)
NoAnswer == [port |-> "none", value |-> Invalid]
Result(id) == [port |-> "result", value |-> id]
HashResult(h) == [port |-> "hashResult", value |-> h]

Quiet(next) == [next |-> next, answer |-> NoAnswer]

Answer(s, answer) == [next |-> [s EXCEPT !.fsm = "idle"], answer |-> answer]

(* The entry searched last has been written: back to idle. *)
Write(s, entry) ==
    [s EXCEPT !.fsm = "idle", !.entries = [s.entries EXCEPT ![s.searchIdx] = entry]]

(* Mutant: the search never looks at the last entry. *)
SearchOnShort(s, answer) ==
    IF s.searchIdx + 1 >= NumEntries - 1
    THEN Answer(s, answer)
    ELSE Quiet([s EXCEPT !.searchIdx = s.searchIdx + 1])

(* Go on with the next entry, or answer that there is none. *)
SearchOn(s, answer) ==
    IF s.searchIdx = NumEntries - 1
    THEN Answer(s, answer)
    ELSE Quiet([s EXCEPT !.searchIdx = s.searchIdx + 1])

Search(s, fsm) == Quiet([s EXCEPT !.fsm = fsm, !.searchIdx = 0])

(* idle.  A lookup of a hash that is refused here is answered on io.result
   too: the fail() in scope is the one that pushes io.result. *)
Dispatch(s, req) ==
    CASE req.op = "idle" -> Quiet(s)
      [] req.op = "initEntry" ->
           IF idAvailable(s) THEN Search(s, req.op) ELSE Answer(s, Result(Invalid))
      [] OTHER ->
           IF req.eid # Invalid THEN Search(s, req.op) ELSE Answer(s, Result(Invalid))

(* Mutant: an entry that is not ready is taken for a free one. *)
initEntryReuse(s) ==
    IF ~ s.entries[s.searchIdx].ready
    THEN [next |-> [Write(s, [Empty EXCEPT !.used = TRUE, !.id = s.nextId])
                       EXCEPT !.nextId = s.nextId + 1],
          answer |-> Result(s.nextId)]
    ELSE SearchOn(s, Result(Invalid))

initEntry(s) ==
    IF ~ s.entries[s.searchIdx].used
    THEN [next |-> [Write(s, [Empty EXCEPT !.used = TRUE, !.id = s.nextId])
                       EXCEPT !.nextId = s.nextId + 1],
          answer |-> Result(s.nextId)]
    ELSE SearchOn(s, Result(Invalid))

getUnfinishedEntry(s, req) ==
    LET entry == s.entries[s.searchIdx] IN
    IF entry.used /\ ~ entry.ready /\ entry.id = req.eid
    THEN Answer(s, Result(entry.id))
    ELSE SearchOn(s, Result(Invalid))

finishEntry(s, req) ==
    LET entry == s.entries[s.searchIdx] IN
    IF entry.id # req.eid THEN SearchOn(s, Result(Invalid))
    ELSE IF entry.used /\ ~ entry.ready
    THEN [next |-> Write(s, [entry EXCEPT !.hash = req.hash, !.ready = TRUE]),
          answer |-> Result(req.eid)]
    ELSE Answer(s, Result(Invalid))

(* Mutant: the first ready entry is answered, whatever its id. *)
getHashFirstReady(s, req) ==
    LET entry == s.entries[s.searchIdx] IN
    IF entry.used /\ entry.ready THEN Answer(s, HashResult(entry.hash))
    ELSE SearchOn(s, HashResult(None))

getHash(s, req) ==
    LET entry == s.entries[s.searchIdx] IN
    IF entry.id # req.eid THEN SearchOn(s, HashResult(None))
    ELSE IF entry.used /\ entry.ready THEN Answer(s, HashResult(entry.hash))
    ELSE Answer(s, HashResult(None))

StoreCycle(s, req) ==
    CASE s.fsm = "idle" -> Dispatch(s, req)
      [] s.fsm = "initEntry" -> initEntry(s)
      [] s.fsm = "getUnfinishedEntry" -> getUnfinishedEntry(s, req)
      [] s.fsm = "finishEntry" -> finishEntry(s, req)
      [] s.fsm = "getHash" -> getHash(s, req)
=============================================================================
