----------------------------- MODULE EnclaveTCB -----------------------------
(***************************************************************************)
(* What the trusted computing base of CHERI-TrEE promises, whatever holds  *)
(* it: the Sail table ETable, the IdentityStore of the Proteus core, or    *)
(* the identity store of the Morello EL2 code.  An enclave id goes from    *)
(* "unused" to "temp" (EInitCode) to "perm" (EInitData), possibly to       *)
(* "gone" (EDeinit, or an id given out and lost on an error path), and     *)
(* never back.  The identity is fixed by the step that makes the entry     *)
(* permanent.                                                              *)
(***************************************************************************)
EXTENDS Naturals, FiniteSets

CONSTANTS
    Eid,       \* the enclave ids
    Identity,  \* the values an identity (a hash of the code) may take
    NoId,      \* the identity of an id that has none
    Capacity   \* number of entries the store can hold at a time

VARIABLES
    status,    \* status[e]: where enclave id e is in its life
    identity   \* identity[e]: the attested identity of a permanent e

vars == <<status, identity>>

Live(s) == {e \in Eid : s[e] \in {"temp", "perm"}}

Init ==
    /\ status = [e \in Eid |-> "unused"]
    /\ identity = [e \in Eid |-> NoId]

(* EInitCode: a fresh id gets a temporary entry, if there is room for it. *)
Create(e) ==
    /\ status[e] = "unused"
    /\ Cardinality(Live(status)) < Capacity
    /\ status' = [status EXCEPT ![e] = "temp"]
    /\ UNCHANGED identity

(* An id is given out and lost: no entry will ever carry it. *)
Waste(e) ==
    /\ status[e] = "unused"
    /\ status' = [status EXCEPT ![e] = "gone"]
    /\ UNCHANGED identity

(* EInitData: a temporary entry gets its identity, once and for all. *)
Attest(e, id) ==
    /\ status[e] = "temp"
    /\ status' = [status EXCEPT ![e] = "perm"]
    /\ identity' = [identity EXCEPT ![e] = id]

(* EDeinit: the entry is dropped; the id is not given out again. *)
Remove(e) ==
    /\ status[e] \in {"temp", "perm"}
    /\ status' = [status EXCEPT ![e] = "gone"]
    /\ identity' = [identity EXCEPT ![e] = NoId]

Next == \E e \in Eid :
    \/ Create(e)
    \/ Waste(e)
    \/ Remove(e)
    \/ \E id \in Identity : Attest(e, id)

Spec == Init /\ [][Next]_vars
=============================================================================
