--------------------------- MODULE MCSailEnclave ---------------------------
(***************************************************************************)
(* Instances of SailEnclave for TLC.                                       *)
(***************************************************************************)
EXTENDS SailEnclave

MCHash == UNION {[1 .. n -> Word] : n \in 0 .. Granules + 1}

(* Memory that is not executable: no sentries, no CInvoke. *)
DataPerms == {"load", "store", "store_cap"}

MCPermSets == {FullPerms, DataPerms}

(* One register holds the whole arena. *)
WholeArena(perms) ==
    [r \in Reg |-> IF r = C31 THEN Null
                   ELSE MemCapOf(0, Granules, perms, otype_unsealed)]

WholeExecutable == WholeArena(FullPerms)

WholeData == WholeArena(DataPerms)
=============================================================================
