---------------------------- MODULE MCMorelloEL2 ----------------------------
(***************************************************************************)
(* Instances of MorelloEL2 for TLC.                                        *)
(***************************************************************************)
EXTENDS MorelloEL2

MCHash == UNION {[1 .. n -> Word] : n \in 0 .. Granules}

OnePermSet == {FullPerms}

(* c0 and c1 hold one granule each. *)
TwoSections ==
    [r \in Reg |-> IF r = "c0" THEN MemCapOf(0, 1, FullPerms)
                   ELSE IF r = "c1" THEN MemCapOf(1, 2, FullPerms) ELSE Null]

(* Bits without a tag: a region that may not be written, and the entry seal
   of id 1 on another. *)
MCUntagged ==
    {MemCapOf(0, 1, {"load"}),
     [MemCapOf(0, 1, FullPerms) EXCEPT !.otype = identSeal(1)],
     MemCapOf(1, 2, FullPerms)}
=============================================================================
