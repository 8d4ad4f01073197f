-------------------------- MODULE MCProteusEnclave --------------------------
(***************************************************************************)
(* Instances of ProteusEnclave for TLC.                                    *)
(***************************************************************************)
EXTENDS ProteusEnclave

CONSTANTS s1, s2

MCDigest == [sec : Section, words : 0 .. Space]

(* Two sections side by side, of one word and of two; the data after them. *)
MCBase == [s \in Section |-> IF s = s1 THEN 4 ELSE 8]

MCLength == [s \in Section |-> IF s = s1 THEN 4 ELSE 8]

MCData == [base |-> 16, top |-> 20]

ViewOf(place, tag, base, top, tagged) ==
    [place |-> place, tag |-> tag, base |-> base, top |-> top, tagged |-> tagged]

(* Nothing of interest anywhere. *)
NoView == {ViewOf(<<"ddc", 0>>, FALSE, 0, 0, {})}

Registers == {<<"ddc", 0>>, <<"pcc", 0>>}
    \cup {<<"reg", r>> : r \in 1 .. NumRegs - 1}
    \cup {<<"scr", k>> : k \in 0 .. NumScrs - 1}

(* Bounds of the other capability: disjoint from the sections, or sharing one
   byte with the end or the start of the code or of the data. *)
Bounds == {<<0, 4>>, <<0, 5>>, <<7, 8>>, <<15, 16>>, <<19, 24>>, <<20, 24>>}

InRegister ==
    {ViewOf(p, t, b[1], b[2], {}) : p \in Registers, t \in BOOLEAN, b \in Bounds}

InMemory(TaggedSets) ==
    UNION {{ViewOf(<<"mem", k>>, TRUE, b[1], b[2], T) : k \in T, b \in Bounds}
             : T \in TaggedSets}

(* Granules next to each other are not both tagged. *)
Sparse == {T \in SUBSET Tag : \A k \in T : k + 1 \notin T}

SparseViews == InRegister \cup InMemory(Sparse)

DenseViews == InMemory(SUBSET Tag)

(* The operands of EInitData in the low registers, or one in the last. *)
TwoOperands == {<<1, 2>>, <<NumRegs - 1, 1>>}

AnyOperands == (1 .. NumRegs - 1) \X (1 .. NumRegs - 1)

BufferOf(isSealed, mayStore, length, offset) ==
    [isSealed |-> isSealed, store |-> mayStore, length |-> length, offset |-> offset]

(* Room for the hash, exactly and too little; sealed; read only. *)
MCBuffers == {BufferOf(FALSE, TRUE, 12, 4), BufferOf(FALSE, TRUE, 12, 5),
              BufferOf(TRUE, TRUE, 12, 4), BufferOf(FALSE, FALSE, 12, 4)}

(* The address of cs2 is past its top. *)
PastTop == {BufferOf(FALSE, TRUE, 4, 8)}
=============================================================================
