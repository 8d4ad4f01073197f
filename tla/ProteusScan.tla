---------------------------- MODULE ProteusScan ----------------------------
(***************************************************************************)
(* The scan of the tag memory (MemoryTagger.scala, buildCapScan), as a     *)
(* function of its registers and of the two lines of its port: reset, and  *)
(* findNext, which asks for the next tagged granule.  One use of ScanCycle *)
(* is one clock cycle.                                                     *)
(***************************************************************************)
EXTENDS Integers

CONSTANT NumTags  \* granules of the tagged memory

ASSUME NumTagsAssumption == NumTags \in Nat \ {0}

Tag == 0 .. NumTags - 1

Scan == [fsm : {"IDLE", "CHECK_TAG", "DONE"}, tagIdx : Tag]

ScanInit == [fsm |-> "IDLE", tagIdx |-> 0]

(* The item of a cycle; address is the granule's index when it is valid. *)
NoItem == [ready |-> FALSE, valid |-> FALSE, address |-> 0]
LastItem == [ready |-> TRUE, valid |-> FALSE, address |-> 0]
ItemAt(k) == [ready |-> TRUE, valid |-> TRUE, address |-> k]

(* Mutant: after the last tag the scan starts again. *)
CheckTagWraps(c, line) ==
    [fsm |-> IF line = "findNext" THEN "CHECK_TAG" ELSE "IDLE",
     tagIdx |-> (c.tagIdx + 1) % NumTags]

(* CHECK_TAG looks at the tag at tagIdx and moves past it, asked or not. *)
CheckTag(c, line) ==
    IF c.tagIdx = NumTags - 1 THEN [c EXCEPT !.fsm = "DONE"]
    ELSE [fsm |-> IF line = "findNext" THEN "CHECK_TAG" ELSE "IDLE",
          tagIdx |-> c.tagIdx + 1]

ScanNext(c, line) ==
    CASE c.fsm = "IDLE" ->
           CASE line = "reset" -> [c EXCEPT !.tagIdx = 0]
             [] line = "findNext" -> [c EXCEPT !.fsm = "CHECK_TAG"]
             [] OTHER -> c
      [] c.fsm = "CHECK_TAG" -> CheckTag(c, line)
      [] c.fsm = "DONE" ->
           [fsm |-> IF line = "reset" THEN "IDLE" ELSE "DONE", tagIdx |-> 0]

ScanItem(c, line, tagged) ==
    CASE c.fsm = "CHECK_TAG" /\ c.tagIdx \in tagged -> ItemAt(c.tagIdx)
      [] c.fsm = "DONE" /\ line = "findNext" -> LastItem
      [] OTHER -> NoItem
=============================================================================
