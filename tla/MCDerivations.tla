--------------------------- MODULE MCDerivations ---------------------------
(* A finite instance of Derivations for TLC: three versions that share a   *)
(* block, two artifacts for one slot, and a chain of three above the first *)
(* with ids in the order of the chain but for the last one: up to there a  *)
(* revival is committed, with the last it is refused.  The last one is     *)
(* made from the shared block as well.                                     *)
EXTENDS Derivations

MCVersions == {"A", "B", "C"}
MCBindings == {"onlyA", "onlyB", "shared"}
MCBinds == [v \in MCVersions |-> CASE v = "A" -> {"onlyA", "shared"}
                                   [] v = "B" -> {"onlyB", "shared"}
                                   [] v = "C" -> {"shared"}]
MCArtifacts == 1..5
MCSlots == {"summary", "index", "answer", "report"}
MCSlot == <<"summary", "summary", "index", "report", "answer">>
MCNeeds == <<{"onlyA"}, {"shared"}, {}, {"shared"}, {}>>
MCUses == <<{}, {}, {1}, {5}, {3}>>
=============================================================================
