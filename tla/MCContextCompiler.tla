------------------------- MODULE MCContextCompiler -------------------------
(* A finite instance of ContextCompiler for TLC.                           *)
(*                                                                         *)
(* Document 1 has two versions that are text: the first with two blocks    *)
(* that match (2, 4) and one that the index alone takes for a match (7),   *)
(* the second with one that matches (3).  Document 2 is rich at first: two *)
(* projections that say the same (1, 5), one that is irrelevant (6), two   *)
(* images of the first (8, 9), one more than the quota (10); then it is a  *)
(* text without a match.                                                   *)
EXTENDS ContextCompiler

TheScopes == {"a1", "a2", "b1", "b2"}
TheDocumentOf == [s \in TheScopes |-> IF s \in {"a1", "a2"} THEN 1 ELSE 2]
TheHome == [e \in 1..10 |-> CASE e \in {2, 4, 7} -> "a1" [] e = 3 -> "a2" [] OTHER -> "b1"]
TheBody == [e \in 1..10 |-> IF e = 5 THEN 1 ELSE e]
TheShows == [h \in {8, 9} |-> 1]
TheCost == [e \in 1..10 |-> CASE e \in {1, 3} -> 4 [] e = 4 -> 5 [] OTHER -> 3]
Wide == [discovered |-> 7, candidates |-> 4, decisions |-> 7]
Narrow == [discovered |-> 2, candidates |-> 1, decisions |-> 2]
BothLimits == {Wide, Narrow}

=============================================================================
