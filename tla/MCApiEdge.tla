------------------------------- MODULE MCApiEdge -------------------------------
(* Instances of ApiEdge for TLC: a route with a low limit and a long window  *)
(* ("auth") and one with a higher limit and a shorter window ("commands").   *)
EXTENDS ApiEdge, TLC

TwoRoutes == {"auth", "commands"}
Limits == [r \in TwoRoutes |-> IF r = "auth" THEN 2 ELSE 3]
TwoWindows == [r \in TwoRoutes |-> IF r = "auth" THEN 3 ELSE 2]

\* Handlers are interchangeable.
Symmetry == Permutations(Handlers)
=============================================================================
