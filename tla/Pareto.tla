------------------------------- MODULE Pareto -------------------------------
(***************************************************************************)
(* internal/routesearch/scoring.go: the set of itineraries a search keeps, *)
(* none of which is both dearer and longer than another.  The code keeps a *)
(* slice; its order means nothing to any caller but the printing ones.     *)
(***************************************************************************)
EXTENDS Integers

\* Ties count: of two equal results the one that was there first is kept.
Dominates(x, y) == x.price <= y.price /\ x.minutes <= y.minutes

paretoInsertMutantKeepsBeaten(results, r) ==
  IF \E x \in results : Dominates(x, r) THEN results ELSE results \cup {r}
paretoInsertMutantCheaperOnly(results, r) ==
  IF \E x \in results : x.price <= r.price
  THEN results
  ELSE {x \in results : ~Dominates(r, x)} \cup {r}
paretoInsert(results, r) ==
  IF \E x \in results : Dominates(x, r)
  THEN results
  ELSE {x \in results : ~Dominates(r, x)} \cup {r}

IsFront(results) == \A x, y \in results : Dominates(x, y) => x = y
=============================================================================
