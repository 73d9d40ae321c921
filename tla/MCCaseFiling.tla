------------------------------ MODULE MCCaseFiling -----------------------------
(* Instances of CaseFiling for TLC: an alert of each of two players.       *)
EXTENDS CaseFiling, TLC
CONSTANTS gil, rui, a1, a2, y1, y2
OneEach == (a1 :> y1) @@ (a2 :> y2)

(* Managers may be exchanged, and so may the alerts with their players.    *)
Exchange(x, y) == (x :> y) @@ (y :> x)
Same(S) == [x \in S |-> x]
Alike ==
  {m @@ p : m \in {Same({gil, rui}), Exchange(gil, rui)},
            p \in {Same({a1, a2, y1, y2}), Exchange(a1, a2) @@ Exchange(y1, y2)}}
=============================================================================
