----------------------------- MODULE MCAsyncTask -----------------------------
(***************************************************************************)
(* Instances of AsyncTask for TLC: one pool, or two pools that share the   *)
(* queue (t1 and w1 belong to p1, everything else to p2).                  *)
(***************************************************************************)
EXTENDS AsyncTask, TLC

CONSTANTS t1, t2, w1, w2, w3, p1, p2

OneHome  == [th \in Thread |-> p1]
OnePool  == [t \in Task |-> p1]
TwoHomes == [th \in Thread |-> IF th = w1 THEN p1 ELSE p2]
TwoPools == [t \in Task |-> IF t = t1 THEN p1 ELSE p2]
TwoPrios == [t \in Task |-> IF t = t1 THEN 1 ELSE 0]
Each0    == [p \in Pool |-> 0]
Each1    == [p \in Pool |-> 1]
Each2    == [p \in Pool |-> 2]

ThreadSymmetry == Permutations(Thread)
=============================================================================
