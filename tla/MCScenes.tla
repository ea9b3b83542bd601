------------------------------ MODULE MCScenes ------------------------------
(***************************************************************************)
(* Instances of Scenes for TLC.                                            *)
(***************************************************************************)
EXTENDS Scenes

CONSTANTS a, b, g

Now(what, x)  == [do |-> what, on |-> x, late |-> FALSE]
Soon(what, x) == [do |-> what, on |-> x, late |-> TRUE]

\* The operations of a, and of b.
Scenes2(first, second) == [s \in Scene |-> IF s = a THEN first ELSE second]

\* Two scenes that restart each other; a scene that restarts itself and one
\* that interrupts and executes it; two scenes that fight over the gate.
Rings ==
  {Scenes2(<<Now("restart", b)>>, <<Now("execute", b), Soon("restart", a)>>),
   Scenes2(<<Now("restart", a)>>, <<Now("interrupt", a), Soon("execute", a)>>),
   Scenes2(<<Now("open", g), Now("toggle", g)>>, <<Now("close", g)>>)}

Asked == {Now("execute", a), Now("interrupt", a), Now("close", g)}
=============================================================================
