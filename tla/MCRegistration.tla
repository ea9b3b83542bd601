---------------------------- MODULE MCRegistration ----------------------------
(* Instances of Registration for TLC. *)
EXTENDS Registration

CONSTANTS old, off, new, other, third, here, there

\* A stored device to which channels must not be added, one that is disabled,
\* and devices that are new.
MCStored ==
  [g \in Guid |-> IF g \notin {old, off} THEN None
                  ELSE [location |-> here, original |-> there, enabled |-> g = old,
                        blocked |-> TRUE, locked |-> FALSE]]

MCStoredWith == [g \in Guid |-> IF g = old THEN {<<0, 1>>, <<1, 1>>} ELSE {}]

Asks(g, l, cs, locked) ==
  [guid |-> g, location |-> l, channels |-> cs, locked |-> locked]

\* The stored device asks for what it has, for another channel and from a
\* location that is not its own; a new one is announced twice, locked and with
\* a channel that is none; others only count.
MCRequests ==
  { Asks(old, None, <<<<0, 1>>, <<1, 1>>>>, FALSE),
    Asks(old, there, <<<<0, 1>>, <<2, 1>>>>, FALSE),
    Asks(off, None, <<>>, FALSE),
    Asks(new, None, <<<<0, 1>>, <<1, 2>>>>, TRUE),
    Asks(new, here, <<<<0, 1>>, <<2, 0>>>>, FALSE),
    Asks(new, None, <<<<0, 1>>, <<1, 2>>>>, FALSE),
    Asks(other, here, <<>>, FALSE),
    Asks(third, here, <<>>, FALSE) }
=============================================================================
