---------------------------- MODULE MCConnections ----------------------------
(***************************************************************************)
(* Instances of Connections for TLC.                                       *)
(***************************************************************************)
EXTENDS Connections

CONSTANTS c1, c2, c3, g1, h1, h2, tcp, ssl

\* The peers in R register, those in S do not.
Peers(R, S) ==
  [c \in Conn |-> IF c \in R THEN "registers" ELSE IF c \in S THEN "silent" ELSE "none"]

\* Three connections that stay pending against a limit of one; one that
\* registers and one that does not against that limit; two that register, with
\* no limit.
MCSetting ==
  {[limit |-> 1, peer |-> Peers({}, {c1, c2, c3})],
   [limit |-> 1, peer |-> Peers({c1}, {})],
   [limit |-> 0, peer |-> Peers({c1, c2}, {})]}
=============================================================================
