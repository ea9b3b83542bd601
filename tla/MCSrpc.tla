------------------------------- MODULE MCSrpc -------------------------------
(***************************************************************************)
(* Instances of Srpc for TLC.                                              *)
(***************************************************************************)
EXTENDS Srpc

CONSTANT c1

\* Of three packets the second may be of a wrong version and the third may be
\* malformed, in its tail or in its head.
Strange == [n \in 1..MaxIn |-> IF n = 2 THEN {"good", "version"}
                               ELSE IF n = 3 THEN {"good", "bad", "size"} ELSE {"good"}]
Good    == [n \in 1..MaxIn |-> {"good"}]
=============================================================================
