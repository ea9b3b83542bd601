---------------------------- MODULE MCClientSync ----------------------------
(***************************************************************************)
(* Instances of ClientSync for TLC.                                        *)
(***************************************************************************)
EXTENDS ClientSync

CONSTANTS l1, c1, c2, v1, v2, e1, s1, n1

OneLocation  == <<l1>>
NoLocation   == <<>>
\* Two channels: their data, their values (one by one for an old client), and
\* the extended value of one that no device has reported.
Channels     == << <<c1, c2>>, <<v1, v2>>, <<e1>> >>
Carries      == [v \in {v1, v2} |-> IF v = v1 THEN c1 ELSE c2]
Values       == << <<v1, v2>> >>
\* A scene that is renamed, and its state.
SceneAndState == << <<n1>>, <<s1>> >>
Nothing      == [v \in {} |-> v]
NoScenes     == << <<>>, <<>> >>
=============================================================================
