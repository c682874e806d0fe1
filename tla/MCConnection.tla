---------------------------- MODULE MCConnection ----------------------------
(***************************************************************************)
(* A small instance of Connection: a controller with the versions 1.3 and  *)
(* 1.5 (4 and 6 on the wire) and switches whose hello lists a version that *)
(* both use, a version that the controller lacks, or a number only.        *)
(***************************************************************************)
EXTENDS Connection

Versions    == {4, 6}
SomeHellos  == {[version |-> 7, elements |-> {4, 7}], [version |-> 5, elements |-> {4, 5}],
                [version |-> 5, elements |-> {}]}
=============================================================================
