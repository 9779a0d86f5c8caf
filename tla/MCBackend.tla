----------------------------- MODULE MCBackend -----------------------------
(***************************************************************************)
(* Instances of Backend for TLC.                                           *)
(***************************************************************************)
EXTENDS Backend

CONSTANTS ana, beto         \* two people

People == {ana, beto}
OnePerson == {ana}

=============================================================================
