------------------------------ MODULE MCRawFiles ------------------------------
(***************************************************************************)
(* RawFiles with readings of three values, one negative.                    *)
(***************************************************************************)
EXTENDS RawFiles

MCValues == {-1, 0, 2}
=============================================================================
