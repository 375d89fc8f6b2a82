----------------------------- MODULE MCPrograms -----------------------------
(***************************************************************************)
(* Programs with channels whose names have no slash and two slashes.       *)
(***************************************************************************)
EXTENDS Programs

SomeChannels == {<<"a">>, <<"a", "/", "b", "/">>}
=============================================================================
