--------------------------- MODULE MCClientSession ---------------------------
(***************************************************************************)
(* Two users at one tab, with two calls of its pages and that of /auth/me: *)
(* a refresh that calls share, and one that outlives the user it was for.  *)
(***************************************************************************)
EXTENDS ClientSession
=============================================================================
