--------------------------- MODULE MCFocasService ---------------------------
(* An instance of FocasService for TLC.                                     *)
EXTENDS FocasService

\* A source whose dead handles raise FocasHandleError or any other error.
\* With the error table as it is only the second happens.
AnyErrors == {"handle", "focas"}
=============================================================================
