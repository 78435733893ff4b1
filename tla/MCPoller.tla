------------------------------ MODULE MCPoller -------------------------------
(* Instances of Poller for TLC.                                             *)
EXTENDS Poller

\* A source that recognises dead handles; one that, like the error table as it
\* is, maps no code to FocasHandleError.
HandleErrors == {"handle"}
GenericErrors == {"focas"}
=============================================================================
