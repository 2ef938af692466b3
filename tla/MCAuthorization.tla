-------------------------- MODULE MCAuthorization --------------------------
(* An instance of Authorization for TLC.                                    *)
EXTENDS Authorization

CONSTANTS x1

=============================================================================
