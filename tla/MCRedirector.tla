---------------------------- MODULE MCRedirector ----------------------------
(***************************************************************************)
(* The instance of Redirector that TLC checks: a file that may be written, *)
(* one that may only be read, and a name that is free.                     *)
(***************************************************************************)
EXTENDS Redirector

MCHost == [n \in Names |-> CASE n = "a" -> File(<<1>>, FALSE)
                             [] n = "r" -> File(<<1, 2>>, TRUE)
                             [] OTHER -> Nothing]
MCData == {<<2>>}
MCPatterns == {Names}
=============================================================================
