----------------------------- MODULE MCManagement -----------------------------
(* An instance of Management for TLC. *)
EXTENDS Management

CONSTANTS v1, v2, plain, tls, broken

\* The plain config suits every release, the one with certificate files only the
\* second; the broken one does not parse.
MCSupported == {<<v1, plain>>, <<v2, plain>>, <<v2, tls>>}
===============================================================================
