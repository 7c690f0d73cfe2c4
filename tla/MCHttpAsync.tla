---- MODULE MCHttpAsync ----
(* Small instances of HttpAsync for TLC: requests are numbered, and need no *)
(* definition of their own.                                                 *)
EXTENDS HttpAsyncImplements
=============================================================================
