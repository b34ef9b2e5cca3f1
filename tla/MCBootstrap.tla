---------------------------- MODULE MCBootstrap ----------------------------
(* The instance of Bootstrap: three nodes whose tags have one letter each, *)
(* as in the examples of the repository.                                   *)
EXTENDS Bootstrap

OneLetter == <<<<"a">>, <<"b">>, <<"c">>>>

=============================================================================
