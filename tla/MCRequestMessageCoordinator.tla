--------------------- MODULE MCRequestMessageCoordinator ---------------------
(* Instances of RequestMessageCoordinator for TLC. *)
EXTENDS RequestMessageCoordinator

\* Enough for two requests to wait behind a third and for another component to be
\* served meanwhile.
SomeAsks == {<<1, "version">>, <<1, "modes">>, <<1, "attitude">>, <<2, "version">>}
=============================================================================
