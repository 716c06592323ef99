------------------------------- MODULE MCHttp -------------------------------
(***************************************************************************)
(* A small instance of HttpService: of two clients whose requests fit in   *)
(* one batch the first asks for a stream.                                  *)
(***************************************************************************)
EXTENDS HttpService, TLC

CONSTANTS c1, c2

MCOne(what) == c1 :> what @@ c2 :> what
MCKey       == MCOne("a")
MCCost      == MCOne(1)
=============================================================================
