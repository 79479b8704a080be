------------------------------ MODULE MCServer ------------------------------
(***************************************************************************)
(* Requests of every kind, among them one of the CRUD or mock routes and   *)
(* one of a table endpoint that panic.                                     *)
(***************************************************************************)
EXTENDS Server, TLC

CONSTANTS preflight, faultyMock, first, second, faulty

MCRequests == {preflight, faultyMock, first, second, faulty}
MCKind ==
  (preflight :> "preflight") @@ (faultyMock :> "plain")
    @@ (first :> "table") @@ (second :> "table") @@ (faulty :> "table")
MCPanicking == {faultyMock, faulty}
=============================================================================
