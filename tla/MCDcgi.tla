------------------------------- MODULE MCDcgi -------------------------------
(***************************************************************************)
(* Dcgi with one library both preloaded by one route and loaded on demand  *)
(* by another, and one only loaded on demand.                              *)
(***************************************************************************)
EXTENDS Dcgi, TLC

CONSTANTS l1, l2

OnDemand(lib) == [lib |-> lib, preloaded |-> FALSE]
MCRoutes == { [lib |-> l1, preloaded |-> TRUE], OnDemand(l1), OnDemand(l2) }
\* Outside of the table of names on both sides; Dcgi tells other codes but 500
\* apart by nothing.
MCCodes == {-1, 503}
\* At the edge of the table, inside of it, and a server error.
MCPageCodes == {0, 201, 503}
MCWorkerSymmetry == Permutations(Workers)
=============================================================================
