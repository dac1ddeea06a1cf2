------------------------------ MODULE MCLocalIpc ------------------------------
(***************************************************************************)
(* A first start, without a credential file, meets one fault; later ones   *)
(* meet MaxFaults.  Liveness is checked, so there is no symmetry.          *)
(***************************************************************************)
EXTENDS LocalIpc

MCInit == Init /\ faults = IF keyFile = NoKey THEN MaxFaults - 1 ELSE 0
MCSpec == MCInit /\ [][Next]_vars /\ Fairness
=============================================================================
