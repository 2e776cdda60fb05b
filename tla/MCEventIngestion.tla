-------------------------- MODULE MCEventIngestion --------------------------
(***************************************************************************)
(* Finite instances of EventIngestion: payloads a1 and a2 carry the same   *)
(* event_id, bad fails the schema, huge is JSON json.loads refuses to      *)
(* decode, and wide is a valid event with an amount Numeric(12, 2) refuses.*)
(***************************************************************************)
EXTENDS EventIngestion, TLC

CONSTANTS p1, p2, a1, a2, b1, bad, huge, wide, evA, evB, evW

MCEventIdOf ==
  [pl \in Valid |-> CASE pl \in {a1, a2} -> evA [] pl = b1 -> evB [] OTHER -> evW]

ProcSymmetry == Permutations(Procs)
=============================================================================
