---------------------------- MODULE MCContractView ----------------------------
(* ContractView with the names of two exchanges and one contract. *)
EXTENDS ContractView

CONSTANTS e1, e2, a1, q1
==============================================================================
