-------------------------- MODULE MCContractRegistry --------------------------
(* ContractRegistry with the names of two exchanges, an asset and two quotes. *)
EXTENDS ContractRegistry

CONSTANTS e1, e2, a1, q1, q2
==============================================================================
