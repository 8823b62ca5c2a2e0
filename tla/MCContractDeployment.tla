------------------------ MODULE MCContractDeployment ------------------------
(* ContractDeployment for TLC: two commands and a script.                    *)
EXTENDS ContractDeployment
=============================================================================
