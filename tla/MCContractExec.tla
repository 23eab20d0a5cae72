---------------------------- MODULE MCContractExec ----------------------------
(* Instantiation of ContractExec for TLC: three labels, the bank's, a     *)
(* token contract's and a reserved one; two addresses; one key.           *)
EXTENDS ContractExec, TLC

CONSTANTS l_bank, l_token, l_cw1, a_bank, a_token

MCLabels == {l_bank, l_token, l_cw1}
MCReserved == {l_cw1}
MCAddrs == {a_bank, a_token}
\* derive_from_label is injective on the labels that pass the check; the
\* reserved label is rejected before its address is used.
MCDerive == (l_bank :> a_bank) @@ (l_token :> a_token) @@ (l_cw1 :> a_token)

=============================================================================
