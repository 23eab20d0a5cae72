----------------------------- MODULE MCSdkState -----------------------------
(* Instantiation of SdkState for TLC: one signer who is also the deployer, *)
(* one key with one value, two codes, two contracts, two labels.          *)
EXTENDS SdkState, TLC

CONSTANTS s1, l1, l2

MCSenders == {s1}

MCLabels == {l1, l2}

=============================================================================
