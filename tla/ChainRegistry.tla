---------------------------- MODULE ChainRegistry ----------------------------
(***************************************************************************)
(* What the chain's registry promises across every handler, in any number *)
(* of messages per step: stored codes and registered contracts are never  *)
(* changed or removed, only added; every contract runs a stored code; an  *)
(* account's sequence never goes back.  Contract storage is free to       *)
(* change and is not part of this view.                                   *)
(***************************************************************************)
EXTENDS Naturals

VARIABLES
    codes,      \* code id -> code
    contracts,  \* address -> contract record with a code_id
    seqs        \* account -> sequence

vars == <<codes, contracts, seqs>>

\* g keeps every entry of f.
Extends(f, g) == DOMAIN f \subseteq DOMAIN g /\ \A x \in DOMAIN f : g[x] = f[x]

Init ==
    /\ codes = [i \in {} |-> i]
    /\ contracts = [a \in {} |-> a]
    /\ seqs = [s \in {} |-> 0]

Next ==
    /\ Extends(codes, codes')
    /\ Extends(contracts, contracts')
    /\ \A a \in DOMAIN contracts' : contracts'[a].code_id \in DOMAIN codes'
    /\ DOMAIN seqs \subseteq DOMAIN seqs'
    /\ \A s \in DOMAIN seqs : seqs'[s] >= seqs[s]

Spec == Init /\ [][Next]_vars

=============================================================================
