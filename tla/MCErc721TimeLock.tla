-------------------------- MODULE MCErc721TimeLock --------------------------
(* Values of the constants of Erc721TimeLock for TLC. *)
EXTENDS Erc721TimeLock, TLC

CONSTANTS t1, t2, t3

\* One ERC721 contract.
MCOneContract == (t1 :> 1) @@ (t2 :> 2) @@ (t3 :> 3)

\* Two ERC721 contracts: t1 and t2 have the same id.
MCSharedId == (t1 :> 1) @@ (t2 :> 1) @@ (t3 :> 2)

MCSymmetry == Permutations(User) \cup Permutations(Hash) \cup Permutations({t1, t2})
=============================================================================
