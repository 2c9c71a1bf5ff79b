---------------------------- MODULE MCErc721Page ----------------------------
(* Values of the constants of Erc721Page for TLC. *)
EXTENDS Erc721Page, TLC

CONSTANTS t1, t2

\* One ERC721 contract.
MCOneContract == (t1 :> 1) @@ (t2 :> 2)
=============================================================================
