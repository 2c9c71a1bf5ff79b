------------------------ MODULE MCMerkleMemberships ------------------------
(* Values of the constants of MerkleMemberships for TLC. *)
EXTENDS MerkleMemberships, TLC

CONSTANTS t1, t2, zero, mine, other, c1

\* The file gets shorter when the member is struck off.
MCWidth == (zero :> 8) @@ (mine :> 9) @@ (other :> 8)

MCInitialLeaves == 1 :> mine
MCOrder == <<t1, t2>>

\* Without contract keys, and with one.
MCKeys == {{}, {t2}}

MCKnows == c1 :> {mine}

At(i) == [leafIndex |-> i, leaf |-> mine]
MCLists == {<<At(1)>>, <<At(1), At(1)>>, <<At(2), At(1)>>}

\* A member is struck off and comes back; the second tree gets one more leaf.
MCEdits == {[tree |-> t1, index |-> 1, leaf |-> other],
            [tree |-> t1, index |-> 1, leaf |-> mine],
            [tree |-> t2, index |-> 2, leaf |-> mine]}
=============================================================================
