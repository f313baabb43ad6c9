--------------------------- MODULE MCShopAndQuotes ---------------------------
(***************************************************************************)
(* The life of a shop and its quotes, whose safety takes larger bounds     *)
(* than the other parts.  `part` says which of the two moves in a          *)
(* behaviour, as in MCLive; they share nothing but the shop.  Two requests *)
(* on quotes are alike.                                                    *)
(***************************************************************************)
EXTENDS ShopLifecycle, Quotes, TLC

CONSTANTS q1, q2, PurgeRows

MCPurgeRow == 1 .. PurgeRows
MCRequest  == {q1, q2}

Symmetry == Permutations(MCRequest)

VARIABLE part

ShopInit == LifeInit /\ Init /\ part \in {"shop", "quotes"}

ShopNext ==
    \/ part = "shop" /\ LifeNext /\ UNCHANGED <<part, vars>>
    \/ part = "quotes" /\ Next /\ UNCHANGED <<part, lifeVars>>

ShopSpec == ShopInit /\ [][ShopNext]_<<part, lifeVars, vars>>
=============================================================================
