------------------------------- MODULE MCMarket ------------------------------
(* TLC instances of Market: two listings, and orders that name them in either *)
(* order.                                                                     *)
EXTENDS Market, TLC

MCItemLists == {<<1>>, <<1, 2>>, <<2, 1>>}
ClientKeySymmetry == Permutations(Clients) \union Permutations(Keys)
==============================================================================
