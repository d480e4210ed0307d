---------------------------- MODULE MCRateLimit ----------------------------
(* A client behind a proxy and one that shows no address, a tight limit on   *)
(* one category and a looser one on the other, half seconds as ticks.        *)
EXTENDS RateLimit

CONSTANTS a, none, local, auth, other

MCArrivals ==
    {[forwarded |-> a, realIp |-> none, peer |-> none, category |-> auth],
     [forwarded |-> none, realIp |-> none, peer |-> none, category |-> other]}
MCCategories == {auth, other}
MCMaxRequests == [c \in MCCategories |-> IF c = auth THEN 1 ELSE 2]
MCWindow == [c \in MCCategories |-> IF c = auth THEN 4 ELSE 3]

=============================================================================
