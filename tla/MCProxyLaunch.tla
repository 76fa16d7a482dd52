---------------------------- MODULE MCProxyLaunch ---------------------------
(* ProxyLaunch on one profile, two proxies and two endpoints.                *)
EXTENDS ProxyLaunch, TLC

CONSTANTS p1, x1, x2, e1, e2

Sym == Permutations({x1, x2}) \cup Permutations({e1, e2})
=============================================================================
