----------------------------- MODULE MCSessions -----------------------------
EXTENDS Sessions, TLC

CONSTANTS a, b, c   \* a and b share an endpoint, a and c a session id

Endpoints == (a :> "e1") @@ (b :> "e1") @@ (c :> "e2")
SessionIds == (a :> "s1") @@ (b :> "s2") @@ (c :> "s1")
Sizes == (a :> 2) @@ (b :> 2) @@ (c :> 1)
=============================================================================
