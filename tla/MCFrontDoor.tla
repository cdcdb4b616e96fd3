----------------------------- MODULE MCFrontDoor -----------------------------
(* One client, two connections, one thread; k1 may be in ROUTISM_API_KEY,  *)
(* k2 is minted at a start or by a request.                                *)
EXTENDS FrontDoor
CONSTANTS r1, r2, k1, k2

Ask(kind, k, wants) == [kind |-> kind, key |-> k, wants |-> wants]
Asked == {Ask("create", k1, FALSE), Ask("revoke", k2, FALSE), Ask("plain", k1, FALSE),
          Ask("stream", k1, TRUE), Ask("stream", k1, FALSE)}
=============================================================================
