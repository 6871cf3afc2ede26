--------------------------- MODULE MCRateLimiter ---------------------------
(* RateLimiter for two keys.                                                *)
EXTENDS RateLimiter

CONSTANTS ka, kb

MCKey == {ka, kb}
============================================================================
