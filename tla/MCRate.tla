-------------------------------- MODULE MCRate --------------------------------
(* Two callers of one limiter, a tick a second: two tokens deep, two and a *)
(* half seconds to earn one. RPS is then 0.4, as an expensive route has    *)
(* when TOOLBOX_RATE_LIMIT_RPS is 8.                                       *)
EXTENDS RateLimiter, TLC

MCSymmetry == Permutations(Keys)
===============================================================================
