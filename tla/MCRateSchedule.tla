--------------------------- MODULE MCRateSchedule ---------------------------
(* Every pair of rates up to MaxRate: equal, one-shot (not positive),      *)
(* multiples and fractions of one another, with and without a divisor.     *)
EXTENDS RateSchedule

CONSTANT MaxRate

MCRatePairs == [domain : 0 .. MaxRate, chain : 1 .. MaxRate]
=============================================================================
