------------------------- MODULE RateScheduleSpec -------------------------
(***************************************************************************)
(* RateScheduleSpec::build: the schedule of a segment from the rates of    *)
(* its domain and of its chain.  Rates are integers, as they are once      *)
(* build has scaled decimal rates.                                         *)
(***************************************************************************)
EXTENDS Integers

CommonDivisors(a, b) == {g \in 1 .. a : a % g = 0 /\ b % g = 0}

Gcd(a, b) == CHOOSE g \in CommonDivisors(a, b) : \A h \in CommonDivisors(a, b) : h <= g

SameRate(domain, chain) == domain = chain
RunsEveryTick(domain, chain) == domain <= 0 \/ chain <= 0 \/ domain = chain

\* Of stepD body runs owed by a tick and stepC ticks owed by a run.
Build(domain, chain) ==
  IF RunsEveryTick(domain, chain)
  THEN [kind |-> "direct", stepD |-> 1, stepC |-> 1]
  ELSE IF domain % chain = 0
  THEN [kind |-> "counter", stepD |-> domain \div chain, stepC |-> 1]
  ELSE IF chain % domain = 0
  THEN [kind |-> "loop", stepD |-> 1, stepC |-> chain \div domain]
  ELSE [kind  |-> IF chain < domain THEN "decimate" ELSE "interpolate",
        stepD |-> domain \div Gcd(domain, chain),
        stepC |-> chain \div Gcd(domain, chain)]
=============================================================================
