---------------------------- MODULE MCInterceptors ----------------------------
EXTENDS Interceptors, TLC

CONSTANTS t1, t2

\* The tiers of DefaultRateLimitConfig with small bursts; t1 is in none, t2 is internal.
MCTiers == [default |-> 1, internal |-> Unlimited]
MCTierByTenant == [t \in Tenants \cap {t2} |-> "internal"]

\* Calls differ only in name.
Symmetry == Permutations(Calls)
=============================================================================
