CONSTANTS
    Replicas = {p1}
    Checks = {c1}
    Polls = {n1}
    Flushes = {k1, k2}
    Routes = {own, shared}
    Owner = own
    TTL = 2
    Lifetime = 1
    MaxOps = 1
    MaxUses = 2
    Calm = FALSE
    Null = Null
SPECIFICATION Spec
SYMMETRY Symmetry
INVARIANTS TypeOK WithdrawnWithinTTL NeverCachedPastExpiry UsageNotOvercounted
