CONSTANTS
    Replicas = {p1, p2}
    Checks = {c1}
    Polls = {n1}
    Flushes = {k1}
    Routes = {own}
    Owner = own
    TTL = 3
    Lifetime = 2
    MaxOps = 1
    MaxUses = 2
    Calm = TRUE
    Null = Null
SPECIFICATION Spec
SYMMETRY Symmetry
INVARIANTS WithdrawnWithinPoll
CHECK_DEADLOCK FALSE
