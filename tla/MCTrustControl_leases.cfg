CONSTANTS
    Users = {u1, u2}
    Creator = u1
    Agents = {a1}
    Unbound = Unbound
    Leases = {l1, l2}
    NoLease = NoLease
    Actions = {}
    Grants = {g1, g2}
    Threads = {t1, t2}
    Resources = {runtime}
    BudgetPerResource = 1
    MaxAmount = 1
    Budget <- MCBudget
    Modes = {"BOUNDED"}
    Kinds = {"in_scope"}
    Estimates <- MCEstimates
    Consumptions <- MCConsumptions
    ReviewerCounts = {1, 2}
    Expiries = {1, 2}
    MaxTime = 2
SPECIFICATION Spec
SYMMETRY Symmetry
INVARIANTS OneLiveLease StrayGrantHasRace
PROPERTIES CredentialNeverRevives DenialIsFinal
