CONSTANTS
    Users = {u1}
    Creator = u1
    Agents = {}
    Unbound = Unbound
    Leases = {l1, l2}
    NoLease = NoLease
    Actions = {x1, x2}
    Grants = {}
    Threads = {t1, t2}
    Resources = {runtime}
    BudgetPerResource = 2
    MaxAmount = 2
    Budget <- MCBudget
    Modes = {"STRICT", "BOUNDED"}
    Kinds = {"in_scope"}
    Estimates <- MCEstimates
    Consumptions <- MCConsumptions
    ReviewerCounts = {1}
    Expiries = {1}
    MaxTime = 0
SPECIFICATION Spec
SYMMETRY Symmetry
INVARIANTS ChargesSum
