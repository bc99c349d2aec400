CONSTANTS
    Tenants = {"t1", "t2"}
    TenantSlug <- MCTenantSlug
    ConnIds = {"c1", "c2"}
    OpIds = {"o1", "o2", "o3"}
    Admins = {"a1"}
    CreateBodies <- MCCreateBodies
    UpdateBodies <- MCUpdateBodies
    OpFlags = {TRUE}
    Omitted = Omitted
    NoRow = NoRow
SPECIFICATION Spec
INVARIANTS
    OperationsWrittenByOwner
