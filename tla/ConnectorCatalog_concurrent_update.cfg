CONSTANTS
    Tenants = {"t1"}
    TenantSlug <- MCTenantSlug
    ConnIds = {"c1", "c2"}
    OpIds = {"o1", "o2", "o3", "o4"}
    Admins = {"a1", "a2"}
    CreateBodies <- MCCreateBodies
    UpdateBodies <- MCUpdateBodies
    OpFlags = {TRUE}
    Omitted = Omitted
    NoRow = NoRow
SPECIFICATION Spec
INVARIANTS
    OperationsMatchASentList
