SPECIFICATION Spec
CONSTANTS
    Clients = {c1, c2}
    NoClient = NoClient
    Urls = {u1, u2}
    NoUrl = NoUrl
    Contents = {x1, x2}
    NoContent = NoContent
    Vms = {v1, v2}
    NoVm = NoVm
    NoConfig = NoConfig
    Ops = {"get", "refresh"}
    Faults = {"corrupt"}
SYMMETRY Symmetry
PROPERTIES
    RefreshReplaces
CHECK_DEADLOCK FALSE
