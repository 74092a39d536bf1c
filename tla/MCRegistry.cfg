SPECIFICATION Spec
CONSTANTS
    None = None
    ui = ui
    closer = closer
    Ids = {a, b, c}
    MaxWarm = 2
    Clients = {ui, closer}
    May <- MayUi
    Faults = {"worker", "start", "output", "preflight", "late"}
    Requests = 5
SYMMETRY Same
INVARIANTS BrokerKnowsSessions WorkPinned LeaseShown Capacity NothingLeft
