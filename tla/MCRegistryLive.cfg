SPECIFICATION Spec
CONSTANTS
    None = None
    ui = ui
    closer = closer
    Ids = {a, b}
    MaxWarm = 2
    Clients = {ui, closer}
    May <- MayUi
    Faults = {"worker", "start", "output", "preflight", "late"}
    Requests = 4
INVARIANTS OneShown
PROPERTIES TransitionsEnd PinsEnd
