SPECIFICATION Spec
CONSTANTS
    None = None
    Damaged = Damaged
    v1 = v1
    v2 = v2
    x = x
    y = y
    deck = deck
    player = player
    Versions = {v1, v2}
    Builds = {x, y}
    Procs = {deck, player}
    Reserved = {FALSE}
    Commands = 6
    Mishaps = 1
SYMMETRY Same
INVARIANT BlockedByAnother
