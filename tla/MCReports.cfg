SPECIFICATION Spec
CONSTANTS
    Clients = {c1, c2}
    Workers = {w1, w2}
    NoOne = NoOne
    json = json
    html = html
    briefing = briefing
    Files <- FileOrder
    Shows <- ShowsBy
    MaxVersion = 3
    MaxSettled = 2
SYMMETRY Symmetry
INVARIANT ReportsConsistent
PROPERTY PublicationSafe
