SPECIFICATION Spec
CONSTANTS
    Clients = {a}
    Branches = {main}
    Tags = {v1}
    Tracked = {main}
    c0 = c0
    c1 = c1
    c2 = c2
    Commits <- MCCommits
    Before <- MCBefore
    FirstCommit = c0
    Reporting = TRUE
    Requests <- AskAll
    MaxMoves = 2
INVARIANTS TrueVerdict
PROPERTIES NoLostWork UpstreamWentThrough
SYMMETRY Symmetry
CONSTRAINT OneAstray
