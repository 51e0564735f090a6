SPECIFICATION FetchSpec
CONSTANTS
    v = v
    w = w
    main = main
    Tags = {v, w}
    Main = main
    Advertised <- MCAdvertised
    Objects = {o, p}
    NoObject = NoObject
    Worlds <- FetchWorlds
    MaxChanges = 1
INVARIANTS TagsSettled HeadNamesTaken
PROPERTY OthersKept
CHECK_DEADLOCK FALSE
