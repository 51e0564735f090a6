SPECIFICATION FetchSpec
CONSTANTS
    v = v
    w = w
    main = main
    Tags = {v, w}
    Main = main
    Advertised <- MCAdvertised
    Objects = {o, p}
    NoObject = NoObject
    Worlds <- ClobberWorlds
    MaxChanges = 0
INVARIANT TagsSettled
CHECK_DEADLOCK FALSE
