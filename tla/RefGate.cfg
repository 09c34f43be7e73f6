SPECIFICATION MCSpec
CONSTANTS
    r7 = r7
    r72 = r72
    my7 = my7
    Upstreams = {r7, r72, my7}
    Stages = {1, 2}
    MaxRelease = 2
    MaxMoved = 1
    MaxMirrors = 1
    Begins <- MCBegins
    Ends <- MCEnds
    Edits <- MCEdits
    MirrorName <- MCMirrorName
    Repo <- MCRepo
INVARIANTS LiveNeverDead PinIsOwnOrOfItsEnd ProposalFits
CHECK_DEADLOCK FALSE
