SPECIFICATION MCSpec
CONSTANTS
    Images = {1, 2, 3}
    curl = curl
    pinned = pinned
    Words = {curl, pinned}
    Normalized <- Normals
    Bare = {3}
    RootStart = {2}
    Static = {1}
    OtherSbom = {2}
    MaxEdits = 2
    Dockerfiles <- MCDockerfiles
INVARIANTS   PassedStaysPassed
PROPERTIES RunsFinishTheirWork
CONSTRAINT OneKind
CHECK_DEADLOCK FALSE
