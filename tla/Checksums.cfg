SPECIFICATION MCSpec
CONSTANTS
    Downloads = {1, 2}
    MaxRelease = 2
    Sites = {"github", "maven", "apache"}
VIEW MCView
CONSTRAINT FewLines
INVARIANTS HashOfItsUrl
PROPERTIES RealCheckKept NewHashIsOwn
CHECK_DEADLOCK FALSE
