\* Two processes over one image directory, two edits.
CONSTANTS
    Image = {redis}
    Text = {textA, textB}
    Manifest = {v1, v2}
    Missing = Missing
    Defaults = Defaults
    NoRow = NoRow
    Process = {p1, p2}
    MaxEdits = 2
SYMMETRY Symmetry
SPECIFICATION Spec
INVARIANTS
    TypeOK
    RebuildExact
    ShaVouches
    UnmixedUpdateExact
