SPECIFICATION Spec
CONSTANTS
    Runs = {r1, r2}
    Packages = {p1, p2}
    MaxImage = 3
    MaxSource = 2
    MayReturn = FALSE
INVARIANTS
    SignatureMeansComplete
PROPERTY
    SkipsNothingOlder
