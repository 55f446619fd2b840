SPECIFICATION Spec
CONSTANTS
    Runs = {r1}
    Packages = {p1, p2}
    MaxImage = 1
    MaxSource = 2
    MayReturn = TRUE
PROPERTY
    SkippedMeansCurrent
