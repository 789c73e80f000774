SPECIFICATION Spec
CONSTANTS
    b1 = b1
    b2 = b2
    b3 = b3
    Procs = {p}
    Runners = {}
    Scripts = {s}
    Bins = {b1, b2}
    Release <- Releases
    Preludes = {plain, strict}
    NoPrelude = plain
    NoStamp = NoStamp
    Unset = Unset
    None = None
    MaxVersion = 2
    EditsDuringRuns = TRUE
    UpgradesDuringRuns = TRUE
INVARIANT ReplayHasPrelude
