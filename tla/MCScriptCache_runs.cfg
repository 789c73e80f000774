SPECIFICATION Spec
CONSTANTS
    b1 = b1
    b2 = b2
    b3 = b3
    Procs = {p, q}
    Runners = {q}
    Scripts = {s, t}
    Bins = {b1, b2, b3}
    Release <- Releases
    Preludes = {plain}
    NoPrelude = plain
    NoStamp = NoStamp
    Unset = Unset
    None = None
    MaxVersion = 2
    EditsDuringRuns = FALSE
    UpgradesDuringRuns = FALSE
INVARIANTS TypeOK 
 
