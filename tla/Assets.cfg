SPECIFICATION FairSpec
CONSTANTS
    p1 = p1  p2 = p2  b1 = b1  b2 = b2  h1 = h1  h2 = h2  a = a  m1 = m1  m2 = m2
    Process = {p1, p2}
    Build = {b1, b2}
    Deployments <- Pairs
    Assets <- Changed
    Mode = "both"
    WriteManifest = TRUE
    Path = {a}
    Hash = {h1, h2}
    ID = {m1, m2}
    Naming <- Names
    Ahead <- Skew
    StaleAfter = 2
    HeartbeatEvery = 1
    MaxFaults = 1
    MaxRestarts = 1
    None = None
INVARIANTS UploadsAreComplete LeaseExcludes
PROPERTIES UploadSettles
CHECK_DEADLOCK FALSE
