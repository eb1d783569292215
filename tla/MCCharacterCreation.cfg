SPECIFICATION FocusedSpec
CONSTANTS
    Servers = {s1, s2}
    Commands = {c1}
    NoProcess = NoProcess
    Bundles <- MCBundles
    Catalog <- MCCatalog
    Registries <- MCRegistries
    Unstated = Unstated
    Builds <- MCBuilds
    NoBuild = NoBuild
    NoRelease = NoRelease
    Requests = {r1, r2}
    Accounts = {a1, a2}
    Keys = {k1, k2}
    Profiles = {"default"}
    RawNames = {plain, wide, reserved}
    DisplayName <- MCDisplayName
    Invalid = Invalid
    Nobody = Nobody
    field = field
    other = other
    plain = plain
    wide = wide
    reserved = reserved
CONSTRAINT Focus
SYMMETRY Symmetry
CHECK_DEADLOCK FALSE
INVARIANTS
    ContentMeetsReference
    BootstrapsAlone
    ReadyIsCurrent
    OneTenant
    ConstraintsNeverBite
PROPERTIES
    RetryRepeats
