SPECIFICATION Spec
CONSTANTS
    send = send
    register = register
    Sessions = {s1, s2}
    Nobody = Nobody
    Apps = {a1}
    SendCaps <- MCSendCaps
    MgmtCaps <- MCMgmtCaps
    Patches <- MCPatches
    Prefixes = {p1}
    MaxGen = 1
    MaxVer = 3
    MaxKeys = 1
SYMMETRY Symmetry
INVARIANTS PinnedIdentity VersionNamesOneSet BearerDiesWithKey NoEscalation
PROPERTIES PatchTakesEffect
