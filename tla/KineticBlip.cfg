CONSTANTS
    Protocols = {"kinetic"}
    StaleCeiling = 6
    Assets <- MCAssets
    BlendStarts <- MCBlendStarts
    BlendEdits <- MCBlendEdits
    KineticStarts <- MCKineticStarts
    KineticEdits <- MCKineticEdits
    AquariusStarts <- MCAquariusStarts
    AquariusEdits <- MCAquariusEdits
    AquariusRoles = {"Admin", "Pause"}
    Addresses = {"key", "other"}
    Keyholders = {"key"}
    StartedAt = 10
    MaxNow = 10
    MaxChanges = 0
    KeysPerCall = 5
SPECIFICATION Spec
INVARIANT
    KineticThrowsOnFailedRead
