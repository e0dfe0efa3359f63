CONSTANTS
    Protocols = {"blend", "kinetic", "aquarius"}
    StaleCeiling = 6
    Assets <- MCAssets
    BlendStarts <- MCBlendStarts
    BlendEdits <- MCBlendEdits
    KineticStarts <- MCKineticStarts
    KineticEdits <- MCKineticEdits
    AquariusStarts <- MCAquariusStarts
    AquariusEdits <- MCAquariusEdits
    AquariusRoles = {"Admin", "Pause"}
    Addresses = {"key", "other"}
    Keyholders = {"key"}
    StartedAt = 10
    MaxNow = 12
    MaxChanges = 1
    KeysPerCall = 5
SPECIFICATION Spec
INVARIANTS
    TransportNeverScored
    StateWasTrue
    UnreadIsUnsafe
    ReservesWhole
    FreshnessNotFlattered
    StaleListMatchesScore
    OneReadingPerAddress
