SPECIFICATION Spec
CONSTANTS
    Versions <- MCVersions
    Bindings <- MCBindings
    Binds <- MCBinds
    Artifacts <- MCArtifacts
    Slots <- MCSlots
    Slot <- MCSlot
    Needs <- MCNeeds
    Uses <- MCUses
    None = none
    Lost = lost
INVARIANTS
    TypeOK
    SlotsAgree
    InputsNeverStale
    EvidenceIsActive
    NothingLeftStale
