CONSTANTS
    Users = {ann, vp}
    Chiefs = {vp}
    Levels = {"read_only", "field_only", "standard"}
    Seeded = 2
    Rooms <- MCRooms
SPECIFICATION Spec

INVARIANTS
    CheckHoldsAtWrite
    ListAgreesWithGet
PROPERTY RowStaysInItsProject
