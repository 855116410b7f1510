SPECIFICATION ServiceSpec
CONSTANTS
    Data = {"recent", "old"}
    None = None
    InitialTables <- MCTables
INVARIANTS
    AttachmentsStay
    OrphansReported
PROPERTIES
    NoneLeftAlone
CHECK_DEADLOCK FALSE
