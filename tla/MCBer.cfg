CONSTANTS
    MaxPiece = 4
    asn_DEF <- Descriptors
    Grammar <- MCGrammar
    Type = "MmsPdu"
    Nesting = 1
    Pdus <- MCPdus
SPECIFICATION Spec
INVARIANTS WantsMore RoundTrip Dissected
CHECK_DEADLOCK FALSE
