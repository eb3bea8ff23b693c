SPECIFICATION PacketSpec
CONSTANTS
    PacketSize = 9
    FieldInts = {1}
    FieldBinaries <- Binaries
    MaxFields = 2
INVARIANT MessagesParse
CHECK_DEADLOCK FALSE
