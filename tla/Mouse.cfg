\* Two packets, begun anywhere, of which the port loses some.
CONSTANTS
    Procs = {"p", "q"}
    Nobody = Nobody
    FifoSize = 1
    MaxBytes = 5
    MaxFaults = 1
SPECIFICATION Spec
INVARIANTS
    TypeOK
    Resync
    RemembersAnOpener
    LineComesBack
PROPERTIES
    PacketIsStill
    BytesAreTaken
    ReadyIsNoticed
\* A machine that oopsed stops.
CHECK_DEADLOCK FALSE
