\* Deadlock is not checked: all packets of the bound may have been sent and received.
\* Two senders of two packets each: whole, in two and in three fragments.
CONSTANTS
    Sender = {a, b}
    UipLen = {7, 11, 12}
    Unit = 2
    MacMax = 6
    HdrLen = 1
    UncompLen = 2
    Frag1Hdr = 1
    FragnHdr = 1
    TagSpace = 65536
    QueueBufs = 4
    Contexts = 2
    Buffers = 2
    MaxPackets = 2
    MaxDups = 1
    MaxRestarts = 1
    NULL = NULL
SYMMETRY SenderSymmetry
SPECIFICATION Spec
CHECK_DEADLOCK FALSE
INVARIANTS
    CountsMatchBuffers
    WholeUnlessRepeated
    QueuebufsSuffice
