CONSTANTS
    MAX_CONNECTIONS = 2
    MAX_BACKLOG = 1
    BUF_SIZE = 5
    sock_fd = 3
    LastFd = 6
    Wrapped = 5
    Lengths = {1, 3}
    MaxUnread = 1
SPECIFICATION Spec
CHECK_DEADLOCK FALSE
INVARIANTS
    TypeOK
    SlotsAreOwn
    EndHasCause
PROPERTY
    EveryoneIsServed
