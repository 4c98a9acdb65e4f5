SPECIFICATION Spec
CONSTANTS
    MaxFd = 5
    NET_MAX_TLS_CONNS = 2
    HTTP_RBUF = 7
    Request = 2
    MaxRecord = 2
    HttpBeside = 1
    Replies <- MCReplies
INVARIANTS
    NothingLeaks
    SlotsOwnTheirs
    AnswerIsTrue
    NothingMissed
PROPERTIES
    CallsEnd
