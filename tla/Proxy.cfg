SPECIFICATION ProxySpec
CONSTANTS
    Requests <- MCRequests
    Responses <- MCResponses
    RequestLimit = 1
    ResponseLimit = 2
    DecodeLimit = 2
INVARIANTS RequestWhole ClientReads
\* The request has been answered.
CHECK_DEADLOCK FALSE
