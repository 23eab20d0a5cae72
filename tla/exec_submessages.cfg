\* A contract response with submessages, with the caller's overlay.
CONSTANTS
    l_bank = l_bank
    l_token = l_token
    l_cw1 = l_cw1
    a_bank = a_bank
    a_token = a_token
    Labels <- MCLabels
    ReservedLabels <- MCReserved
    BankLabel = l_bank
    Addrs <- MCAddrs
    Derive <- MCDerive
    Keys = {k1}
    Vals = {v1}
    WasmCode = wasm
    MaxCodes = 2
    MaxMsgs = 4
    GasLimit = 1
    MsgOverlay = TRUE
    Absent = Absent
    NoMsg = NoMsg
SPECIFICATION Spec
\* States without successor: the message bound MaxMsgs is exhausted, or
\* migrate_contract panicked.
CHECK_DEADLOCK FALSE
INVARIANT SubmessagesRejected
