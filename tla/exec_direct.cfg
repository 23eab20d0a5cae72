\* The functions are handed the committed store itself.
CONSTANTS
    l_bank = l_bank
    l_token = l_token
    l_cw1 = l_cw1
    a_bank = a_bank
    a_token = a_token
    Labels <- MCLabels
    ReservedLabels <- MCReserved
    BankLabel = l_bank
    Addrs <- MCAddrs
    Derive <- MCDerive
    Keys = {k1}
    Vals = {v1, v2}
    WasmCode = wasm
    MaxCodes = 2
    MaxMsgs = 5
    GasLimit = 2
    MsgOverlay = FALSE
    Absent = Absent
    NoMsg = NoMsg
SPECIFICATION Spec
\* States without successor: the message bound MaxMsgs is exhausted, or
\* migrate_contract panicked.
CHECK_DEADLOCK FALSE
INVARIANT RegistryConsistent FailedExecuteLeavesStoreUnchanged
