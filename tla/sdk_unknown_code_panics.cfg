CONSTANTS
    s1 = s1
    l1 = l1
    l2 = l2
    Labels <- MCLabels
    Senders <- MCSenders
    Deployer = s1
    Keys = {k1}
    Vals = {v1}
    WasmCode = wasm
    MaxCodes = 2
    MaxContracts = 2
    MaxSeq = 3
    MaxTxMsgs = 2
    MaxHeight = 1
    Absent = Absent
SPECIFICATION Spec
\* States without successor: the bounds are exhausted, init_chain failed
\* (the node does not start) or a handler panicked (the node is down).
CHECK_DEADLOCK FALSE
INVARIANT NoPanic
