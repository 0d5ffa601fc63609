SPECIFICATION MCSpec
CONSTANTS
    c = c
    p = p
    m = m
    evm = evm
    tok = tok
    s1 = s1
    one = one
    code = code
    Addrs = {c, p, m}
    Denoms = {evm, tok}
    EvmDenom = evm
    Slots = {s1}
    Words = {zero, one}
    Zero = zero
    Codes = {code}
    NoAcc = noacc
    NoCode = nocode
    Absent = absent
    Blocked = {m}
    Locked = 1
    Genesis <- MCGenesis
    Coinbase = c
    Precompiles = {p}
    AccessLists <- MCAccessLists
    Logs = {l1}
    Amounts = {0, 1}
    Nonces = {0, 2}
    Gas = {1, 2}
    RefundMod = 4
    MaxSnapshots = 2
    MaxOps = 3
    MaxWorldSnapshots = 1
INVARIANTS
    TypeOK
    SupplyBacked
    AccountsKept
    CommittedStateRight
    TouchedCoversChanges
    CommitDestroysExactly
PROPERTIES
    Implements
