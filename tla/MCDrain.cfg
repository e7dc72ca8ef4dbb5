\* A vault that holds two mints: a spend empties only the account it names.
CONSTANTS
    v1 = v1
    v2 = v2
    h = h
    m1 = m1
    m2 = m2
    w = w
    Vaults = {v1}
    Holders = {h}
    Receivers = {w}
    MarkerBytes = 3
    TokenBytes = 7
    Supply = 1
    Mints = {m1, m2}
    Accounts <- MintAccounts
    Digests <- MintDigests
    Envelopes <- GoodEnvelope
    Rates = {1}
    PrefundCap = 0
SPECIFICATION Spec
PROPERTY
    DrainsWholeBalance
