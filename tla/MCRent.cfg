\* Lamports: rent that falls, an unreadable sysvar, prefunded PDAs, memo switches.
CONSTANTS
    v1 = v1
    v2 = v2
    h = h
    m1 = m1
    m2 = m2
    w = w
    Vaults = {v1}
    Holders = {h}
    Receivers = {w}
    MarkerBytes = 3
    TokenBytes = 7
    Supply = 1
    Mints = {m1}
    Accounts <- RentAccounts
    Digests <- RentDigests
    Envelopes <- AllEnvelopes
    Rates = {1, 2}
    PrefundCap = 6
SPECIFICATION Spec
INVARIANTS
    MarkerRentExempt
    ProperSpendLands
PROPERTIES
    SpendKeepsLamports
    LandsAsTested
