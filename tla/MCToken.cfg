\* Tokens, signatures, replays and re-created accounts; one fixed rent.
CONSTANTS
    v1 = v1
    v2 = v2
    h = h
    m1 = m1
    m2 = m2
    w = w
    Vaults = {v1, v2}
    Holders = {h}
    Mints = {m1}
    Accounts <- TokenAccounts
    Receivers = {w}
    Digests <- TokenDigests
    Envelopes <- ProperEnvelopes
    Supply = 2
    Rates = {1}
    MarkerBytes = 3
    TokenBytes = 7
    PrefundCap = 0
SPECIFICATION Spec
INVARIANTS
    AnswersAsTested
    OneSpendPerVault
PROPERTIES
    OnlyAsSigned
    SpentIsFinal
    ImplementsOneShotVault
