SPECIFICATION FairSpec
CONSTANTS
    alice = alice
    bob = bob
    guest = guest
    None = None
    Accounts <- MCAccounts
    Owners <- MCOwners
    Lifetimes <- MCLifetimes
    Gaps <- MCGaps
    Lags <- MCLags
    VaultFaults = FALSE
PROPERTY ExpiredMeansExpired
