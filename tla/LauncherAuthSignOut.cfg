SPECIFICATION Spec
CONSTANTS
    alice = alice
    bob = bob
    guest = guest
    None = None
    Accounts <- MCAccounts
    Owners <- MCOwners
    Lifetimes <- MCLifetimes
    Gaps <- MCGaps
    Lags <- MCLags
    VaultFaults = TRUE
INVARIANT SignOutForgets
