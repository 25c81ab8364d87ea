SPECIFICATION EnsureFairSpec
CONSTANTS
    old = old
    new = new
    k1 = k1
    k2 = k2
    Absent = Absent
    Dynamic = Dynamic
    Instances <- MCInstances
    Keys <- MCKeys
    KeysOf <- MCKeysOf
    Addresses = 2
    MaxDeletes = 2
INVARIANTS
    ReadyMeansMapped
    NeverDynamicAgain
PROPERTY EventuallyReady
