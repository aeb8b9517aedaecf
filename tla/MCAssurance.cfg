CONSTANTS
    MaxAge = 1
    SnapshotLife = 3
    Life = 3
    GrantLife = 2
    DelegationEnd = 5
    Lifetime = 2
    Nothing = Nothing
    Flaws = {"none", "mixed", "other_challenge", "root_sig", "agent_sig", "no_head", "counter", "scope", "unevaluated", "challenger", "no_responder", "as_of", "stray_proofs"}
    MaxTime = 3
    MaxCps = 2
    MaxChanges = 2
SPECIFICATION Spec
INVARIANTS
    RevocationBites
    BlameIsDeserved
    SuccessionIsFinal
CHECK_DEADLOCK FALSE
