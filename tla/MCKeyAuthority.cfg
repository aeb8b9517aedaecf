\* Two keys suffice for every relation the pipeline looks at: a key and the one
\* that introduced, revoked or co-signed beside it.  Four leaves give room for
\* introduction, use, revocation and an omitted tail.
CONSTANTS
    Kids = {k1, k2}
    Times = {0, 1}
    MaxLeaf = 3
    MaxSigs = 2
    TrustedRecorders = {k2}
    MaxReceipts = 1
    MaxOmitted = 1
SPECIFICATION AuthoritySpec
INVARIANTS
    AuthorityTypeOK
    RevocationIsFinal
    TruncationRevivesNoKey
    RecorderAttestationSound
CHECK_DEADLOCK FALSE
