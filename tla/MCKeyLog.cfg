\* Three keys: genesis, a key it sponsors and one more, which is what a chain of
\* delegation needs.  Two instants: at a revocation and after it.
CONSTANTS
    Kids = {k1, k2, k3}
    Times = {0, 1}
    MaxLeaf = 3
    MaxSigs = 2
SPECIFICATION Spec
SYMMETRY KidSymmetry
INVARIANTS
    TypeOK
    AuthorityProvenance
    RevokedNeverVouches
PROPERTY NoResurrection
CHECK_DEADLOCK FALSE
