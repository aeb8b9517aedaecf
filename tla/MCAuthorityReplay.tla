-------------------------- MODULE MCAuthorityReplay --------------------------
(* Bounds for TLC: one receipt of each kind, two where two can disagree. *)
EXTENDS AuthorityReplay, TLC

CONSTANTS Keys, Roots, AgentRevisions, Bindings, Grants, GrantRevisions, Revocations,
          Intents

MCWindows == {<<1, MaxTime>>, <<2, MaxTime>>}
Symmetry == Permutations(RootKeys)
MCQuota == [k \in {"key"} |-> Keys] @@ [k \in {"root"} |-> Roots]
           @@ [k \in {"lineage.revised"} |-> AgentRevisions]
           @@ [k \in {"bound"} |-> Bindings] @@ [k \in {"issued"} |-> Grants]
           @@ [k \in {"revised"} |-> GrantRevisions] @@ [k \in {"revoked"} |-> Revocations]
           @@ [k \in {"intent"} |-> Intents]
===============================================================================
