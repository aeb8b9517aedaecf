---------------------------- MODULE MCBundleChain ----------------------------
(* Model-checking instance of BundleChain: interchangeable branches.        *)
EXTENDS BundleChain

BranchSymmetry == Permutations(Branches)
===============================================================================
