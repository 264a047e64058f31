---- MODULE MCPull ----
EXTENDS PullMode, TLC
JobSymmetry == Permutations(Jobs)
====
