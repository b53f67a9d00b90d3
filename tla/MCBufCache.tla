------------------------------ MODULE MCBufCache ------------------------------
EXTENDS BufCache, TLC

\* Users, blocks and values are only compared.
Symmetry == Permutations(Users) \cup Permutations(Blocks) \cup Permutations(Vals)
===============================================================================
