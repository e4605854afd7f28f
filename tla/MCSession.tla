------------------------------ MODULE MCSession ------------------------------
EXTENDS Session, TLC
CallerSymmetry == Permutations(Callers)
==============================================================================
