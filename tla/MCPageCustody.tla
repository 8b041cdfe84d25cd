--------------------------- MODULE MCPageCustody ---------------------------
EXTENDS PageCustody, TLC

PagePermutations == Permutations(Pages)
=============================================================================
