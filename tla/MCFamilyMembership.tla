------------------------- MODULE MCFamilyMembership -------------------------
EXTENDS FamilyMembership, TLC

CONSTANTS i1, i2, f1, f2, c1, c2, n1

\* 1 and 2 are neighbours, as are 2 and 3; 1 and 3 are not.
Street == {<<p, q>> \in Places \X Places : p - q \in {-1, 0, 1}}

Alike == Permutations(Identities) \union Permutations(Families) \union Permutations(Codes)
=============================================================================
