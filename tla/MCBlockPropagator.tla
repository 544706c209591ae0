------------------------- MODULE MCBlockPropagator -------------------------
EXTENDS BlockPropagator, TLC
CONSTANTS v1, v2, v3, v4, obs, x, y
TwoValidators == <<v1, v2>>
FourValidators == <<v1, v2, v3, v4>>
\* Block data are interchangeable.
DataSymmetry == Permutations({x, y})
=============================================================================
