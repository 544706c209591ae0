---------------------------- MODULE MCBFTCluster ----------------------------
EXTENDS BFTCluster, TLC
CONSTANTS a, b, c, d
OneValidator == <<a>>
TwoValidators == <<a, b>>
ThreeValidators == <<a, b, c>>
=============================================================================
