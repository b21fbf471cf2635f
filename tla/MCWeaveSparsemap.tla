------------------------- MODULE MCWeaveSparsemap -------------------------
EXTENDS WeaveSparsemap

MCBatches == {{1, 6}, {2, 3, 7, 8}}
MCRanges == {<<0, 3>>, <<2, 9>>, <<4, 9>>}
MCOperands == {{1, 3, 5, 8}, 0..8}
=============================================================================
