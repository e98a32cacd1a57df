---------------------------- MODULE MCGatedFeed ----------------------------
(* Values of GatedFeed's constants.                                        *)
EXTENDS GatedFeed

CONSTANTS s1, s2, s3, t1, t2

ThreeSignals == {s1, s2, s3}
TwoTokens    == {t1, t2}
TokensOfThree == [s \in ThreeSignals |-> IF s = s3 THEN t2 ELSE t1]
=============================================================================
