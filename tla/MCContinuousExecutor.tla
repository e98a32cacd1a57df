------------------------ MODULE MCContinuousExecutor ------------------------
EXTENDS ContinuousExecutor

CONSTANTS e1, e2, t1, t2

(* Two envelopes of different tokens; where e2 is inherited it is a lot      *)
(* below the minimum order, bought under an earlier configuration.           *)
TwoTokens == (e1 :> t1) @@ (e2 :> t2)

(* Two envelopes of one token. *)
OneToken == (e1 :> t1) @@ (e2 :> t1)

(* One envelope. *)
OneEnvelope == e1 :> t1
=============================================================================
