---------------------------- MODULE MCHitAnalysis ----------------------------
(* Two chips of two channels: single traces of every shape and frames in      *)
(* which several channels have one.                                           *)
EXTENDS HitAnalysis, TLC

Shapes == UNION {[1..1 -> {1}], [1..2 -> {0, 2}], {<<7, a, 6>> : a \in 0..2}, 
                 {<<9, a, b, c, 8>> : <<a, b, c>> \in (0..2) \X (0..2) \X (0..2)}}
Peak == <<1, 0, 1, 3, 2, 0>>
Late == <<0, 0, 0, 2, 3, 1>>
Event(cobo, asad, type, traces) == [cobo |-> cobo, asad |-> asad, type |-> type, traces |-> traces]
Singles == {Event(0, 1, 1, 2 :> t) : t \in Shapes}
Several == {Event(0, 2, 1, 0 :> Peak @@ 3 :> <<1, 4, 1>>), Event(1, 0, 1, 1 :> Late),
            Event(0, 0, 1, << >>), Event(0, 2, 2, << >>), Event(0, 0, 2, 0 :> Peak @@ 1 :> Late @@ 2 :> Late @@ 3 :> Peak),
            Event(0, 1, 2, 0 :> Late @@ 1 :> Peak)}
MCEvents == Singles \cup Several
=============================================================================
