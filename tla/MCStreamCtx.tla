---------------------------- MODULE MCStreamCtx ----------------------------
(* Instances of StreamCtx: the plans are cut by WavePlan from small         *)
(* batches, so StreamAssumption also checks that WavePlan produces plans.   *)
EXTENDS StreamCtx, WavePlan

Batch(src, cap_, out) ==
  [n |-> Len(src), src |-> [i \in 0 .. Len(src) - 1 |-> src[i + 1]],
   cap |-> [i \in 0 .. Len(src) - 1 |-> cap_[i + 1]], hostOut |-> out]

PlansOf(b, verdicts) == {PlanOf(b, v) : v \in [0 .. b.n - 1 -> verdicts]}

(* Waves of one chunk and of two, an empty wave among them, host and device *)
(* output, every mix of verdicts where one wave has several: calls of       *)
(* different sizes, several on one context.                                 *)
AllPlans ==
  PlansOf(Batch(<<1, 1, 1>>, <<1, 0, 1>>, TRUE), {"ok"})
    \cup PlansOf(Batch(<<2, 0, 1>>, <<0, 0, 0>>, TRUE), {"ok"})
    \cup PlansOf(Batch(<<1, 1>>, <<1, 0>>, TRUE), Verdicts)
    \cup PlansOf(Batch(<<1, 1, 1>>, <<0, 1, 2>>, FALSE), {"ok"})
    \cup PlansOf(Batch(<<4, 1>>, <<1, 1>>, FALSE), {"ok", "corrupt"})
=============================================================================
