---------------------------- MODULE FlowMatching ----------------------------
(***************************************************************************)
(* The schedule of elefant/policy_model/flow_matching.py in fixed point:   *)
(* Unit stands for 1.0.  A sample is a mixture of the clean actions, of    *)
(* noise and of a given initial sample; the records hold the weights.      *)
(***************************************************************************)
EXTENDS Integers, Sequences

CONSTANTS Unit,
          SigmaMin,            \* sigma_min, in units; sigma_max is 1.0
          Shift,               \* flow_match_shift
          ExtraOneStep         \* extra_one_step

ASSUME FlowAssumption ==
  /\ Unit \in Nat \ {0} /\ SigmaMin \in 0 .. Unit /\ Shift \in Nat \ {0}
  /\ ExtraOneStep \in BOOLEAN

\* linspace(sigma_max, sigma_min, n + 1)[:-1], or linspace(sigma_max, sigma_min, n), which
\* begins at sigma_max even if that is all.
Linear(n) ==
  LET last == IF ExtraOneStep THEN n ELSE n - 1
  IN [i \in 1 .. n |-> IF i = 1 THEN Unit ELSE Unit - ((i - 1) * (Unit - SigmaMin)) \div last]

\* set_timesteps: the shift bends the line towards 1.0.
Sigmas(n) ==
  [i \in 1 .. n |-> (Shift * Linear(n)[i] * Unit) \div (Unit + (Shift - 1) * Linear(n)[i])]

Distance(x, y) == IF x > y THEN x - y ELSE y - x

\* argmin over the schedule: the first of the nearest.  A timestep is its sigma, scaled.
TimestepId(sigmas, t) ==
  CHOOSE i \in DOMAIN sigmas :
    \A j \in DOMAIN sigmas : /\ Distance(sigmas[i], t) <= Distance(sigmas[j], t)
                             /\ j < i => Distance(sigmas[j], t) > Distance(sigmas[i], t)

\* Variant with a defect: the last step stops at the last entry of the schedule.
NextSigmaNotFinal(sigmas, i, toFinal) == IF i + 1 > Len(sigmas) THEN sigmas[i] ELSE sigmas[i + 1]

NextSigma(sigmas, i, toFinal) ==
  IF toFinal \/ i + 1 > Len(sigmas) THEN 0 ELSE sigmas[i + 1]

\* _sample_noisy_action_sequence: what the head is trained on at a noise level.
Noisy(sigma) == [clean |-> Unit - sigma, noise |-> sigma, given |-> 0]

\* step, with the output the head is trained to give: noise - clean.
EulerStep(sigmas, sample, t, toFinal) ==
  LET i == TimestepId(sigmas, t)
      change == NextSigma(sigmas, i, toFinal) - sigmas[i]
  IN [sample EXCEPT !.clean = @ - change, !.noise = @ + change]
=============================================================================
