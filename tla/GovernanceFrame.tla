-------------------------- MODULE GovernanceFrame --------------------------
(***************************************************************************)
(* One frame after another through layers 10, 12, 13 and 14: the governors' *)
(* proposals are reconciled (extensions/aille_governor_reconciliation.cpp), *)
(* held to the history (aille_temporal_consistency.cpp), overridden under   *)
(* stress (aille_stress_regime_override.cpp) and sealed                     *)
(* (aille_meta_governance.cpp).  The host calls them in the order of the    *)
(* layers. Reals are in hundredths and rounded toward zero; the result of   *)
(* layer 11 is an input. Whether the Lyapunov damping applies, and by which *)
(* factor in (0, 1), is left open. Traces are left out.                     *)
(***************************************************************************)
EXTENDS Integers, Sequences, FiniteSets, FiniteSetsExt, Functions

CONSTANTS FrameAssets,  \* assets; "CASH" never counts as risk-bearing
          Inputs10,     \* the proposals for the assets, as functions
          Inputs13,     \* stress states and rules, as records
          Inputs11,     \* what layer 11 says: violations, risk, maxRisk
          DriftLimit,   \* max_drift_threshold
          Crash, Lambda,\* crash_dampening_factor, fallback_lambda, in hundredths
          Baseline,     \* the safe baseline of each asset
          RiskBearing,  \* assets with a risk score over 40
          MaxFrames     \* bound

Governors == {"COMPLIANCE", "RISK", "LIQUIDITY", "RETURN", "STRATEGY"}

\* severe: the risk score is over 75; flagged: RISK_LIMIT or HARD_BLOCK.
ProposalType == [type : Governors, value : Int, severe : BOOLEAN, flagged : BOOLEAN]

\* Stress gives each index as 0: calm, 1: over half of its threshold, 2: over it.
\* The correlation index also stands for the sum of temporal residuals, which
\* only chooses the mode as well.
OverrideType ==
    [mode : 0..2, level : 0..2, vol : 0..2, drawdown : 0..2, correlation : 0..2, failed : BOOLEAN]

\* What the validation of the layers' arguments lets through.
ASSUME FrameAssumption ==
    /\ IsFiniteSet(FrameAssets)
    /\ Inputs10 \subseteq [FrameAssets -> Seq(ProposalType)] /\ Inputs13 \subseteq OverrideType
    /\ DriftLimit \in Nat /\ Crash \in 0..100 /\ Lambda \in 0..100
    /\ Baseline \in [FrameAssets -> Int] /\ RiskBearing \subseteq FrameAssets

VARIABLES frames,     \* frames sealed so far
          phase,      \* the layer that is next
          track,      \* prev_allocation and prev_prev_allocation of each asset
          held,       \* the assets that the host lists with a past, in layers 12 and 13
          asked,      \* the proposals of this frame, until layer 12 has its values
          value,      \* the allocations of this frame
          residual10, residual12,
          stress,     \* the stress state of this frame
          lock        \* execution_ready and the risk it was sealed with

frameVars == <<frames, phase, track, held, asked, value, residual10, residual12, stress, lock>>

Abs(n) == IF n < 0 THEN -n ELSE n
Sign(n) == IF n < 0 THEN -1 ELSE 1
Times(n, ratio) == Sign(n) * ((Abs(n) * ratio) \div 100)

-----------------------------------------------------------------------------
\* Layer 10. The last proposal of a governor counts.
Of(props, type) == {i \in DOMAIN props : props[i].type = type}
Says(props, type) == Of(props, type) # {}
Final(props, type) == props[Max(Of(props, type))]

\* STRATEGY, then RETURN, set the value.
BaseValue(props) ==
    IF Says(props, "RETURN")
      THEN [value |-> Final(props, "RETURN").value, based |-> TRUE, type |-> "RETURN"]
    ELSE IF Says(props, "STRATEGY")
      THEN [value |-> Final(props, "STRATEGY").value, based |-> TRUE, type |-> "STRATEGY"]
    ELSE [value |-> 0, based |-> FALSE, type |-> "STRATEGY"]

\* LIQUIDITY caps the magnitude, or stands in for a missing value.
AfterLiquidity(props, r) ==
    IF ~Says(props, "LIQUIDITY") THEN r
    ELSE LET limit == Final(props, "LIQUIDITY").value
         IN  IF ~r.based THEN [value |-> limit, based |-> TRUE, type |-> "LIQUIDITY"]
             ELSE [r EXCEPT !.value = IF Abs(@) > limit THEN Sign(@) * limit ELSE @]

\* RISK: a score over 75, or its flag, puts its own value for a larger one.
AfterRisk(props, r) ==
    IF ~Says(props, "RISK") THEN r
    ELSE LET risk == Final(props, "RISK")
         IN  IF risk.severe /\ ~r.based
               THEN [value |-> risk.value, based |-> TRUE, type |-> "RISK"]
             ELSE IF (risk.severe \/ risk.flagged) /\ Abs(r.value) > Abs(risk.value)
               THEN [r EXCEPT !.value = risk.value, !.type = IF risk.severe THEN "RISK" ELSE @]
             ELSE r

\* COMPLIANCE blocks, or has no say.
AfterCompliance(props, r) ==
    IF Says(props, "COMPLIANCE") /\ Final(props, "COMPLIANCE").flagged
      THEN [r EXCEPT !.value = 0, !.type = "COMPLIANCE"]
      ELSE r

Reconciled(props) ==
    AfterCompliance(props, AfterRisk(props, AfterLiquidity(props, BaseValue(props))))

\* get_governor_weight, in tenths; the residual is in thousandths.
GovernorWeight == [COMPLIANCE |-> 10, RISK |-> 8, LIQUIDITY |-> 6, RETURN |-> 5, STRATEGY |-> 5]
Residual(props, v) ==
    SumFunction([i \in DOMAIN props |-> GovernorWeight[props[i].type] * Abs(props[i].value - v)])

\* The energy is a sum over phase angles; an energy over the threshold makes the
\* factor threshold / energy, so that any part of the value may be left.
Damped(v) == IF v >= 0 THEN 0..v ELSE v..0

\* The past of an asset that is not listed.
NoPast == [now |-> 0, before |-> 0]

FrameInit ==
    /\ frames = 0 /\ phase = 10
    /\ track = [a \in FrameAssets |-> NoPast] /\ held = {}
    /\ asked = [a \in FrameAssets |-> <<>>]
    /\ value = [a \in FrameAssets |-> 0]
    /\ residual10 = 0 /\ residual12 = 0
    /\ stress \in Inputs13
    /\ lock = [ready |-> FALSE, level |-> 0]

\* reconcile_governors for every asset; the lock sees the worst residual.
ReconcileGovernors ==
    /\ phase = 10 /\ frames < MaxFrames
    /\ \E input \in Inputs10 :
         /\ asked' = input
         /\ \E v \in [FrameAssets -> UNION {Damped(Reconciled(input[a]).value) : a \in FrameAssets}] :
              /\ \A a \in FrameAssets : v[a] \in Damped(Reconciled(input[a]).value)
              /\ value' = v
              /\ residual10' = Max({0} \cup {Residual(input[a], v[a]) : a \in FrameAssets})
    /\ phase' = 12
    /\ UNCHANGED <<frames, track, held, residual12, stress, lock>>

-----------------------------------------------------------------------------
\* Layer 12. A step back is halved, then every step is clamped. Which assets the
\* previous states list is up to the host; the others come from nothing.
Consistent(t, v) ==
    LET back == (t.now - t.before > 0 /\ v - t.now < 0) \/ (t.now - t.before < 0 /\ v - t.now > 0)
        calm == IF back THEN t.now + Times(v - t.now, 50) ELSE v
    IN  Max({t.now - DriftLimit, Min({t.now + DriftLimit, calm})})

EnforceConsistency ==
    /\ phase = 12
    /\ held' \in SUBSET FrameAssets
    /\ LET past == [a \in FrameAssets |-> IF a \in held' THEN track[a] ELSE NoPast]
       IN  /\ value' = [a \in FrameAssets |-> Consistent(past[a], value[a])]
           /\ track' = [a \in FrameAssets |-> [now |-> value'[a], before |-> past[a].now]]
           /\ residual12' = SumFunction([a \in FrameAssets |-> Abs(value'[a] - past[a].now)])
    /\ asked' = [a \in FrameAssets |-> <<>>]
    /\ phase' = 13
    /\ UNCHANGED <<frames, residual10, stress, lock>>

-----------------------------------------------------------------------------
\* Layer 13.
Over(s, n) == s.vol >= n \/ s.drawdown >= n \/ s.correlation >= n

\* Mutant: a high level alone makes a crisis, not a threshold that is exceeded.
ModeByLevel(s) == IF s.level = 2 THEN 2 ELSE IF s.level = 1 \/ Over(s, 1) THEN 1 ELSE s.mode

EffectiveMode(s) == IF s.level = 2 \/ Over(s, 2) THEN 2
                    ELSE IF s.level = 1 \/ Over(s, 1) THEN 1
                    ELSE s.mode

\* Freeze, crash dampening and fallback compression, in this order. Only an
\* asset with a previous allocation can be frozen.
Overridden(s, found, prev, v, a) ==
    LET risky == a # "CASH" /\ a \in RiskBearing
        frozen == IF (s.vol >= 1 \/ s.drawdown >= 1) /\ risky /\ found THEN Min({v, prev}) ELSE v
        crashed == IF EffectiveMode(s) >= 1 /\ risky THEN Times(frozen, Crash) ELSE frozen
    IN  IF s.failed \/ EffectiveMode(s) = 2
          THEN Times(crashed, 100 - Lambda) + Times(Baseline[a], Lambda) ELSE crashed

OverrideStress ==
    /\ phase = 13
    /\ value' = [a \in FrameAssets |->
                 Overridden(stress, a \in held, track[a].before, value[a], a)]
    /\ held' = {}
    /\ phase' = 14
    /\ UNCHANGED <<frames, track, asked, residual10, residual12, stress, lock>>

-----------------------------------------------------------------------------
\* Layer 14, and the stress state of the next frame. The override's trace has a
\* step for every asset, so it is missing only if there are no assets.
ApplyLock ==
    /\ phase = 14
    /\ \E limits \in Inputs11 :
         LET conflict == residual10 > 50
             violation == limits.violations > 0 \/ limits.risk > limits.maxRisk
             missing == stress.level >= 1 /\ FrameAssets = {}
             drifting == residual12 > 10
         IN  lock' = [ready |-> ~conflict /\ ~violation /\ ~missing /\ ~drifting,
                      level |-> stress.level]
    /\ frames' = frames + 1
    /\ phase' = 15
    /\ UNCHANGED <<track, held, asked, value, residual10, residual12, stress>>

NextFrame ==
    /\ phase = 15
    /\ stress' \in Inputs13
    /\ phase' = 10
    /\ UNCHANGED <<frames, track, held, asked, value, residual10, residual12, lock>>

FrameNext == ReconcileGovernors \/ EnforceConsistency \/ OverrideStress \/ ApplyLock \/ NextFrame

-----------------------------------------------------------------------------
\* Whatever the lower governors propose, in whatever order and however often:
\* a compliance block leaves nothing, a severe risk score leaves no more than
\* the risk governor's value, and a liquidity limit bounds what is left
\* (aille_governor_reconciliation.cpp:127, :153, :189).
GovernorsObeyed ==
    phase = 12 => \A a \in FrameAssets :
        LET props == asked[a]
        IN  /\ Says(props, "COMPLIANCE") /\ Final(props, "COMPLIANCE").flagged => value[a] = 0
            /\ Says(props, "RISK") /\ Final(props, "RISK").severe
                 => Abs(value[a]) <= Abs(Final(props, "RISK").value)
            /\ Says(props, "LIQUIDITY") /\ Final(props, "LIQUIDITY").value >= 0
                 => Abs(value[a]) <= Final(props, "LIQUIDITY").value

\* A frame that is ready for execution moved all assets together by no more
\* than the lock allows since the last frame, an asset without a listed past
\* from nothing, was not far from any governor, and if an index was past its
\* threshold, no risk-bearing asset is above what the crash factor and the
\* baseline leave of it
\* (aille_meta_governance.cpp:36, aille_stress_regime_override.cpp:23).
ReadyIsGoverned ==
    phase = 15 /\ lock.ready =>
        /\ SumFunction([a \in FrameAssets |-> Abs(track[a].now - track[a].before)]) <= 10
        /\ residual10 <= 50
        /\ Over(stress, 2) => \A a \in RiskBearing \ {"CASH"} :
             value[a] <= Times(Max({0, Times(track[a].now, Crash)}), 100 - Lambda)
                         + Times(Max({0, Baseline[a]}), Lambda)

\* Both together: what layers 10 to 14 leave of a frame.
FramesGoverned == GovernorsObeyed /\ ReadyIsGoverned
=============================================================================
