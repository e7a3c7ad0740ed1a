------------------------ MODULE PortfolioConstraints ------------------------
(***************************************************************************)
(* Layer 11, apply_portfolio_constraints                                    *)
(* (extensions/aille_portfolio_constraints.cpp): proposed allocations, long *)
(* or short, are clamped per asset, scaled per sector, dampened per cluster *)
(* of correlated assets and scaled into the risk budget, in this order.     *)
(* Reals are in hundredths; a scaled allocation is rounded toward zero.     *)
(* Inactive entries of the lists are left out of the arguments, and the     *)
(* trace of the result.                                                     *)
(***************************************************************************)
EXTENDS Integers, Sequences, FiniteSets, FiniteSetsExt, Functions

CONSTANT Portfolios   \* the arguments of a call, as records

\* A portfolio: proposed and risk say of each asset its allocation and its risk
\* score; rule its two exposure limits, or <<>>; sectors and correlations are
\* lists; budget is the limit of the risk, or <<>>. The call throws unless every
\* limit and score is a number without a sign and a correlation one of -1 .. 1.
ASSUME PortfolioAssumption ==
    \A p \in Portfolios :
        /\ IsFiniteSet(DOMAIN p.proposed)
        /\ p.proposed \in [DOMAIN p.proposed -> Int]
        /\ p.risk \in [DOMAIN p.proposed -> Nat]
        /\ p.rule \in [DOMAIN p.proposed -> {<<>>} \cup (Nat \X Nat)]
        /\ p.sectors \in Seq([sector : STRING, max : Nat])
        /\ p.correlations \in Seq([a : STRING, b : STRING, score : -100 .. 100])
        /\ p.budget \in Seq(Nat)

VARIABLES portfolio,
          weights,   \* allocations
          label,     \* cluster_labels
          turn,      \* of the loop of the stage
          step       \* the stage that is next

constraintVars == <<portfolio, weights, label, turn, step>>

Held1 == DOMAIN portfolio.proposed

\* map_asset_to_sector
SectorOf(asset) == CASE asset = "CASH" -> "FIAT"
                     [] asset \in {"BTC", "ETH"} -> "CRYPTO"
                     [] asset = "GOLD" -> "PRECIOUS_METALS"
                     [] asset = "OIL" -> "ENERGY"
                     [] OTHER -> "OTHER"

ClusterThreshold == 70
ClusterMax == 30

Magnitude(w) == IF w < 0 THEN -w ELSE w
Scale(w, top, bottom) == IF w < 0 THEN -((-w * top) \div bottom) ELSE (w * top) \div bottom
Exposure(ws, assets) == SumFunctionOnSet([a \in DOMAIN ws |-> Magnitude(ws[a])], assets)
Risk(ws) == SumFunctionOnSet([a \in DOMAIN ws |-> Magnitude(ws[a]) * portfolio.risk[a]], DOMAIN ws)
MembersOf(sector) == {a \in Held1 : SectorOf(a) = sector}

ConstraintInit ==
    /\ portfolio \in Portfolios
    /\ weights = portfolio.proposed
    /\ label = [a \in Held1 |-> a]
    /\ turn = 0
    /\ step = "exposure"

\* Stage 1: a long and a short limit of each asset.
ClampExposure ==
    /\ step = "exposure"
    /\ weights' = [a \in Held1 |->
         IF portfolio.rule[a] = <<>> THEN weights[a]
         ELSE IF weights[a] >= 0 THEN Min({weights[a], portfolio.rule[a][1]})
         ELSE Max({weights[a], -portfolio.rule[a][2]})]
    /\ step' = "sectors"
    /\ UNCHANGED <<portfolio, label, turn>>

\* Stage 2: one turn of the loop over the sectors with a cap.
CapSector ==
    /\ step = "sectors" /\ turn < Len(portfolio.sectors)
    /\ LET cap == portfolio.sectors[turn + 1]
           sum == Exposure(weights, MembersOf(cap.sector))
       IN  weights' = [a \in Held1 |->
             IF a \in MembersOf(cap.sector) /\ sum > cap.max THEN Scale(weights[a], cap.max, sum)
             ELSE weights[a]]
    /\ turn' = turn + 1
    /\ UNCHANGED <<portfolio, label, step>>

LeaveSectors ==
    /\ step = "sectors" /\ turn = Len(portfolio.sectors)
    /\ turn' = 0
    /\ step' = "correlation"
    /\ UNCHANGED <<portfolio, weights, label>>

\* Mutant: only the second asset of a pair changes its cluster.
JoinOne(labels, pair) ==
    IF pair.score <= ClusterThreshold \/ ~({pair.a, pair.b} \subseteq Held1) THEN labels
    ELSE [labels EXCEPT ![pair.b] = labels[pair.a]]

\* Two correlated assets put all of the second's cluster into the first's.
Join(labels, pair) ==
    IF pair.score <= ClusterThreshold \/ ~({pair.a, pair.b} \subseteq Held1) THEN labels
    ELSE [a \in Held1 |-> IF labels[a] = labels[pair.b] THEN labels[pair.a] ELSE labels[a]]

\* Stage 3: one turn of the loop over the pairs.
JoinPair ==
    /\ step = "correlation" /\ turn < Len(portfolio.correlations)
    /\ label' = Join(label, portfolio.correlations[turn + 1])
    /\ turn' = turn + 1
    /\ UNCHANGED <<portfolio, weights, step>>

Cluster(a) == {b \in Held1 : label[b] = label[a]}

\* Then a cluster of two and more shares ClusterMax.
DampenClusters ==
    /\ step = "correlation" /\ turn = Len(portfolio.correlations)
    /\ LET sum(a) == Exposure(weights, Cluster(a))
       IN  weights' = [a \in Held1 |->
             IF Cluster(a) # {a} /\ sum(a) > ClusterMax THEN Scale(weights[a], ClusterMax, sum(a))
             ELSE weights[a]]
    /\ step' = "budget"
    /\ UNCHANGED <<portfolio, label, turn>>

\* Stage 4: the risk budget; what has no risk is not scaled.
EnforceBudget ==
    /\ step = "budget"
    /\ weights' = [a \in Held1 |->
         IF portfolio.budget # <<>> /\ Risk(weights) > portfolio.budget[1] /\ portfolio.risk[a] > 0
           THEN Scale(weights[a], portfolio.budget[1], Risk(weights)) ELSE weights[a]]
    /\ step' = "done"
    /\ UNCHANGED <<portfolio, label, turn>>

ConstraintNext ==
    ClampExposure \/ CapSector \/ LeaveSectors \/ JoinPair \/ DampenClusters \/ EnforceBudget

-----------------------------------------------------------------------------
\* Strongly correlated assets of the portfolio.
Tied(a, b) ==
    \E i \in 1 .. Len(portfolio.correlations) :
        LET pair == portfolio.correlations[i]
        IN  pair.score > ClusterThreshold /\ {pair.a, pair.b} = {a, b}

\* Assets that correlation connects: wherever they are split, a pair is torn.
Connected(group) ==
    \A part \in SUBSET group :
        part \notin {{}, group} => \E a \in part, b \in group \ part : Tied(a, b)

\* At the end a later stage has not undone an earlier one: every asset is within
\* its exposure limits, and is on its own side of 0 and not past what was
\* proposed, every sector is within its cap, every group of assets that
\* correlation connects within its share, the risk within the budget
\* (aille_portfolio_constraints.cpp:81, :118, :157, :225).
ConstraintsHold ==
    step = "done" =>
        /\ \A a \in Held1 :
             /\ portfolio.rule[a] # <<>> => weights[a] \in -portfolio.rule[a][2] .. portfolio.rule[a][1]
             /\ weights[a] * portfolio.proposed[a] >= 0
             /\ Magnitude(weights[a]) <= Magnitude(portfolio.proposed[a])
        /\ \A i \in 1 .. Len(portfolio.sectors) :
             Exposure(weights, MembersOf(portfolio.sectors[i].sector)) <= portfolio.sectors[i].max
        /\ \A group \in SUBSET Held1 :
             Cardinality(group) > 1 /\ Connected(group) => Exposure(weights, group) <= ClusterMax
        /\ portfolio.budget # <<>> => Risk(weights) <= portfolio.budget[1]
=============================================================================
