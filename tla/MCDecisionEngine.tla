-------------------------- MODULE MCDecisionEngine --------------------------
(***************************************************************************)
(* Small instances of the decision engine, of its observability and plugin  *)
(* registry, of the layers that govern what it decides, and of the journal  *)
(* of what it decided.  They share no state, so that a behaviour belongs to *)
(* one of them.                                                             *)
(***************************************************************************)
EXTENDS DecisionEngine, SpscRing, ExportPlane, PluginRegistry,
        LiquidityRouting, PortfolioConstraints, GovernanceFrame, ChartIntelligence,
        AdvisoryCycle, AuditJournal, VolumeOperator, KernelSession

CONSTANT Worlds   \* those of the behaviours to be checked

VARIABLE world

-----------------------------------------------------------------------------
(* The engine: a buffer of three samples, windows of one to five and an     *)
(* invalid one, up to three models.                                         *)
Base ==
  [minConfidence |-> 6, graceConfidence |-> 3, minModels |-> 2, agreement |-> 66,
   window |-> 3, maxModels |-> 3, maxPosition |-> 10,
   scale |-> 4, dynamic |-> FALSE, alpha |-> 1, beta |-> 0]

MCConfigs ==
  { Base,
    [Base EXCEPT !.window = 2],
    [Base EXCEPT !.window = 1, !.dynamic = TRUE, !.maxPosition = 2],
    [Base EXCEPT !.window = 5, !.minModels = 1, !.agreement = 33, !.graceConfidence = 0],
    [Base EXCEPT !.window = 0] }

Signal(m, v, c) == [model |-> m, value |-> v, confidence |-> c, fault |-> FALSE]

MCInputs ==
  { <<>>,
    <<Signal(1, 1, 8), Signal(2, 1, 8)>>,
    <<Signal(1, -1, 8), Signal(2, -1, 4)>>,
    <<Signal(1, 1, 8), Signal(2, -1, 8), Signal(3, 1, 8), Signal(4, -1, 8)>>,
    <<Signal(1, -1, 8), Signal(2, 1, 8)>>,
    <<Signal(1, 1, 0), Signal(2, 0, 0)>>,
    <<Signal(1, 1, 8), [Signal(2, 1, 8) EXCEPT !.fault = TRUE]>>,
    <<Signal(1, 1, 8), Signal(1, 1, 8)>> }

MCStresses ==
  { [stressed |-> FALSE, limit |-> 10, ok |-> TRUE],
    [stressed |-> TRUE, limit |-> 0, ok |-> TRUE],
    [stressed |-> TRUE, limit |-> 0, ok |-> FALSE] }

-----------------------------------------------------------------------------
(* Routing: the sum of three assets in both orders, and one left out.       *)
MCBooks ==
  { [order |-> order, value |-> [x |-> 40, y |-> 120, z |-> 240],
     alloc |-> [x |-> 1, y |-> 3, z |-> 6], target |-> [x |-> 0, y |-> keep, z |-> 5],
     frozen |-> [x |-> FALSE, y |-> FALSE, z |-> frozen],
     outflow |-> [x |-> 10, y |-> 10, z |-> 5], inflow |-> [x |-> 10, y |-> inflow, z |-> 10],
     rule |-> [x |-> first, y |-> second, z |-> third],
     share |-> [x |-> 10, y |-> 10, z |-> 5], shift |-> shift, total |-> total] :
       order \in {<<"x", "y", "z">>, <<"z", "y", "x">>, <<"x", "z">>},
       keep \in {0, 2}, frozen \in BOOLEAN, inflow \in {2, 4},
       first \in {<<"y", "z">>, <<"z", "y">>, <<>>},
       second \in {<<"z", "x">>, <<"x", "z">>},
       third \in {<<"y", "x">>, <<"z", "y">>},
       shift \in {2, 10}, total \in {1, 10} }

(* Constraints: chains of correlation, repeated sectors, shorts.            *)
Pair(a, b, score) == [a |-> a, b |-> b, score |-> score]
Cap(sector, max) == [sector |-> sector, max |-> max]

MCPortfolios ==
  { [proposed |-> [BTC |-> p[1], ETH |-> p[2], GOLD |-> p[3], CASH |-> 20],
     risk |-> [BTC |-> 5, ETH |-> 3, GOLD |-> 1, CASH |-> 0],
     rule |-> [BTC |-> r, ETH |-> <<>>, GOLD |-> <<25, 5>>, CASH |-> <<>>],
     sectors |-> s, correlations |-> c, budget |-> b] :
       p \in {<<40, 35, -10>>, <<-30, 22, 27>>, <<0, 9, 8>>},
       r \in {<<>>, <<30, 10>>},
       s \in {<<>>, <<Cap("CRYPTO", 40), Cap("FIAT", 0)>>,
              <<Cap("CRYPTO", 50), Cap("PRECIOUS_METALS", 7), Cap("CRYPTO", 11)>>},
       c \in {<<>>, <<Pair("BTC", "ETH", 70)>>,
              <<Pair("BTC", "GOLD", 80), Pair("ETH", "BTC", 90)>>,
              <<Pair("BTC", "ETH", 90), Pair("GOLD", "ETH", 71), Pair("CASH", "OIL", 90)>>},
       b \in {<<>>, <<100>>, <<37>>} }

(* Governance: proposals of every governor, repeated and out of order.      *)
Asks(type, v) == [type |-> type, value |-> v, severe |-> FALSE, flagged |-> FALSE]
Severe(v) == [Asks("RISK", v) EXCEPT !.severe = TRUE]

MCProposals ==
  { <<>>, <<Asks("STRATEGY", 9)>>,
    <<Asks("STRATEGY", -8), Asks("RETURN", 5), Asks("LIQUIDITY", 9), Asks("RISK", 7)>>,
    <<Severe(-4), Asks("RETURN", 20), Asks("LIQUIDITY", 6)>>,
    <<Asks("LIQUIDITY", 5), Asks("LIQUIDITY", 3), [Asks("RISK", 1) EXCEPT !.flagged = TRUE]>>,
    <<Severe(2)>>,
    <<[Asks("COMPLIANCE", 0) EXCEPT !.flagged = TRUE], Asks("STRATEGY", 5)>> }
MCInputs10 ==
  {[BTC |-> p, CASH |-> <<>>] : p \in MCProposals}
  \cup {[BTC |-> <<Asks("STRATEGY", v)>>, CASH |-> <<Asks("STRATEGY", 3)>>] : v \in {-2, 9}}

Calm == [mode |-> 0, level |-> 0, vol |-> 0, drawdown |-> 0, correlation |-> 0, failed |-> FALSE]
MCInputs13 ==
  { Calm, [Calm EXCEPT !.vol = 2], [Calm EXCEPT !.level = 1, !.vol = 1],
    [Calm EXCEPT !.correlation = 2, !.failed = TRUE] }

Layer11(violations, risk) == [violations |-> violations, risk |-> risk, maxRisk |-> 9]
MCInputs11 == {Layer11(0, 5), Layer11(0, 10), Layer11(1, 5)}
MCBaseline == [BTC |-> 2, CASH |-> 80]

(* Charts: both sides of every threshold of a regime, readings between, a    *)
(* flag, a cup, missing baselines and a degraded stream listed first and last *)
Quiet ==
  [ratio |-> 100, short |-> 100, medium |-> 100, based |-> TRUE, depth |-> 100,
   depthKnown |-> TRUE, volume |-> 100, roll |-> 90, expected |-> 90,
   wave |-> "none", waveFirst |-> FALSE]
MCReadings ==
  { Quiet,
    [Quiet EXCEPT !.ratio = 190, !.short = 300, !.medium = 200, !.depth = 40, !.roll = 30],
    [Quiet EXCEPT !.ratio = 175, !.depth = 50, !.roll = 40, !.wave = "degraded"],
    [Quiet EXCEPT !.ratio = 60, !.depth = 160, !.wave = "degraded", !.waveFirst = TRUE],
    [Quiet EXCEPT !.ratio = 70, !.depth = 145, !.roll = 65, !.wave = "energetic"],
    [Quiet EXCEPT !.roll = 0, !.expected = 0, !.depth = 72, !.short = 120, !.medium = 140],
    [Quiet EXCEPT !.ratio = 165, !.depth = 90, !.volume = 400],
    [Quiet EXCEPT !.based = FALSE, !.depthKnown = FALSE] }

(* Advisories: a rising and a falling market, a stressed one, states that    *)
(* cannot be used, layers that are not attached                              *)
Hft(valid, delta, bullish) == [on |-> TRUE, valid |-> valid, delta |-> delta, bullish |-> bullish]
Plain ==
  [asset |-> [vol |-> 20, drawdown |-> 5, trend |-> 20, smoothed |-> 20],
   volume |-> [malformed |-> FALSE, ratio |-> 130, before |-> 0, change |-> 2, vwap |-> 1, prev |-> -1,
               override |-> 0, etf |-> FALSE,
               hft |-> [on |-> FALSE, valid |-> FALSE, delta |-> 0, bullish |-> FALSE]],
   anomaly |-> [valid |-> TRUE, ratio |-> 300, thinning |-> 60, drop |-> 50, debounced |-> {"liquidity"}],
   macro |-> [attached |-> TRUE, base |-> 60, dampening |-> 99],
   stabilizer |-> [attached |-> TRUE, vol |-> 10, spread |-> 70, depth |-> 0, crashes |-> 0, regime |-> 0],
   contrarian |-> FALSE]
MCMarkets ==
  { Plain,
    [Plain EXCEPT !.asset.trend = -80, !.volume.change = -14, !.volume.vwap = -9, !.volume.ratio = 260,
                  !.macro.attached = FALSE, !.contrarian = TRUE],
    [Plain EXCEPT !.asset.vol = 90, !.stabilizer.vol = 100, !.stabilizer.depth = 90, !.stabilizer.regime = 80,
                  !.volume.etf = TRUE, !.volume.change = -8, !.volume.vwap = -6, !.volume.ratio = 500],
    [Plain EXCEPT !.volume.hft = Hft(TRUE, 60, TRUE), !.stabilizer.attached = FALSE, !.anomaly.valid = FALSE],
    [Plain EXCEPT !.volume.hft = Hft(FALSE, 0, FALSE), !.volume.override = 1],
    [Plain EXCEPT !.volume.malformed = TRUE, !.macro.base = 0] }
Quote(price, traded) == [price |-> price, high |-> 1000, low |-> 500, volume |-> traded, average |-> 10]
MCQuotes == {Quote(p, v) : p \in {691, 607, 1636, 900}, v \in {7, 12, 14}} \cup {[Quote(1, 1) EXCEPT !.low = 1000]}

(* The journal: one logger that meets every fault, two loggers whose         *)
(* processes do not die between the record and its row, a file system whose  *)
(* fsync does not reach the directory, a legacy CSV; and two that only race. *)
Deployed(who, faults, persists, legacy) ==
  [loggers |-> who, faults |-> faults, persists |-> persists, legacy |-> legacy]
MCLoggers == {"a", "b"}
MCDeployments ==
  { Deployed({"a"}, {"io", "csv", "kill", "power"}, TRUE, FALSE),
    Deployed({"a", "b"}, {"io", "power"}, TRUE, FALSE),
    Deployed({"a"}, {"csv", "power"}, FALSE, FALSE),
    Deployed({"a", "b"}, {"io", "kill"}, TRUE, TRUE) }
RaceDeployments == {Deployed({"a", "b"}, {"csv"}, TRUE, FALSE)}

(* The Python session: a caller that passes the defaults and one that runs  *)
(* ahead.                                                                   *)
Claimed(expected, processed, gaps, status) ==
  [expected |-> expected, processed |-> processed, gaps |-> gaps, status |-> status]
MCClaims == {Claimed(1, 0, 0, 0), Claimed(3, 1, 1, 1)}

-----------------------------------------------------------------------------
engineVars == vars

\* What varies in the initial states of another world does not.
Only(name, set) == IF world = name THEN set ELSE {CHOOSE x \in set : TRUE}

HostInit ==
  /\ world \in Worlds
  /\ config \in Only("engine", Configs)
  /\ counted \in Only("ring", BOOLEAN)
  /\ book \in Only("routing", Books)
  /\ portfolio \in Only("constraints", Portfolios)
  /\ stress \in Only("frames", Inputs13)
  /\ Init /\ RingInit /\ ExportInit /\ RegistryInit
  /\ RouteInit /\ ConstraintInit /\ FrameInit /\ ChartInit
  /\ market \in Only("advisories", Markets) /\ killed \in Only("advisories", BOOLEAN)
  /\ stateless \in Only("advisories", WithoutState)
  /\ AdvisoryInit
  /\ deployment \in Only("journal", Deployments) /\ AuditInit
  /\ enabled \in Only("tick", BOOLEAN) /\ account \in Only("tick", TickEquities) /\ TickInit
  /\ SessionInit

HostNext ==
  /\ UNCHANGED world
  /\ \/ world = "engine" /\ Next
     \/ world # "engine" /\ UNCHANGED engineVars
  /\ \/ world = "ring" /\ RingNext
     \/ world # "ring" /\ UNCHANGED ringVars
  /\ \/ world = "export" /\ ExportNext
     \/ world # "export" /\ UNCHANGED exportVars
  /\ \/ world = "registry" /\ RegistryNext
     \/ world # "registry" /\ UNCHANGED registryVars
  /\ \/ world = "routing" /\ RouteNext
     \/ world # "routing" /\ UNCHANGED routeVars
  /\ \/ world = "constraints" /\ ConstraintNext
     \/ world # "constraints" /\ UNCHANGED constraintVars
  /\ \/ world = "frames" /\ FrameNext
     \/ world # "frames" /\ UNCHANGED frameVars
  /\ \/ world = "charts" /\ ChartNext
     \/ world # "charts" /\ UNCHANGED chartVars
  /\ \/ world = "advisories" /\ AdvisoryNext
     \/ world # "advisories" /\ UNCHANGED advisoryVars
  /\ \/ world = "journal" /\ AuditNext
     \/ world # "journal" /\ UNCHANGED auditVars
  /\ \/ world = "tick" /\ TickNext
     \/ world # "tick" /\ UNCHANGED tickVars
  /\ \/ world = "session" /\ SessionNext
     \/ world # "session" /\ UNCHANGED sessionVars

HostSpec == HostInit /\ [][HostNext]_<<world, engineVars, ringVars, exportVars, registryVars,
                                       routeVars, constraintVars, frameVars, chartVars,
                                       advisoryVars, auditVars, tickVars, sessionVars>>
=============================================================================
