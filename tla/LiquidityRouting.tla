-------------------------- MODULE LiquidityRouting --------------------------
(***************************************************************************)
(* Layer 9, route_liquidity (extensions/aille_routing.cpp): surplus of an   *)
(* asset flows to the primary or the fallback target of its rule, and the   *)
(* flows are scaled into the shock bounds.  Ratios are in Units; a product  *)
(* is rounded down. What the code finds by the first match of a list is a   *)
(* function here, with the code's value where nothing matches. The trace is *)
(* left out.                                                                *)
(***************************************************************************)
EXTENDS Integers, Sequences, FiniteSetsExt, Functions

CONSTANTS Assets,      \* asset ids
          RouteUnit,   \* 1.0
          Books        \* the arguments of a call, as records

\* A book: order is the sequence of liquidity states; value, alloc, frozen,
\* target, outflow, inflow, rule and share are what the five arguments say of
\* each asset (rule: primary and fallback, or <<>> if there is none); shift and
\* total are the two shock bounds. The call throws unless every ratio is one and
\* no value is negative.
Ratios == 0 .. RouteUnit

ASSUME RouteAssumption ==
    /\ RouteUnit \in Nat \ {0}
    /\ \A b \in Books :
         /\ b.order \in Seq(Assets) /\ IsInjective(b.order)
         /\ b.value \in [Assets -> Nat]
         /\ b.frozen \in [Assets -> BOOLEAN]
         /\ {b.alloc, b.target, b.outflow, b.inflow, b.share} \subseteq [Assets -> Ratios]
         /\ b.rule \in [Assets -> {<<>>} \cup (Assets \X Assets)]
         /\ {b.shift, b.total} \subseteq Ratios

VARIABLES book,      \* the arguments
          considered,\* assets whose surplus has been routed
          taken,     \* target_inflows
          flows,     \* proposed_flows: where its one flow takes a source's surplus
          stage      \* "route", "scale", "done"

routeVars == <<book, considered, taken, flows, stage>>

Known == Range(book.order)
PortfolioValue == SumFunctionOnSet(book.value, Known)
Share(amount, ratio) == (amount * ratio) \div RouteUnit

RouteInit ==
    /\ book \in Books
    /\ considered = 0
    /\ taken = [a \in Assets |-> 0]
    /\ flows = <<>>
    /\ stage = IF PortfolioValue > 0 THEN "route" ELSE "done"

\* Surplus over the target, up to the outflow cap.
Movable(a) ==
    LET surplus == Max({0, book.alloc[a] - book.target[a]})
    IN  Min({Share(PortfolioValue, surplus), Share(book.value[a], book.outflow[a])})

\* Mutant: the inflow cap is held against each flow alone.
IsBlockedAlone(target, amount) ==
    \/ target \notin Known
    \/ book.frozen[target]
    \/ amount > Share(book.value[target], book.inflow[target])

\* is_blocked: absent, frozen, or full with what already flows there.
IsBlocked(target, amount) ==
    \/ target \notin Known
    \/ book.frozen[target]
    \/ taken[target] + amount > Share(book.value[target], book.inflow[target])

\* One turn of the loop over the states. A rule may name its own source, which
\* then keeps the surplus.
RouteNext1 ==
    /\ stage = "route" /\ considered < Len(book.order)
    /\ considered' = considered + 1
    /\ LET a == book.order[considered + 1]
           desired == Share(Movable(a), book.share[a])
           open == {i \in {1, 2} : ~IsBlocked(book.rule[a][i], desired)}
           target == book.rule[a][Min(open)]
       IN  IF book.rule[a] = <<>> \/ desired <= 0 \/ open = {} \/ target = a
             THEN UNCHANGED <<taken, flows>>
             ELSE /\ taken' = [taken EXCEPT ![target] = @ + desired]
                  /\ flows' = [b \in DOMAIN flows \cup {a} |->
                                 IF b = a THEN [to |-> target, amount |-> desired] ELSE flows[b]]
    /\ UNCHANGED <<book, stage>>

\* What these sources send; what flows to an asset; what all flows do to it, and
\* how much they may do.
Total(fs, sources) == SumFunctionOnSet([a \in DOMAIN fs |-> fs[a].amount], sources)
Into(fs, a) == {b \in DOMAIN fs : fs[b].to = a}
Net(fs, a) == Total(fs, Into(fs, a)) - (IF a \in DOMAIN fs THEN fs[a].amount ELSE 0)
Size(n) == IF n < 0 THEN -n ELSE n
Allowed(a) == Share(book.value[a], book.shift)

\* A flow's amount within the bound of one of its assets.
Clamped(amount, a) ==
    IF Size(Net(flows, a)) > Allowed(a) THEN (amount * Allowed(a)) \div Size(Net(flows, a)) ELSE amount

\* Every flow is scaled by the lower factor of its two assets, which comes from
\* the net flows before any scaling.
ClampAssets ==
    /\ stage = "route" /\ considered = Len(book.order)
    /\ flows' = [a \in DOMAIN flows |->
                   [flows[a] EXCEPT !.amount = Min({Clamped(@, a), Clamped(@, flows[a].to)})]]
    /\ stage' = "scale"
    /\ UNCHANGED <<book, considered, taken>>

Shift(fs) == Total(fs, DOMAIN fs)
AllowedShift == Share(PortfolioValue, book.total)
Remaining(amount) ==
    IF Shift(flows) > AllowedShift THEN (amount * AllowedShift) \div Shift(flows) ELSE amount

\* All flows are scaled into the portfolio's bound; those that vanish are dropped.
ScalePortfolio ==
    /\ stage = "scale"
    /\ flows' = [a \in {b \in DOMAIN flows : Remaining(flows[b].amount) > 0} |->
                   [flows[a] EXCEPT !.amount = Remaining(@)]]
    /\ stage' = "done"
    /\ UNCHANGED <<book, considered, taken>>

RouteNext == RouteNext1 \/ ClampAssets \/ ScalePortfolio

-----------------------------------------------------------------------------
\* Whatever order the assets are routed in, the result moves no more than the
\* portfolio may shift, gives no asset more than its inflow cap allows of all
\* flows together, takes from none more than its surplus and its outflow cap,
\* and sends nothing to what is frozen or unknown (aille_routing.cpp:189, :312).
RoutingWithinLimits ==
    stage = "done" =>
        /\ Shift(flows) <= AllowedShift
        /\ \A a \in DOMAIN flows :
             /\ a \in Known /\ flows[a].amount \in 1 .. Movable(a)
             /\ flows[a].to \in Known \ {a} /\ ~book.frozen[flows[a].to]
        /\ \A a \in Known : Total(flows, Into(flows, a)) <= Share(book.value[a], book.inflow[a])

\* The documentation: net changes to any asset are capped to the maximum
\* individual asset shift per step
\* (docs/architecture/9.0.0_deterministic_liquidity_routing.md:139).
AssetShiftBounded == stage = "done" => \A a \in Known : Size(Net(flows, a)) <= Allowed(a)
=============================================================================
