------------------------------- MODULE WorldState -------------------------------
(***************************************************************************)
(* The state of the world as of a day, from cached official series: what a *)
(* customer twin or a backtest may know of prices, income and sentiment.   *)
(*                                                                         *)
(* The statistical offices publish an observation a day here and may       *)
(* revise one afterwards.  A script copies the series to the cache, which  *)
(* the provider reads anew at every request, while retrieved_at is the day *)
(* the provider was made.  Of the transforms of a series the level and the *)
(* two differences are kept; the other two are functions of the same       *)
(* values.  Weights of an exposure are whole parts.                        *)
(***************************************************************************)
EXTENDS Integers, FiniteSets, FiniteSetsExt, Functions

CONSTANTS
    Definitions,    \* records id, family, geography, level, lag, vintage_safe, period_lag, from
    RegionOf,       \* the census region of a geography
    Requested,      \* geographies a caller asks for
    Exposures,      \* sets of <<geography, weight>>
    Observations,   \* what the offices may observe on a day: a value of every series
    Year,           \* days of a year (365)
    FinalDay

WorldDays == 0..FinalDay
SeriesIds == {d.id : d \in Definitions}
SignalFamilies == {d.family : d \in Definitions}
NoRevision == [series |-> "none"]
NoState == [kind |-> "none"]

ASSUME WorldAssumption ==
    /\ \A d \in Definitions : d.lag \in Nat /\ d.period_lag \in Nat \ {0} /\ d.from \in Nat
    /\ \A d, e \in Definitions : d.id = e.id => d = e
    /\ \A values \in Observations : values \in [SeriesIds -> Int]
    /\ \A exposure \in Exposures : IsFiniteSet(exposure) /\ \A w \in exposure : w[2] \in Nat \ {0}
    /\ Year \in Nat /\ FinalDay \in Nat

VARIABLES
    day,
    published,      \* by series and day, the value that was published first
    revision,       \* the one that was revised since
    cached,         \* the last day in the cache, and the revision it has
    retrieved_at,   \* the day the provider was made
    world          \* what the last request returned

worldVars == <<day, published, revision, cached, retrieved_at, world>>

WorldTypeOK ==
    /\ day \in WorldDays
    /\ DOMAIN published = SeriesIds \X (0..day)
    /\ revision = NoRevision \/ (revision.series \in SeriesIds /\ revision.period <= revision.on /\ revision.on <= day)
    /\ cached.upto \in 0..day /\ cached.revision \in {NoRevision, revision}
    /\ retrieved_at \in 0..day
    /\ world.kind \in {"none", "state", "exposure"}

WorldInit ==
    /\ day = 0
    /\ \E values \in Observations : published = [x \in SeriesIds \X {0} |-> values[x[1]]]
    /\ revision = NoRevision
    /\ cached = [upto |-> 0, revision |-> NoRevision]
    /\ retrieved_at = 0
    /\ world = NoState

-------------------------------------------------------------------------------
(* The world, the script and the process.                                  *)

NextDay ==
    /\ day < FinalDay
    /\ day' = day + 1
    /\ \E values \in Observations :
           published' = [x \in SeriesIds \X (0..(day + 1)) |->
                            IF x[2] <= day THEN published[x] ELSE values[x[1]]]
    /\ UNCHANGED <<revision, cached, retrieved_at, world>>

\* LATEST_REVISED: what is vintage-safe is not revised.
Revise(d, period) ==
    /\ revision = NoRevision
    /\ ~d.vintage_safe
    /\ revision' = [series |-> d.id, period |-> period, on |-> day, value |-> 1 - published[d.id, period]]
    /\ UNCHANGED <<day, published, cached, retrieved_at, world>>

RefreshCache ==
    /\ cached' = [upto |-> day, revision |-> revision]
    /\ UNCHANGED <<day, published, revision, retrieved_at, world>>

MakeProvider ==
    /\ retrieved_at' = day
    /\ UNCHANGED <<day, published, revision, cached, world>>

-------------------------------------------------------------------------------
(* A request.                                                              *)

\* _resolve: the series of the geography itself, of its region, or of the nation.
ResolveSeries(family, geography) ==
    LET of(g) == {d \in Definitions : d.family = family /\ d.geography = g}
        national == {d \in Definitions : d.family = family /\ d.level = "NATIONAL"}
    IN  IF of(geography) # {} THEN of(geography)
        ELSE IF of(RegionOf[geography]) # {} THEN of(RegionOf[geography]) ELSE national

\* _load: the rows of the cached file, each with the day it counts as available from.
Value(d, period) ==
    IF cached.revision # NoRevision /\ cached.revision.series = d.id /\ cached.revision.period = period
    THEN cached.revision.value ELSE published[d.id, period]

AvailableAt(d, period) == period + d.lag

\* Mutant: a row counts from the period it observes.
HistoryByPeriod(d, as_of) == {p \in d.from..cached.upto : p <= as_of}

History(d, as_of) == {p \in d.from..cached.upto : AvailableAt(d, p) <= as_of}

\* Outside vintage-safe series nothing is said of a day more than a year before the provider.
Testable(d, as_of) == as_of < retrieved_at - Year => d.vintage_safe

Usable(family, geography, as_of) ==
    {d \in ResolveSeries(family, geography) : Testable(d, as_of) /\ History(d, as_of) # {}}

\* _signals_from_history: the differences are to the observation before, and to the one period_lag
\* observations before.
Signal(d, as_of) ==
    LET latest == Max(History(d, as_of))
        change(lag) == IF latest - lag \in History(d, as_of)
                       THEN Value(d, latest) - Value(d, latest - lag) ELSE 0
    IN  [series |-> d.id, geography |-> d.geography, period |-> latest,
         level |-> Value(d, latest), short_delta |-> change(1), yoy_delta |-> change(d.period_lag)]

\* get_state: the signals by family; the other families are listed as unavailable.
StateOf(as_of, geography) ==
    [family \in {f \in SignalFamilies : Usable(f, geography, as_of) # {}} |->
        Signal(CHOOSE d \in Usable(family, geography, as_of) : TRUE, as_of)]

GetState(as_of, geography) ==
    /\ world = NoState
    /\ world' = [kind |-> "state", as_of |-> as_of, geography |-> geography,
                  signals |-> StateOf(as_of, geography),
                  retrieved |-> retrieved_at, cached |-> cached]
    /\ UNCHANGED <<day, published, revision, cached, retrieved_at>>

Parts(exposure) == SumFunctionOnSet([w \in exposure |-> w[2]], exposure)

\* get_exposure_state: a national signal once, the others weighted over the geographies that have one.
ExposureLevel(as_of, exposure, family) ==
    LET entries == {w \in exposure : family \in DOMAIN StateOf(as_of, w[1])}
        signal(w) == StateOf(as_of, w[1])[family]
    IN  IF {signal(w).geography : w \in entries} = {"US"}
        THEN Parts(exposure) * signal(CHOOSE w \in entries : TRUE).level
        ELSE SumFunctionOnSet([w \in entries |-> w[2] * signal(w).level], entries)

GetExposureState(as_of, exposure) ==
    /\ world = NoState
    /\ LET families == UNION {DOMAIN StateOf(as_of, w[1]) : w \in exposure} IN
       world' = [kind |-> "exposure", as_of |-> as_of, exposure |-> exposure,
                  levels |-> [f \in families |-> ExposureLevel(as_of, exposure, f)],
                  states |-> [g \in {w[1] : w \in exposure} |-> StateOf(as_of, g)],
                  retrieved |-> retrieved_at, cached |-> cached]
    /\ UNCHANGED <<day, published, revision, cached, retrieved_at>>

EndState ==
    /\ world # NoState
    /\ world' = NoState
    /\ UNCHANGED <<day, published, revision, cached, retrieved_at>>

WorldNext ==
    \/ NextDay \/ RefreshCache \/ MakeProvider \/ EndState
    \/ \E d \in Definitions : \E period \in d.from..day : Revise(d, period)
    \/ \E as_of \in 0..day : \/ \E g \in Requested : GetState(as_of, g)
                             \/ \E exposure \in Exposures : GetExposureState(as_of, exposure)

WorldSpec == WorldInit /\ [][WorldNext]_worldVars

-------------------------------------------------------------------------------
(* Property.                                                               *)

\* What the offices had said of a period by a day.
SaidOf(series, period, by) ==
    IF revision # NoRevision /\ revision.series = series /\ revision.period = period /\ revision.on <= by
    THEN revision.value ELSE published[series, period]

Shown ==
    CASE world.kind = "state" -> {world.signals[f] : f \in DOMAIN world.signals}
      [] world.kind = "exposure" ->
             UNION {{world.states[g][f] : f \in DOMAIN world.states[g]} : g \in DOMAIN world.states}
      [] OTHER -> {}

\* A state of the world holds nothing that was not known on its day: the newest observation that
\* was available by then and is in the cache and, for a day more than a year before the provider
\* was made, the value the offices had given it by that day, however they revised it and whenever
\* the cache was refreshed.  Over several geographies the level is a weighted mean of theirs, except
\* where the own series of one of them does not reach back.
WorldAsItWasKnown ==
    /\ \A s \in Shown :
        LET d == CHOOSE d \in Definitions : d.id = s.series IN
        /\ s.period + d.lag <= world.as_of
        /\ s.period = world.cached.upto \/ s.period + d.lag = world.as_of
        /\ world.as_of < world.retrieved - Year =>
               /\ s.level = SaidOf(s.series, s.period, world.as_of)
               /\ s.short_delta # 0 => s.level - s.short_delta = SaidOf(s.series, s.period - 1, world.as_of)
    /\ world.kind = "exposure" =>
        \A f \in DOMAIN world.levels :
            (\A g \in DOMAIN world.states : f \in DOMAIN world.states[g]) =>
                LET levels == {world.states[g][f].level : g \in DOMAIN world.states} IN
                /\ Min(levels) * Parts(world.exposure) <= world.levels[f]
                /\ world.levels[f] <= Max(levels) * Parts(world.exposure)

===============================================================================
