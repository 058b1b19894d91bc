----------------------------- MODULE Detection -----------------------------
(***************************************************************************)
(* The rules of detector/detect.py: what one reading of the traffic says   *)
(* of every cohort, how localise walks from the platform to the cohort an  *)
(* incident is reported on, and which cohorts build_watches warns about.   *)
(*                                                                         *)
(* The traffic is a sequence h of buckets, oldest first: Trailing buckets  *)
(* of baseline, then Window buckets under test. A bucket is a scenario,    *)
(* which gives each cell (a joint value of all dimensions) its counts, one *)
(* attempt per payment: n payments, ok of them approved, late the sum of   *)
(* their latencies and out the timeouts. Rates are in thousandths and a    *)
(* z-score is in tenths, rounded down.                                     *)
(***************************************************************************)
EXTENDS Integers, Sequences, FiniteSets, FiniteSetsExt, SequencesExt

CONSTANTS
  DimensionOrder,    \* the cohort dimensions, in the order of schema.DIMENSIONS
  PairOrder,         \* every <<dimension, value>>, in the order cohort_key joins them
  Cells,             \* the joint values traffic occurs on: [Dimension -> value]
  Scenario,          \* the conditions the platform can be in
  Traffic,           \* [Scenario -> [Cells -> what one bucket of it counts]]
  Window,            \* DETECT_WINDOW_BUCKETS
  Trailing,          \* BASELINE_TRAILING_BUCKETS
  NPaymentsMin,      \* N_PAYMENTS_MIN
  ShrinkagePrior,    \* SHRINKAGE_PRIOR_PAYMENTS
  VolumeBaselineMin  \* FORMING_VOLUME_BASELINE_MIN

Counts == [n : Nat, ok : Nat, late : Nat, out : Nat]

ASSUME DetectionAssumption ==
  /\ DimensionOrder \in Seq(STRING) /\ IsFiniteSet(Cells)
  /\ \A s \in Scenario, cell \in Cells : Traffic[s][cell] \in Counts
  /\ {Window, Trailing, ShrinkagePrior} \subseteq Nat \ {0}
  /\ {NPaymentsMin, VolumeBaselineMin} \subseteq Nat

\* config.py, in the units of this module.
ZMin == 30
AbsDropMin == 20
WatchZMax == -15
WatchDropMin == 30
MinSeparation == 100
NearTie == 20

-----------------------------------------------------------------------------
(* Cohorts *)

Dimension == ToSet(DimensionOrder)
Core      == {"merchant_id", "provider"}
Values(d) == {cell[d] : cell \in Cells}

\* A slice that holds traffic; the empty function is the platform.
Platform   == << >>
Cohort     == {Restrict(cell, D) : cell \in Cells, D \in SUBSET Dimension}
CellsOf(c) == {cell \in Cells : \A d \in DOMAIN c : cell[d] = c[d]}

\* Lexicographic order of two tuples of one length.
Before(a, b) == \E i \in DOMAIN a : a[i] < b[i] /\ \A j \in 1..(i - 1) : a[j] = b[j]

\* The place of a cohort among the cohort_keys: pairs are joined in order, and
\* a key sorts before those it is a prefix of.
CohortKey ==
  LET digits == [c \in Cohort |->
        LET held == SelectSeq(PairOrder, LAMBDA p : p[1] \in DOMAIN c /\ c[p[1]] = p[2])
        IN [i \in DOMAIN DimensionOrder |->
              IF i > Len(held) THEN 0 ELSE CHOOSE k \in DOMAIN PairOrder : PairOrder[k] = held[i]]]
  IN [c \in Cohort |-> Cardinality({x \in Cohort : Before(digits[x], digits[c])})]

IsSharpening(general, specific) ==
  \A d \in DOMAIN general : d \in DOMAIN specific /\ specific[d] = general[d]

CohortsCompatible(left, right) ==
  \A d \in DOMAIN left \cap DOMAIN right : left[d] = right[d]

CohortsSameEpisode(left, right) ==
  \/ IsSharpening(left, right) \/ IsSharpening(right, left)
  \/ left # Platform /\ right # Platform /\ CohortsCompatible(left, right)

\* (Mutant: only a dimension they agree on makes a slice contain the traffic.)
SharesValue(c, formed) == \E f \in formed : \E d \in DOMAIN c \cap DOMAIN f : f[d] = c[d]

\* `if not formed_cohort` holds of no incident and of a platform-wide one.
ContainsFormedTraffic(c, formed) ==
  /\ formed # {} /\ formed # {Platform}
  /\ \E f \in formed, d \in DOMAIN c : d \notin DOMAIN f \/ f[d] = c[d]

-----------------------------------------------------------------------------
(* One cohort against its baseline *)

\* payment_metrics and attempt_pressure of one bucket, and over several.
Nothing   == [n |-> 0, ok |-> 0, late |-> 0, out |-> 0]
Add(x, y) == [n |-> x.n + y.n, ok |-> x.ok + y.ok, late |-> x.late + y.late, out |-> x.out + y.out]
Total(counts, S) == FoldFunctionOnSet(Add, Nothing, counts, S)
Point     == [s \in Scenario |-> [c \in Cohort |-> Total(Traffic[s], CellsOf(c))]]
Measured(h, c) == Total([i \in DOMAIN h |-> Point[h[i]][c]], DOMAIN h)

Rate(part, whole) == (1000 * part) \div whole

\* baseline_conversion: the trailing rate, shrunk toward the platform's.
BaselineConversion(base, parent) ==
  (1000 * base.ok + ShrinkagePrior * Rate(parent.ok, parent.n)) \div (base.n + ShrinkagePrior)

\* two_proportion_z, in tenths; 0 where the code has None, for then the rates agree.
TwoProportionZ(actual, n, expected, m) ==
  LET pooled == (actual * n + expected * m) \div (n + m)
      d      == actual - expected
      square == (d * d * ((n * m) \div (n + m))) \div ((pooled * (1000 - pooled)) \div 100)
      root   == CHOOSE r \in 0..1000 : r * r <= square /\ square < (r + 1) * (r + 1)
  IN IF n <= 0 \/ m <= 0 \/ pooled <= 0 \/ pooled >= 1000 THEN 0
     ELSE IF d < 0 THEN -root ELSE root

Largest(a, b) == IF a > b THEN a ELSE b

NoMeasurement == [measured |-> FALSE, expected |-> 0, drop |-> 0, z |-> 0, qualifies |-> FALSE]

\* evaluate: the four floors. A cohort without payments has no measurement.
\* (Mutant: a deviation counts in either direction.)
Floors(expected, drop, z, n) ==
  [measured |-> TRUE, expected |-> expected, drop |-> drop, z |-> z,
   qualifies |-> z <= -ZMin /\ drop >= AbsDropMin /\ n >= NPaymentsMin]
DeviatesEitherWay(now, base, parent) ==
  LET expected == BaselineConversion(base, parent)
      actual   == Rate(now.ok, now.n)
      z        == TwoProportionZ(actual, now.n, expected, Largest(base.n, 1))
  IN IF now.n = 0 \/ parent.n = 0 THEN NoMeasurement
     ELSE Floors(expected, Largest(expected - actual, actual - expected), -Largest(z, -z), now.n)
Evaluate(now, base, parent) ==
  LET expected == BaselineConversion(base, parent)
      actual   == Rate(now.ok, now.n)
      z        == TwoProportionZ(actual, now.n, expected, Largest(base.n, 1))
  IN IF now.n = 0 \/ parent.n = 0 THEN NoMeasurement
     ELSE Floors(expected, expected - actual, z, now.n)

\* trajectory_of: 1 worsening, 0 flat, -1 recovering.
TrajectoryOf(rates) ==
  LET half    == Len(rates) \div 2
      sum(I)  == MapThenSumSet(LAMBDA i : rates[i], I)
      earlier == sum(1..half) \div half
      later   == sum(half + 1 .. Len(rates)) \div (Len(rates) - half)
  IN IF Len(rates) < 4 THEN 0
     ELSE CASE later < earlier - 10   -> 1
            [] later > earlier + 10   -> -1
            [] OTHER                  -> 0

\* _episode_extent: the first bucket of the run of degraded buckets, walked back
\* from the window only when its first bucket is already degraded. A bucket
\* without payments is no point of the series, so the walk passes over it.
EpisodeExtent(h, c, expected) ==
  LET point(b)    == Point[h[b]][c]
      measured    == {b \in DOMAIN h : point(b).n > 0}
      degraded    == {b \in measured : expected - Rate(point(b).ok, point(b).n) >= AbsDropMin}
      first       == Trailing + 1
      inside      == {b \in degraded : b >= first}
      healthy     == {b \in measured \ degraded : b < first}
      earlier     == {b \in degraded : b < first /\ \A k \in healthy : k < b}
      run         == IF first \in inside THEN inside \cup earlier ELSE inside
  IN IF inside = {} THEN [onset |-> first, sustained |-> 0]
     ELSE [onset |-> Min(run), sustained |-> Cardinality(run)]

-----------------------------------------------------------------------------
(* The signals that move before conversion does *)

Indicators == {"timeout_share", "mean_latency_ms", "volume_rate"}

\* leading_indicators: the strength of each signal (a rise in thousandths, a
\* ratio in hundredths) and those that are degraded. Latency and timeouts are
\* judged between windows of comparable traffic, a collapse on the baseline alone.
LeadingIndicators(now, base) ==
  LET known      == now.n > 0 /\ base.n > 0
      volume     == IF base.n = 0 THEN 0 ELSE (100 * now.n * Trailing) \div (Window * base.n)
      comparable == now.n >= NPaymentsMin /\ volume \in 50..200
      timeout    == IF known THEN Rate(now.out, now.n) - Rate(base.out, base.n) ELSE 0
      slow       == known /\ base.late >= 50 * base.n
      latency    == IF slow THEN (100 * (now.late \div now.n)) \div (base.late \div base.n) ELSE 0
  IN [strength |-> [timeout_share |-> timeout, mean_latency_ms |-> latency, volume_rate |-> volume],
      degraded |-> {i \in Indicators :
        CASE i = "timeout_share"   -> comparable /\ timeout >= 50
          [] i = "mean_latency_ms" -> comparable /\ latency >= 200
          [] i = "volume_rate"     -> base.n >= Largest(VolumeBaselineMin, 1) /\ volume < 25}]

\* watch_floors: the near miss, sustained (half a sigma further) or worsening.
WatchFloors(e, n, trajectory) ==
  /\ e.measured /\ ~e.qualifies /\ n >= NPaymentsMin
  /\ e.z <= WatchZMax /\ e.drop >= WatchDropMin
  /\ trajectory = 1 \/ (trajectory = 0 /\ e.z <= WatchZMax - 5)

\* Everything a sweep reads of one cohort (_watch_entry), of its window and of the
\* trailing buckets; the key its cohort is sorted by goes with it.
ReadingOf(c, n, e, trajectory, signals) ==
  [cohort |-> c, key |-> CohortKey[c], n |-> n, measured |-> e.measured, drop |-> e.drop,
   z |-> e.z, expected |-> e.expected, qualifies |-> e.qualifies,
   near |-> WatchFloors(e, n, trajectory),
   degraded |-> IF e.qualifies THEN {} ELSE signals.degraded,
   strength |-> signals.strength]

Reading(window, trailing, c) ==
  LET now    == Measured(window, c)
      base   == Measured(trailing, c)
      series == SelectSeq(window, LAMBDA s : Point[s][c].n > 0)
      rates  == [i \in DOMAIN series |-> Rate(Point[series[i]][c].ok, Point[series[i]][c].n)]
  IN ReadingOf(c, now.n, Evaluate(now, base, Measured(trailing, Platform)),
               TrajectoryOf(rates), LeadingIndicators(now, base))

Readings(h) ==
  LET trailing == [i \in 1..Trailing |-> h[i]]
      window   == [i \in 1..Window |-> h[Trailing + i]]
  IN {Reading(window, trailing, c) : c \in Cohort}
HasReason(r) == r.near \/ r.degraded # {}

-----------------------------------------------------------------------------
(* localise *)

\* The children of a cohort on one dimension that have enough payments to compare.
Siblings(R, c, d) ==
  {r \in R : /\ DOMAIN r.cohort = DOMAIN c \cup {d} /\ IsSharpening(c, r.cohort)
             /\ r.measured /\ r.n >= NPaymentsMin}

AxisRank(d) == CASE d = "merchant_id" -> 0 [] d = "provider" -> 1 [] OTHER -> 2
AxisOf(c, child) == CHOOSE d \in DOMAIN child.cohort : d \notin DOMAIN c

\* Sorted by (-absolute_drop, cohort_key); the first of a set, if it has one.
Steeper(a, b) == a.drop > b.drop \/ (a.drop = b.drop /\ a.key < b.key)
Sharpest(S)   == {a \in S : \A b \in S \ {a} : Steeper(a, b)}
Steepest(S)   == CHOOSE a \in Sharpest(S) : TRUE

Lead(S, first) == first.drop - Steepest(S \ {first}).drop
Separation(S)  == Lead(S, Steepest(S))

\* The best contrast among the dimensions, taken in order: a merchant or a
\* provider wins a tie or a near tie.
BestSplit(R, c) ==
  LET corePlatform  == DOMAIN c \cap Core = {}
      contrasts(d)  == /\ d \notin DOMAIN c /\ Cardinality(Siblings(R, c, d)) >= 2
                       /\ corePlatform => d \in Core
      split(d)      == [separation |-> Separation(Siblings(R, c, d)), axis |-> AxisRank(d),
                        winner |-> Steepest(Siblings(R, c, d))]
      better(s, best) == \/ s.separation > best.separation
                         \/ s.axis < best.axis /\ s.separation + NearTie >= best.separation
  IN FoldLeft(LAMBDA best, d : IF best = {} THEN {split(d)}
                               ELSE {IF better(split(d), b) THEN split(d) ELSE b : b \in best},
              {}, SelectSeq(DimensionOrder, contrasts))

\* Those of a set of readings that have no rival of it among their siblings, of the
\* core dimensions only when neither a merchant nor a provider is named yet.
UniqueChildren(R, c, rivals) ==
  {r \in UNION {S \in {Siblings(R, c, d) \cap rivals : d \in Dimension \ DOMAIN c} :
                  Cardinality(S) = 1} :
     DOMAIN c \cap Core = {} => AxisOf(c, r) \in Core}

ByAxis(c, S) ==
  LET rank(r) == AxisRank(AxisOf(c, r))
      first   == {r \in S : \A x \in S : rank(r) <= rank(x)}
  IN Sharpest(first)

NearMissChild(r) == ~r.qualifies /\ r.z <= WatchZMax /\ r.drop >= WatchDropMin

\* The first of these that is not empty.
FirstOf(S, T) == IF S # {} THEN S ELSE T

\* Under a provider, the merchant that alone qualifies and is at least as deep.
Sharper(merchants, parent) ==
  IF DOMAIN parent.cohort \cap Core = {"provider"} /\ Cardinality(merchants) >= 2
     /\ Cardinality({r \in merchants : r.qualifies}) = 1
  THEN {r \in merchants : r.qualifies /\ r.drop >= parent.drop} ELSE {}

\* The qualifying children that have no sibling left to be compared with.
Singletons(R, c) ==
  UNION {{r \in S : r.qualifies /\ S = {r}} :
          S \in {Siblings(R, c, d) : d \in {x \in Dimension \ DOMAIN c : Cardinality(Values(x)) > 1}}}

\* One descent: the child that replaces the end of the path, or none.
Descent(R, parent) ==
  LET c         == parent.cohort
      contrast  == {r \in R : \E b \in BestSplit(R, c) : b.separation >= MinSeparation /\ r = b.winner}
      qualified == ByAxis(c, UniqueChildren(R, c, {r \in R : r.qualifies}))
      nearMiss  == ByAxis(c, {r \in UniqueChildren(R, c, {x \in R : NearMissChild(x) \/ x.qualifies}) :
                               NearMissChild(r)})
      sharper   == Sharper(Siblings(R, c, "merchant_id"), parent)
  IN FirstOf(contrast, IF parent.qualifies THEN FirstOf(sharper, Sharpest(Singletons(R, c)))
                       ELSE FirstOf(qualified, nearMiss))

\* The path of LOCALISE_MAX_DEPTH = 3 descents from the platform, its end first; a
\* path that ends sooner stays where it is.
Deeper(R, S) == UNION {FirstOf(Descent(R, r), {r}) : r \in S}
Localise(R) ==
  LET p == {r \in R : r.cohort = Platform}
  IN LET q == Deeper(R, p) IN LET s == Deeper(R, q) IN <<Deeper(R, s), s, q, p>>

\* build_incident: the last step of the path that qualifies, if any.
Qualified(S)     == {r \in S : r.qualifies}
BuildIncident(R) ==
  LET path == Localise(R)
  IN FirstOf(Qualified(path[1]), FirstOf(Qualified(path[2]),
             FirstOf(Qualified(path[3]), Qualified(path[4]))))

-----------------------------------------------------------------------------
(* build_watches *)

\* _watch_candidates: a value earns a warning when not all its siblings do.
WatchCandidates(R, formed) ==
  LET eligible(d) == {r \in R : DOMAIN r.cohort = {d} /\ ~ContainsFormedTraffic(r.cohort, formed)}
      told(d)     == {r \in eligible(d) : HasReason(r)}
      localised   == UNION {told(d) : d \in {x \in Dimension :
                              Cardinality(Values(x)) >= 2 /\ told(x) # eligible(x)}}
  IN IF localised = {} /\ (formed = {} \/ formed = {Platform})
     THEN {r \in R : r.cohort = Platform /\ HasReason(r)} ELSE localised

\* The dimensions a near miss may still be deepened on.
OpenAxes(c) ==
  CASE Core \subseteq DOMAIN c              -> {}
    [] DOMAIN c \cap Core = {"provider"}    -> {"merchant_id"}
    [] DOMAIN c \cap Core = {"merchant_id"} -> {"provider"}
    [] OTHER                                -> Dimension \ DOMAIN c

MerchantBonus(d) == IF d = "merchant_id" THEN 50 ELSE 0

\* The widest contrast on a dimension: it stands out by enough, is a near miss
\* itself and hardly weaker than its parent.
Contrast(d, S, parent) ==
  {[axis |-> d, score |-> Lead(S, widest) + MerchantBonus(d), child |-> widest] :
     widest \in {x \in Sharpest(S) : /\ Lead(S, x) >= MinSeparation
                                     /\ x.near /\ x.z <= parent.z + 2}}

\* The one near miss of a dimension, if it holds nine tenths of its parent's drop.
Undiluted(d, S, parent) ==
  {[axis |-> d, score |-> r.drop + MerchantBonus(d), child |-> r] :
     r \in {x \in S : /\ {y \in S : y.near} = {x}
                      /\ 10 * x.drop >= 9 * parent.drop
                      /\ \A y \in S : y.drop <= x.drop}}

\* The highest score, the first dimension of a tie.
BestChild(S) ==
  LET place(d) == CHOOSE i \in DOMAIN DimensionOrder : DimensionOrder[i] = d
  IN {x.child : x \in {x \in S : \A y \in S \ {x} :
       x.score > y.score \/ (x.score = y.score /\ place(x.axis) < place(y.axis))}}

\* _deepen_near_miss_entry, one descent: a contrast, else an undiluted near miss.
Deepen(R, parent) ==
  LET c        == parent.cohort
      wide     == {p \in {<<d, Siblings(R, c, d)>> : d \in OpenAxes(c)} : Cardinality(p[2]) >= 2}
      contrast == UNION {Contrast(p[1], p[2], parent) : p \in wide}
      holding  == UNION {Undiluted(p[1], p[2], parent) : p \in wide}
  IN CHOOSE child \in FirstOf(BestChild(contrast), FirstOf(BestChild(holding), {parent})) : TRUE

\* The strongest of the near misses: the lowest z, one that names a merchant, one
\* that names a provider, the first key.
Strongest(near) ==
  LET missing(r, d) == IF d \in DOMAIN r.cohort THEN 0 ELSE 1
      rank(r) == <<r.z, missing(r, "merchant_id"), missing(r, "provider"), r.key>>
  IN {r \in near : \A x \in near \ {r} : Before(rank(r), rank(x))}

\* _select_conversion_near_miss: the single-axis near misses and the diluted
\* providers, deepened, brought back to merchant and provider, the strongest kept.
SelectNearMiss(R, candidates, formed) ==
  LET diluted == {r \in R : /\ DOMAIN r.cohort = {"provider"} /\ ~r.near /\ ~r.qualifies
                            /\ r.drop >= WatchDropMin /\ r.n >= NPaymentsMin /\ r.z <= -10}
      seeds   == {r \in {x \in candidates : x.near} \cup diluted :
                    ~ContainsFormedTraffic(r.cohort, formed)}
      deepest(r) == LET p == Deepen(R, r) IN LET q == Deepen(R, p) IN Deepen(R, q)
      core(r) == IF Core \subseteq DOMAIN r.cohort
                 THEN {x \in R : x.cohort = Restrict(r.cohort, Core)} ELSE {r}
  IN Strongest({r \in UNION {core(deepest(s)) : s \in seeds} : r.near})

\* The one holder of a degraded signal that is most extreme in it.
MostExtreme(i, holders) ==
  LET worse(a, b, up) == IF a.strength[i] = b.strength[i] THEN up = (a.key > b.key)
                         ELSE up = (a.strength[i] > b.strength[i])
  IN {r \in holders : \A x \in holders \ {r} : worse(r, x, i # "volume_rate")}

\* A reading whose conversion holds and whose latency is hardly up.
Noise(r) == /\ ~r.near /\ r.z > 10
            /\ r.degraded \subseteq {"mean_latency_ms"}
            /\ r.strength["mean_latency_ms"] < 300

\* The near miss, and for each degraded signal the one cohort it is most extreme
\* in, unless that cohort and the near miss are slices of one another.
WatchesAmong(candidates, nearMiss) ==
  LET related(r) == \E m \in nearMiss : \/ IsSharpening(m.cohort, r.cohort)
                                         \/ IsSharpening(r.cohort, m.cohort)
      extreme == UNION {MostExtreme(i, {r \in candidates : i \in r.degraded /\ ~related(r)}) :
                          i \in Indicators}
  IN {r \in nearMiss \cup extreme : ~Noise(r)}

WatchesFrom(R, candidates, formed) == WatchesAmong(candidates, SelectNearMiss(R, candidates, formed))
BuildWatches(R, formed) == WatchesFrom(R, WatchCandidates(R, formed), formed)
=============================================================================
