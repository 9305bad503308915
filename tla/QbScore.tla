------------------------------- MODULE QbScore ------------------------------
(***************************************************************************)
(* The era-adjusted quarterback score (cfb_strength/players/qb_score.py):  *)
(* every qualifying regular season judged against that season's qualifying *)
(* quarterbacks, a career that sums the seasons and a peak that averages   *)
(* the best of them.                                                       *)
(*                                                                         *)
(* Rates are in thousandths.  Half the range of a season's rates stands    *)
(* for their standard deviation, which it is with two quarterbacks; a z is *)
(* in thousandths.  Scores are kept over the peak's number of seasons, so  *)
(* that its average stays whole: Printed rounds both alike.                *)
(***************************************************************************)
EXTENDS PlayerFacts

CONSTANTS QB_SCORE_MIN_DROPBACKS, QB_SCORE_PEAK_SEASONS,
          QB_SCORE_WEIGHTS       \* a weight in hundredths for each metric

Metrics == {"epa_per_dropback", "rush_epa_per_play"}
ASSUME ScoreAssumption ==
    /\ None \notin Int
    /\ QB_SCORE_MIN_DROPBACKS \in Nat \ {0}
    /\ QB_SCORE_PEAK_SEASONS \in Nat \ {0}
    /\ QB_SCORE_WEIGHTS \in [Metrics -> Int]

Sum(f, S) == MapThenSumSet(LAMBDA s : f[s], S)
Or0(x) == IF x = None THEN 0 ELSE x
Dropbacks(r) == Or0(r.attempts) + Or0(r.sacks)
IsQb(db, p) == \E q \in db.players : q.id = p /\ q.group = "QB"
QbRows(db) == {r \in db.rows : r.type = "regular" /\ IsQb(db, r.player)}
Qualifies(r) == Dropbacks(r) >= QB_SCORE_MIN_DROPBACKS

OwnRows(db, p) == {r \in QbRows(db) : r.player = p}
\* _BASELINE_ROWS_SQL: the qualifying rows of the seasons he has a row in.
BaselineRows(db, p) ==
    {r \in QbRows(db) : Qualifies(r) /\ \E own \in OwnRows(db, p) : own.season = r.season}

\* _row: a qualifying row without its EPA is refused.
Broken(r) == Qualifies(r) /\ None \in {r.passing_epa, r.rushing_epa}
ScoreFails(db, p) == \E r \in OwnRows(db, p) \cup BaselineRows(db, p) : Broken(r)

Rate(r, metric) ==
    IF metric = "epa_per_dropback" THEN (1000 * r.passing_epa) \div Dropbacks(r)
    ELSE (1000 * r.rushing_epa) \div (Dropbacks(r) + Or0(r.carries))

\* _Baseline.z over one season's rows; no spread makes everybody average.
Z(r, metric, season) ==
    LET rates == {Rate(x, metric) : x \in season}
        n == Cardinality(season)
        sum == Sum([x \in season |-> Rate(x, metric)], season)
        spread == Max(rates) - Min(rates)
    IN  IF spread = 0 THEN 0 ELSE (2000 * (n * Rate(r, metric) - sum)) \div (n * spread)
Composite(r, season) ==
    Sum([m \in Metrics |-> QB_SCORE_WEIGHTS[m] * Z(r, m, season)], Metrics) \div 100

Composites(db, p) ==
    LET scored == {r \in OwnRows(db, p) : Qualifies(r)}
        of(r) == Composite(r, {x \in BaselineRows(db, p) : x.season = r.season})
    IN  [s \in {r.season : r \in scored} |-> of(CHOOSE r \in scored : r.season = s)]

\* The best seasons, the earlier of two alike.
PeakSeasons(composites) ==
    {s \in DOMAIN composites :
        Cardinality({t \in DOMAIN composites :
            \/ composites[t] > composites[s]
            \/ composites[t] = composites[s] /\ t < s}) < QB_SCORE_PEAK_SEASONS}

\* get_qb_score; missing peak seasons are filled with zeros.
Score(db, p) ==
    LET composites == Composites(db, p) IN
    [qualifying_seasons |-> Cardinality(DOMAIN composites),
     career |-> IF composites = <<>> THEN None
                ELSE QB_SCORE_PEAK_SEASONS * Sum(composites, DOMAIN composites),
     peak |-> IF composites = <<>> THEN None ELSE Sum(composites, PeakSeasons(composites))]

\* get_qb_score_comparison: one side's score against the other's.
Winner(x, y) == IF None \in {x, y} \/ x = y THEN None ELSE IF x > y THEN "a" ELSE "b"
Inconclusive(score) == \E side \in DOMAIN score : score[side].qualifying_seasons = 0
=============================================================================
