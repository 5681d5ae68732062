-------------------------- MODULE DetectionScoring --------------------------
(***************************************************************************)
(* DetectionEngine.evaluate_all: each detection model is evaluated against *)
(* the rows of its query, each row into one AlertTrace, calculation by     *)
(* calculation.  The score steps and the score threshold are settings that *)
(* SettingsResolver resolves for the context of the row; the engine reads  *)
(* their files anew for every row and every calculation, while users save  *)
(* and reset them.                                                         *)
(***************************************************************************)
EXTENDS Integers, Sequences, FiniteSets

CONSTANTS
  Models,    \* the detection models, in the order they are listed
  Shipped,   \* setting -> its out-of-box definition
  Saveable,  \* setting -> the definitions users save
  Queries,   \* the answers that the models' queries may have: model -> rows
  MaxSaves   \* bound: how many times a setting is saved or reset

Settings == DOMAIN Shipped
Definitions(id) == Saveable[id] \cup {Shipped[id]}
Values(s) == {s.default} \cup {s.overrides[i].value : i \in DOMAIN s.overrides}
AtMostOne(X) == \A x, y \in X : x = y

ASSUME EveryModelHasSettings ==
  \A k \in DOMAIN Models :
    /\ Models[k].threshold \in Settings
    /\ \A i \in DOMAIN Models[k].calcs :
         LET steps == Models[k].calcs[i].steps  \* the setting with its score steps, if there is one
         IN steps \subseteq Settings /\ AtMostOne(steps)
ASSUME Lists ==
  /\ DOMAIN Models = 1 .. Len(Models) /\ Len(Models) \in Nat
  /\ \A k \in DOMAIN Models : /\ DOMAIN Models[k].calcs = 1 .. Len(Models[k].calcs)
                             /\ Len(Models[k].calcs) \in Nat
ASSUME BoundOnSaves == MaxSaves \in Nat

\* A value is a number or a list of score steps; bounds that are not given are {}.
ASSUME ValuesOfSettings ==
  \A id \in Settings : \A s \in Definitions(id) : \A v \in Values(s) :
    /\ v.number \subseteq Int /\ AtMostOne(v.number)
    /\ DOMAIN v.steps = 1 .. Len(v.steps) /\ Len(v.steps) \in Nat
    /\ \A i \in DOMAIN v.steps :
         /\ v.steps[i].score \in Int
         /\ \A bound \in {v.steps[i].min, v.steps[i].max} : bound \subseteq Int /\ AtMostOne(bound)
\* float(row.get(field, 0) or 0): a column that is missing counts as 0, and what is
\* no number, the empty set, raises.
Value(row, field) == IF field \in DOMAIN row.values THEN row.values[field] ELSE {0}
ASSUME ValuesOfRows ==
  \A given \in Queries, k \in DOMAIN Models :
    /\ Len(given[k]) \in Nat
    /\ \A j \in 1 .. Len(given[k]), i \in DOMAIN Models[k].calcs :
         LET values == Value(given[k][j], Models[k].calcs[i].field)
         IN values \subseteq Int /\ AtMostOne(values)

\* A setting that does not come out of the box, until a user makes it, is like one
\* of 0 without score steps.
NotThere == [default |-> [number |-> {0}, steps |-> <<>>], match_type |-> "hierarchy",
             overrides |-> <<>>]

\* The settings that a model refers to are shipped with a strategy that is known,
\* and its threshold with numbers.
Strategies == {"hierarchy", "multi_dimensional"}
Refers(k) == {Models[k].threshold} \cup UNION {Models[k].calcs[i].steps : i \in DOMAIN Models[k].calcs}
ASSUME ShippedUsable ==
  \A k \in DOMAIN Models :
    /\ \A id \in Refers(k) : Shipped[id].match_type \in Strategies
    /\ \A v \in Values(Shipped[Models[k].threshold]) : v.number # {}

VARIABLES
  settings,  \* the settings' files: setting -> {its definition}, {} while one is written
  pending,   \* the save that has truncated its file
  saves,     \* counts saves and resets
  rows,      \* model -> the rows of its query
  at, m, r,  \* where evaluate_all is: at which step, in which model and row
  alert,     \* the AlertTrace in the making
  found,     \* the alerts of this model
  alerts,    \* the alerts of the models before
  seen,      \* all contents of the settings since this row was begun
  saved,     \* history: settings that were saved
  raised     \* history: models whose query, or the lookup of the model, raised

vars == <<settings, pending, saves, rows, at, m, r, alert, found, alerts, seen, saved, raised>>
engine == <<at, m, r, alert, found, alerts, rows, raised>>
users == <<settings, pending, saves, saved>>

-----------------------------------------------------------------------------
(* SettingsResolver *)

Matches(o, context) ==
  \A k \in DOMAIN o.match : k \in DOMAIN context /\ context[k] = o.match[k]

\* The multi-dimensional strategy counts the matching dimensions and drops an
\* override that has none, the hierarchy keeps it.
Candidates(s, context) ==
  {i \in DOMAIN s.overrides :
     /\ Matches(s.overrides[i], context)
     /\ s.match_type = "multi_dimensional" => DOMAIN s.overrides[i].match # {}}

Dimensions(o) == Cardinality(DOMAIN o.match)
Ahead(o, p) ==
  \/ Dimensions(o) > Dimensions(p)
  \/ Dimensions(o) = Dimensions(p) /\ o.priority > p.priority

\* The first candidate of a stable sort, as a set that is empty if there is none.
Best(s, context) ==
  LET matching == Candidates(s, context) IN
  {i \in matching : \A j \in matching \ {i} :
     LET o == s.overrides[i] p == s.overrides[j] IN
     Ahead(o, p) \/ (~ Ahead(p, o) /\ i < j)}

Resolved(s, context) ==
  IF Best(s, context) = {} THEN s.default
  ELSE s.overrides[CHOOSE i \in Best(s, context) : TRUE].value

\* Mutant: a value on the lower bound falls into no step.
InStepOpen(step, v) == (\A x \in step.min : x < v) /\ (\A x \in step.max : v < x)
\* A bound that is not given is the empty set.
InStep(step, v) == (\A x \in step.min : x <= v) /\ (\A x \in step.max : v < x)

\* evaluate_score: the first step that the value falls into.
Score(steps, v) ==
  LET hit == {i \in DOMAIN steps : InStep(steps[i], v)} IN
  IF hit = {} THEN 0 ELSE steps[CHOOSE i \in hit : \A j \in hit : i <= j].score
-----------------------------------------------------------------------------
(* evaluate_all *)

Model == Models[m]
Row == rows[m][r]
\* load_setting: fails while the file is written or if its strategy is unknown.
Readable(id) == settings[id] # {} /\ \A s \in settings[id] : s.match_type \in Strategies
ValueOf(id) == Resolved(CHOOSE s \in settings[id] : TRUE, Row.context)

NoAlert == [model |-> 0, row |-> 0, threshold |-> 0, scores |-> <<>>, total |-> 0,
            path |-> "none", fired |-> FALSE, under |-> {}]

Init ==
  /\ settings = [id \in Settings |-> {Shipped[id]}]
  /\ pending = {} /\ saves = 0 /\ saved = {} /\ seen = {}
  /\ rows \in Queries
  /\ at = "query" /\ m = 1 /\ r = 1 /\ raised = {}
  /\ alert = NoAlert /\ found = <<>> /\ alerts = <<>>

\* evaluate_model returns, with all its alerts or with none.
EndModel(kept) ==
  /\ alerts' = alerts \o kept
  /\ m' = m + 1 /\ r' = 1 /\ at' = "query" /\ found' = <<>> /\ alert' = NoAlert

ExecuteQuery ==
  /\ at = "query" /\ m <= Len(Models)
  /\ \/ Len(rows[m]) = 0 /\ EndModel(<<>>)
     \/ Len(rows[m]) > 0 /\ at' = "threshold" /\ UNCHANGED <<m, r, alert, found, alerts>>
  /\ UNCHANGED <<users, rows, seen, raised>>

\* The model is gone or its file half written, its SQL is wrong, or a table that it
\* reads is missing, as it is between a pipeline's DROP and CREATE.
QueryRaises ==
  /\ at = "query" /\ m <= Len(Models)
  /\ raised' = raised \cup {m} /\ EndModel(<<>>)
  /\ UNCHANGED <<users, rows, seen>>

\* Mutant: the scores of the row before are kept.
FreshKept == [alert EXCEPT !.model = m, !.row = r, !.scores = <<>>]
Fresh == [NoAlert EXCEPT !.model = m, !.row = r]

ResolveThreshold ==
  /\ at = "threshold" /\ Readable(Model.threshold)
  /\ \E x \in ValueOf(Model.threshold).number : alert' = [Fresh EXCEPT !.threshold = x]
  /\ at' = "calculations" /\ seen' = {settings}
  /\ UNCHANGED <<users, m, r, found, alerts, rows, raised>>

\* A calculation without score steps is a gate that the query has checked.
Judged(c, x) ==
  IF c.steps = {} THEN [score |-> 0, passed |-> TRUE]
  ELSE LET score == Score(ValueOf(CHOOSE id \in c.steps : TRUE).steps, x)
       IN [score |-> score, passed |-> score > 0]

NextCalc == Model.calcs[Len(alert.scores) + 1]

EvaluateCalculation ==
  /\ at = "calculations" /\ Len(alert.scores) < Len(Model.calcs)
  /\ \A id \in NextCalc.steps : Readable(id)
  /\ \E x \in Value(Row, NextCalc.field) :
       alert' = [alert EXCEPT !.scores = Append(@, Judged(NextCalc, x)),
                              !.total = @ + Judged(NextCalc, x).score]
  /\ UNCHANGED <<users, at, m, r, found, alerts, rows, seen, raised>>

MustPass == {i \in DOMAIN Model.calcs : Model.calcs[i].strictness = "MUST_PASS"}
\* Mutant: enough score opens the gates.
FiredByScore(gates, all, enough) == (gates /\ all) \/ enough
Fired(gates, all, enough) == gates /\ (all \/ enough)

Triggered ==
  LET gates == \A i \in MustPass : alert.scores[i].passed
      all == \A i \in DOMAIN alert.scores : alert.scores[i].passed
      enough == alert.total >= alert.threshold
  IN [alert EXCEPT !.path = IF all THEN "all_passed"
                            ELSE IF enough THEN "score_based" ELSE "none",
                   !.fired = Fired(gates, all, enough), !.under = seen]

DetermineTrigger ==
  /\ at = "calculations" /\ Len(alert.scores) = Len(Model.calcs)
  /\ IF r = Len(rows[m]) THEN EndModel(Append(found, Triggered))
     ELSE /\ found' = Append(found, Triggered) /\ alert' = Triggered
          /\ r' = r + 1 /\ at' = "threshold" /\ UNCHANGED <<m, alerts>>
  /\ UNCHANGED <<users, rows, seen, raised>>

\* Mutant: the alerts that were made before the error are returned.
KeptPartly == found
Kept == <<>>

\* evaluate_all logs the error of a model and goes on with the next one.  The value
\* of a gate must be a number, too.
Fails ==
  \/ /\ at = "threshold"
     /\ Readable(Model.threshold) => ValueOf(Model.threshold).number = {}
  \/ /\ at = "calculations" /\ Len(alert.scores) < Len(Model.calcs)
     /\ Value(Row, NextCalc.field) = {} \/ \E id \in NextCalc.steps : ~ Readable(id)
ModelError ==
  /\ Fails /\ EndModel(Kept)
  /\ UNCHANGED <<users, rows, seen, raised>>

-----------------------------------------------------------------------------
(* PUT /api/metadata/settings/{id}: anything that is a SettingDefinition. *)

Becomes(id, file) ==
  /\ settings' = [settings EXCEPT ![id] = file]
  /\ seen' = IF at = "calculations" THEN seen \cup {settings'} ELSE seen

Truncate ==
  /\ pending = {} /\ saves < MaxSaves
  /\ \E id \in Settings : \E s \in Saveable[id] :
       /\ pending' = {[id |-> id, file |-> s]}
       /\ Becomes(id, {}) /\ saved' = saved \cup {id}
  /\ saves' = saves + 1
  /\ UNCHANGED engine

WriteSetting ==
  /\ \E p \in pending : Becomes(p.id, {p.file})
  /\ pending' = {}
  /\ UNCHANGED <<engine, saves, saved>>

\* POST /api/metadata/layers/settings/{id}/reset: the user's file is unlinked.  An
\* engine that has just found it cannot read it.
Reset ==
  /\ pending = {} /\ saves < MaxSaves
  /\ \E id \in Settings :
       /\ settings[id] # {Shipped[id]} /\ Shipped[id] # NotThere
       /\ pending' = {[id |-> id, file |-> Shipped[id]]} /\ Becomes(id, {})
  /\ saves' = saves + 1
  /\ UNCHANGED <<engine, saved>>

Next == \/ ExecuteQuery \/ QueryRaises \/ ResolveThreshold \/ EvaluateCalculation \/ DetermineTrigger
        \/ ModelError \/ Truncate \/ WriteSetting \/ Reset

Spec == Init /\ [][Next]_vars
-----------------------------------------------------------------------------
(* Properties *)

AlertRow(a) == rows[a.model][a.row]
Calcs(a) == Models[a.model].calcs

\* The score of a calculation for a row, had the settings the contents S.
ScoreUnder(S, c, row) ==
  {Score(Resolved(s, row.context).steps, x) :
     s \in UNION {S[id] : id \in c.steps}, x \in Value(row, c.field)}
PassesUnder(S, c, row) == c.steps = {} \/ \E x \in ScoreUnder(S, c, row) : x > 0
ScoreOf(S, c, row) == IF c.steps = {} THEN 0 ELSE CHOOSE x \in ScoreUnder(S, c, row) : TRUE
TotalOf(scores) ==
  LET sum[n \in 0 .. Len(scores)] == IF n = 0 THEN 0 ELSE sum[n - 1] + scores[n]
  IN sum[Len(scores)]

TypeOK ==
  /\ settings \in [Settings -> SUBSET UNION {Definitions(id) : id \in Settings}]
  /\ \A id \in Settings : Cardinality(settings[id]) <= 1
  /\ rows \in Queries /\ at \in {"query", "threshold", "calculations"}
  /\ m \in 1 .. Len(Models) + 1 /\ r \in Nat \ {0}
  /\ at # "query" => m <= Len(Models) /\ r <= Len(rows[m]) /\ Len(found) = r - 1
  /\ at = "calculations" => Len(alert.scores) <= Len(Model.calcs) /\ settings \in seen
  /\ saves \in 0 .. MaxSaves /\ saved \subseteq Settings
  /\ raised \subseteq 1 .. m - 1

\* "Alert fires when: all gates pass": whatever is saved meanwhile, an alert fires
\* only if each MUST_PASS calculation passed under settings of its own time.
GatesHold ==
  \A n \in DOMAIN alerts : alerts[n].fired =>
    \A i \in DOMAIN Calcs(alerts[n]) : Calcs(alerts[n])[i].strictness = "MUST_PASS" =>
      \E S \in alerts[n].under : PassesUnder(S, Calcs(alerts[n])[i], AlertRow(alerts[n]))

\* An error costs the alerts of its model, all of them, and of no other one; and
\* there is no error unless the query raised, a value of some row is no number, or
\* a setting that the model refers to was saved.
NotNumbers(k) ==
  \E j \in 1 .. Len(rows[k]), i \in DOMAIN Models[k].calcs :
    Value(rows[k][j], Models[k].calcs[i].field) = {}
LostForCause ==
  at = "query" => \A k \in 1 .. m - 1 :
    LET of == {n \in DOMAIN alerts : alerts[n].model = k}
    IN \/ \E first \in 0 .. Len(alerts) : of = first + 1 .. first + Len(rows[k])
               /\ \A i \in 1 .. Len(rows[k]) : alerts[first + i].row = i
       \/ of = {} /\ (k \in raised \/ NotNumbers(k) \/ Refers(k) \cap saved # {})

ThresholdsUnder(S, a) ==
  UNION {Resolved(s, AlertRow(a).context).number : s \in S[Models[a.model].threshold]}

\* "Alert fires when: all gates pass AND (all checks pass OR score >= threshold)":
\* what the loop over the calculations decides, and the scores it adds up, are
\* those of one evaluation under the settings, when they did not change meanwhile.
DecidedUnder(S, a) ==
  LET calcs == Calcs(a)
      passes(i) == PassesUnder(S, calcs[i], AlertRow(a))
  IN /\ a.threshold \in ThresholdsUnder(S, a)
     /\ a.total = TotalOf([i \in 1 .. Len(calcs) |-> ScoreOf(S, calcs[i], AlertRow(a))])
     /\ a.fired <=> /\ \A i \in DOMAIN calcs : calcs[i].strictness = "MUST_PASS" => passes(i)
                    /\ (\A i \in DOMAIN calcs : passes(i)) \/ a.total >= a.threshold
DecidedBySettings ==
  at = "query" => \A n \in DOMAIN alerts : \A S \in alerts[n].under :
    alerts[n].under = {S} => DecidedUnder(S, alerts[n])

\* Steps that meet and whose scores rise, the last one without an upper bound.
Ascending(steps) ==
  /\ \A i \in DOMAIN steps : steps[i].score >= 0
  /\ \A i, j \in DOMAIN steps : i < j =>
       steps[i].score <= steps[j].score /\ \E x \in steps[i].max, y \in steps[j].min : x <= y
  /\ \A i \in DOMAIN steps :
       steps[i].max = IF i + 1 \in DOMAIN steps THEN steps[i + 1].min ELSE {}
Ascend(S, calcs) ==
  \A i \in DOMAIN calcs : \A id \in calcs[i].steps : \A s \in S[id] : \A v \in Values(s) : Ascending(v.steps)
NoSmaller(calcs, p, q) ==
  \A i \in DOMAIN calcs : \A x \in Value(p, calcs[i].field), y \in Value(q, calcs[i].field) : x <= y

\* With score steps that ascend, a row whose values are no smaller than those of
\* a row that fired, in the same context and under the same settings, fires too.
MoreFiresToo ==
  at = "query" => \A n, k \in DOMAIN alerts : \A S \in alerts[n].under :
    LET a == alerts[n] b == alerts[k] IN
    /\ a.under = {S} /\ b.under = {S} /\ a.model = b.model /\ a.fired
    /\ AlertRow(a).context = AlertRow(b).context /\ NoSmaller(Calcs(a), AlertRow(a), AlertRow(b))
    /\ Ascend(S, Calcs(a))
    => b.fired
=============================================================================
