----------------------- MODULE DetectionScoringProofs -----------------------
(* What TLAPS proves about DetectionScoring: that gates hold and what an error  *)
(* costs whatever users save meanwhile, what undisturbed settings decide, that   *)
(* more in a row never fires less, and what the two strategies have in common.  *)
EXTENDS DetectionScoring, FiniteSetTheorems, WellFoundedInduction, TLAPS

-----------------------------------------------------------------------------
(* Lists, whatever their elements are *)

IsSeq(s) == \E R : s \in Seq(R)

\* What Append does to a list, whatever its elements are.
LEMMA Appended ==
  ASSUME NEW s, NEW x, IsSeq(s)
  PROVE  /\ IsSeq(Append(s, x)) /\ Len(s) \in Nat /\ DOMAIN s = 1 .. Len(s)
         /\ Len(Append(s, x)) = Len(s) + 1
         /\ DOMAIN Append(s, x) = 1 .. Len(s) + 1
         /\ \A i \in 1 .. Len(s) : Append(s, x)[i] = s[i]
         /\ Append(s, x)[Len(s) + 1] = x
<1>1. PICK R : s \in Seq(R)  BY DEF IsSeq
<1>2. s \in Seq(R \cup {x})  BY <1>1
<1>3. Append(s, x) \in Seq(R \cup {x})  BY <1>2
<1>. QED BY <1>2, <1>3 DEF IsSeq

\* What concatenation does to two lists.
LEMMA Joined ==
  ASSUME NEW s, NEW t, IsSeq(s), IsSeq(t)
  PROVE  /\ IsSeq(s \o t)
         /\ \A n \in DOMAIN (s \o t) : \/ \E i \in DOMAIN s : (s \o t)[n] = s[i]
                                       \/ \E i \in DOMAIN t : (s \o t)[n] = t[i]
<1>1. PICK R : s \in Seq(R)  BY DEF IsSeq
<1>2. PICK T : t \in Seq(T)  BY DEF IsSeq
<1>3. s \in Seq(R \cup T) /\ t \in Seq(R \cup T)  BY <1>1, <1>2
<1>4. s \o t \in Seq(R \cup T)  BY <1>3
<1>. QED BY <1>3, <1>4 DEF IsSeq
-----------------------------------------------------------------------------
(* The gates *)

Fields == {"model", "row", "threshold", "scores", "total", "path", "fired", "under"}

\* A gate that is recorded as passed passed under settings in use by then.
Checked(k) ==
  Model.calcs[k].strictness = "MUST_PASS" /\ alert.scores[k].passed =>
    \E S \in seen : PassesUnder(S, Model.calcs[k], Row)

AlertInMaking ==
  at = "calculations" =>
    /\ alert.model = m /\ alert.row = r /\ settings \in seen
    /\ IsSeq(alert.scores) /\ Len(alert.scores) <= Len(Model.calcs)
    /\ \A k \in 1 .. Len(alert.scores) : Checked(k)

\* The gates of an alert, for the rows that the queries gave.
GatesOf(a, given) ==
  a.fired => \A i \in DOMAIN Calcs(a) : Calcs(a)[i].strictness = "MUST_PASS" =>
    \E S \in a.under : PassesUnder(S, Calcs(a)[i], given[a.model][a.row])

Position ==
  /\ m \in Nat \ {0} /\ (at # "query" => m <= Len(Models))
  /\ at \in {"query", "threshold", "calculations"}
  /\ DOMAIN alert = Fields

Gates == /\ Position /\ AlertInMaking
         /\ IsSeq(found) /\ IsSeq(alerts)
         /\ \A n \in DOMAIN found : GatesOf(found[n], rows)
         /\ \A n \in DOMAIN alerts : GatesOf(alerts[n], rows)

LEMMA EmptySeq == IsSeq(<<>>) /\ DOMAIN <<>> = {} /\ Len(<<>>) = 0
  BY DEF IsSeq

LEMMA NoAlertFields == DOMAIN NoAlert = Fields
  BY DEF NoAlert, Fields

LEMMA GatesInit == Init => Gates
  BY EmptySeq, NoAlertFields, Lists DEF Init, Gates, Position, AlertInMaking

\* The alerts of a model that ends join those of the models before.
LEMMA ModelEnds ==
  ASSUME Gates, NEW kept, EndModel(kept), IsSeq(kept), rows' = rows, m <= Len(Models),
         \A n \in DOMAIN kept : GatesOf(kept[n], rows)
  PROVE  Gates'
<1>. USE DEF EndModel
<1>1. Position'
  BY NoAlertFields DEF Gates, Position
<1>2. AlertInMaking'
  BY DEF AlertInMaking
<1>3. IsSeq(found') /\ DOMAIN found' = {}
  BY EmptySeq
<1>4. IsSeq(alerts')
  BY Joined DEF Gates
<1>5. \A n \in DOMAIN alerts' : GatesOf(alerts'[n], rows)
  BY Joined DEF Gates
<1>. QED BY <1>1, <1>2, <1>3, <1>4, <1>5 DEF Gates

LEMMA QueryStep ==
  ASSUME Gates, ExecuteQuery
  PROVE  Gates'
<1>. USE DEF ExecuteQuery, users
<1>1. CASE EndModel(<<>>)
  BY <1>1, ModelEnds, EmptySeq
<1>2. CASE at' = "threshold" /\ UNCHANGED <<m, r, alert, found, alerts>>
  BY <1>2 DEF Gates, Position, AlertInMaking
<1>. QED BY <1>1, <1>2

LEMMA RaiseStep ==
  ASSUME Gates, QueryRaises
  PROVE  Gates'
BY ModelEnds, EmptySeq DEF QueryRaises, users

LEMMA ThresholdStep ==
  ASSUME Gates, ResolveThreshold
  PROVE  Gates'
<1>. USE DEF ResolveThreshold, users
<1>1. PICK x : alert' = [Fresh EXCEPT !.threshold = x]
  OBVIOUS
<1>2. /\ alert'.model = m /\ alert'.row = r /\ alert'.scores = <<>>
      /\ DOMAIN alert' = Fields
  BY <1>1, NoAlertFields DEF Fresh, NoAlert
<1>3. Position'
  BY <1>2 DEF Gates, Position
<1>4. Len(alert'.scores) <= Len(Model'.calcs) /\ IsSeq(alert'.scores)
  BY <1>2, EmptySeq, Lists DEF Gates, Position, Model
<1>5. AlertInMaking'
  BY <1>2, <1>4, EmptySeq DEF AlertInMaking, Checked
<1>. QED BY <1>3, <1>5 DEF Gates

\* A calculation that passes, passes under the settings of this moment.
LEMMA PassesNow ==
  ASSUME NEW c, \A id \in c.steps : Readable(id), NEW v \in Value(Row, c.field), Judged(c, v).passed
  PROVE  PassesUnder(settings, c, Row)
<1>1. CASE c.steps = {}
  BY <1>1 DEF PassesUnder
<1>2. CASE c.steps # {}
  <2>. DEFINE id == CHOOSE id \in c.steps : TRUE
              s == CHOOSE s \in settings[id] : TRUE
              x == Score(Resolved(s, Row.context).steps, v)
  <2>1. id \in c.steps /\ s \in settings[id]
    BY <1>2 DEF Readable
  <2>2. x > 0
    BY <1>2 DEF Judged, ValueOf
  <2>3. s \in UNION {settings[i] : i \in c.steps}
    BY <2>1
  <2>4. x \in ScoreUnder(settings, c, Row)
    <3>. HIDE DEF s, id
    <3>. QED BY <2>3 DEF ScoreUnder
  <2>. QED BY <2>2, <2>4 DEF PassesUnder
<1>. QED BY <1>1, <1>2

LEMMA CalculationStep ==
  ASSUME Gates, EvaluateCalculation
  PROVE  Gates'
<1>. DEFINE k == Len(alert.scores) + 1
            c == Model.calcs[k]
<1>1. /\ at = "calculations" /\ k <= Len(Model.calcs) /\ settings \in seen
      /\ IsSeq(alert.scores) /\ Len(alert.scores) \in Nat
      /\ \A i \in 1 .. Len(alert.scores) : Checked(i)
  BY Appended, Lists DEF Gates, Position, AlertInMaking, EvaluateCalculation, Model
<1>a. PICK x \in Value(Row, c.field) :
        alert' = [alert EXCEPT !.scores = Append(@, Judged(c, x)), !.total = @ + Judged(c, x).score]
  BY DEF EvaluateCalculation, NextCalc
<1>2. /\ alert'.scores = Append(alert.scores, Judged(c, x))
      /\ alert'.model = alert.model /\ alert'.row = alert.row
      /\ DOMAIN alert' = Fields
  BY <1>a DEF Gates, Position, Fields
<1>3. /\ UNCHANGED <<at, m, r, found, alerts, rows, seen, settings>>
      /\ \A id \in c.steps : Readable(id)
  BY DEF EvaluateCalculation, NextCalc, users
<1>4. Position'
  BY <1>2, <1>3 DEF Gates, Position
<1>5. IsSeq(alert'.scores) /\ Len(alert'.scores) = k
  BY <1>1, <1>2, Appended
<1>6. \A i \in 1 .. Len(alert.scores) : alert'.scores[i] = alert.scores[i]
  BY <1>1, <1>2, Appended
<1>7. alert'.scores[k] = Judged(c, x)
  BY <1>1, <1>2, Appended
<1>8. Model' = Model /\ Row' = Row
  BY <1>3 DEF Model, Row
<1>9. ASSUME NEW i \in 1 .. k PROVE Checked(i)'
  <2>1. CASE i = k
    BY <1>1, <1>3, <1>7, <1>8, <2>1, PassesNow DEF Checked
  <2>2. CASE i # k
    <3>1. i \in 1 .. Len(alert.scores)
      BY <1>1, <2>2
    <3>. QED BY <1>1, <1>3, <1>6, <1>8, <3>1 DEF Checked
  <2>. QED BY <2>1, <2>2
<1>10. AlertInMaking'
  BY <1>1, <1>2, <1>3, <1>5, <1>8, <1>9 DEF AlertInMaking, Gates
<1>. QED BY <1>3, <1>4, <1>10 DEF Gates

\* What _determine_trigger makes of an alert whose gates are checked.
LEMMA TriggeredGates ==
  ASSUME Gates, DetermineTrigger
  PROVE  /\ GatesOf(Triggered, rows) /\ DOMAIN Triggered = Fields
         /\ m <= Len(Models)
<1>1. /\ at = "calculations" /\ Len(alert.scores) = Len(Model.calcs)
      /\ alert.model = m /\ alert.row = r /\ m \in DOMAIN Models
      /\ \A i \in 1 .. Len(alert.scores) : Checked(i)
  BY Lists DEF DetermineTrigger, Gates, Position, AlertInMaking
<1>2. DOMAIN Model.calcs = 1 .. Len(alert.scores)
  BY <1>1, Lists DEF Model
<1>3. DOMAIN Triggered = Fields
  BY DEF Triggered, Gates, Position
<1>4. /\ Triggered.model = m /\ Triggered.row = r /\ Triggered.under = seen
      /\ Triggered.fired => \A i \in MustPass : alert.scores[i].passed
  BY <1>1 DEF Triggered, Gates, Position, Fields, Fired
<1>5. Calcs(Triggered) = Model.calcs /\ rows[Triggered.model][Triggered.row] = Row
  BY <1>4 DEF Calcs, Model, Row
<1>6. GatesOf(Triggered, rows)
  BY <1>1, <1>2, <1>4, <1>5 DEF GatesOf, Checked, MustPass
<1>. QED BY <1>1, <1>3, <1>6, Lists

LEMMA TriggerStep ==
  ASSUME Gates, DetermineTrigger
  PROVE  Gates'
<1>1. /\ IsSeq(Append(found, Triggered))
      /\ \A n \in DOMAIN Append(found, Triggered) :
           GatesOf(Append(found, Triggered)[n], rows)
  <2>1. IsSeq(found) /\ \A n \in DOMAIN found : GatesOf(found[n], rows)
    BY DEF Gates
  <2>. QED BY <2>1, TriggeredGates, Appended
<1>2. CASE r = Len(rows[m])
  <2>1. EndModel(Append(found, Triggered)) /\ rows' = rows
    BY <1>2 DEF DetermineTrigger
  <2>. QED BY <1>1, <2>1, TriggeredGates, ModelEnds
<1>3. CASE r # Len(rows[m])
  <2>1. /\ found' = Append(found, Triggered) /\ alert' = Triggered /\ at' = "threshold"
        /\ UNCHANGED <<m, alerts, rows>>
    BY <1>3 DEF DetermineTrigger
  <2>2. Position' /\ AlertInMaking'
    BY <2>1, TriggeredGates DEF Gates, Position, AlertInMaking
  <2>. QED BY <1>1, <2>1, <2>2 DEF Gates
<1>. QED BY <1>2, <1>3

LEMMA ErrorStep ==
  ASSUME Gates, ModelError
  PROVE  Gates'
<1>1. EndModel(<<>>) /\ rows' = rows /\ at # "query"
  BY DEF ModelError, Fails, Kept
<1>2. m <= Len(Models)
  BY <1>1 DEF Gates, Position
<1>. QED BY <1>1, <1>2, ModelEnds, EmptySeq

\* Users change the settings, and what the row in progress has seen grows.
LEMMA UserStep ==
  ASSUME Gates, Truncate \/ WriteSetting \/ Reset
  PROVE  Gates'
<1>1. UNCHANGED engine
  BY DEF Truncate, WriteSetting, Reset, engine
<1>2. \E id, file : Becomes(id, file)
  BY DEF Truncate, WriteSetting, Reset
<1>3. at = "calculations" => seen \subseteq seen' /\ settings' \in seen'
  BY <1>2 DEF Becomes
<1>4. Position'
  BY <1>1 DEF Gates, Position, engine
<1>5. AlertInMaking'
  BY <1>1, <1>3 DEF Gates, AlertInMaking, Checked, Model, Row, engine
<1>. QED BY <1>1, <1>4, <1>5 DEF Gates, engine

LEMMA GatesStep == Gates /\ [Next]_vars => Gates'
<1>. SUFFICES ASSUME Gates, [Next]_vars PROVE Gates'
  OBVIOUS
<1>1. CASE ExecuteQuery         BY <1>1, QueryStep
<1>a. CASE QueryRaises          BY <1>a, RaiseStep
<1>2. CASE ResolveThreshold     BY <1>2, ThresholdStep
<1>3. CASE EvaluateCalculation  BY <1>3, CalculationStep
<1>4. CASE DetermineTrigger     BY <1>4, TriggerStep
<1>5. CASE ModelError           BY <1>5, ErrorStep
<1>6. CASE Truncate \/ WriteSetting \/ Reset  BY <1>6, UserStep
<1>7. CASE UNCHANGED vars
  BY <1>7 DEF Gates, Position, AlertInMaking, Checked, Model, Row, vars
<1>. QED BY <1>1, <1>a, <1>2, <1>3, <1>4, <1>5, <1>6, <1>7 DEF Next

\* An alert fires only if each MUST_PASS calculation of its model passed under
\* settings that were in use while its row was evaluated, whatever models, rows
\* and settings there are and however often settings are saved meanwhile.
THEOREM GatesAlwaysHold == Spec => []GatesHold
<1>1. Gates => GatesHold
  BY DEF Gates, GatesOf, GatesHold, AlertRow
<1>. QED BY <1>1, GatesInit, GatesStep, PTL DEF Spec

-----------------------------------------------------------------------------
(* What an error costs *)

\* Where the elements of two joined lists are found.
LEMMA JoinedAt ==
  ASSUME NEW s, NEW t, IsSeq(s), IsSeq(t)
  PROVE  /\ Len(s) \in Nat /\ Len(t) \in Nat /\ DOMAIN s = 1 .. Len(s) /\ DOMAIN t = 1 .. Len(t)
         /\ DOMAIN (s \o t) = 1 .. Len(s) + Len(t) /\ Len(s \o t) = Len(s) + Len(t)
         /\ \A i \in 1 .. Len(s) : (s \o t)[i] = s[i]
         /\ \A i \in 1 .. Len(t) : (s \o t)[Len(s) + i] = t[i]
<1>1. PICK R : s \in Seq(R)  BY DEF IsSeq
<1>2. PICK T : t \in Seq(T)  BY DEF IsSeq
<1>3. s \in Seq(R \cup T) /\ t \in Seq(R \cup T)  BY <1>1, <1>2
<1>. QED BY <1>3

\* The row in progress is one that the query gave.
Within == /\ rows \in Queries /\ m \in Nat \ {0} /\ r \in Nat \ {0} /\ (at = "query" => r = 1)
          /\ at # "query" => m <= Len(Models) /\ r <= Len(rows[m])

LEMMA WithinInit == Init => Within
  BY DEF Init, Within

LEMMA WithinStep == Within /\ [Next]_vars => Within'
<1>. SUFFICES ASSUME Within, [Next]_vars PROVE Within'
  OBVIOUS
<1>1. ASSUME NEW kept, EndModel(kept), rows' = rows PROVE Within'
  BY <1>1 DEF Within, EndModel
<1>2. CASE ExecuteQuery
  <2>1. CASE Len(rows[m]) = 0 /\ EndModel(<<>>)
    BY <1>1, <1>2, <2>1 DEF ExecuteQuery
  <2>2. CASE Len(rows[m]) > 0 /\ at' = "threshold" /\ UNCHANGED <<m, r, alert, found, alerts>>
    <3>1. Len(rows[m]) \in Nat
      BY <1>2, ValuesOfRows, Lists DEF Within, ExecuteQuery
    <3>. QED BY <1>2, <2>2, <3>1 DEF ExecuteQuery, Within
  <2>. QED BY <1>2, <2>1, <2>2 DEF ExecuteQuery
<1>3. CASE QueryRaises \/ ModelError
  BY <1>1, <1>3 DEF QueryRaises, ModelError
<1>4. CASE ResolveThreshold \/ EvaluateCalculation
  BY <1>4 DEF ResolveThreshold, EvaluateCalculation, Within
<1>5. CASE DetermineTrigger
  <2>1. CASE r = Len(rows[m])
    BY <1>1, <1>5, <2>1 DEF DetermineTrigger
  <2>2. CASE r # Len(rows[m])
    <3>1. Len(rows[m]) \in Nat
      BY <1>5, ValuesOfRows, Lists DEF Within, DetermineTrigger
    <3>. QED BY <1>5, <2>2, <3>1 DEF DetermineTrigger, Within
  <2>. QED BY <2>1, <2>2
<1>6. CASE Truncate \/ WriteSetting \/ Reset
  BY <1>6 DEF Truncate, WriteSetting, Reset, engine, Within
<1>7. CASE UNCHANGED vars
  BY <1>7 DEF vars, Within
<1>. QED BY <1>2, <1>3, <1>4, <1>5, <1>6, <1>7 DEF Next

\* What a model judges in the row in progress is at most one number.
LEMMA OneValue ==
  ASSUME Within, at # "query", NEW i \in DOMAIN Model.calcs
  PROVE  Value(Row, Model.calcs[i].field) \subseteq Int /\ AtMostOne(Value(Row, Model.calcs[i].field))
<1>1. m \in DOMAIN Models /\ rows \in Queries
  BY Lists DEF Within
<1>2. Len(rows[m]) \in Nat
  BY <1>1, ValuesOfRows
<1>3. r \in 1 .. Len(rows[m])
  BY <1>2 DEF Within
<1>. QED BY <1>1, <1>3, ValuesOfRows DEF Model, Row

\* A setting that nobody saved is as it was shipped.
Unsaved == /\ \A id \in Settings \ saved : settings[id] = {Shipped[id]}
           /\ \A p \in pending : p.id \in saved

\* The alerts of a model that has ended: one for each row, in their order, or
\* none after an error, which has a cause.
Cause(k) == k \in raised \/ NotNumbers(k) \/ Refers(k) \cap saved # {}
Of(k, list) == {n \in DOMAIN list : list[n].model = k}
Complete(k, list) ==
  \E first \in 0 .. Len(list) : /\ Of(k, list) = first + 1 .. first + Len(rows[k])
                                /\ \A i \in 1 .. Len(rows[k]) : list[first + i].row = i
Lost(k, list) == Of(k, list) = {} /\ Cause(k)

\* The alerts of the model in progress: one for each row before this one.
InOrder(list, n) == Len(list) = n /\ \A i \in 1 .. n : list[i].model = m /\ list[i].row = i

Costs == /\ Gates /\ Within /\ Unsaved
         /\ InOrder(found, r - 1)
         /\ \A n \in DOMAIN alerts : alerts[n].model \in 1 .. m - 1
         /\ \A k \in 1 .. m - 1 : Complete(k, alerts) \/ Lost(k, alerts)

LEMMA ResolvedIsValue ==
  ASSUME NEW s, NEW context
  PROVE  Resolved(s, context) \in Values(s)
<1>1. Best(s, context) \subseteq DOMAIN s.overrides
  BY DEF Best, Candidates
<1>. QED BY <1>1 DEF Resolved, Values

\* Settings as shipped are usable.
LEMMA ErrorHasCause ==
  ASSUME Costs, Fails
  PROVE  Cause(m)
<1>1. m \in DOMAIN Models /\ at # "query"
  BY Lists DEF Costs, Gates, Position, Fails
<1>. SUFFICES ASSUME Refers(m) \cap saved = {}, ~ NotNumbers(m) PROVE FALSE
  BY DEF Cause
<1>2. Refers(m) \subseteq Settings
  BY <1>1, EveryModelHasSettings DEF Refers
<1>3. ASSUME NEW id \in Refers(m) PROVE settings[id] = {Shipped[id]} /\ Readable(id)
  <2>1. settings[id] = {Shipped[id]}
    BY <1>2 DEF Costs, Unsaved
  <2>2. Shipped[id].match_type \in Strategies
    BY <1>1, ShippedUsable
  <2>. QED BY <2>1, <2>2 DEF Readable
<1>4. CASE at = "threshold" /\ (Readable(Model.threshold) => ValueOf(Model.threshold).number = {})
  <2>. DEFINE s == Shipped[Models[m].threshold]
  <2>1. Model.threshold \in Refers(m)
    BY DEF Refers, Model
  <2>2. ValueOf(Model.threshold) = Resolved(s, Row.context) /\ ValueOf(Model.threshold).number = {}
    BY <1>3, <1>4, <2>1 DEF ValueOf, Model
  <2>3. \A v \in Values(s) : v.number # {}
    BY <1>1, ShippedUsable
  <2>. QED BY <2>2, <2>3, ResolvedIsValue
<1>5. CASE /\ at = "calculations" /\ Len(alert.scores) < Len(Model.calcs)
           /\ Value(Row, NextCalc.field) = {} \/ \E id \in NextCalc.steps : ~ Readable(id)
  <2>1. IsSeq(alert.scores)
    BY <1>5 DEF Costs, Gates, AlertInMaking
  <2>2. Len(alert.scores) + 1 \in DOMAIN Models[m].calcs
    BY <1>1, <1>5, <2>1, Appended, Lists DEF Model
  <2>3. Models[m].calcs[Len(alert.scores) + 1].steps \subseteq Refers(m)
    BY <2>2 DEF Refers
  <2>4. r \in 1 .. Len(rows[m])
    <3>1. Len(rows[m]) \in Nat
      BY <1>1, ValuesOfRows DEF Costs, Within
    <3>. QED BY <1>1, <3>1 DEF Costs, Within
  <2>5. Value(Row, NextCalc.field) # {}
    BY <2>2, <2>4 DEF NotNumbers, Row, Model, NextCalc
  <2>. QED BY <1>3, <1>5, <2>3, <2>5 DEF Model, NextCalc
<1>. QED BY <1>4, <1>5 DEF Fails

\* A model that ends leaves the alerts of the others where they are.
LEMMA CostsEnd ==
  ASSUME Costs, Gates', Within', Unsaved', NEW kept, EndModel(kept), IsSeq(kept), rows' = rows,
         saved' = saved, raised \subseteq raised', m <= Len(Models), NEW ended, ended = m,
         InOrder(kept, Len(rows[m])) \/ (kept = <<>> /\ Cause(ended)')
  PROVE  Costs'
<1>1. alerts' = alerts \o kept /\ m' = m + 1 /\ r' = 1 /\ at' = "query" /\ found' = <<>>
  BY DEF EndModel
<1>2. IsSeq(alerts) /\ m \in Nat \ {0}
  BY DEF Costs, Gates, Position
<1>a. \A k \in 1 .. m - 1 : Cause(k) => Cause(k)'
  BY DEF Cause, NotNumbers
<1>3. /\ Len(alerts) \in Nat /\ Len(kept) \in Nat /\ DOMAIN alerts = 1 .. Len(alerts)
      /\ DOMAIN alerts' = 1 .. Len(alerts) + Len(kept) /\ Len(alerts') = Len(alerts) + Len(kept)
      /\ \A i \in 1 .. Len(alerts) : alerts'[i] = alerts[i]
      /\ \A i \in 1 .. Len(kept) : alerts'[Len(alerts) + i] = kept[i]
  BY <1>1, <1>2, JoinedAt
<1>4. \A i \in 1 .. Len(kept) : kept[i].model = m
  BY EmptySeq DEF InOrder
<1>5. \A n \in DOMAIN alerts' : n \in 1 .. Len(alerts) \/ (n - Len(alerts) \in 1 .. Len(kept) /\ alerts'[n].model = m)
  <2>. TAKE n \in DOMAIN alerts'
  <2>1. n \in 1 .. Len(alerts) \/ (n - Len(alerts) \in 1 .. Len(kept) /\ n = Len(alerts) + (n - Len(alerts)))
    BY <1>3
  <2>. QED BY <1>3, <1>4, <2>1
<1>6. \A n \in DOMAIN alerts' : alerts'[n].model \in 1 .. m' - 1
  <2>1. \A n \in 1 .. Len(alerts) : alerts[n].model \in 1 .. m - 1
    BY <1>3 DEF Costs
  <2>. QED BY <1>1, <1>2, <1>3, <1>5, <2>1
<1>7. ASSUME NEW k \in 1 .. m - 1 PROVE Complete(k, alerts') \/ (Of(k, alerts') = {} /\ Cause(k)')
  <2>1. Of(k, alerts') = Of(k, alerts)
    BY <1>2, <1>3, <1>5 DEF Of
  <2>2. Complete(k, alerts) \/ Lost(k, alerts)
    BY DEF Costs
  <2>3. CASE Complete(k, alerts)
    <3>1. PICK first \in 0 .. Len(alerts) : /\ Of(k, alerts) = first + 1 .. first + Len(rows[k])
                                             /\ \A i \in 1 .. Len(rows[k]) : alerts[first + i].row = i
      BY <2>3 DEF Complete
    <3>2. ASSUME NEW i \in 1 .. Len(rows[k]) PROVE alerts'[first + i] = alerts[first + i]
      <4>1. first + i \in Of(k, alerts)
        BY <3>1
      <4>. QED BY <1>3, <4>1 DEF Of
    <3>3. first \in 0 .. Len(alerts')
      BY <1>3
    <3>. QED BY <2>1, <3>1, <3>2, <3>3 DEF Complete
  <2>4. CASE Lost(k, alerts)
    BY <1>a, <2>1, <2>4 DEF Lost
  <2>. QED BY <2>2, <2>3, <2>4
<1>8. Complete(m, alerts') \/ (Of(m, alerts') = {} /\ Cause(ended)')
  <2>1. \A n \in 1 .. Len(alerts) : alerts'[n].model # m
    BY <1>2, <1>3 DEF Costs
  <2>2. Of(m, alerts') = Len(alerts) + 1 .. Len(alerts) + Len(kept)
    <3>1. \A n \in Of(m, alerts') : n \in Len(alerts) + 1 .. Len(alerts) + Len(kept)
      BY <1>3, <2>1 DEF Of
    <3>2. ASSUME NEW n \in Len(alerts) + 1 .. Len(alerts) + Len(kept) PROVE n \in Of(m, alerts')
      <4>1. n - Len(alerts) \in 1 .. Len(kept) /\ n = Len(alerts) + (n - Len(alerts)) /\ n \in DOMAIN alerts'
        BY <1>3
      <4>. QED BY <1>3, <1>4, <4>1 DEF Of
    <3>. QED BY <3>1, <3>2
  <2>3. CASE InOrder(kept, Len(rows[m]))
    <3>1. Len(kept) = Len(rows[m]) /\ \A i \in 1 .. Len(rows[m]) : alerts'[Len(alerts) + i].row = i
      BY <1>3, <2>3 DEF InOrder
    <3>2. Len(alerts) \in 0 .. Len(alerts') /\ Of(m, alerts') = Len(alerts) + 1 .. Len(alerts) + Len(rows[m])
      BY <1>3, <2>2, <3>1
    <3>. QED BY <3>1, <3>2 DEF Complete
  <2>4. CASE kept = <<>> /\ Cause(ended)'
    BY <1>3, <2>2, <2>4, EmptySeq
  <2>. QED BY <2>3, <2>4
<1>9. \A k \in 1 .. m' - 1 : (Complete(k, alerts) \/ Lost(k, alerts))'
  <2>. TAKE k \in 1 .. m' - 1
  <2>1. k \in 1 .. m - 1 \/ k = m
    BY <1>1, <1>2
  <2>2. Complete(k, alerts') \/ (Of(k, alerts') = {} /\ Cause(k)')
    BY <1>7, <1>8, <2>1
  <2>. QED BY <2>2 DEF Complete, Lost, Of
<1>10. InOrder(found, r - 1)'
  BY <1>1, EmptySeq DEF InOrder
<1>. QED BY <1>1, <1>6, <1>9, <1>10 DEF Costs

\* While a model is evaluated its alerts come one by one.
LEMMA CostsGoOn ==
  ASSUME Costs, Gates', Within', Unsaved', UNCHANGED <<m, alerts, rows, raised>>, saved \subseteq saved',
         InOrder(found, r - 1)'
  PROVE  Costs'
<1>1. \A k \in 1 .. m' - 1 : (Complete(k, alerts) \/ Lost(k, alerts))'
  <2>. TAKE k \in 1 .. m' - 1
  <2>1. Complete(k, alerts) \/ Lost(k, alerts)
    BY DEF Costs
  <2>. QED BY <2>1 DEF Complete, Lost, Of, Cause, NotNumbers
<1>. QED BY <1>1 DEF Costs

LEMMA CostsInit == Init => Costs
<1>. SUFFICES ASSUME Init PROVE Costs
  OBVIOUS
<1>1. Unsaved
  BY DEF Init, Unsaved
<1>2. InOrder(found, r - 1) /\ DOMAIN alerts = {} /\ m = 1 /\ r = 1
  BY EmptySeq DEF Init, InOrder
<1>. QED BY <1>1, <1>2, GatesInit, WithinInit DEF Costs

LEMMA CostsEngine ==
  ASSUME Costs, Gates', Within', \/ ExecuteQuery \/ QueryRaises \/ ResolveThreshold
                                  \/ EvaluateCalculation \/ DetermineTrigger \/ ModelError
  PROVE  Costs'
<1>1. UNCHANGED <<settings, pending, saved, rows>>
  BY DEF ExecuteQuery, QueryRaises, ResolveThreshold, EvaluateCalculation, DetermineTrigger, ModelError, users
<1>2. Unsaved'
  BY <1>1 DEF Costs, Unsaved
<1>3. CASE ExecuteQuery
  <2>0. raised' = raised
    BY <1>3 DEF ExecuteQuery
  <2>1. CASE Len(rows[m]) = 0 /\ EndModel(<<>>)
    <3>1. InOrder(<<>>, Len(rows[m])) /\ m <= Len(Models)
      BY <1>3, <2>1, EmptySeq DEF InOrder, ExecuteQuery
    <3>. QED BY <1>1, <1>2, <2>0, <2>1, <3>1, EmptySeq, CostsEnd
  <2>2. CASE at' = "threshold" /\ UNCHANGED <<m, r, alert, found, alerts>>
    <3>1. InOrder(found, r - 1)'
      BY <2>2 DEF Costs, InOrder
    <3>. QED BY <1>1, <1>2, <2>0, <2>2, <3>1, CostsGoOn
  <2>. QED BY <1>3, <2>1, <2>2 DEF ExecuteQuery
<1>a. CASE QueryRaises
  <2>1. EndModel(<<>>) /\ raised' = raised \cup {m} /\ m <= Len(Models)
    BY <1>a DEF QueryRaises
  <2>2. PICK k : k = m
    OBVIOUS
  <2>3. Cause(k)'
    BY <2>1, <2>2 DEF Cause
  <2>. QED BY <1>1, <1>2, <2>1, <2>2, <2>3, EmptySeq, CostsEnd
<1>4. CASE ResolveThreshold \/ EvaluateCalculation
  <2>1. UNCHANGED <<m, r, found, alerts, raised>>
    BY <1>4 DEF ResolveThreshold, EvaluateCalculation
  <2>2. InOrder(found, r - 1)'
    BY <2>1 DEF Costs, InOrder
  <2>. QED BY <1>1, <1>2, <2>1, <2>2, CostsGoOn
<1>5. CASE DetermineTrigger
  <2>. DEFINE list == Append(found, Triggered)
  <2>1. Triggered.model = m /\ Triggered.row = r
    BY <1>5 DEF Triggered, DetermineTrigger, Costs, Gates, Position, AlertInMaking, Fields
  <2>2. IsSeq(list) /\ InOrder(list, r)
    <3>1. IsSeq(found) /\ Len(found) = r - 1 /\ r \in Nat \ {0} /\ \A i \in 1 .. r - 1 : found[i].model = m /\ found[i].row = i
      BY DEF Costs, Gates, Within, InOrder
    <3>2. IsSeq(list) /\ Len(list) = r /\ list[r] = Triggered /\ \A i \in 1 .. r - 1 : list[i] = found[i]
      BY <3>1, Appended
    <3>. HIDE DEF list
    <3>. QED BY <2>1, <3>1, <3>2 DEF InOrder
  <2>3. m <= Len(Models)
    BY <1>5, TriggeredGates DEF Costs
  <2>. HIDE DEF list
  <2>4. CASE r = Len(rows[m])
    <3>1. EndModel(list) /\ raised' = raised
      BY <1>5, <2>4 DEF DetermineTrigger, list
    <3>. QED BY <1>1, <1>2, <2>2, <2>3, <2>4, <3>1, CostsEnd
  <2>5. CASE r # Len(rows[m])
    <3>1. found' = list /\ r' = r + 1 /\ UNCHANGED <<m, alerts, raised>>
      BY <1>5, <2>5 DEF DetermineTrigger, list
    <3>2. InOrder(found, r - 1)'
      BY <2>2, <3>1 DEF InOrder, Costs, Within
    <3>. QED BY <1>1, <1>2, <3>1, <3>2, CostsGoOn
  <2>. QED BY <2>4, <2>5
<1>6. CASE ModelError
  <2>1. EndModel(<<>>) /\ Cause(m) /\ at # "query" /\ raised' = raised
    BY <1>6, ErrorHasCause DEF ModelError, Kept, Fails
  <2>2. m <= Len(Models)
    BY <2>1 DEF Costs, Gates, Position
  <2>3. PICK k : k = m
    OBVIOUS
  <2>4. Cause(k)'
    BY <1>1, <2>1, <2>3 DEF Cause, NotNumbers
  <2>. QED BY <1>1, <1>2, <2>1, <2>2, <2>3, <2>4, EmptySeq, CostsEnd
<1>. QED BY <1>3, <1>a, <1>4, <1>5, <1>6

LEMMA CostsUsers ==
  ASSUME Costs, Gates', Within', Truncate \/ WriteSetting \/ Reset
  PROVE  Costs'
<1>1. UNCHANGED engine /\ saved \subseteq saved'
  BY DEF Truncate, WriteSetting, Reset, engine
<1>2. Unsaved'
  <2>1. CASE Truncate
    BY <2>1 DEF Costs, Unsaved, Truncate, Becomes
  <2>2. CASE WriteSetting
    BY <2>2 DEF Costs, Unsaved, WriteSetting, Becomes
  <2>3. CASE Reset
    BY <2>3 DEF Costs, Unsaved, Reset, Becomes
  <2>. QED BY <2>1, <2>2, <2>3
<1>3. InOrder(found, r - 1)'
  BY <1>1 DEF engine, Costs, InOrder
<1>. QED BY <1>1, <1>2, <1>3, CostsGoOn DEF engine

LEMMA CostsStep == Costs /\ [Next]_vars => Costs'
<1>. SUFFICES ASSUME Costs, [Next]_vars PROVE Costs'
  OBVIOUS
<1>1. Gates' /\ Within'
  BY GatesStep, WithinStep DEF Costs
<1>2. CASE UNCHANGED vars
  <2>1. Unsaved' /\ InOrder(found, r - 1)'
    BY <1>2 DEF vars, Costs, Unsaved, InOrder
  <2>. QED BY <1>1, <1>2, <2>1, CostsGoOn DEF vars
<1>. QED BY <1>1, <1>2, CostsEngine, CostsUsers DEF Next

\* An error costs the alerts of its model, all of them, and of no other one; and
\* there is no error unless the query raised, a value of some row is no number, or
\* a setting that the model refers to was saved: whatever models, rows and settings
\* there are, whichever queries raise and whenever settings are saved.
THEOREM ModelsLostForCause == Spec => []LostForCause
<1>1. Costs => LostForCause
  BY DEF Costs, Complete, Lost, Of, Cause, LostForCause
<1>. QED BY <1>1, CostsInit, CostsStep, PTL DEF Spec

-----------------------------------------------------------------------------
(* What undisturbed settings decide *)

\* A running sum is determined by its terms.
Adds(sum, terms, n) == sum = [k \in 0 .. n |-> IF k = 0 THEN 0 ELSE sum[k - 1] + terms[k]]

LEMMA LeastNatural ==
  ASSUME NEW T, T \subseteq Nat, T # {}
  PROVE  \E x \in T : \A y \in T : ~ (y < x)
<1>1. PICK x \in T : \A y \in T : ~ (<<y, x>> \in OpToRel(<, Nat))
  BY NatLessThanWellFounded, WFMin
<1>2. \A y \in T : y < x => <<y, x>> \in OpToRel(<, Nat)
  BY DEF OpToRel
<1> QED BY <1>1, <1>2

LEMMA OneSum ==
  ASSUME NEW n \in Nat, NEW f, NEW g, NEW terms, Adds(f, terms, n), Adds(g, terms, n)
  PROVE  f[n] = g[n]
<1>. DEFINE T == {k \in 0 .. n : f[k] # g[k]}
<1>1. \A k \in 0 .. n : /\ f[k] = IF k = 0 THEN 0 ELSE f[k - 1] + terms[k]
                        /\ g[k] = IF k = 0 THEN 0 ELSE g[k - 1] + terms[k]
  BY DEF Adds
<1>2. SUFFICES ASSUME T # {} PROVE FALSE
  OBVIOUS
<1>3. PICK k \in T : \A j \in T : ~ (j < k)
  <2>1. T \subseteq Nat
    OBVIOUS
  <2>. QED BY <1>2, <2>1, LeastNatural
<1>4. k \in 1 .. n
  BY <1>1, <1>3
<1>5. k - 1 \in 0 .. n /\ k - 1 < k
  BY <1>4
<1>6. f[k - 1] = g[k - 1]
  BY <1>3, <1>5
<1>. QED BY <1>1, <1>3, <1>4, <1>6

LEMMA TotalIs ==
  ASSUME NEW scores, Len(scores) \in Nat, NEW g, Adds(g, scores, Len(scores))
  PROVE  TotalOf(scores) = g[Len(scores)]
<1>. DEFINE sum == CHOOSE f : f = [k \in 0 .. Len(scores) |-> IF k = 0 THEN 0 ELSE f[k - 1] + scores[k]]
<1>1. Adds(sum, scores, Len(scores))
  BY DEF Adds
<1>2. TotalOf(scores) = sum[Len(scores)]
  BY DEF TotalOf
<1>. HIDE DEF sum
<1>. QED BY <1>1, <1>2, OneSum

\* A running sum goes on with one more term.
LEMMA OneMoreTerm ==
  ASSUME NEW n \in Nat, NEW sum, NEW terms, NEW more, Adds(sum, terms, n), \A k \in 1 .. n : more[k] = terms[k]
  PROVE  \E longer : Adds(longer, more, n + 1) /\ longer[n + 1] = sum[n] + more[n + 1]
<1>. DEFINE longer == [k \in 0 .. n + 1 |-> IF k <= n THEN sum[k] ELSE sum[n] + more[n + 1]]
            again == [k \in 0 .. n + 1 |-> IF k = 0 THEN 0 ELSE longer[k - 1] + more[k]]
<1>1. \A k \in 0 .. n : sum[k] = IF k = 0 THEN 0 ELSE sum[k - 1] + terms[k]
  BY DEF Adds
<1>2. \A k \in 0 .. n : longer[k] = sum[k]
  OBVIOUS
<1>3. longer[n + 1] = sum[n] + more[n + 1]
  OBVIOUS
<1>4. ASSUME NEW k \in 0 .. n + 1 PROVE longer[k] = again[k]
  <2>1. again[k] = IF k = 0 THEN 0 ELSE longer[k - 1] + more[k]
    OBVIOUS
  <2>. HIDE DEF longer, again
  <2>2. CASE k = 0
    BY <1>1, <1>2, <2>1, <2>2
  <2>3. CASE k \in 1 .. n
    <3>1. k - 1 \in 0 .. n /\ k \in 0 .. n
      BY <2>3
    <3>. QED BY <1>1, <1>2, <2>1, <2>3, <3>1
  <2>4. CASE k = n + 1
    <3>1. k - 1 = n /\ k # 0 /\ n \in 0 .. n
      BY <2>4
    <3>. QED BY <1>2, <1>3, <2>1, <2>4, <3>1
  <2>. QED BY <2>2, <2>3, <2>4
<1>5. longer = again
  BY <1>4
<1>6. Adds(longer, more, n + 1)
  BY <1>5 DEF Adds
<1>. QED BY <1>3, <1>6

\* A setting has one definition at a time, a shipped or a saved one.
Fit(S) == \A id \in Settings : S[id] \subseteq Definitions(id) /\ AtMostOne(S[id])
Stored == /\ DOMAIN settings = Settings /\ Fit(settings)
          /\ \A p \in pending : p.file \in Definitions(p.id)

\* What is in the scores so far was judged under settings in use since the row
\* was begun.
Judgement(k, S) ==
  LET c == Model.calcs[k] IN
  /\ alert.scores[k].score = ScoreOf(S, c, Row) /\ (alert.scores[k].passed <=> PassesUnder(S, c, Row))
  /\ (\A id \in c.steps : S[id] # {}) /\ Value(Row, c.field) # {}
ThresholdUnder(S) == \E s \in S[Model.threshold] : alert.threshold \in Resolved(s, Row.context).number
Running(sum, n) == Adds(sum, [k \in 1 .. n |-> alert.scores[k].score], n)

Judging ==
  at = "calculations" =>
    /\ \A S \in seen : Fit(S)
    /\ \E S \in seen : ThresholdUnder(S)
    /\ \A k \in 1 .. Len(alert.scores) : \E S \in seen : Judgement(k, S)
    /\ \E sum : Running(sum, Len(alert.scores)) /\ alert.total = sum[Len(alert.scores)]

\* All the score steps of an alert could be read, and the values of its row.
Given(S, a) == \A i \in DOMAIN Calcs(a) :
  (\A id \in Calcs(a)[i].steps : S[id] # {}) /\ Value(AlertRow(a), Calcs(a)[i].field) # {}

DecidedOf(a) ==
  /\ a.model \in DOMAIN Models
  /\ \A S \in a.under : Fit(S) /\ (a.under = {S} => DecidedUnder(S, a) /\ Given(S, a))

Decided == /\ Gates /\ Within /\ Stored /\ Judging
           /\ \A n \in DOMAIN found : DecidedOf(found[n])
           /\ \A n \in DOMAIN alerts : DecidedOf(alerts[n])

LEMMA SameDecided ==
  ASSUME rows' = rows, NEW a, DecidedOf(a)
  PROVE  DecidedOf(a)'
  BY DEF DecidedOf, DecidedUnder, AlertRow, ThresholdsUnder, Given, Calcs

LEMMA DecidedInit == Init => Decided
  BY GatesInit, WithinInit, EmptySeq DEF Init, Decided, Stored, Judging, Fit, Definitions, AtMostOne

LEMMA DecidedEnd ==
  ASSUME Decided, Gates', Within', Stored', NEW kept, EndModel(kept), IsSeq(kept), rows' = rows,
         \A n \in DOMAIN kept : DecidedOf(kept[n])
  PROVE  Decided'
<1>1. Judging'
  BY DEF EndModel, Judging
<1>2. DOMAIN found' = {}
  BY EmptySeq DEF EndModel
<1>3. \A n \in DOMAIN alerts' : DecidedOf(alerts'[n])
  BY Joined DEF EndModel, Decided, Gates
<1>4. ASSUME NEW n \in DOMAIN alerts' PROVE DecidedOf(alerts[n])'
  <2>1. PICK a : a = alerts'[n] /\ DecidedOf(a)
    BY <1>3
  <2>2. DecidedOf(a)'
    BY <2>1, SameDecided
  <2>. QED BY <2>1, <2>2
<1>. QED BY <1>1, <1>2, <1>4 DEF Decided

\* Of a calculation without steps, or under one definition of its steps, the score
\* is the only one there can be.
LEMMA JudgedNow ==
  ASSUME Stored, NEW c, c.steps \subseteq Settings, AtMostOne(c.steps),
         \A id \in c.steps : Readable(id), AtMostOne(Value(Row, c.field)), NEW v \in Value(Row, c.field)
  PROVE  /\ Judged(c, v).score = ScoreOf(settings, c, Row)
         /\ Judged(c, v).passed <=> PassesUnder(settings, c, Row)
<1>1. CASE c.steps = {}
  BY <1>1 DEF Judged, ScoreOf, PassesUnder
<1>2. CASE c.steps # {}
  <2>. DEFINE id == CHOOSE id \in c.steps : TRUE
              s == CHOOSE s \in settings[id] : TRUE
              x == Score(Resolved(s, Row.context).steps, v)
  <2>1. id \in c.steps /\ s \in settings[id]
    BY <1>2 DEF Readable
  <2>2. \A t \in UNION {settings[i] : i \in c.steps} : t = s
    BY <2>1 DEF Stored, Fit, AtMostOne
  <2>3. UNION {settings[i] : i \in c.steps} = {s}
    BY <2>1, <2>2
  <2>4. Judged(c, v).score = x /\ (Judged(c, v).passed <=> x > 0)
    BY <1>2 DEF Judged, ValueOf
  <2>. HIDE DEF id, s
  <2>a. Value(Row, c.field) = {v}
    BY DEF AtMostOne
  <2>5. ScoreUnder(settings, c, Row) = {x}
    BY <2>3, <2>a DEF ScoreUnder
  <2>. HIDE DEF x
  <2>6. ScoreOf(settings, c, Row) = x /\ (PassesUnder(settings, c, Row) <=> x > 0)
    BY <1>2, <2>5 DEF ScoreOf, PassesUnder
  <2>. QED BY <2>4, <2>6
<1>. QED BY <1>1, <1>2

LEMMA FileStored ==
  ASSUME Stored, NEW id \in Settings, NEW file, Becomes(id, file), file \subseteq Definitions(id), AtMostOne(file)
  PROVE  DOMAIN settings' = Settings /\ Fit(settings')
<1>1. settings' = [settings EXCEPT ![id] = file]
  BY DEF Becomes
<1>. QED BY <1>1 DEF Stored, Fit

LEMMA StoredStep == Stored /\ [Next]_vars => Stored'
<1>. SUFFICES ASSUME Stored, [Next]_vars PROVE Stored'
  OBVIOUS
<1>. USE DEF AtMostOne, Definitions
<1>1. CASE UNCHANGED <<settings, pending>>
  BY <1>1 DEF Stored
<1>2. CASE Truncate
  <2>1. PICK id \in Settings :
          \E s \in Saveable[id] : pending' = {[id |-> id, file |-> s]} /\ Becomes(id, {})
    BY <1>2 DEF Truncate
  <2>. QED BY <2>1, FileStored DEF Stored
<1>3. CASE WriteSetting
  <2>1. PICK p \in pending : Becomes(p.id, {p.file})
    BY <1>3 DEF WriteSetting
  <2>2. settings' = [settings EXCEPT ![p.id] = {p.file}] /\ p.file \in Definitions(p.id) /\ pending' = {}
    BY <1>3, <2>1 DEF Becomes, Stored, WriteSetting
  <2>. QED BY <2>2 DEF Stored, Fit
<1>4. CASE Reset
  <2>1. PICK id \in Settings : pending' = {[id |-> id, file |-> Shipped[id]]} /\ Becomes(id, {})
    BY <1>4 DEF Reset
  <2>. QED BY <2>1, FileStored DEF Stored
<1>. QED BY <1>1, <1>2, <1>3, <1>4
     DEF Next, vars, users, ExecuteQuery, QueryRaises, ResolveThreshold, EvaluateCalculation, DetermineTrigger, ModelError

\* While a row is evaluated nothing that is recorded or listed changes.
LEMMA DecidedGoesOn ==
  ASSUME Decided, Gates', Within', Stored', Judging', rows' = rows, UNCHANGED <<found, alerts>>
  PROVE  Decided'
<1>1. ASSUME NEW n \in DOMAIN found PROVE DecidedOf(found[n])'
  <2>1. PICK a : a = found[n] /\ DecidedOf(a)
    BY DEF Decided
  <2>2. DecidedOf(a)'
    BY <2>1, SameDecided
  <2>. QED BY <2>1, <2>2
<1>2. ASSUME NEW n \in DOMAIN alerts PROVE DecidedOf(alerts[n])'
  <2>1. PICK a : a = alerts[n] /\ DecidedOf(a)
    BY DEF Decided
  <2>2. DecidedOf(a)'
    BY <2>1, SameDecided
  <2>. QED BY <2>1, <2>2
<1>. QED BY <1>1, <1>2 DEF Decided

LEMMA DecidedQuery ==
  ASSUME Decided, Gates', Within', Stored', ExecuteQuery
  PROVE  Decided'
<1>1. CASE EndModel(<<>>)
  BY <1>1, DecidedEnd, EmptySeq DEF ExecuteQuery
<1>2. CASE at' = "threshold" /\ UNCHANGED <<m, r, alert, found, alerts>>
  BY <1>2, DecidedGoesOn DEF ExecuteQuery, Judging
<1>. QED BY <1>1, <1>2 DEF ExecuteQuery

LEMMA DecidedThreshold ==
  ASSUME Decided, Gates', Within', Stored', ResolveThreshold
  PROVE  Decided'
<1>. DEFINE s == CHOOSE s \in settings[Model.threshold] : TRUE
<1>1. s \in settings[Model.threshold] /\ ValueOf(Model.threshold) = Resolved(s, Row.context)
  BY DEF ResolveThreshold, Readable, ValueOf
<1>. HIDE DEF s
<1>2. PICK x \in Resolved(s, Row.context).number : alert' = [Fresh EXCEPT !.threshold = x]
  BY <1>1 DEF ResolveThreshold
<1>3. alert'.threshold = x /\ alert'.scores = <<>> /\ alert'.total = 0
  BY <1>2 DEF Fresh, NoAlert
<1>4. /\ seen' = {settings} /\ at' = "calculations" /\ UNCHANGED <<m, r, found, alerts, rows>>
  BY DEF ResolveThreshold
<1>5. Model' = Model /\ Row' = Row
  BY <1>4 DEF Model, Row
<1>6. \E S \in seen' : \E t \in S[Model'.threshold] : alert'.threshold \in Resolved(t, Row'.context).number
  BY <1>1, <1>2, <1>3, <1>4, <1>5
<1>7. Len(alert'.scores) = 0
  BY <1>3
<1>. DEFINE none == [k \in 0 .. 0 |-> 0]
            terms == [k \in 1 .. 0 |-> alert'.scores[k].score]
<1>8. Adds(none, terms, 0) /\ none[0] = 0
  <2>1. none = [k \in 0 .. 0 |-> IF k = 0 THEN 0 ELSE none[k - 1] + terms[k]]
    <3>1. \A k \in 0 .. 0 : k = 0
      OBVIOUS
    <3>. QED BY <3>1
  <2>. QED BY <2>1 DEF Adds
<1>9. \E sum : Running(sum, Len(alert.scores))' /\ alert'.total = sum[Len(alert'.scores)]
  BY <1>3, <1>7, <1>8 DEF Running
<1>10. Judging'
  BY <1>4, <1>6, <1>7, <1>9 DEF Judging, ThresholdUnder, Decided, Stored
<1>. QED BY <1>4, <1>10, DecidedGoesOn

LEMMA DecidedCalculation ==
  ASSUME Decided, Gates', Within', Stored', EvaluateCalculation
  PROVE  Decided'
<1>. DEFINE n == Len(alert.scores)
            c == Model.calcs[n + 1]
<1>1. /\ at = "calculations" /\ IsSeq(alert.scores) /\ n < Len(Model.calcs) /\ settings \in seen
      /\ DOMAIN alert = Fields /\ m \in DOMAIN Models
  BY Lists DEF EvaluateCalculation, Decided, Gates, AlertInMaking, Position
<1>2. n \in Nat /\ n + 1 \in DOMAIN Model.calcs
  BY <1>1, Appended, Lists DEF Model
<1>3. c.steps \subseteq Settings /\ AtMostOne(c.steps)
  BY <1>1, <1>2, EveryModelHasSettings DEF Model
<1>4. \A id \in c.steps : Readable(id)
  BY DEF EvaluateCalculation, NextCalc
<1>6. PICK v \in Value(Row, c.field) :
        alert' = [alert EXCEPT !.scores = Append(@, Judged(c, v)), !.total = @ + Judged(c, v).score]
  BY DEF EvaluateCalculation, NextCalc
<1>a. AtMostOne(Value(Row, c.field))
  BY <1>1, <1>2, OneValue DEF Decided
<1>5. Judged(c, v).score = ScoreOf(settings, c, Row) /\ (Judged(c, v).passed <=> PassesUnder(settings, c, Row))
  BY <1>3, <1>4, <1>a, JudgedNow DEF Decided
<1>7. /\ alert'.scores = Append(alert.scores, Judged(c, v)) /\ alert'.total = alert.total + Judged(c, v).score
      /\ alert'.threshold = alert.threshold
  BY <1>1, <1>6 DEF Fields
<1>8. UNCHANGED <<at, m, r, found, alerts, rows, seen, settings>>
  BY DEF EvaluateCalculation, users
<1>9. Model' = Model /\ Row' = Row
  BY <1>8 DEF Model, Row
<1>10. /\ Len(alert'.scores) = n + 1 /\ \A k \in 1 .. n : alert'.scores[k] = alert.scores[k]
       /\ alert'.scores[n + 1] = Judged(c, v)
  BY <1>1, <1>7, Appended
<1>11. (\E S \in seen : ThresholdUnder(S))'
  <2>1. PICK S \in seen : ThresholdUnder(S)
    BY <1>1 DEF Decided, Judging
  <2>. QED BY <1>7, <1>8, <1>9, <2>1 DEF ThresholdUnder
<1>12. ASSUME NEW k \in 1 .. n + 1 PROVE (\E S \in seen : Judgement(k, S))'
  <2>1. CASE k \in 1 .. n
    <3>1. PICK S \in seen : Judgement(k, S)
      BY <1>1, <2>1 DEF Decided, Judging
    <3>. QED BY <1>8, <1>9, <1>10, <2>1, <3>1 DEF Judgement
  <2>2. CASE k = n + 1
    BY <1>1, <1>4, <1>5, <1>6, <1>8, <1>9, <1>10, <2>2 DEF Judgement, Readable
  <2>. QED BY <1>2, <2>1, <2>2
<1>13. (\E sum : Running(sum, Len(alert.scores)) /\ alert.total = sum[Len(alert.scores)])'
  <2>. DEFINE terms == [k \in 1 .. n |-> alert.scores[k].score]
              more == [k \in 1 .. n + 1 |-> alert'.scores[k].score]
  <2>1. PICK sum : Adds(sum, terms, n) /\ alert.total = sum[n]
    BY <1>1 DEF Decided, Judging, Running
  <2>2. \A k \in 1 .. n : more[k] = terms[k]
    BY <1>2, <1>10
  <2>3. more[n + 1] = Judged(c, v).score
    BY <1>2, <1>10
  <2>. HIDE DEF terms, more
  <2>4. PICK longer : Adds(longer, more, n + 1) /\ longer[n + 1] = sum[n] + more[n + 1]
    BY <1>2, <2>1, <2>2, OneMoreTerm
  <2>5. alert'.total = longer[n + 1]
    BY <1>7, <2>1, <2>3, <2>4
  <2>. QED BY <1>10, <2>4, <2>5 DEF Running, more
<1>14. Judging'
  BY <1>1, <1>8, <1>10, <1>11, <1>12, <1>13 DEF Judging, Decided
<1>. QED BY <1>8, <1>14, DecidedGoesOn

\* What _determine_trigger decides under settings that did not change.
LEMMA TriggeredDecided ==
  ASSUME Decided, DetermineTrigger
  PROVE  DecidedOf(Triggered)
<1>. DEFINE n == Len(alert.scores)
<1>1. /\ at = "calculations" /\ n = Len(Model.calcs) /\ IsSeq(alert.scores)
      /\ alert.model = m /\ alert.row = r /\ m \in DOMAIN Models /\ DOMAIN alert = Fields
  BY Lists DEF DetermineTrigger, Decided, Gates, Position, AlertInMaking
<1>2. n \in Nat /\ DOMAIN Model.calcs = 1 .. n /\ DOMAIN alert.scores = 1 .. n
  BY <1>1, Appended, Lists DEF Model
<1>3. /\ Triggered.model = m /\ Triggered.row = r /\ Triggered.under = seen
      /\ Triggered.total = alert.total /\ Triggered.threshold = alert.threshold
  BY <1>1 DEF Triggered, Fields
<1>4. Calcs(Triggered) = Model.calcs /\ AlertRow(Triggered) = Row
  BY <1>3 DEF Calcs, AlertRow, Model, Row
<1>5. Triggered.fired = Fired(\A i \in MustPass : alert.scores[i].passed,
                              \A i \in DOMAIN alert.scores : alert.scores[i].passed,
                              alert.total >= alert.threshold)
  BY <1>1 DEF Triggered, Fields
<1>6. SUFFICES ASSUME NEW S, seen = {S} PROVE DecidedUnder(S, Triggered) /\ Given(S, Triggered)
  BY <1>1, <1>3 DEF DecidedOf, Decided, Judging
<1>7. ThresholdUnder(S) /\ \A k \in 1 .. n : Judgement(k, S)
  BY <1>1, <1>6 DEF Decided, Judging
<1>8. Triggered.threshold \in ThresholdsUnder(S, Triggered)
  BY <1>3, <1>4, <1>7 DEF ThresholdUnder, ThresholdsUnder, Model
<1>9. Triggered.total = TotalOf([i \in 1 .. n |-> ScoreOf(S, Model.calcs[i], Row)])
  <2>. DEFINE terms == [k \in 1 .. n |-> alert.scores[k].score]
              list == [i \in 1 .. n |-> ScoreOf(S, Model.calcs[i], Row)]
  <2>1. PICK sum : Adds(sum, terms, n) /\ alert.total = sum[n]
    BY <1>1 DEF Decided, Judging, Running
  <2>2. list = terms
    BY <1>7 DEF Judgement
  <2>3. Len(list) = n
    BY <1>2
  <2>. HIDE DEF list, terms
  <2>4. TotalOf(list) = sum[n]
    BY <1>2, <2>1, <2>2, <2>3, TotalIs
  <2>. QED BY <1>3, <2>1, <2>4 DEF list
<1>10. \A i \in 1 .. n : alert.scores[i].passed <=> PassesUnder(S, Model.calcs[i], Row)
  BY <1>7 DEF Judgement
<1>11. MustPass = {i \in 1 .. n : Model.calcs[i].strictness = "MUST_PASS"}
  BY <1>2 DEF MustPass
<1>12. Triggered.fired <=>
          /\ \A i \in 1 .. n : Model.calcs[i].strictness = "MUST_PASS" => PassesUnder(S, Model.calcs[i], Row)
          /\ (\A i \in 1 .. n : PassesUnder(S, Model.calcs[i], Row)) \/ alert.total >= alert.threshold
  BY <1>2, <1>5, <1>10, <1>11, Zenon DEF Fired
<1>13. Given(S, Triggered)
  BY <1>2, <1>4, <1>7 DEF Given, Judgement
<1>. QED BY <1>1, <1>2, <1>3, <1>4, <1>8, <1>9, <1>12, <1>13 DEF DecidedUnder

LEMMA DecidedTrigger ==
  ASSUME Decided, Gates', Within', Stored', DetermineTrigger
  PROVE  Decided'
<1>. DEFINE list == Append(found, Triggered)
<1>1. IsSeq(list) /\ \A n \in DOMAIN list : DecidedOf(list[n])
  <2>1. IsSeq(found) /\ \A n \in DOMAIN found : DecidedOf(found[n])
    BY DEF Decided, Gates
  <2>. QED BY <2>1, TriggeredDecided, Appended
<1>. HIDE DEF list
<1>2. CASE r = Len(rows[m])
  <2>1. EndModel(list) /\ rows' = rows
    BY <1>2 DEF DetermineTrigger, list
  <2>. QED BY <1>1, <2>1, DecidedEnd
<1>3. CASE r # Len(rows[m])
  <2>1. found' = list /\ at' = "threshold" /\ UNCHANGED <<alerts, rows>>
    BY <1>3 DEF DetermineTrigger, list
  <2>2. ASSUME NEW k \in DOMAIN found' PROVE DecidedOf(found[k])'
    <3>1. PICK a : a = list[k] /\ DecidedOf(a)
      BY <1>1, <2>1
    <3>2. DecidedOf(a)' /\ a = found'[k]
      BY <2>1, <3>1, SameDecided
    <3>. QED BY <3>2
  <2>3. ASSUME NEW k \in DOMAIN alerts PROVE DecidedOf(alerts[k])'
    <3>1. PICK a : a = alerts[k] /\ DecidedOf(a)
      BY DEF Decided
    <3>2. DecidedOf(a)' /\ a = alerts'[k]
      BY <2>1, <3>1, SameDecided
    <3>. QED BY <3>2
  <2>. QED BY <2>1, <2>2, <2>3 DEF Decided, Judging
<1>. QED BY <1>2, <1>3

\* Users add to what the row in progress has seen.
LEMMA DecidedUsers ==
  ASSUME Decided, Gates', Within', Stored', Truncate \/ WriteSetting \/ Reset
  PROVE  Decided'
<1>1. UNCHANGED engine
  BY DEF Truncate, WriteSetting, Reset, engine
<1>2. at = "calculations" => seen \subseteq seen'
  BY DEF Truncate, WriteSetting, Reset, Becomes
<1>3. Judging'
  <2>. SUFFICES ASSUME at = "calculations" PROVE Judging'
    BY <1>1 DEF engine, Judging
  <2>0. Model' = Model /\ Row' = Row /\ alert' = alert
    BY <1>1 DEF engine, Model, Row
  <2>1. (\E S \in seen : ThresholdUnder(S))'
    BY <1>2, <2>0 DEF ThresholdUnder, Decided, Judging
  <2>2. (\A k \in 1 .. Len(alert.scores) : \E S \in seen : Judgement(k, S))'
    <3>. TAKE k \in 1 .. Len(alert'.scores)
    <3>1. PICK S \in seen : Judgement(k, S)
      BY <2>0 DEF Decided, Judging
    <3>. QED BY <1>2, <2>0, <3>1 DEF Judgement
  <2>3. (\E sum : Running(sum, Len(alert.scores)) /\ alert.total = sum[Len(alert.scores)])'
    BY <2>0 DEF Running, Decided, Judging
  <2>4. \A S \in seen' : Fit(S)
    BY DEF Truncate, WriteSetting, Reset, Becomes, Decided, Judging, Stored
  <2>. QED BY <2>1, <2>2, <2>3, <2>4 DEF Judging
<1>. QED BY <1>1, <1>3, DecidedGoesOn DEF engine

LEMMA DecidedStep == Decided /\ [Next]_vars => Decided'
<1>. SUFFICES ASSUME Decided, [Next]_vars PROVE Decided'
  OBVIOUS
<1>1. Gates' /\ Within' /\ Stored'
  BY GatesStep, WithinStep, StoredStep DEF Decided
<1>2. CASE UNCHANGED vars
  <2>1. Judging'
    BY <1>2 DEF vars, Decided, Judging, ThresholdUnder, Judgement, Running, Model, Row
  <2>. QED BY <1>1, <1>2, <2>1, DecidedGoesOn DEF vars
<1>3. CASE ModelError \/ QueryRaises
  BY <1>1, <1>3, DecidedEnd, EmptySeq DEF ModelError, QueryRaises, Kept
<1>. QED BY <1>1, <1>2, <1>3, DecidedQuery, DecidedThreshold, DecidedCalculation, DecidedTrigger, DecidedUsers DEF Next

\* An alert fires if all gates pass, and all checks or the score do, its score being
\* the sum of what the calculations score: as one evaluation under the settings
\* decides when they do not change meanwhile, whatever models, rows, strategies,
\* overrides and score steps there are.
THEOREM AlertsAreDecided == Spec => []DecidedBySettings
<1>1. Decided => DecidedBySettings
  BY DEF Decided, DecidedOf, DecidedBySettings
<1>. QED BY <1>1, DecidedInit, DecidedStep, PTL DEF Spec

-----------------------------------------------------------------------------
(* More in a row *)

StepsOk(steps) ==
  /\ DOMAIN steps = 1 .. Len(steps) /\ Len(steps) \in Nat
  /\ \A i \in DOMAIN steps :
       /\ steps[i].score \in Int
       /\ \A bound \in {steps[i].min, steps[i].max} : bound \subseteq Int /\ AtMostOne(bound)

Hits(steps, v) == {i \in DOMAIN steps : InStep(steps[i], v)}

LEMMA FirstHit ==
  ASSUME NEW steps, StepsOk(steps), NEW v
  PROVE  \/ Hits(steps, v) = {} /\ Score(steps, v) = 0
         \/ \E i \in Hits(steps, v) : (\A j \in Hits(steps, v) : i <= j) /\ Score(steps, v) = steps[i].score
<1>. SUFFICES ASSUME Hits(steps, v) # {}
              PROVE  \E i \in Hits(steps, v) : (\A j \in Hits(steps, v) : i <= j) /\ Score(steps, v) = steps[i].score
  BY DEF Score, Hits
<1>1. Hits(steps, v) \subseteq Nat
  BY DEF Hits, StepsOk
<1>2. PICK x \in Hits(steps, v) : \A y \in Hits(steps, v) : ~ (y < x)
  BY <1>1, LeastNatural
<1>3. \A y \in Hits(steps, v) : x <= y
  BY <1>1, <1>2
<1>. DEFINE i == CHOOSE i \in Hits(steps, v) : \A j \in Hits(steps, v) : i <= j
<1>4. i \in Hits(steps, v) /\ \A j \in Hits(steps, v) : i <= j
  BY <1>3
<1>5. Score(steps, v) = steps[i].score
  BY DEF Score, Hits
<1>. QED BY <1>4, <1>5

\* A larger value falls into the same step or a later one.
LEMMA LaterStep ==
  ASSUME NEW steps, StepsOk(steps), Ascending(steps), NEW v \in Int, NEW w \in Int, v <= w,
         NEW i \in Hits(steps, v)
  PROVE  Hits(steps, w) # {} /\ \A j \in Hits(steps, w) : i <= j
<1>1. i \in DOMAIN steps /\ (\A x \in steps[i].min : x <= v) /\ i \in 1 .. Len(steps) /\ Len(steps) \in Nat
      /\ DOMAIN steps = 1 .. Len(steps)
  BY DEF Hits, InStep, StepsOk
<1>2. ASSUME NEW j \in Hits(steps, w), j < i PROVE FALSE
  <2>1. j \in DOMAIN steps /\ \A x \in steps[j].max : w < x
    BY DEF Hits, InStep
  <2>2. PICK x \in steps[j].max : \E y \in steps[i].min : x <= y
    BY <1>1, <1>2, <2>1 DEF Ascending
  <2>3. PICK y \in steps[i].min : x <= y
    BY <2>2
  <2>4. x \in Int /\ y \in Int
    BY <1>1, <2>1 DEF StepsOk
  <2>. QED BY <1>1, <2>1, <2>2, <2>3, <2>4
<1>3. Hits(steps, w) # {}
  <2>. DEFINE T == {k \in i .. Len(steps) : \A x \in steps[k].max : w < x}
  <2>1. Len(steps) \in T
    <3>1. Len(steps) + 1 \notin DOMAIN steps /\ Len(steps) \in DOMAIN steps
      BY <1>1
    <3>2. steps[Len(steps)].max = {}
      BY <3>1 DEF Ascending
    <3>. QED BY <1>1, <3>2
  <2>2. T \subseteq Nat
    BY <1>1
  <2>3. PICK k \in T : \A l \in T : ~ (l < k)
    BY <2>1, <2>2, LeastNatural
  <2>4. k \in DOMAIN steps /\ k \in i .. Len(steps)
    BY <1>1
  <2>5. \A y \in steps[k].min : y <= w
    <3>1. CASE k = i
      <4>1. steps[k].min \subseteq Int
        BY <2>4 DEF StepsOk
      <4>. QED BY <1>1, <3>1, <4>1
    <3>2. CASE k # i
      <4>. DEFINE l == k - 1
      <4>1. l \in i .. Len(steps) /\ l < k /\ l \in DOMAIN steps /\ l + 1 = k
        BY <1>1, <2>4, <3>2
      <4>. HIDE DEF l
      <4>2. l \notin T
        BY <2>3, <4>1
      <4>3. PICK x \in steps[l].max : ~ (w < x)
        BY <4>1, <4>2
      <4>4. steps[l].max = steps[k].min
        BY <2>4, <4>1 DEF Ascending
      <4>5. steps[l].max \subseteq Int /\ AtMostOne(steps[l].max)
        BY <4>1 DEF StepsOk
      <4>6. x \in Int /\ \A y \in steps[k].min : y = x
        BY <4>3, <4>4, <4>5 DEF AtMostOne
      <4>. QED BY <4>3, <4>6
    <3>. QED BY <3>1, <3>2
  <2>6. \A x \in steps[k].max : w < x
    BY <2>3
  <2>. QED BY <2>4, <2>5, <2>6 DEF Hits, InStep
<1>. QED BY <1>1, <1>2, <1>3 DEF Hits

LEMMA ScoreAscends ==
  ASSUME NEW steps, StepsOk(steps), Ascending(steps), NEW v \in Int, NEW w \in Int, v <= w
  PROVE  Score(steps, v) \in Int /\ Score(steps, w) \in Int /\ Score(steps, v) <= Score(steps, w)
<1>1. ASSUME NEW i \in DOMAIN steps PROVE steps[i].score \in Int /\ steps[i].score >= 0
  BY DEF StepsOk, Ascending
<1>2. Hits(steps, v) \subseteq DOMAIN steps /\ Hits(steps, w) \subseteq DOMAIN steps /\ DOMAIN steps \subseteq Int
  BY DEF Hits, StepsOk
<1>3. CASE Hits(steps, v) = {}
  BY <1>1, <1>2, <1>3, FirstHit
<1>4. CASE Hits(steps, v) # {}
  <2>1. PICK i \in Hits(steps, v) : Score(steps, v) = steps[i].score
    BY <1>4, FirstHit
  <2>2. PICK j \in Hits(steps, w) : Score(steps, w) = steps[j].score
    BY <2>1, LaterStep, FirstHit
  <2>3. i <= j /\ i \in DOMAIN steps /\ j \in DOMAIN steps
    BY <1>2, <2>1, <2>2, LaterStep
  <2>4. i = j \/ i < j
    BY <1>2, <2>3
  <2>5. steps[i].score <= steps[j].score
    BY <1>1, <2>3, <2>4 DEF Ascending
  <2>. QED BY <1>1, <2>1, <2>2, <2>3, <2>5
<1>. QED BY <1>3, <1>4

\* Every list of terms has a running sum.
LEMMA SumExists ==
  ASSUME NEW n \in Nat, NEW terms
  PROVE  \E sum : Adds(sum, terms, n)
<1>. DEFINE T == {k \in 0 .. n : ~ \E sum : Adds(sum, terms, k)}
<1>1. SUFFICES ASSUME T # {} PROVE FALSE
  OBVIOUS
<1>2. PICK k \in T : \A j \in T : ~ (j < k)
  <2>1. T \subseteq Nat
    OBVIOUS
  <2>. QED BY <1>1, <2>1, LeastNatural
<1>3. CASE k = 0
  <2>. DEFINE none == [j \in 0 .. 0 |-> 0]
  <2>1. none = [j \in 0 .. 0 |-> IF j = 0 THEN 0 ELSE none[j - 1] + terms[j]]
    <3>1. \A j \in 0 .. 0 : j = 0
      OBVIOUS
    <3>. QED BY <3>1
  <2>. QED BY <1>2, <1>3, <2>1 DEF Adds
<1>4. CASE k # 0
  <2>1. k - 1 \in Nat /\ k - 1 \in 0 .. n /\ k - 1 < k /\ (k - 1) + 1 = k
    BY <1>2, <1>4
  <2>2. PICK sum : Adds(sum, terms, k - 1)
    BY <1>2, <2>1
  <2>3. \E longer : Adds(longer, terms, (k - 1) + 1)
    BY <2>1, <2>2, OneMoreTerm
  <2>. QED BY <1>2, <2>1, <2>3
<1>. QED BY <1>3, <1>4

\* The total of no smaller scores is no smaller.
LEMMA TotalAscends ==
  ASSUME NEW n \in Nat, NEW f, NEW g, Len(f) = n, Len(g) = n,
         \A i \in 1 .. n : f[i] \in Int /\ g[i] \in Int /\ f[i] <= g[i]
  PROVE  TotalOf(f) \in Int /\ TotalOf(g) \in Int /\ TotalOf(f) <= TotalOf(g)
<1>1. PICK F : Adds(F, f, n)  BY SumExists
<1>2. PICK G : Adds(G, g, n)  BY SumExists
<1>3. \A k \in 0 .. n : /\ F[k] = IF k = 0 THEN 0 ELSE F[k - 1] + f[k]
                        /\ G[k] = IF k = 0 THEN 0 ELSE G[k - 1] + g[k]
  BY <1>1, <1>2 DEF Adds
<1>. DEFINE Good(k) == F[k] \in Int /\ G[k] \in Int /\ F[k] <= G[k]
            T == {k \in 0 .. n : ~ Good(k)}
<1>4. T = {}
  <2>1. SUFFICES ASSUME T # {} PROVE FALSE
    OBVIOUS
  <2>2. PICK k \in T : \A j \in T : ~ (j < k)
    <3>1. T \subseteq Nat
      OBVIOUS
    <3>. QED BY <2>1, <3>1, LeastNatural
  <2>3. k \in 1 .. n
    BY <1>3, <2>2
  <2>4. k - 1 \in 0 .. n /\ k - 1 < k
    BY <2>3
  <2>5. Good(k - 1)
    BY <2>2, <2>4
  <2>6. F[k] = F[k - 1] + f[k] /\ G[k] = G[k - 1] + g[k] /\ k # 0
    BY <1>3, <2>3
  <2>. QED BY <2>2, <2>3, <2>5, <2>6
<1>5. Good(n)
  BY <1>4
<1>. QED BY <1>1, <1>2, <1>5, TotalIs

\* A calculation of a row whose values are no smaller scores no less.
LEMMA CalculationAscends ==
  ASSUME NEW S, Fit(S), NEW c, c.steps \subseteq Settings, AtMostOne(c.steps), \A id \in c.steps : S[id] # {},
         \A id \in c.steps : \A s \in S[id] : \A v \in Values(s) : Ascending(v.steps),
         NEW p, NEW q, p.context = q.context,
         \A row \in {p, q} : /\ Value(row, c.field) \subseteq Int /\ Value(row, c.field) # {}
                              /\ AtMostOne(Value(row, c.field)),
         \A x \in Value(p, c.field), y \in Value(q, c.field) : x <= y
  PROVE  /\ ScoreOf(S, c, p) \in Int /\ ScoreOf(S, c, q) \in Int /\ ScoreOf(S, c, p) <= ScoreOf(S, c, q)
         /\ PassesUnder(S, c, p) => PassesUnder(S, c, q)
<1>1. CASE c.steps = {}
  BY <1>1 DEF ScoreOf, PassesUnder
<1>2. CASE c.steps # {}
  <2>1. PICK id \in c.steps : TRUE
    BY <1>2
  <2>2. PICK s \in S[id] : TRUE
    BY <2>1
  <2>3. \A other \in c.steps : other = id
    BY <2>1 DEF AtMostOne
  <2>4. \A t \in S[id] : t = s
    BY <2>1, <2>2 DEF Fit, AtMostOne
  <2>5. UNION {S[other] : other \in c.steps} = {s}
    BY <2>2, <2>3, <2>4
  <2>. DEFINE v == Resolved(s, p.context)
              of(row) == CHOOSE u \in Value(row, c.field) : TRUE
              x == Score(v.steps, of(p))
              y == Score(v.steps, of(q))
  <2>6. v \in Values(s) /\ s \in Definitions(id) /\ id \in Settings
    BY <2>1, <2>2, ResolvedIsValue DEF Fit
  <2>7. StepsOk(v.steps)
    <3>. HIDE DEF v
    <3>. QED BY <2>6, ValuesOfSettings DEF StepsOk
  <2>8. Ascending(v.steps)
    <3>. HIDE DEF v
    <3>. QED BY <2>1, <2>2, <2>6
  <2>a. /\ of(p) \in Value(p, c.field) /\ of(q) \in Value(q, c.field)
        /\ Value(p, c.field) = {of(p)} /\ Value(q, c.field) = {of(q)}
    BY DEF AtMostOne
  <2>. HIDE DEF of
  <2>9. of(p) <= of(q) /\ of(p) \in Int /\ of(q) \in Int
    BY <2>a
  <2>10. x \in Int /\ y \in Int /\ x <= y
    <3>. HIDE DEF v
    <3>. QED BY <2>7, <2>8, <2>9, ScoreAscends
  <2>11. ScoreUnder(S, c, p) = {x} /\ ScoreUnder(S, c, q) = {y}
    <3>1. Resolved(s, q.context) = v
      OBVIOUS
    <3>. QED BY <2>5, <2>a, <3>1 DEF ScoreUnder
  <2>. HIDE DEF x, y
  <2>12. ScoreOf(S, c, p) = x /\ ScoreOf(S, c, q) = y
    BY <1>2, <2>11 DEF ScoreOf
  <2>13. (PassesUnder(S, c, p) <=> x > 0) /\ (PassesUnder(S, c, q) <=> y > 0)
    BY <1>2, <2>11 DEF PassesUnder
  <2>. QED BY <2>10, <2>12, <2>13
<1>. QED BY <1>1, <1>2

\* An alert that is listed is of a row that a query gave.
LEMMA ListedRows ==
  ASSUME Costs, NEW n \in DOMAIN alerts
  PROVE  alerts[n].row \in 1 .. Len(rows[alerts[n].model])
<1>. DEFINE k == alerts[n].model
<1>1. k \in 1 .. m - 1 /\ n \in Of(k, alerts)
  BY DEF Costs, Of
<1>. HIDE DEF k
<1>2. Complete(k, alerts)
  BY <1>1 DEF Costs, Lost
<1>3. PICK first \in 0 .. Len(alerts) : /\ Of(k, alerts) = first + 1 .. first + Len(rows[k])
                                        /\ \A i \in 1 .. Len(rows[k]) : alerts[first + i].row = i
  BY <1>2 DEF Complete
<1>4. Len(alerts) \in Nat /\ DOMAIN alerts = 1 .. Len(alerts)
  BY Appended DEF Costs, Gates
<1>5. n \in first + 1 .. first + Len(rows[k]) /\ first \in Nat /\ n \in Nat
  BY <1>1, <1>3, <1>4
<1>6. Len(rows[k]) \in Int => n - first \in 1 .. Len(rows[k]) /\ first + (n - first) = n
  BY <1>5
<1>. QED BY <1>3, <1>5, <1>6 DEF k

\* Two alerts that were decided under the same settings, of rows one of which has
\* no smaller values than the other.
LEMMA MoreFires ==
  ASSUME Decided, Costs, NEW n \in DOMAIN alerts, NEW k \in DOMAIN alerts, NEW S,
         alerts[n].under = {S}, alerts[k].under = {S}, alerts[n].model = alerts[k].model, alerts[n].fired,
         AlertRow(alerts[n]).context = AlertRow(alerts[k]).context,
         NoSmaller(Calcs(alerts[n]), AlertRow(alerts[n]), AlertRow(alerts[k])), Ascend(S, Calcs(alerts[n]))
  PROVE  alerts[k].fired
<1>1. PICK a : a = alerts[n] /\ DecidedOf(a)
  BY DEF Decided
<1>2. PICK b : b = alerts[k] /\ DecidedOf(b)
  BY DEF Decided
<1>3. PICK model : model = a.model /\ model \in DOMAIN Models /\ b.model = model
  BY <1>1, <1>2 DEF DecidedOf
<1>4. PICK calcs : calcs = Calcs(a) /\ calcs = Calcs(b) /\ calcs = Models[model].calcs
  BY <1>3 DEF Calcs
<1>5. PICK p : p = AlertRow(a) /\ p = rows[model][a.row]
  BY <1>3 DEF AlertRow
<1>6. PICK q : q = AlertRow(b) /\ q = rows[model][b.row]
  BY <1>3 DEF AlertRow
<1>7. a.row \in 1 .. Len(rows[model]) /\ b.row \in 1 .. Len(rows[model])
  BY <1>1, <1>2, <1>3, ListedRows
<1>8. Fit(S) /\ DecidedUnder(S, a) /\ DecidedUnder(S, b) /\ Given(S, a) /\ Given(S, b)
  BY <1>1, <1>2 DEF DecidedOf
<1>9. PICK N \in Nat : N = Len(calcs) /\ DOMAIN calcs = 1 .. N
  BY <1>3, <1>4, Lists
<1>10. ASSUME NEW i \in 1 .. N
       PROVE  /\ ScoreOf(S, calcs[i], p) \in Int /\ ScoreOf(S, calcs[i], q) \in Int
              /\ ScoreOf(S, calcs[i], p) <= ScoreOf(S, calcs[i], q)
              /\ PassesUnder(S, calcs[i], p) => PassesUnder(S, calcs[i], q)
  <2>1. PICK c : c = calcs[i]
    OBVIOUS
  <2>2. c.steps \subseteq Settings /\ AtMostOne(c.steps)
    BY <1>3, <1>4, <1>9, <2>1, EveryModelHasSettings
  <2>3. \A id \in c.steps : S[id] # {}
    BY <1>4, <1>8, <1>9, <2>1 DEF Given
  <2>4. \A id \in c.steps : \A s \in S[id] : \A v \in Values(s) : Ascending(v.steps)
    BY <1>1, <1>4, <1>9, <2>1 DEF Ascend
  <2>5. p.context = q.context /\ \A x \in Value(p, c.field), y \in Value(q, c.field) : x <= y
    BY <1>1, <1>2, <1>4, <1>5, <1>6, <1>9, <2>1 DEF NoSmaller
  <2>6. \A row \in {p, q} : /\ Value(row, c.field) \subseteq Int /\ Value(row, c.field) # {}
                             /\ AtMostOne(Value(row, c.field))
    <3>1. rows \in Queries
      BY DEF Decided, Within
    <3>2. ASSUME NEW j \in 1 .. Len(rows[model])
          PROVE  /\ Value(rows[model][j], c.field) \subseteq Int
                 /\ AtMostOne(Value(rows[model][j], c.field))
      <4>1. i \in DOMAIN Models[model].calcs /\ c = Models[model].calcs[i]
        BY <1>4, <1>9, <2>1
      <4>. QED BY <1>3, <3>1, <4>1, ValuesOfRows
    <3>3. Value(p, c.field) # {} /\ Value(q, c.field) # {}
      BY <1>4, <1>5, <1>6, <1>8, <1>9, <2>1 DEF Given
    <3>. QED BY <1>5, <1>6, <1>7, <3>2, <3>3
  <2>. QED BY <1>8, <2>1, <2>2, <2>3, <2>4, <2>5, <2>6, CalculationAscends
<1>11. a.total \in Int /\ b.total \in Int /\ a.total <= b.total
  <2>. DEFINE f == [i \in 1 .. N |-> ScoreOf(S, calcs[i], p)]
              g == [i \in 1 .. N |-> ScoreOf(S, calcs[i], q)]
  <2>1. \A i \in 1 .. N : f[i] \in Int /\ g[i] \in Int /\ f[i] <= g[i]
    BY <1>10
  <2>2. Len(f) = N /\ Len(g) = N
    OBVIOUS
  <2>3. a.total = TotalOf(f) /\ b.total = TotalOf(g)
    BY <1>4, <1>5, <1>6, <1>8, <1>9 DEF DecidedUnder
  <2>. HIDE DEF f, g
  <2>. QED BY <2>1, <2>2, <2>3, TotalAscends
<1>12. a.threshold = b.threshold /\ a.threshold \in Int
  <2>. DEFINE id == Models[model].threshold
              X(row) == UNION {Resolved(s, row.context).number : s \in S[id]}
  <2>0. ThresholdsUnder(S, a) = X(p) /\ ThresholdsUnder(S, b) = X(q)
    BY <1>3, <1>5, <1>6 DEF ThresholdsUnder
  <2>1. a.threshold \in X(p) /\ b.threshold \in X(p)
    <3>1. a.threshold \in ThresholdsUnder(S, a) /\ b.threshold \in ThresholdsUnder(S, b)
      BY <1>8 DEF DecidedUnder
    <3>2. p.context = q.context
      BY <1>1, <1>2, <1>5, <1>6
    <3>. HIDE DEF id
    <3>. QED BY <2>0, <3>1, <3>2
  <2>2. id \in Settings
    BY <1>3, EveryModelHasSettings
  <2>. HIDE DEF id
  <2>3. PICK s \in S[id] : a.threshold \in Resolved(s, p.context).number
    BY <2>1
  <2>4. b.threshold \in Resolved(s, p.context).number
    BY <1>8, <2>1, <2>2 DEF Fit, AtMostOne
  <2>5. s \in Definitions(id)
    BY <1>8, <2>2 DEF Fit
  <2>6. Resolved(s, p.context).number \subseteq Int /\ AtMostOne(Resolved(s, p.context).number)
    BY <2>2, <2>5, ValuesOfSettings, ResolvedIsValue
  <2>. QED BY <2>3, <2>4, <2>6 DEF AtMostOne
<1>13. /\ \A i \in DOMAIN calcs : calcs[i].strictness = "MUST_PASS" => PassesUnder(S, calcs[i], p)
       /\ (\A i \in DOMAIN calcs : PassesUnder(S, calcs[i], p)) \/ a.total >= a.threshold
  BY <1>1, <1>4, <1>5, <1>8 DEF DecidedUnder
<1>14. /\ \A i \in DOMAIN calcs : calcs[i].strictness = "MUST_PASS" => PassesUnder(S, calcs[i], q)
       /\ (\A i \in DOMAIN calcs : PassesUnder(S, calcs[i], q)) \/ b.total >= b.threshold
  BY <1>9, <1>10, <1>11, <1>12, <1>13
<1>15. b.fired
  BY <1>4, <1>6, <1>8, <1>14 DEF DecidedUnder
<1>. QED BY <1>2, <1>15

\* With score steps that ascend, a row whose values are no smaller than those of a
\* row that fired fires too, in the same context and under the same settings: for
\* any models and rows, any number of score steps and any overrides.
THEOREM MoreAlwaysFires == Spec => []MoreFiresToo
<1>1. Decided /\ Costs => MoreFiresToo
  BY MoreFires DEF MoreFiresToo
<1>. QED BY <1>1, DecidedInit, DecidedStep, CostsInit, CostsStep, PTL DEF Spec

-----------------------------------------------------------------------------
(* The resolver *)

\* Unless an override matches everything, the two strategies choose the same one.
THEOREM StrategiesAgree ==
  ASSUME NEW s, NEW t, NEW context, s.overrides = t.overrides,
         \A i \in DOMAIN s.overrides : DOMAIN s.overrides[i].match # {}
  PROVE  Best(s, context) = Best(t, context)
<1>1. Candidates(s, context) = Candidates(t, context)
  BY DEF Candidates
<1>. QED BY <1>1 DEF Best

\* At most one override is chosen, so that the order of the overrides decides
\* between equals and nothing else is arbitrary.
THEOREM OneOverrideChosen ==
  ASSUME NEW s, NEW context, DOMAIN s.overrides \subseteq Nat,
         \A i \in DOMAIN s.overrides : /\ s.overrides[i].priority \in Nat
                                       /\ IsFiniteSet(DOMAIN s.overrides[i].match),
         NEW i \in Best(s, context), NEW j \in Best(s, context)
  PROVE  i = j
<1>. SUFFICES ASSUME i # j PROVE FALSE
  OBVIOUS
<1>1. /\ i \in DOMAIN s.overrides /\ j \in DOMAIN s.overrides
      /\ Candidates(s, context) \subseteq DOMAIN s.overrides
  BY DEF Best, Candidates
<1>. DEFINE o == s.overrides[i]
            p == s.overrides[j]
<1>2. Dimensions(o) \in Nat /\ Dimensions(p) \in Nat
  BY <1>1, FS_CardinalityType DEF Dimensions
<1>3. /\ Ahead(o, p) \/ (~ Ahead(p, o) /\ i < j)
      /\ Ahead(p, o) \/ (~ Ahead(o, p) /\ j < i)
  BY DEF Best
<1>. QED BY <1>1, <1>2, <1>3 DEF Ahead
=============================================================================
