------------------------- MODULE MCDetectionScoring -------------------------
(* DetectionScoring with two models, two settings, rows with two values, one of *)
(* which may be missing or no number, and a threshold that users have to make.  *)
EXTENDS DetectionScoring

\* Score steps with two boundaries and no upper end.
Ladder(low, high, score) ==
  << [min |-> {0}, max |-> {low}, score |-> 0],
     [min |-> {low}, max |-> {high}, score |-> score],
     [min |-> {high}, max |-> {}, score |-> 2 * score] >>
Steps(ladder) == [number |-> {}, steps |-> ladder]
Number(x) == [number |-> {x}, steps |-> <<>>]
Text == [number |-> {}, steps |-> <<>>]

Setting(default, type, overrides) ==
  [default |-> default, match_type |-> type, overrides |-> overrides]
Override(match, value, priority) == [match |-> match, value |-> value, priority |-> priority]

Equity == [asset |-> "equity"]
EquityApple == [asset |-> "equity", product |-> "AAPL"]
AppleOnly == [product |-> "AAPL"]
Fx == [asset |-> "fx"]

MCShipped ==
  [ladder |-> Setting(Steps(Ladder(1, 2, 3)), "hierarchy",
                      <<Override(Equity, Steps(Ladder(1, 3, 2)), 1)>>),
   limit |-> Setting(Number(4), "hierarchy", <<Override(EquityApple, Number(8), 2)>>),
   own |-> NotThere]

\* A definition with overrides that compete, and one that cannot be used.
MCSaveable ==
  [ladder |-> {Setting(Steps(Ladder(2, 3, 3)), "multi_dimensional",
                       <<Override(AppleOnly, Steps(Ladder(1, 2, 4)), 3),
                         Override(Equity, Steps(Ladder(2, 3, 1)), 3)>>)},
   limit |-> {Setting(Number(2), "hierarchy",
                      <<Override(AppleOnly, Number(3), 100), Override(EquityApple, Number(7), 2)>>),
              Setting(Text, "hierarchy", <<>>)},
   own |-> {Setting(Number(2), "hierarchy", <<>>)}]

Calc(field, strictness, steps) == [field |-> field, strictness |-> strictness, steps |-> steps]
MCModels ==
  << [threshold |-> "limit", calcs |-> <<Calc("a", "MUST_PASS", {"ladder"}),
                                         Calc("b", "OPTIONAL", {"ladder"})>>],
     [threshold |-> "own", calcs |-> <<Calc("a", "MUST_PASS", {}), Calc("b", "OPTIONAL", {"ladder"})>>] >>

\* Two rows of a model, the second with no smaller values, and one of the other; a
\* column may be missing, and its value in one row may be no number.
RowsOf(context, a) ==
  [context : {context}, values : [a : a, b : {{2}, {3}}] \cup [a : a]]
MCQueries ==
  UNION {{<< <<p, q>>, <<p>> >> : <<p, q>> \in
            {x \in RowsOf(context, {{0}, {2}, {3}}) \X RowsOf(context, {{2}, {3}, {}}) :
               DOMAIN x[1].values = DOMAIN x[2].values /\ NoSmaller(MCModels[1].calcs, x[1], x[2])}}
         : context \in {EquityApple, Fx}}
=============================================================================
