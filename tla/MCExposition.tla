---------------------------- MODULE MCExposition ----------------------------
(* Names, labels and numbers that can get in each other's way.              *)
EXTENDS Exposition, Integers

MCLetters == {"h", "le", "job", "quantile", "count"}
MCDigits  == {"5"}

\* Two good names, one of which is the other with a suffix, one only for
\* internal purposes, and no name.
MCNames == {<<"h">>, <<"h", "_", "count">>, <<"_", "_", "h">>, << >>}

MCLabelSets == {<< >>, <<"job">> :> "api", <<"le">> :> "1", <<"quantile">> :> "1",
                <<"job">> :> "api" @@ <<"5">> :> "x"}

MCTypes == <<"CounterInt", "GaugeDouble", "Histogram", "Info", "Summary">>

\* A double is 100 times its value; 100 and 101 are 1.0 and the next double,
\* which differ in the 17th digit only. A text has 16.
MCInf == 100000
MCPrinted(x) == (x \div 10) * 10
MCLess(x, y) == x < y
MCEstimate == 700
MCValues == {50, 150}

\* Good boundaries, none at all, ones that are not sorted, that are written alike
\* or infinite; good quantiles, and one twice.
MCArguments(T) ==
  CASE T = "Histogram" -> {<< >>, <<100, 200>>, <<200, 100>>, <<100, 101>>, <<100, MCInf>>}
    [] T = "Summary"   -> {<<50, 90>>, <<90, 90>>}
    [] OTHER           -> {<< >>}
=============================================================================
