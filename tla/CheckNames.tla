----------------------------- MODULE CheckNames -----------------------------
(***************************************************************************)
(* The names of metrics and labels that promcore accepts (core/src/        *)
(* check_names.cc). A name is a sequence of characters; an element of      *)
(* Letters may stand for a whole word of letters.                          *)
(***************************************************************************)
EXTENDS Sequences, SequencesExt

CONSTANTS
  Letters,  \* 'a'..'z', 'A'..'Z', and words of them: "le" and "quantile" are
  Digits    \* '0'..'9'

isLocaleIndependentAlphaNumeric(c) == c \in Letters \cup Digits

\* compare(0, 2, "__") compares the two first characters, or fewer.
nameStartsValid(name) ==
  /\ name # << >>
  /\ name[1] \notin Digits
  /\ ~IsPrefix(<<"_", "_">>, name)

CheckMetricName(name) ==
  /\ nameStartsValid(name)
  /\ \A i \in DOMAIN name :
       isLocaleIndependentAlphaNumeric(name[i]) \/ name[i] \in {"_", ":"}

\* Not the code: the label names a metric type needs itself are let through.
CheckLabelNameAnyType(name, type) ==
  /\ nameStartsValid(name)
  /\ \A i \in DOMAIN name : isLocaleIndependentAlphaNumeric(name[i]) \/ name[i] = "_"

CheckLabelName(name, type) ==
  /\ nameStartsValid(name)
  /\ <<type, name>> \notin {<<"Histogram", <<"le">>>>, <<"Summary", <<"quantile">>>>}
  /\ \A i \in DOMAIN name : isLocaleIndependentAlphaNumeric(name[i]) \/ name[i] = "_"
=============================================================================
