----------------------------- MODULE FamilySpec -----------------------------
(***************************************************************************)
(* What a promcore Family promises: a map from valid label sets to metrics *)
(* and four operations that take effect atomically between call and return.*)
(***************************************************************************)
EXTENDS Functions

CONSTANTS Threads, LabelSets, LabelNames, ConstantNames, Addrs, Foreign

VARIABLES
  table,     \* labels -> metric
  request,   \* the call of each thread
  response   \* its result, once it has taken effect

vars == <<table, request, response>>

NoCall  == [op |-> "none"]
NoReply == [status |-> "none"]

Init ==
  /\ table = << >>
  /\ request = [t \in Threads |-> NoCall]
  /\ response = [t \in Threads |-> NoReply]

Requests ==
  {[op |-> "Collect"]}
    \cup [op : {"Add", "Has"}, labels : LabelSets]
    \cup [op : {"Remove"}, metric : Addrs \cup {Foreign}]

Invoke(t) ==
  /\ request[t] = NoCall
  /\ \E r \in Requests : request' = [request EXCEPT ![t] = r]
  /\ UNCHANGED <<table, response>>

Pending(t, op) == request[t].op = op /\ response[t] = NoReply

Respond(t, r) == response' = [response EXCEPT ![t] = r] /\ UNCHANGED request

\* The labels are known: the metric that has them.
AddKnown(t) ==
  /\ Pending(t, "Add")
  /\ request[t].labels \in DOMAIN table
  /\ Respond(t, [status |-> "ref", metric |-> table[request[t].labels]])
  /\ UNCHANGED table

\* They are new and acceptable: a new metric, distinct from all others.
AddFresh(t) ==
  LET l == request[t].labels
  IN  /\ Pending(t, "Add")
      /\ l \notin DOMAIN table
      /\ DOMAIN l \subseteq LabelNames \ ConstantNames
      /\ \E a \in Addrs \ Range(table) :
           /\ table' = [k \in DOMAIN table \cup {l} |-> IF k = l THEN a ELSE table[k]]
           /\ Respond(t, [status |-> "ref", metric |-> a])

\* They are not acceptable: an exception, and nothing has changed.
AddRefused(t) ==
  /\ Pending(t, "Add")
  /\ ~(DOMAIN request[t].labels \subseteq LabelNames \ ConstantNames)
  /\ Respond(t, [status |-> "throw"])
  /\ UNCHANGED table

\* At most one entry goes, and it is the one that owns the metric.
Remove(t) ==
  /\ Pending(t, "Remove")
  /\ table' = Restrict(table, {l \in DOMAIN table : table[l] # request[t].metric})
  /\ Respond(t, [status |-> "done"])

Has(t) ==
  /\ Pending(t, "Has")
  /\ Respond(t, [status |-> IF request[t].labels \in DOMAIN table THEN "true" ELSE "false"])
  /\ UNCHANGED table

\* One sample per metric, all as of the same instant.
Collect(t) ==
  /\ Pending(t, "Collect")
  /\ Respond(t, [status |-> "scrape", samples |-> DOMAIN table])
  /\ UNCHANGED table

Finish(t) ==
  /\ response[t] # NoReply
  /\ request' = [request EXCEPT ![t] = NoCall]
  /\ response' = [response EXCEPT ![t] = NoReply]
  /\ UNCHANGED table

Next == \E t \in Threads :
  \/ Invoke(t) \/ Finish(t)
  \/ AddKnown(t) \/ AddFresh(t) \/ AddRefused(t)
  \/ Remove(t) \/ Has(t) \/ Collect(t)

Spec == Init /\ [][Next]_vars
=============================================================================
