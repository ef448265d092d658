---------------------------- MODULE RegistrySpec ----------------------------
(***************************************************************************)
(* What a promcore Registry promises: a table that maps a family name to   *)
(* the one family of that name, and three operations that take effect      *)
(* atomically somewhere between their call and their return.               *)
(***************************************************************************)
EXTENDS Functions

CONSTANTS Threads, Types, Family, Rejected, Addrs, Foreign

VARIABLES
  insert_behavior_,  \* fixed for the life of the registry
  table,     \* name -> the address and the identity of its family
  request,   \* the call of each thread
  response   \* its result, once it has taken effect

vars == <<insert_behavior_, table, request, response>>

NoCall  == [op |-> "none"]
NoReply == [status |-> "none"]
Thrown  == [status |-> "throw"]
Ref(a)  == [status |-> "ref", addr |-> a]

Init ==
  /\ insert_behavior_ \in {"Merge", "Throw"}
  /\ table = << >>
  /\ request = [t \in Threads |-> NoCall]
  /\ response = [t \in Threads |-> NoReply]

Requests ==
  {[op |-> "Collect"]}
    \cup [op : {"Add"}, family : Family]
    \cup [op : {"Remove"}, type : Types, addr : Addrs \cup {Foreign}]

Invoke(t) ==
  /\ request[t] = NoCall
  /\ \E r \in Requests : request' = [request EXCEPT ![t] = r]
  /\ UNCHANGED <<table, response>>

Pending(t, op) == request[t].op = op /\ response[t] = NoReply

Respond(t, r) == response' = [response EXCEPT ![t] = r]

Used == {table[n].addr : n \in DOMAIN table}

\* The name is free: a new family at an unused address.
Register(t) ==
  /\ Pending(t, "Add")
  /\ LET f == request[t].family
     IN  /\ f.name \notin DOMAIN table
         /\ f \notin Rejected
         /\ \E a \in Addrs \ Used :
              /\ table' = [n \in DOMAIN table \cup {f.name} |->
                             IF n = f.name THEN [addr |-> a, family |-> f]
                                           ELSE table[n]]
              /\ Respond(t, Ref(a))
  /\ UNCHANGED request

\* The name is taken by the very same family, and merging is allowed.
Merge(t) ==
  /\ Pending(t, "Add")
  /\ insert_behavior_ = "Merge"
  /\ \E n \in DOMAIN table :
       /\ table[n].family = request[t].family
       /\ Respond(t, Ref(table[n].addr))
  /\ UNCHANGED <<table, request>>

\* An exception changes nothing. It is thrown when the name is taken and
\* merging is not allowed or not possible, when the family cannot be
\* constructed, and when there is no memory for it.
Refuse(t) ==
  /\ Pending(t, "Add")
  /\ LET f == request[t].family
     IN  \/ /\ f.name \in DOMAIN table
            /\ insert_behavior_ = "Throw" \/ table[f.name].family # f
         \/ f.name \notin DOMAIN table /\ (f \in Rejected \/ Used = Addrs)
  /\ Respond(t, Thrown)
  /\ UNCHANGED <<table, request>>

\* Remove takes out the family at the given address, if there is one.
Remove(t) ==
  /\ Pending(t, "Remove")
  /\ LET hit == {n \in DOMAIN table : /\ table[n].addr = request[t].addr
                                      /\ table[n].family.type = request[t].type}
     IN  /\ table' = Restrict(table, DOMAIN table \ hit)
         /\ Respond(t, [status |-> IF hit = {} THEN "false" ELSE "true"])
  /\ UNCHANGED request

\* Collect sees the whole table as it is at one instant.
Collect(t) ==
  /\ Pending(t, "Collect")
  /\ Respond(t, [status |-> "scrape",
                 families |-> {table[n].family : n \in DOMAIN table}])
  /\ UNCHANGED <<table, request>>

Finish(t) ==
  /\ response[t] # NoReply
  /\ request' = [request EXCEPT ![t] = NoCall]
  /\ response' = [response EXCEPT ![t] = NoReply]
  /\ UNCHANGED table

Next ==
  /\ UNCHANGED insert_behavior_
  /\ \E t \in Threads :
       \/ Invoke(t) \/ Finish(t)
       \/ Register(t) \/ Merge(t) \/ Refuse(t) \/ Remove(t) \/ Collect(t)

Spec == Init /\ [][Next]_vars
=============================================================================
