-------------------------- MODULE Registry_proofs --------------------------
(* Proofs about module Registry, for every set of threads, types, names,   *)
(* label sets and addresses.                                               *)
EXTENDS Registry, SequenceTheorems, WellFoundedInduction, TLAPS

-----------------------------------------------------------------------------
(* The two vector operations                                               *)

\* push_back adds one element at the end and moves none.
LEMMA PushBack ==
  ASSUME NEW S, NEW s \in Seq(S), NEW e \in S
  PROVE  /\ Append(s, e) \in Seq(S)
         /\ DOMAIN Append(s, e) = 1..(Len(s) + 1)
         /\ DOMAIN s = 1..Len(s)
         /\ Len(s) \in Nat
         /\ \A i \in 1..Len(s) : Append(s, e)[i] = s[i]
         /\ Append(s, e)[Len(s) + 1] = e
         /\ Range(Append(s, e)) = Range(s) \cup {e}
<1>1. /\ Append(s, e) \in Seq(S)
      /\ Len(s) \in Nat
      /\ DOMAIN s = 1..Len(s)
      /\ DOMAIN Append(s, e) = 1..(Len(s) + 1)
      /\ \A i \in 1..Len(s) : Append(s, e)[i] = s[i]
      /\ Append(s, e)[Len(s) + 1] = e
  BY AppendProperties, LenProperties
<1>2. Range(Append(s, e)) = Range(s) \cup {e}
  BY <1>1 DEF Range
<1> QED BY <1>1, <1>2

\* Two vectors end to end.
LEMMA Splice ==
  ASSUME NEW S, NEW l \in Seq(S), NEW r \in Seq(S)
  PROVE  /\ l \o r \in Seq(S)
         /\ Len(l \o r) = Len(l) + Len(r)
         /\ \A j \in 1..Len(l) : (l \o r)[j] = l[j]
         /\ \A j \in 1..Len(r) : (l \o r)[Len(l) + j] = r[j]
<1>1. Len(l) \in Nat /\ Len(r) \in Nat
  BY LenProperties
<1>2. /\ l \o r \in Seq(S)
      /\ Len(l \o r) = Len(l) + Len(r)
      /\ \A j \in 1..(Len(l) + Len(r)) :
           (l \o r)[j] = IF j <= Len(l) THEN l[j] ELSE r[j - Len(l)]
  BY ConcatProperties
<1>3. ASSUME NEW j \in 1..Len(r)
      PROVE  (l \o r)[Len(l) + j] = r[j]
  <2>1. /\ Len(l) + j \in 1..(Len(l) + Len(r))
        /\ ~(Len(l) + j <= Len(l))
        /\ (Len(l) + j) - Len(l) = j
    BY <1>1
  <2> QED BY <1>2, <2>1
<1> QED BY <1>1, <1>2, <1>3

\* erase keeps the other elements, in order.
LEMMA EraseAt ==
  ASSUME NEW S, NEW s \in Seq(S), NEW i \in DOMAIN s
  PROVE  /\ Without(s, i) \in Seq(S)
         /\ Len(s) \in Nat
         /\ DOMAIN s = 1..Len(s)
         /\ DOMAIN Without(s, i) = 1..(Len(s) - 1)
         /\ \A j \in 1..(Len(s) - 1) :
              Without(s, i)[j] = IF j < i THEN s[j] ELSE s[j + 1]
<1> DEFINE l == SubSeq(s, 1, i - 1)
           r == SubSeq(s, i + 1, Len(s))
<1>1. /\ Len(s) \in Nat
      /\ DOMAIN s = 1..Len(s)
      /\ i \in 1..Len(s)
      /\ \A j \in 1..Len(s) : s[j] \in S
  BY LenProperties, ElementOfSeq
<1>2. /\ l \in Seq(S)
      /\ Len(l) = i - 1
      /\ \A j \in 1..(i - 1) : l[j] = s[j]
  <2>1. i - 1 \in Int /\ \A j \in 1..(i - 1) : s[j] \in S
    BY <1>1
  <2>2. /\ l \in Seq(S)
        /\ Len(l) = IF 1 <= i - 1 THEN (i - 1) - 1 + 1 ELSE 0
        /\ \A j \in 1..((i - 1) - 1 + 1) : l[j] = s[1 + j - 1]
    BY <2>1, SubSeqProperties
  <2>3. \A j \in 1..(i - 1) : 1 + j - 1 = j
    BY <1>1
  <2> HIDE DEF l
  <2> QED BY <1>1, <2>2, <2>3
<1>3. /\ r \in Seq(S)
      /\ Len(r) = Len(s) - i
      /\ \A j \in 1..(Len(s) - i) : r[j] = s[i + j]
  BY <1>1, SubSeqProperties
<1>4. Without(s, i) = l \o r
  BY DEF Without
<1>5. /\ l \o r \in Seq(S)
      /\ Len(l \o r) = Len(s) - 1
      /\ \A j \in 1..(Len(s) - 1) : (l \o r)[j] = IF j < i THEN s[j] ELSE s[j + 1]
  <2>1. ASSUME NEW n \in Nat, NEW m \in Seq(S), NEW q \in Seq(S),
               n = Len(s), m = l, q = r
        PROVE  /\ m \o q \in Seq(S)
               /\ Len(m \o q) = n - 1
               /\ \A j \in 1..(n - 1) : (m \o q)[j] = IF j < i THEN s[j] ELSE s[j + 1]
    <3>1. /\ i \in 1..n
          /\ Len(m) = i - 1 /\ \A j \in 1..(i - 1) : m[j] = s[j]
          /\ Len(q) = n - i /\ \A j \in 1..(n - i) : q[j] = s[i + j]
      BY <1>1, <1>2, <1>3, <2>1
    <3>2. /\ m \o q \in Seq(S)
          /\ Len(m \o q) = Len(m) + Len(q)
          /\ \A j \in 1..Len(m) : (m \o q)[j] = m[j]
          /\ \A j \in 1..Len(q) : (m \o q)[Len(m) + j] = q[j]
      BY ONLY m \in Seq(S), q \in Seq(S), Splice
    <3>3. ASSUME NEW j \in 1..(n - 1)
          PROVE  (m \o q)[j] = IF j < i THEN s[j] ELSE s[j + 1]
      <4>1. CASE j < i
        <5>1. i \in 1..n /\ Len(m) = i - 1
          BY <3>1
        <5>2. j \in 1..Len(m) /\ j \in 1..(i - 1)
          BY ONLY n \in Nat, j \in 1..(n - 1), <5>1, <4>1
        <5> QED BY <3>1, <3>2, <4>1, <5>2
      <4>2. CASE ~(j < i)
        <5>1. PICK k \in 1..(n - i) : j = i - 1 + k
          <6>1. j - i + 1 \in 1..(n - i) /\ j = i - 1 + (j - i + 1)
            <7>1. i \in 1..n
              BY <3>1
            <7> QED BY ONLY n \in Nat, j \in 1..(n - 1), <7>1, <4>2
          <6> QED BY <6>1
        <5>2. (m \o q)[j] = s[i + k]
          BY ONLY n \in Nat, <3>1, <3>2, <5>1
        <5>3. i + k = j + 1
          <6>1. i \in 1..n
            BY <3>1
          <6> QED BY ONLY n \in Nat, <6>1, k \in 1..(n - i), <5>1
        <5> QED BY <4>2, <5>2, <5>3
      <4> QED BY <4>1, <4>2
    <3>4. Len(m \o q) = n - 1
      <4>1. i \in 1..n /\ Len(m) = i - 1 /\ Len(q) = n - i
        BY <3>1
      <4>2. Len(m) + Len(q) = n - 1
        BY ONLY n \in Nat, <4>1
      <4> QED BY <3>2, <4>2
    <3> QED BY <3>2, <3>3, <3>4
  <2>2. Len(s) \in Nat /\ l \in Seq(S) /\ r \in Seq(S)
    BY <1>1, <1>2, <1>3
  <2> QED BY ONLY <2>1, <2>2
<1> QED BY <1>1, <1>4, <1>5, LenProperties

\* A vector without duplicates loses exactly the erased element.
LEMMA EraseUnique ==
  ASSUME NEW S, NEW s \in Seq(S), NEW i \in DOMAIN s, IsInjective(s)
  PROVE  /\ IsInjective(Without(s, i))
         /\ Range(Without(s, i)) = Range(s) \ {s[i]}
<1> DEFINE w == Without(s, i)
           n == Len(s)
<1>1. /\ n \in Nat
      /\ DOMAIN s = 1..n
      /\ i \in 1..n
      /\ DOMAIN w = 1..(n - 1)
      /\ \A j \in 1..(n - 1) : w[j] = IF j < i THEN s[j] ELSE s[j + 1]
  BY EraseAt
<1> HIDE DEF w, n
<1>2. \A j \in 1..(n - 1) : \E k \in 1..n : k # i /\ w[j] = s[k] /\ (k = j \/ k = j + 1)
  <2> TAKE j \in 1..(n - 1)
  <2>1. CASE j < i
    BY <1>1, <2>1
  <2>2. CASE ~(j < i)
    BY <1>1, <2>2
  <2> QED BY <2>1, <2>2
<1>3. \A k \in 1..n : k # i => \E j \in 1..(n - 1) : w[j] = s[k]
  <2> TAKE k \in 1..n
  <2> HAVE k # i
  <2>1. CASE k < i
    <3>1. k \in 1..(n - 1) /\ w[k] = s[k]
      BY <1>1, <2>1
    <3> QED BY <3>1
  <2>2. CASE ~(k < i)
    <3>1. k - 1 \in 1..(n - 1) /\ ~(k - 1 < i) /\ (k - 1) + 1 = k
      BY <1>1, <2>2
    <3>2. w[k - 1] = s[k]
      BY <1>1, <3>1
    <3> QED BY <3>1, <3>2
  <2> QED BY <2>1, <2>2
<1>4. Range(w) = Range(s) \ {s[i]}
  <2>1. Range(w) = {w[j] : j \in 1..(n - 1)} /\ Range(s) = {s[k] : k \in 1..n}
    BY <1>1 DEF Range
  <2>2. \A k \in 1..n : k # i => s[k] # s[i]
    BY <1>1 DEF IsInjective
  <2>3. \A x : x \in Range(w) => x \in Range(s) \ {s[i]}
    BY <1>2, <2>1, <2>2
  <2>4. \A x : x \in Range(s) \ {s[i]} => x \in Range(w)
    BY <1>3, <2>1
  <2> QED BY <2>3, <2>4
<1>5. IsInjective(w)
  <2> SUFFICES ASSUME NEW j \in 1..(n - 1), NEW k \in 1..(n - 1), w[j] = w[k]
               PROVE  j = k
    BY <1>1 DEF IsInjective
  <2>1. \A p, q \in 1..n : s[p] = s[q] => p = q
    BY <1>1 DEF IsInjective
  <2> DEFINE From(x) == IF x < i THEN x ELSE x + 1
  <2>2. /\ From(j) \in 1..n /\ w[j] = s[From(j)]
        /\ From(k) \in 1..n /\ w[k] = s[From(k)]
    BY <1>1
  <2>3. From(j) = From(k)
    <3> HIDE DEF From
    <3> QED BY <2>1, <2>2
  <2>4. j \in Nat /\ k \in Nat /\ i \in Nat
    BY <1>1
  <2> QED BY ONLY <2>3, <2>4
<1> QED BY <1>4, <1>5 DEF w

-----------------------------------------------------------------------------
(* The invariant                                                           *)

LEMMA CallFacts ==
  /\ NoCall \in Calls
  /\ Scrape \in Calls
  /\ NoCall \notin AddCall \cup RemoveCall
  /\ \A c \in Calls : /\ c.op = "Add" => c \in AddCall
                      /\ c.op = "Remove" => c \in RemoveCall
  /\ \A c \in Calls \ {NoCall} : c.op \in {"Add", "Remove", "Collect"}
  /\ \A c \in AddCall : c \in Calls /\ c.family \in Family /\ c.op = "Add"
  /\ \A c \in RemoveCall : c \in Calls /\ c.type \in Types /\ c.op = "Remove"
BY DEF NoCall, Scrape, Calls, AddCall, RemoveCall

LEMMA ReplyFacts ==
  /\ NoReply \in Replies /\ NoReply.status # "ref"
  /\ Thrown \in Replies /\ Thrown.status # "ref"
  /\ Found \in Replies /\ Found.status # "ref"
  /\ NotFound \in Replies /\ NotFound.status # "ref"
  /\ Scraped \in Replies /\ Scraped.status # "ref"
  /\ \A a \in Addrs : Ref(a) \in Replies /\ Ref(a).status = "ref" /\ Ref(a).addr = a
  /\ \A r \in Replies : r.status = "ref" => r.addr \in Addrs /\ r = Ref(r.addr)
<1>1. /\ NoReply.status # "ref" /\ Thrown.status # "ref" /\ Found.status # "ref"
      /\ NotFound.status # "ref" /\ Scraped.status # "ref"
  BY DEF NoReply, Thrown, Found, NotFound, Scraped
<1>2. \A a \in Addrs : Ref(a).status = "ref" /\ Ref(a).addr = a
  BY DEF Ref
<1>3. \A r \in Replies :
        \/ r \in {NoReply, Thrown, Found, NotFound, Scraped}
        \/ \E a \in Addrs : r = Ref(a)
  BY DEF Replies
<1>4. /\ {NoReply, Thrown, Found, NotFound, Scraped} \subseteq Replies
      /\ \A a \in Addrs : Ref(a) \in Replies
  BY DEF Replies
<1>5. \A r \in Replies : r.status = "ref" => r.addr \in Addrs /\ r = Ref(r.addr)
  BY <1>1, <1>2, <1>3
<1> QED BY <1>1, <1>2, <1>4, <1>5

LEMMA FamilyFacts ==
  \A f \in Family : f.type \in Types /\ f.name \in Names /\ f.labels \in LabelSets
BY DEF Family

LEMMA InitIInv == Init => IInv
<1> SUFFICES ASSUME Init PROVE IInv
  OBVIOUS
<1> USE DEF Init
<1>1. Registered = {}
  BY DEF Registered, Range
<1>2. TypeOK
  BY CallFacts, ReplyFacts DEF TypeOK, Labels
<1>3. Exclusive /\ CallMatches /\ ChecksHold /\ RepliesLive
  BY NoOneAssumption
     DEF Exclusive, CallMatches, ChecksHold, RepliesLive, Critical, AddLabels, RemoveLabels
<1>4. NamesUnique /\ Ownership
  BY <1>1 DEF NamesUnique, Ownership, Range
<1>5. AddReturnsItsFamily
  BY DEF AddReturnsItsFamily
<1> QED BY <1>2, <1>3, <1>4, <1>5 DEF IInv

\* A step that leaves the vectors and the heap alone cannot disturb what the
\* invariant says of them.
LEMMA FrameNames ==
  ASSUME IInv, UNCHANGED <<families, heap>>, refs' \subseteq DOMAIN heap
  PROVE  NamesUnique' /\ Ownership'
BY DEF IInv, NamesUnique, Ownership, Registered

\* A step of the holder of the mutex that stays in the critical section and
\* leaves the registry as it is preserves the invariant if what it has just
\* checked is true.
LEMMA QuietStep ==
  ASSUME IInv, NEW t \in Threads, NEW l \in Critical, NEW r \in Replies,
         pc[t] \in Critical,
         pc' = [pc EXCEPT ![t] = l],
         reply' = [reply EXCEPT ![t] = r],
         UNCHANGED <<insert_behavior_, families, heap, mutex_, call, client>>,
         cursor' \in [Threads -> (Nat \ {0}) \X (Nat \ {0})],
         results' \in [Threads -> Seq(Family)],
         l \in AddLabels => call[t] \in AddCall,
         l \in RemoveLabels => call[t] \in RemoveCall,
         l = "find" =>
           \A T \in Types \ {call[t].family.type} : ~NameExists(call[t].family.name, T),
         l = "new" =>
           \A T \in Types : ~NameExists(call[t].family.name, T),
         l = "remove_erase" =>
           call[t].addr \in Range(families[call[t].type]),
         l = "unlock" /\ r.status = "ref" =>
           /\ call[t] \in AddCall
           /\ r.addr \in Range(families[call[t].family.type])
           /\ heap[r.addr] = call[t].family
  PROVE  IInv'
<1>1. l \in Labels /\ l # "lock" /\ l # "return"
  BY DEF Critical, AddLabels, RemoveLabels, Labels
<1>2. TypeOK'
  BY <1>1 DEF IInv, TypeOK, client
<1>3. Exclusive'
  BY DEF IInv, TypeOK, Exclusive
<1>4. ASSUME NEW u \in Threads
      PROVE  /\ pc'[u] = IF u = t THEN l ELSE pc[u]
             /\ reply'[u] = IF u = t THEN r ELSE reply[u]
             /\ call'[u] = call[u]
  BY DEF IInv, TypeOK
<1>5. \A T, name : NameExists(name, T)' <=> NameExists(name, T)
  BY DEF NameExists
<1>6. NamesUnique' /\ Ownership'
  BY FrameNames DEF IInv, Ownership, client
<1>7. CallMatches'
  BY <1>1, <1>4 DEF IInv, CallMatches
<1>8. ChecksHold'
  BY <1>4, <1>5 DEF IInv, ChecksHold
<1>9. AddReturnsItsFamily'
  BY <1>4 DEF IInv, AddReturnsItsFamily
<1>10. RepliesLive'
  BY <1>1, <1>4 DEF IInv, RepliesLive, client
<1> QED BY <1>2, <1>3, <1>6, <1>7, <1>8, <1>9, <1>10 DEF IInv

-----------------------------------------------------------------------------
(* One lemma per action                                                    *)

LEMMA InvokeStep ==
  ASSUME IInv, NEW t \in Threads, NEW c \in Calls \ {NoCall}, Invoke(t, c)
  PROVE  IInv'
<1> USE DEF IInv, Invoke, Goto
<1>1. TypeOK'
  BY DEF TypeOK, scrape, client, Labels
<1>2. Exclusive' /\ CallMatches' /\ ChecksHold' /\ AddReturnsItsFamily' /\ RepliesLive'
  BY DEF Exclusive, CallMatches, ChecksHold, AddReturnsItsFamily, RepliesLive, TypeOK, Critical,
         AddLabels, RemoveLabels, Labels, NameExists, scrape, client
<1>3. NamesUnique' /\ Ownership'
  BY FrameNames DEF client, Ownership
<1> QED BY <1>1, <1>2, <1>3

LEMMA LockStep ==
  ASSUME IInv, NEW t \in Threads, Lock(t)
  PROVE  IInv'
<1> USE DEF IInv, Lock, Goto
<1>1. Entry(call[t].op) \in Labels /\ Entry(call[t].op) # "unlock"
      /\ Entry(call[t].op) \in Critical
      /\ Entry(call[t].op) \notin {"find", "new", "remove_erase", "lock", "return"}
      /\ (Entry(call[t].op) \in AddLabels => call[t] \in AddCall)
      /\ (Entry(call[t].op) \in RemoveLabels => call[t] \in RemoveCall)
  BY CallFacts DEF Entry, Labels, TypeOK, CallMatches, Critical, AddLabels, RemoveLabels
<1>2. TypeOK'
  BY <1>1 DEF TypeOK, scrape, client
<1>3. Exclusive'
  BY <1>1, NoOneAssumption DEF Exclusive, TypeOK
<1>4. CallMatches' /\ ChecksHold' /\ AddReturnsItsFamily' /\ RepliesLive'
  BY <1>1 DEF CallMatches, ChecksHold, AddReturnsItsFamily, RepliesLive, TypeOK, NameExists,
              scrape, client
<1>5. NamesUnique' /\ Ownership'
  BY FrameNames DEF client, Ownership
<1> QED BY <1>2, <1>3, <1>4, <1>5

LEMMA UnlockStep ==
  ASSUME IInv, NEW t \in Threads, Unlock(t)
  PROVE  IInv'
<1> USE DEF IInv, Unlock, Goto
<1>1. TypeOK'
  BY DEF TypeOK, Labels, scrape, client
<1>2. Exclusive'
  BY NoOneAssumption DEF Exclusive, TypeOK, Critical, AddLabels, RemoveLabels
<1>3. CallMatches' /\ ChecksHold' /\ AddReturnsItsFamily'
  BY DEF CallMatches, ChecksHold, AddReturnsItsFamily, TypeOK, NameExists, AddLabels,
         RemoveLabels, scrape, client
<1>4. RepliesLive'
  <2>1. reply[t].status = "ref" => reply[t].addr \in Registered
    BY CallFacts, FamilyFacts DEF AddReturnsItsFamily, CallMatches, Registered
  <2> QED BY <2>1 DEF RepliesLive, Ownership, TypeOK, client
<1>5. NamesUnique' /\ Ownership'
  BY FrameNames DEF client, Ownership
<1> QED BY <1>1, <1>2, <1>3, <1>4, <1>5

LEMMA ReturnStep ==
  ASSUME IInv, NEW t \in Threads, Return(t)
  PROVE  IInv'
<1> USE DEF IInv, Return, Goto
<1>1. TypeOK'
  BY CallFacts, ReplyFacts DEF TypeOK, Labels
<1>2. Exclusive'
  BY DEF Exclusive, TypeOK, Critical, AddLabels, RemoveLabels
<1>3. CallMatches' /\ ChecksHold' /\ AddReturnsItsFamily' /\ RepliesLive'
  BY DEF CallMatches, ChecksHold, AddReturnsItsFamily, RepliesLive, TypeOK, NameExists,
         AddLabels, RemoveLabels
<1>4. refs' \subseteq DOMAIN heap
  BY DEF Ownership, RepliesLive
<1>5. NamesUnique' /\ Ownership'
  BY <1>4, FrameNames
<1> QED BY <1>1, <1>2, <1>3, <1>5

\* Leaving an operation with a result that carries no reference.
LEMMA FinishStep ==
  ASSUME IInv, NEW t \in Threads, NEW r \in Replies, r.status # "ref",
         pc[t] \in Critical, Finish(t, r),
         UNCHANGED <<insert_behavior_, families, heap, mutex_, call, scrape, client>>
  PROVE  IInv'
<1>1. /\ pc' = [pc EXCEPT ![t] = "unlock"]
      /\ reply' = [reply EXCEPT ![t] = r]
  BY DEF Finish, Goto
<1>2. "unlock" \in Critical /\ "unlock" \notin AddLabels \cup RemoveLabels
  BY DEF Critical, AddLabels, RemoveLabels
<1>3. /\ cursor' \in [Threads -> (Nat \ {0}) \X (Nat \ {0})]
      /\ results' \in [Threads -> Seq(Family)]
  BY DEF IInv, TypeOK, scrape
<1> QED BY <1>1, <1>2, <1>3, QuietStep

LEMMA AddCheckOtherTypeStep ==
  ASSUME IInv, NEW t \in Threads, AddCheckOtherType(t)
  PROVE  IInv'
<1> DEFINE f == call[t].family
<1>1. pc[t] \in Critical /\ call[t] \in AddCall
  BY DEF IInv, CallMatches, AddCheckOtherType, Critical, AddLabels
<1>2. CASE NameExistsInOtherType(f.type, f.name)
  BY <1>1, <1>2, ReplyFacts, FinishStep DEF AddCheckOtherType
<1>3. CASE ~NameExistsInOtherType(f.type, f.name)
  <2>1. /\ pc' = [pc EXCEPT ![t] = "find"]
        /\ UNCHANGED <<insert_behavior_, families, heap, mutex_, call, client>>
    BY <1>3 DEF AddCheckOtherType, Goto
  <2>2. /\ reply[t] \in Replies
        /\ reply' = [reply EXCEPT ![t] = reply[t]]
        /\ cursor' \in [Threads -> (Nat \ {0}) \X (Nat \ {0})]
        /\ results' \in [Threads -> Seq(Family)]
    BY <1>3 DEF IInv, TypeOK, AddCheckOtherType, scrape
  <2>3. \A T \in Types \ {f.type} : ~NameExists(f.name, T)
    BY <1>3 DEF NameExistsInOtherType
  <2>4. "find" \in Critical /\ "find" \notin RemoveLabels
    BY DEF Critical, AddLabels, RemoveLabels
  <2> QED BY <1>1, <2>1, <2>2, <2>3, <2>4, QuietStep
<1> QED BY <1>2, <1>3

LEMMA AddFindStep ==
  ASSUME IInv, NEW t \in Threads, AddFind(t)
  PROVE  IInv'
<1> DEFINE f == call[t].family
           it == FirstNamed(f.type, f.name)
<1>1. pc[t] \in Critical /\ call[t] \in AddCall /\ f \in Family /\ f.type \in Types
  BY CallFacts, FamilyFacts DEF IInv, CallMatches, AddFind, Critical, AddLabels
<1>2. families[f.type] \in Seq(Addrs)
  BY <1>1 DEF IInv, TypeOK
<1>3. CASE ~NameExists(f.name, f.type) /\ Goto(t, "new") /\ UNCHANGED reply
  <2>1. /\ pc' = [pc EXCEPT ![t] = "new"]
        /\ UNCHANGED <<insert_behavior_, families, heap, mutex_, call, client>>
    BY <1>3 DEF AddFind, Goto
  <2>2. /\ reply[t] \in Replies
        /\ reply' = [reply EXCEPT ![t] = reply[t]]
        /\ cursor' \in [Threads -> (Nat \ {0}) \X (Nat \ {0})]
        /\ results' \in [Threads -> Seq(Family)]
    BY <1>3 DEF IInv, TypeOK, AddFind, scrape
  <2>3. \A T \in Types : ~NameExists(f.name, T)
    <3>1. \A T \in Types \ {f.type} : ~NameExists(f.name, T)
      BY DEF IInv, ChecksHold, AddFind
    <3>2. ~NameExists(f.name, f.type)
      BY <1>3
    <3> QED BY <3>1, <3>2
  <2>4. "new" \in Critical /\ "new" \notin RemoveLabels
    BY DEF Critical, AddLabels, RemoveLabels
  <2> QED BY <1>1, <2>1, <2>2, <2>3, <2>4, QuietStep
<1>4. ASSUME NEW i \in it, NEW a, a = families[f.type][i],
             IF insert_behavior_ = "Merge" /\ heap[a].labels = f.labels
             THEN Finish(t, Ref(a)) ELSE Finish(t, Thrown)
      PROVE  IInv'
  <2>1. CASE insert_behavior_ = "Merge" /\ heap[a].labels = f.labels
    <3>1. /\ pc' = [pc EXCEPT ![t] = "unlock"]
          /\ reply' = [reply EXCEPT ![t] = Ref(a)]
          /\ UNCHANGED <<insert_behavior_, families, heap, mutex_, call, client>>
      BY <1>4, <2>1 DEF AddFind, Finish, Goto
    <3>2. /\ cursor' \in [Threads -> (Nat \ {0}) \X (Nat \ {0})]
          /\ results' \in [Threads -> Seq(Family)]
      BY DEF IInv, TypeOK, AddFind, scrape
    <3>3. a \in Range(families[f.type]) /\ a \in Addrs /\ heap[a].name = f.name
      BY <1>2, <1>4, ElementOfSeq, LenProperties DEF FirstNamed, Range
    <3>4. heap[a] = f
      <4>1. heap[a] \in Family /\ heap[a].type = f.type
        BY <1>1, <3>3 DEF IInv, TypeOK, Ownership, Registered
      <4> QED BY <1>1, <2>1, <3>3, <4>1 DEF Family
    <3>5. /\ "unlock" \in Critical /\ "unlock" \notin AddLabels \cup RemoveLabels
          /\ Ref(a) \in Replies /\ Ref(a).addr = a
      BY <3>3, ReplyFacts DEF Critical, AddLabels, RemoveLabels
    <3> QED BY <1>1, <3>1, <3>2, <3>3, <3>4, <3>5, QuietStep
  <2>2. CASE ~(insert_behavior_ = "Merge" /\ heap[a].labels = f.labels)
    <3>1. Finish(t, Thrown)
      BY <1>4, <2>2
    <3>2. UNCHANGED <<insert_behavior_, families, heap, mutex_, call, scrape, client>>
      BY DEF AddFind
    <3>3. Thrown \in Replies /\ Thrown.status # "ref"
      BY ReplyFacts
    <3> QED BY <1>1, <3>1, <3>2, <3>3, FinishStep
  <2> QED BY <2>1, <2>2
<1> QED BY <1>3, <1>4 DEF AddFind, Merges

LEMMA AddNewThrowsStep ==
  ASSUME IInv, NEW t \in Threads, AddNewThrows(t)
  PROVE  IInv'
<1>1. pc[t] \in Critical
  BY DEF AddNewThrows, Critical, AddLabels
<1> QED BY <1>1, ReplyFacts, FinishStep DEF AddNewThrows

LEMMA RemoveFindStep ==
  ASSUME IInv, NEW t \in Threads, RemoveFind(t)
  PROVE  IInv'
<1>1. pc[t] \in Critical /\ call[t] \in RemoveCall
  BY DEF IInv, CallMatches, RemoveFind, Critical, RemoveLabels
<1>2. CASE call[t].addr \in Range(families[call[t].type])
  <2>1. /\ pc' = [pc EXCEPT ![t] = "remove_erase"]
        /\ UNCHANGED <<insert_behavior_, families, heap, mutex_, call, client>>
    BY <1>2 DEF RemoveFind, Goto
  <2>2. /\ reply[t] \in Replies
        /\ reply' = [reply EXCEPT ![t] = reply[t]]
        /\ cursor' \in [Threads -> (Nat \ {0}) \X (Nat \ {0})]
        /\ results' \in [Threads -> Seq(Family)]
    BY <1>2 DEF IInv, TypeOK, RemoveFind, scrape
  <2>3. "remove_erase" \in Critical /\ "remove_erase" \notin AddLabels
    BY DEF Critical, AddLabels, RemoveLabels
  <2> QED BY <1>1, <1>2, <2>1, <2>2, <2>3, QuietStep
<1>3. CASE call[t].addr \notin Range(families[call[t].type])
  BY <1>1, <1>3, ReplyFacts, FinishStep DEF RemoveFind
<1> QED BY <1>2, <1>3

\* An iteration of Collect moves the cursor and adds to the results.
LEMMA CollectStep ==
  ASSUME IInv, NEW t \in Threads, CollectFamily(t) \/ CollectNextType(t)
  PROVE  IInv'
<1> DEFINE i == cursor[t][1]
           j == cursor[t][2]
           a == families[TypeOrder[i]][j]
<1>1. /\ pc[t] \in Critical /\ pc[t] \notin AddLabels \cup RemoveLabels
      /\ pc[t] \notin {"find", "new", "remove_erase", "unlock"}
      /\ UNCHANGED <<insert_behavior_, families, heap, mutex_, call, client>>
  BY DEF CollectFamily, CollectNextType, Critical, AddLabels, RemoveLabels
<1>2. /\ reply[t] \in Replies
      /\ reply' = [reply EXCEPT ![t] = reply[t]]
      /\ pc' = [pc EXCEPT ![t] = pc[t]]
  BY DEF IInv, TypeOK, CollectFamily, CollectNextType
<1>3. i \in Nat \ {0} /\ j \in Nat \ {0}
  BY DEF IInv, TypeOK
<1>4. /\ cursor' \in [Threads -> (Nat \ {0}) \X (Nat \ {0})]
      /\ results' \in [Threads -> Seq(Family)]
  <2>1. CASE CollectFamily(t)
    <3>1. i \in DOMAIN TypeOrder /\ TypeOrder[i] \in Types
      BY <1>3, <2>1, TypeOrderAssumption, LenProperties, ElementOfSeq DEF CollectFamily
    <3>2. a \in Range(families[TypeOrder[i]])
      BY <1>3, <2>1, <3>1, LenProperties DEF IInv, TypeOK, CollectFamily, Range
    <3>3. heap[a] \in Family
      BY <3>1, <3>2 DEF IInv, TypeOK, Ownership, Registered
    <3>4. /\ results' = [results EXCEPT ![t] = Append(@, heap[a])]
          /\ cursor' = [cursor EXCEPT ![t] = <<i, j + 1>>]
      BY <2>1 DEF CollectFamily
    <3>5. Append(results[t], heap[a]) \in Seq(Family)
      BY <3>3, AppendProperties DEF IInv, TypeOK
    <3>6. <<i, j + 1>> \in (Nat \ {0}) \X (Nat \ {0})
      BY <1>3
    <3> HIDE DEF i, j, a
    <3> QED BY <3>4, <3>5, <3>6 DEF IInv, TypeOK
  <2>2. CASE CollectNextType(t)
    <3>1. /\ UNCHANGED results
          /\ cursor' = [cursor EXCEPT ![t] = <<i + 1, 1>>]
      BY <2>2 DEF CollectNextType
    <3>2. <<i + 1, 1>> \in (Nat \ {0}) \X (Nat \ {0})
      BY <1>3
    <3> HIDE DEF i
    <3> QED BY <3>1, <3>2 DEF IInv, TypeOK
  <2> QED BY <2>1, <2>2
<1> QED BY <1>1, <1>2, <1>4, QuietStep

LEMMA CollectDoneStep ==
  ASSUME IInv, NEW t \in Threads, CollectDone(t)
  PROVE  IInv'
<1>1. pc[t] \in Critical
  BY DEF CollectDone, Critical
<1> QED BY <1>1, ReplyFacts, FinishStep DEF CollectDone

\* The mutex excludes everybody else from the critical section.
LEMMA Alone ==
  ASSUME IInv, NEW t \in Threads, NEW u \in Threads, u # t, pc[t] \in Critical
  PROVE  pc[u] \notin Critical
BY DEF IInv, Exclusive

LEMMA AddNewStep ==
  ASSUME IInv, NEW t \in Threads, AddNew(t)
  PROVE  IInv'
<1> DEFINE f == call[t].family
           T0 == f.type
           v == families[T0]
<1>1. /\ pc[t] \in Critical /\ call[t] \in AddCall
      /\ f \in Family /\ T0 \in Types
      /\ \A T \in Types : ~NameExists(f.name, T)
  BY CallFacts, FamilyFacts
     DEF IInv, CallMatches, ChecksHold, AddNew, Critical, AddLabels
<1>2. PICK a \in Addrs \ DOMAIN heap :
        /\ heap' = [b \in DOMAIN heap \cup {a} |-> IF b = a THEN f ELSE heap[b]]
        /\ families' = [families EXCEPT ![T0] = Append(@, a)]
        /\ Finish(t, Ref(a))
        /\ UNCHANGED <<insert_behavior_, mutex_, call, scrape, client>>
  BY DEF AddNew
<1>3. /\ pc' = [pc EXCEPT ![t] = "unlock"]
      /\ reply' = [reply EXCEPT ![t] = Ref(a)]
      /\ Ref(a) \in Replies /\ Ref(a).status = "ref" /\ Ref(a).addr = a
  BY <1>2, ReplyFacts DEF Finish, Goto
<1>4. /\ families \in [Types -> Seq(Addrs)] /\ v \in Seq(Addrs)
      /\ pc \in [Threads -> Labels] /\ reply \in [Threads -> Replies]
  BY <1>1 DEF IInv, TypeOK
<1>5. /\ Append(v, a) \in Seq(Addrs)
      /\ DOMAIN Append(v, a) = 1..(Len(v) + 1)
      /\ DOMAIN v = 1..Len(v)
      /\ Len(v) \in Nat
      /\ \A i \in 1..Len(v) : Append(v, a)[i] = v[i]
      /\ Append(v, a)[Len(v) + 1] = a
      /\ Range(Append(v, a)) = Range(v) \cup {a}
  BY <1>4, PushBack
<1>6. /\ families' \in [Types -> Seq(Addrs)]
      /\ families'[T0] = Append(v, a)
      /\ \A T \in Types \ {T0} : families'[T] = families[T]
  BY <1>1, <1>2, <1>4, <1>5
<1>7. /\ DOMAIN heap' = DOMAIN heap \cup {a}
      /\ heap'[a] = f
      /\ \A b \in DOMAIN heap : heap'[b] = heap[b] /\ b # a
  BY <1>2
<1> HIDE DEF v
<1>8. Registered' = Registered \cup {a}
  <2>1. Range(families'[T0]) = Range(families[T0]) \cup {a}
    BY <1>5, <1>6 DEF v
  <2>2. \A T \in Types \ {T0} : Range(families'[T]) = Range(families[T])
    BY <1>6
  <2>3. \A b : b \in Registered' <=> b \in Registered \cup {a}
    <3>1. \A b : b \in Registered <=> \E T \in Types : b \in Range(families[T])
      BY DEF Registered
    <3>2. \A b : b \in Registered' <=> \E T \in Types : b \in Range(families'[T])
      BY DEF Registered
    <3> QED BY <1>1, <2>1, <2>2, <3>1, <3>2
  <2> QED BY <2>3
<1>9. TypeOK'
  <2>1. "unlock" \in Labels
    BY DEF Labels
  <2> QED BY <1>1, <1>2, <1>3, <1>6, <1>7, <2>1 DEF IInv, TypeOK, scrape, client
<1>10. Exclusive'
  BY <1>1, <1>2, <1>3, <1>4 DEF IInv, Exclusive, Critical
<1>11. \A u \in Threads \ {t} : pc'[u] = pc[u] /\ pc'[u] \notin Critical /\ reply'[u] = reply[u]
  BY <1>1, <1>3, <1>4, Alone
<1>12. CallMatches' /\ ChecksHold'
  BY <1>1, <1>2, <1>3, <1>4, <1>11
     DEF IInv, CallMatches, ChecksHold, Critical, AddLabels, RemoveLabels
<1>13. AddReturnsItsFamily' /\ RepliesLive'
  <2>1. pc'[t] = "unlock" /\ reply'[t] = Ref(a)
    BY <1>3, <1>4
  <2>2. a \in Range(families'[T0])
    BY <1>5, <1>6
  <2> QED BY <1>2, <1>3, <1>7, <1>11, <2>1, <2>2
          DEF IInv, AddReturnsItsFamily, RepliesLive, Critical, client
<1>14. \A b \in Registered : heap[b].name # f.name
  BY <1>1 DEF NameExists, Registered
<1>15. NamesUnique'
  BY <1>7, <1>8, <1>14 DEF IInv, NamesUnique, Ownership
<1>16. Ownership'
  <2>1. \A T \in Types : \A i \in DOMAIN families[T] : families[T][i] # a
    BY <1>2 DEF IInv, Ownership, Registered, Range
  <2>2. \A T \in Types : \A i \in DOMAIN families'[T] :
          \/ /\ i \in DOMAIN families[T]
             /\ families'[T][i] = families[T][i]
             /\ families'[T][i] # a
          \/ T = T0 /\ i = Len(v) + 1 /\ families'[T][i] = a
    <3> TAKE T \in Types
    <3> TAKE i \in DOMAIN families'[T]
    <3>1. CASE T # T0
      BY <1>6, <2>1, <3>1
    <3>2. CASE T = T0 /\ i # Len(v) + 1
      <4>1. i \in 1..Len(v)
        BY <1>5, <1>6, <3>2
      <4> QED BY <1>5, <1>6, <2>1, <3>2, <4>1 DEF v
    <3>3. CASE T = T0 /\ i = Len(v) + 1
      BY <1>5, <1>6, <3>3
    <3> QED BY <3>1, <3>2, <3>3
  <2>3. \A T, U \in Types : \A i \in DOMAIN families'[T], j \in DOMAIN families'[U] :
          families'[T][i] = families'[U][j] => T = U /\ i = j
    BY <2>2 DEF IInv, Ownership
  <2>4. \A T \in Types : \A b \in Range(families'[T]) : heap'[b].type = T
    <3> TAKE T \in Types
    <3> TAKE b \in Range(families'[T])
    <3>1. CASE b = a
      BY <1>7, <2>2, <3>1 DEF Range
    <3>2. CASE b # a
      <4>1. b \in Range(families[T])
        BY <2>2, <3>2 DEF Range
      <4> QED BY <1>7, <4>1 DEF IInv, Ownership, Registered
    <3> QED BY <3>1, <3>2
  <2> QED BY <1>2, <1>7, <1>8, <2>3, <2>4 DEF IInv, Ownership, client
<1> QED BY <1>9, <1>10, <1>12, <1>13, <1>15, <1>16 DEF IInv

LEMMA RemoveEraseStep ==
  ASSUME IInv, NEW t \in Threads, RemoveErase(t)
  PROVE  IInv'
<1> DEFINE T0 == call[t].type
           a == call[t].addr
           v == families[T0]
<1>1. /\ pc[t] \in Critical /\ call[t] \in RemoveCall /\ T0 \in Types
  BY CallFacts DEF IInv, CallMatches, RemoveErase, Critical, RemoveLabels
<1>2. PICK i \in DOMAIN v : v[i] = a /\ families' = [families EXCEPT ![T0] = Without(@, i)]
  BY DEF RemoveErase
<1>3. /\ heap' = [b \in DOMAIN heap \ {a} |-> heap[b]]
      /\ refs' = refs \ {a}
      /\ stale' = stale \cup {u \in Threads : Carries(u, a)}
      /\ pc' = [pc EXCEPT ![t] = "unlock"]
      /\ reply' = [reply EXCEPT ![t] = Found]
      /\ UNCHANGED <<insert_behavior_, mutex_, call, scrape>>
  BY DEF RemoveErase, Finish, Goto
<1>4. /\ families \in [Types -> Seq(Addrs)] /\ v \in Seq(Addrs)
      /\ pc \in [Threads -> Labels] /\ reply \in [Threads -> Replies]
      /\ DOMAIN heap \subseteq Addrs
  BY <1>1 DEF IInv, TypeOK
<1>5. IsInjective(v)
  BY <1>1 DEF IInv, Ownership, IsInjective
<1>6. /\ Without(v, i) \in Seq(Addrs)
      /\ IsInjective(Without(v, i))
      /\ Range(Without(v, i)) = Range(v) \ {a}
  BY <1>2, <1>4, <1>5, EraseAt, EraseUnique
<1>7. /\ families' \in [Types -> Seq(Addrs)]
      /\ families'[T0] = Without(v, i)
      /\ \A T \in Types \ {T0} : families'[T] = families[T]
  BY <1>1, <1>2, <1>4, <1>6
<1>8. \A T \in Types : \A b \in Range(families[T]) : b = a => T = T0
  BY <1>1, <1>2 DEF IInv, Ownership, Range
<1>9. \A T \in Types : Range(families'[T]) = Range(families[T]) \ {a}
  BY <1>6, <1>7, <1>8 DEF v
<1>10. Registered' = Registered \ {a}
  BY <1>9 DEF Registered
<1>11. /\ DOMAIN heap' = DOMAIN heap \ {a}
       /\ \A b \in DOMAIN heap \ {a} : heap'[b] = heap[b]
  BY <1>3
<1>12. TypeOK'
  <2>1. "unlock" \in Labels
    BY DEF Labels
  <2> QED BY <1>3, <1>7, <1>11, <2>1, ReplyFacts DEF IInv, TypeOK, scrape
<1>13. Exclusive'
  BY <1>1, <1>3, <1>4 DEF IInv, Exclusive, Critical
<1>14. \A u \in Threads \ {t} : pc'[u] = pc[u] /\ pc'[u] \notin Critical /\ reply'[u] = reply[u]
  BY <1>1, <1>3, <1>4, Alone
<1>15. pc'[t] = "unlock" /\ reply'[t] = Found /\ Found.status # "ref"
  BY <1>3, <1>4, ReplyFacts
<1>16. CallMatches' /\ ChecksHold' /\ AddReturnsItsFamily'
  BY <1>3, <1>14, <1>15
     DEF IInv, CallMatches, ChecksHold, AddReturnsItsFamily, Critical, AddLabels, RemoveLabels
<1>17. RepliesLive'
  <2> SUFFICES ASSUME NEW u \in Threads, pc'[u] = "return", reply'[u].status = "ref",
                      u \notin stale'
               PROVE  reply'[u].addr \in DOMAIN heap'
    BY DEF RepliesLive
  <2>1. u # t /\ pc[u] = "return" /\ reply'[u] = reply[u] /\ reply[u] \in Replies
    BY <1>4, <1>14, <1>15
  <2>2. reply[u].addr \in DOMAIN heap
    BY <1>3, <2>1 DEF IInv, RepliesLive
  <2>3. reply[u] # Ref(a)
    BY <1>3, <2>1 DEF Carries
  <2>4. reply[u].addr # a
    BY <2>1, <2>3, ReplyFacts
  <2> QED BY <1>11, <2>1, <2>2, <2>4
<1>18. NamesUnique'
  BY <1>10, <1>11 DEF IInv, NamesUnique, Ownership
<1>19. Ownership'
  <2>1. \A T, U \in Types : \A k \in DOMAIN families'[T], j \in DOMAIN families'[U] :
          families'[T][k] = families'[U][j] => T = U /\ k = j
    <3> TAKE T, U \in Types
    <3> TAKE k \in DOMAIN families'[T], j \in DOMAIN families'[U]
    <3> HAVE families'[T][k] = families'[U][j]
    <3>1. families'[T][k] \in Range(families'[T]) /\ families'[T][k] \in Range(families'[U])
      BY DEF Range
    <3>2. T = U
      <4>1. families'[T][k] \in Range(families[T]) /\ families'[T][k] \in Range(families[U])
        BY <1>9, <3>1
      <4> QED BY <4>1 DEF IInv, Ownership, Range
    <3>3. IsInjective(families'[T])
      BY <1>6, <1>7 DEF IInv, Ownership, IsInjective
    <3> QED BY <3>2, <3>3 DEF IsInjective
  <2>2. \A T \in Types : \A b \in Range(families'[T]) : heap'[b].type = T
    BY <1>9, <1>11 DEF IInv, Ownership, Registered
  <2> QED BY <1>3, <1>10, <1>11, <2>1, <2>2 DEF IInv, Ownership
<1> QED BY <1>12, <1>13, <1>16, <1>17, <1>18, <1>19 DEF IInv

-----------------------------------------------------------------------------
(* The theorems                                                            *)

LEMMA NextIInv == IInv /\ [Next]_vars => IInv'
<1> SUFFICES ASSUME IInv, [Next]_vars PROVE IInv'
  OBVIOUS
<1>1. CASE UNCHANGED vars
  <2>1. TypeOK' /\ Exclusive' /\ CallMatches' /\ ChecksHold' /\ AddReturnsItsFamily' /\ RepliesLive'
    BY <1>1 DEF IInv, vars, TypeOK, Exclusive, CallMatches, ChecksHold, AddReturnsItsFamily,
                RepliesLive, NameExists, scrape, client
  <2>2. NamesUnique' /\ Ownership'
    BY <1>1, FrameNames DEF IInv, Ownership, vars
  <2> QED BY <2>1, <2>2 DEF IInv
<1>2. ASSUME NEW t \in Threads, Call(t)
      PROVE  IInv'
  <2>1. \A f \in Family : [op |-> "Add", family |-> f] \in Calls \ {NoCall}
    BY CallFacts DEF AddCall
  <2>2. CASE InvokeAdd(t)
    BY <2>1, <2>2, InvokeStep DEF InvokeAdd
  <2>3. CASE InvokeRemove(t)
    <3>1. \A T \in Types, a \in Addrs \cup {Foreign} :
            [op |-> "Remove", type |-> T, addr |-> a] \in Calls \ {NoCall}
      BY CallFacts DEF RemoveCall
    <3>2. \A a \in refs : a \in Addrs /\ heap[a].type \in Types
      BY FamilyFacts DEF IInv, TypeOK, Ownership
    <3> QED BY <2>3, <3>1, <3>2, InvokeStep DEF InvokeRemove
  <2>4. CASE InvokeCollect(t)
    <3>1. Scrape \in Calls \ {NoCall}
      BY CallFacts DEF Scrape, NoCall
    <3> QED BY <2>4, <3>1, InvokeStep DEF InvokeCollect
  <2> QED BY <1>2, <2>2, <2>3, <2>4 DEF Call
<1>3. ASSUME NEW t \in Threads, Run(t)
      PROVE  IInv'
  BY <1>3, AddCheckOtherTypeStep, AddFindStep, AddNewStep, AddNewThrowsStep, RemoveFindStep,
     RemoveEraseStep, CollectStep, CollectDoneStep, UnlockStep, ReturnStep DEF Run
<1> QED BY <1>1, <1>2, <1>3, LockStep DEF Next

\* Whatever the threads, types, names, labels and addresses, and however the
\* calls interleave, the invariant of the registry holds.
THEOREM Invariance == Spec => []IInv
<1>1. Init => IInv
  BY InitIInv
<1>2. IInv /\ [Next]_vars => IInv'
  BY NextIInv
<1> QED BY <1>1, <1>2, PTL DEF Spec

\* Every variable of the registry keeps its type (registry.h:113-121).
THEOREM TypeCorrect == Spec => []TypeOK
<1>1. IInv => TypeOK
  BY DEF IInv
<1> QED BY <1>1, Invariance, PTL

\* No two registered families share a name, across all metric types and for
\* both insert behaviours (registry.cc:136-162).
THEOREM UniqueNames == Spec => []NamesUnique
<1>1. IInv => NamesUnique
  BY DEF IInv
<1> QED BY <1>1, Invariance, PTL

\* The vectors own exactly the live families, each once and by its type, and
\* every reference the program may use is live (registry.h:113-120, 86-97).
THEOREM SoleOwner == Spec => []Ownership
<1>1. IInv => Ownership
  BY DEF IInv
<1> QED BY <1>1, Invariance, PTL

\* What Add returns is registered and is what was asked for, in Merge mode
\* too (registry.cc:147-163).
THEOREM AddCorrect == Spec => []AddReturnsItsFamily
<1>1. IInv => AddReturnsItsFamily
  BY DEF IInv
<1> QED BY <1>1, Invariance, PTL

-----------------------------------------------------------------------------
(* Positions in a scrape                                                   *)

\* Induction over the natural numbers: a set of numbers that is not all of
\* them would leave out a smallest one.
LEMMA Induction ==
  ASSUME NEW S, 0 \in S, \A n \in Nat : n \in S => n + 1 \in S
  PROVE  Nat \subseteq S
<1> DEFINE T == Nat \ S
           R == {ss \in Nat \X Nat : ss[1] < ss[2]}
<1>1. SUFFICES ASSUME T # {} PROVE FALSE
  OBVIOUS
<1>2. IsWellFoundedOn(R, Nat)
  BY NatLessThanWellFounded DEF OpToRel
<1>3. \E x \in T : \A y \in T : <<y, x>> \notin R
  <2> HIDE DEF T, R
  <2>1. T \subseteq Nat
    BY DEF T
  <2> QED BY ONLY <1>1, <1>2, <2>1, WFMin
<1>4. \E x \in T : \A y \in T : ~(y < x)
  BY <1>3
<1> QED BY <1>4

\* The running sums of N numbers exist.
LEMMA RunningSums ==
  ASSUME NEW N \in Nat, NEW L \in [1..N -> Nat]
  PROVE  \E g \in [0..N -> Nat] :
           g = [k \in 0..N |-> IF k = 0 THEN 0 ELSE g[k - 1] + L[k]]
<1> DEFINE Sums(m) == {g \in [0..m -> Nat] :
                         g = [k \in 0..m |-> IF k = 0 THEN 0 ELSE g[k - 1] + L[k]]}
           S == {m \in Nat : m <= N => Sums(m) # {}}
<1>1. 0 \in S
  <2>1. [k \in 0..0 |-> 0] \in Sums(0)
    OBVIOUS
  <2> QED BY <2>1
<1>2. ASSUME NEW m \in Nat, m \in S
      PROVE  m + 1 \in S
  <2>1. (m <= N => Sums(m) # {}) /\ ((m + 1 <= N => Sums(m + 1) # {}) => m + 1 \in S)
    <3> HIDE DEF Sums
    <3> QED BY <1>2
  <2> SUFFICES ASSUME m + 1 <= N PROVE Sums(m + 1) # {}
    BY <2>1
  <2>2. PICK g \in [0..m -> Nat] :
          g = [k \in 0..m |-> IF k = 0 THEN 0 ELSE g[k - 1] + L[k]]
    <3>1. Sums(m) # {}
      <4> HIDE DEF Sums
      <4> QED BY <2>1
    <3> QED BY <3>1
  <2> DEFINE h == [k \in 0..(m + 1) |-> IF k = m + 1 THEN g[m] + L[m + 1] ELSE g[k]]
  <2>3. h \in [0..(m + 1) -> Nat]
    BY <2>2
  <2>4. \A k \in 0..(m + 1) : h[k] = IF k = 0 THEN 0 ELSE h[k - 1] + L[k]
    <3> TAKE k \in 0..(m + 1)
    <3>1. CASE k = m + 1
      BY <3>1
    <3>2. CASE k \in 1..m
      <4>1. g[k] = g[k - 1] + L[k]
        BY <2>2, <3>2
      <4> QED BY <3>2, <4>1
    <3>3. CASE k = 0
      BY <2>2, <3>3
    <3> QED BY <3>1, <3>2, <3>3
  <2>5. h \in Sums(m + 1)
    BY <2>3, <2>4
  <2> QED BY <2>5
<1>3. N \in S
  <2> HIDE DEF S
  <2> QED BY <1>1, <1>2, Induction
<1>4. Sums(N) # {}
  <2> HIDE DEF Sums
  <2> QED BY <1>3
<1> QED BY <1>4

\* Each vector begins where the one before it ends.
LEMMA Places ==
  ASSUME families \in [Types -> Seq(Addrs)]
  PROVE  /\ Len(TypeOrder) \in Nat
         /\ Before(1) = 0
         /\ \A i \in 1..(Len(TypeOrder) + 1) : Before(i) \in Nat
         /\ \A i \in DOMAIN TypeOrder :
              Before(i + 1) = Before(i) + Len(families[TypeOrder[i]])
<1> DEFINE N == Len(TypeOrder)
           L == [k \in 1..N |-> Len(families[TypeOrder[k]])]
           n == CHOOSE g : g = [k \in 0..N |-> IF k = 0 THEN 0
                                  ELSE g[k - 1] + Len(families[TypeOrder[k]])]
<1>1. N \in Nat /\ DOMAIN TypeOrder = 1..N
  BY TypeOrderAssumption, LenProperties
<1>2. L \in [1..N -> Nat]
  BY <1>1, TypeOrderAssumption, ElementOfSeq, LenProperties
<1> HIDE DEF N
<1>3. PICK g \in [0..N -> Nat] : g = [k \in 0..N |-> IF k = 0 THEN 0 ELSE g[k - 1] + L[k]]
  BY ONLY <1>1, <1>2, RunningSums
<1>4. g = [k \in 0..N |-> IF k = 0 THEN 0 ELSE g[k - 1] + Len(families[TypeOrder[k]])]
  <2>1. \A k \in 1..N : L[k] = Len(families[TypeOrder[k]])
    OBVIOUS
  <2> HIDE DEF L
  <2> QED BY <1>1, <1>3, <2>1
<1>5. n = [k \in 0..N |-> IF k = 0 THEN 0 ELSE n[k - 1] + Len(families[TypeOrder[k]])]
  BY <1>4
<1> HIDE DEF n
<1>6. \A i : Before(i) = n[i - 1]
  BY DEF Before, n, N
<1>7. /\ n[0] = 0
      /\ \A k \in 1..N : n[k] = n[k - 1] + Len(families[TypeOrder[k]])
  <2>1. \A k \in 0..N : n[k] = IF k = 0 THEN 0 ELSE n[k - 1] + Len(families[TypeOrder[k]])
    BY <1>5
  <2> QED BY <1>1, <2>1
<1>8. \A i \in DOMAIN TypeOrder : Len(families[TypeOrder[i]]) \in Nat
  BY TypeOrderAssumption, ElementOfSeq, LenProperties
<1>9. \A k \in 0..N : n[k] \in Nat
  <2> DEFINE S == {k \in Nat : k <= N => n[k] \in Nat}
  <2>1. 0 \in S
    BY <1>7
  <2>2. ASSUME NEW k \in Nat, k \in S
        PROVE  k + 1 \in S
    <3>1. CASE k + 1 <= N
      <4>1. k + 1 \in 1..N /\ (k + 1) - 1 = k /\ n[k] \in Nat
        BY <1>1, <2>2, <3>1
      <4>2. n[k + 1] = n[k] + Len(families[TypeOrder[k + 1]])
        BY <1>7, <4>1
      <4>3. Len(families[TypeOrder[k + 1]]) \in Nat
        BY <1>1, <1>8, <4>1
      <4>4. n[k + 1] \in Nat
        BY <4>1, <4>2, <4>3
      <4> QED BY <4>4
    <3>2. CASE ~(k + 1 <= N)
      BY <3>2
    <3> QED BY <3>1, <3>2
  <2> HIDE DEF S
  <2>3. Nat \subseteq S
    BY <2>1, <2>2, Induction
  <2> QED BY <1>1, <2>3 DEF S
<1> QED
  <2>1. Len(TypeOrder) = N
    BY DEF N
  <2>2. \A i \in 1..(N + 1) : Before(i) \in Nat
    <3>1. \A i \in 1..(N + 1) : i - 1 \in 0..N
      BY <1>1
    <3> QED BY <1>6, <1>9, <3>1
  <2>3. \A i \in 1..N : Before(i + 1) = Before(i) + Len(families[TypeOrder[i]])
    <3>1. \A i \in 1..N : (i + 1) - 1 = i
      BY <1>1
    <3> QED BY <1>6, <1>7, <3>1
  <2>4. Before(1) = 0
    BY <1>6, <1>7
  <2> QED BY <1>1, <2>1, <2>2, <2>3, <2>4

-----------------------------------------------------------------------------
(* What the refinement needs beyond IInv                                   *)

LEMMA InitRInv == Init => RInv
<1> SUFFICES ASSUME Init PROVE RInv
  OBVIOUS
<1>1. IInv
  BY InitIInv
<1>2. Phases /\ Gathered
  BY DEF Init, Phases, Gathered, Scraping
<1> QED BY <1>1, <1>2 DEF RInv

\* Where a step leads, for the thread that takes it and for the others.
LEMMA FinishPhases ==
  ASSUME RInv, NEW t \in Threads, NEW r \in Replies \ {NoReply},
         Finish(t, r), UNCHANGED <<call, scrape>>,
         pc[t] \in Critical
  PROVE  Phases'
<1>1. /\ pc' = [pc EXCEPT ![t] = "unlock"]
      /\ reply' = [reply EXCEPT ![t] = r]
      /\ UNCHANGED <<call, cursor, results>>
  BY DEF Finish, Goto, scrape
<1> QED BY <1>1 DEF RInv, IInv, TypeOK, Phases

LEMMA NextPhases ==
  ASSUME RInv, NEW t \in Threads, Call(t) \/ Lock(t) \/ Run(t)
  PROVE  Phases'
<1> USE DEF RInv, IInv, TypeOK
<1>1. CASE Call(t)
  <2>1. PICK c \in Calls \ {NoCall} : Invoke(t, c)
    <3>1. \A f \in Family : [op |-> "Add", family |-> f] \in Calls \ {NoCall}
      BY CallFacts DEF AddCall
    <3>2. \A T \in Types, a \in Addrs \cup {Foreign} :
            [op |-> "Remove", type |-> T, addr |-> a] \in Calls \ {NoCall}
      BY CallFacts DEF RemoveCall
    <3>3. \A a \in refs : a \in Addrs /\ heap[a].type \in Types
      BY FamilyFacts DEF Ownership
    <3>4. Scrape \in Calls \ {NoCall}
      BY CallFacts DEF Scrape, NoCall
    <3> QED BY <1>1, <3>1, <3>2, <3>3, <3>4 DEF Call, InvokeAdd, InvokeRemove, InvokeCollect
  <2> QED BY <2>1 DEF Invoke, Goto, Phases, scrape
<1>2. CASE Lock(t)
  <2>1. call[t] \in Calls \ {NoCall}
    BY <1>2 DEF Lock, CallMatches
  <2>2. /\ Entry(call[t].op) \in {"check_other_type", "remove_find", "collect"}
        /\ Entry(call[t].op) = "collect" => call[t] = Scrape
    BY <2>1, CallFacts DEF Entry, Calls, AddCall, RemoveCall
  <2> QED BY <1>2, <2>2 DEF Lock, Goto, Phases, scrape
<1>3. CASE Unlock(t)
  BY <1>3 DEF Unlock, Goto, Phases, scrape
<1>4. CASE Return(t)
  BY <1>4 DEF Return, Goto, Phases
<1>5. CASE AddCheckOtherType(t)
  <2>1. CASE Finish(t, Thrown)
    <3>1. Thrown \in Replies \ {NoReply}
      BY ReplyFacts DEF Thrown, NoReply
    <3> QED BY <1>5, <2>1, <3>1, FinishPhases DEF AddCheckOtherType, Critical, AddLabels
  <2>2. CASE Goto(t, "find") /\ UNCHANGED reply
    BY <1>5, <2>2 DEF AddCheckOtherType, Goto, Phases, scrape
  <2> QED BY <1>5, <2>1, <2>2 DEF AddCheckOtherType
<1>6. CASE AddFind(t)
  <2>1. CASE Goto(t, "new") /\ UNCHANGED reply
    BY <1>6, <2>1 DEF AddFind, Goto, Phases, scrape
  <2>2. ASSUME NEW r \in Replies \ {NoReply}, Finish(t, r)
        PROVE  Phases'
    BY <1>6, <2>2, FinishPhases DEF AddFind, Critical, AddLabels
  <2>3. Thrown \in Replies \ {NoReply}
    BY ReplyFacts DEF Thrown, NoReply
  <2>4. ASSUME NEW i \in FirstNamed(call[t].family.type, call[t].family.name)
        PROVE  Ref(families[call[t].family.type][i]) \in Replies \ {NoReply}
    <3>1. call[t].family.type \in Types
      BY <1>6, CallFacts, FamilyFacts DEF AddFind, CallMatches, AddLabels
    <3>2. families[call[t].family.type][i] \in Addrs
      <4>1. families[call[t].family.type] \in Seq(Addrs)
        BY <3>1
      <4>2. i \in DOMAIN families[call[t].family.type]
        BY DEF FirstNamed
      <4> QED BY ONLY <4>1, <4>2, ElementOfSeq
    <3> QED BY <3>2, ReplyFacts DEF Ref, NoReply
  <2> QED BY <1>6, <2>1, <2>2, <2>3, <2>4 DEF AddFind
<1>7. CASE AddNew(t)
  <2>1. PICK a \in Addrs : Finish(t, Ref(a)) /\ UNCHANGED <<call, scrape>>
    BY <1>7 DEF AddNew
  <2>2. Ref(a) \in Replies \ {NoReply}
    BY ReplyFacts DEF Ref, NoReply
  <2> QED BY <1>7, <2>1, <2>2, FinishPhases DEF AddNew, Critical, AddLabels
<1>8. CASE AddNewThrows(t)
  <2>1. Thrown \in Replies \ {NoReply}
    BY ReplyFacts DEF Thrown, NoReply
  <2> QED BY <1>8, <2>1, FinishPhases DEF AddNewThrows, Critical, AddLabels
<1>9. CASE RemoveFind(t)
  <2>1. CASE Goto(t, "remove_erase") /\ UNCHANGED reply
    BY <1>9, <2>1 DEF RemoveFind, Goto, Phases, scrape
  <2>2. CASE Finish(t, NotFound)
    <3>1. NotFound \in Replies \ {NoReply}
      BY ReplyFacts DEF NotFound, NoReply
    <3> QED BY <1>9, <2>2, <3>1, FinishPhases DEF RemoveFind, Critical, RemoveLabels
  <2> QED BY <1>9, <2>1, <2>2 DEF RemoveFind
<1>10. CASE RemoveErase(t)
  <2>1. Found \in Replies \ {NoReply}
    BY ReplyFacts DEF Found, NoReply
  <2> QED BY <1>10, <2>1, FinishPhases DEF RemoveErase, Critical, RemoveLabels
<1>11. CASE CollectFamily(t) \/ CollectNextType(t)
  <2>1. /\ pc[t] = "collect" /\ UNCHANGED <<pc, call, reply>>
        /\ \A u \in Threads \ {t} : cursor'[u] = cursor[u] /\ results'[u] = results[u]
    BY <1>11 DEF CollectFamily, CollectNextType
  <2> QED BY <2>1 DEF Phases
<1>12. CASE CollectDone(t)
  <2>1. Scraped \in Replies \ {NoReply}
    BY ReplyFacts DEF Scraped, NoReply
  <2> QED BY <1>12, <2>1, FinishPhases DEF CollectDone, Critical
<1> QED BY <1>1, <1>2, <1>3, <1>4, <1>5, <1>6, <1>7, <1>8, <1>9, <1>10, <1>11, <1>12 DEF Run

\* A scrape that does not move keeps what it has, as long as the vectors stay.
LEMMA GatheredStays ==
  ASSUME RInv, NEW t \in Threads, Scraping(t), UNCHANGED <<families, heap>>,
         cursor'[t] = cursor[t], results'[t] = results[t],
         pc'[t] = "unlock" => cursor[t][1] = Len(TypeOrder) + 1
  PROVE  GatheredBy(t)'
<1>1. GatheredBy(t)
  BY DEF RInv, Gathered
<1>2. \A k : Before(k)' = Before(k)
  BY DEF Before
<1>3. Registered' = Registered
  BY DEF Registered
<1> QED BY <1>1, <1>2, <1>3 DEF GatheredBy, Visited

\* A thread that is not inside the registry does not disturb a scrape, and one
\* that is inside is the scrape itself.
LEMMA OtherScrapes ==
  ASSUME RInv, NEW t \in Threads, Call(t) \/ Lock(t) \/ Run(t),
         NEW u \in Threads \ {t}, Scraping(u)'
  PROVE  GatheredBy(u)'
<1>1. /\ pc'[u] = pc[u] /\ call'[u] = call[u]
      /\ cursor'[u] = cursor[u] /\ results'[u] = results[u]
  <2> USE DEF RInv, IInv, TypeOK, Goto, Finish, scrape
  <2>1. CASE Call(t)
    BY <2>1 DEF Call, InvokeAdd, InvokeRemove, InvokeCollect, Invoke
  <2>2. CASE Lock(t) \/ Unlock(t) \/ Return(t)
    BY <2>2 DEF Lock, Unlock, Return
  <2>3. CASE AddCheckOtherType(t) \/ AddFind(t)
    BY <2>3 DEF AddCheckOtherType, AddFind
  <2>4. CASE AddNew(t) \/ AddNewThrows(t)
    BY <2>4 DEF AddNew, AddNewThrows
  <2>5. CASE RemoveFind(t) \/ RemoveErase(t)
    BY <2>5 DEF RemoveFind, RemoveErase
  <2>6. CASE CollectFamily(t) \/ CollectNextType(t) \/ CollectDone(t)
    BY <2>6 DEF CollectFamily, CollectNextType, CollectDone
  <2> QED BY <2>1, <2>2, <2>3, <2>4, <2>5, <2>6 DEF Run
<1>2. Scraping(u) /\ pc[u] \in Critical
  BY <1>1 DEF Scraping, Critical
<1>3. pc[t] \notin Critical
  BY <1>2, Alone DEF RInv
<1>4. UNCHANGED <<families, heap>>
  <2>1. Call(t) \/ Lock(t) \/ Return(t)
    BY <1>3 DEF Run, AddCheckOtherType, AddFind, AddNew, AddNewThrows, RemoveFind, RemoveErase,
                CollectFamily, CollectNextType, CollectDone, Unlock, Critical, AddLabels,
                RemoveLabels
  <2> QED BY <2>1 DEF Call, InvokeAdd, InvokeRemove, InvokeCollect, Invoke, Lock, Return
<1>5. pc'[u] = "unlock" => cursor[u][1] = Len(TypeOrder) + 1
  BY <1>1, <1>2 DEF RInv, Gathered, GatheredBy
<1> QED BY <1>1, <1>2, <1>4, <1>5, GatheredStays

\* A scrape begins with nothing behind its cursor.
LEMMA ScrapeBegins ==
  ASSUME RInv, NEW t \in Threads, Lock(t), Scraping(t)'
  PROVE  GatheredBy(t)'
<1>1. /\ cursor' = cursor /\ cursor[t] = <<1, 1>>
      /\ results' = results /\ results[t] = << >>
      /\ UNCHANGED <<families, heap>>
  BY DEF Lock, RInv, Phases, scrape
<1>2. pc'[t] # "unlock"
  <2>1. call[t] \in Calls \ {NoCall}
    BY DEF Lock, RInv, IInv, TypeOK, CallMatches
  <2> QED BY <2>1, CallFacts DEF Lock, Goto, Entry, RInv, IInv, TypeOK
<1>3. families \in [Types -> Seq(Addrs)]
  BY DEF RInv, IInv, TypeOK
<1>4. /\ Len(TypeOrder) \in Nat /\ DOMAIN TypeOrder = 1..Len(TypeOrder)
      /\ Before(1) = 0
  BY <1>3, Places, TypeOrderAssumption, LenProperties
<1>5. \A i \in DOMAIN TypeOrder : /\ Len(families[TypeOrder[i]]) \in Nat
                                /\ DOMAIN families[TypeOrder[i]] = 1..Len(families[TypeOrder[i]])
  BY <1>3, TypeOrderAssumption, ElementOfSeq, LenProperties
<1>6. Before(1)' = 0
  BY <1>1, <1>4 DEF Before
<1>7. cursor'[t][1] = 1 /\ cursor'[t][2] = 1 /\ results'[t] = << >>
  BY <1>1
<1>8. \A k \in DOMAIN TypeOrder : \A l \in DOMAIN families[TypeOrder[k]] : ~Visited(t, k, l)'
  BY <1>4, <1>5, <1>7 DEF Visited
<1>9. \/ 1 \in DOMAIN TypeOrder /\ 1 <= Len(families[TypeOrder[1]]) + 1
      \/ 1 = Len(TypeOrder) + 1 /\ 1 = 1
  BY <1>4, <1>5
<1>10. Len(results'[t]) = Before(1)' + 1 - 1 /\ Range(results'[t]) = {}
  BY <1>6, <1>7 DEF Range
<1> QED BY <1>1, <1>2, <1>7, <1>8, <1>9, <1>10 DEF GatheredBy

\* An iteration adds the family at the cursor, at the next place.
LEMMA ScrapeAdvances ==
  ASSUME RInv, NEW t \in Threads, CollectFamily(t)
  PROVE  GatheredBy(t)'
<1> DEFINE i == cursor[t][1]
           j == cursor[t][2]
           v == families[TypeOrder[i]]
           h == heap[v[j]]
           s == results[t]
<1>1. /\ i \in Nat \ {0} /\ j \in Nat \ {0} /\ s \in Seq(Family)
      /\ families \in [Types -> Seq(Addrs)]
      /\ GatheredBy(t)
  <2>1. Scraping(t)
    BY DEF CollectFamily, Scraping
  <2> QED BY <2>1 DEF RInv, IInv, TypeOK, Gathered
<1>2. /\ Len(TypeOrder) \in Nat /\ DOMAIN TypeOrder = 1..Len(TypeOrder)
      /\ \A k \in 1..(Len(TypeOrder) + 1) : Before(k) \in Nat
  BY <1>1, Places, TypeOrderAssumption, LenProperties
<1>3. i \in DOMAIN TypeOrder /\ Before(i) \in Nat
  BY <1>1, <1>2 DEF CollectFamily
<1>4. v \in Seq(Addrs) /\ Len(v) \in Nat /\ DOMAIN v = 1..Len(v) /\ j \in DOMAIN v
  <2>1. v \in Seq(Addrs)
    BY <1>1, <1>3, TypeOrderAssumption, ElementOfSeq
  <2>2. Len(v) \in Nat /\ DOMAIN v = 1..Len(v)
    BY <2>1, LenProperties
  <2>3. j <= Len(v)
    BY DEF CollectFamily
  <2> HIDE DEF v
  <2> QED BY <1>1, <2>1, <2>2, <2>3
<1>5. v[j] \in Registered /\ h \in Family
  <2>1. v[j] \in Registered
    BY <1>3, <1>4, TypeOrderAssumption, ElementOfSeq DEF Registered, Range
  <2> QED BY <2>1 DEF RInv, IInv, TypeOK, Ownership
<1>6. /\ results'[t] = Append(s, h)
      /\ cursor'[t] = <<i, j + 1>>
      /\ pc'[t] = "collect"
      /\ UNCHANGED <<families, heap>>
  BY DEF CollectFamily, RInv, IInv, TypeOK
<1>7. /\ DOMAIN Append(s, h) = 1..(Len(s) + 1)
      /\ DOMAIN s = 1..Len(s)
      /\ Len(s) \in Nat
      /\ \A k \in 1..Len(s) : Append(s, h)[k] = s[k]
      /\ Append(s, h)[Len(s) + 1] = h
      /\ Range(Append(s, h)) = Range(s) \cup {h}
      /\ Len(Append(s, h)) = Len(s) + 1
  <2>1. s \in Seq(Family) /\ h \in Family
    BY <1>1, <1>5
  <2> HIDE DEF s, h
  <2> QED BY ONLY <2>1, PushBack, AppendProperties
<1>8. /\ Len(s) = Before(i) + j - 1
      /\ \A k \in DOMAIN TypeOrder : \A l \in DOMAIN families[TypeOrder[k]] :
           Visited(t, k, l) => /\ Before(k) + l \in DOMAIN s
                               /\ s[Before(k) + l] = heap[families[TypeOrder[k]][l]]
      /\ Range(s) \subseteq {heap[a] : a \in Registered}
  BY <1>1 DEF GatheredBy
<1>9. (\A k : Before(k)' = Before(k)) /\ Registered' = Registered
  BY <1>6 DEF Before, Registered
<1> HIDE DEF s, h
<1>10. ASSUME NEW k \in DOMAIN TypeOrder, NEW l \in DOMAIN families[TypeOrder[k]],
              Visited(t, k, l)'
       PROVE  /\ Before(k) + l \in DOMAIN results'[t]
              /\ results'[t][Before(k) + l] = heap[families[TypeOrder[k]][l]]
  <2>1. Visited(t, k, l) \/ (k = i /\ l = j)
    <3>1. l \in Nat
      BY <1>1, TypeOrderAssumption, ElementOfSeq, LenProperties
    <3>2. k < i \/ (k = i /\ l < j + 1)
      BY <1>6, <1>10 DEF Visited
    <3>3. l < j + 1 => l < j \/ l = j
      BY <1>1, <3>1
    <3> QED BY <3>2, <3>3 DEF Visited
  <2>2. CASE Visited(t, k, l)
    BY <1>6, <1>7, <1>8, <2>2
  <2>3. CASE k = i /\ l = j
    <3>1. Before(k) + l = Len(s) + 1
      BY <1>1, <1>3, <1>8, <2>3
    <3>2. Len(s) + 1 \in 1..(Len(s) + 1)
      BY <1>7
    <3>3. heap[families[TypeOrder[k]][l]] = h
      BY <2>3 DEF h
    <3> QED BY <1>6, <1>7, <3>1, <3>2, <3>3
  <2> QED BY <2>1, <2>2, <2>3
<1>11. Len(results'[t]) = Before(i) + (j + 1) - 1
  BY <1>1, <1>3, <1>6, <1>7, <1>8
<1>12. Range(results'[t]) \subseteq {heap[a] : a \in Registered}
  <2>1. h \in {heap[a] : a \in Registered}
    BY <1>5 DEF h
  <2> QED BY <1>6, <1>7, <1>8, <2>1
<1>13. j + 1 <= Len(families[TypeOrder[i]]) + 1
  BY <1>4
<1> QED BY <1>3, <1>6, <1>9, <1>10, <1>11, <1>12, <1>13 DEF GatheredBy

\* The end of a vector is the beginning of the next.
LEMMA ScrapeTurns ==
  ASSUME RInv, NEW t \in Threads, CollectNextType(t)
  PROVE  GatheredBy(t)'
<1> DEFINE i == cursor[t][1]
           j == cursor[t][2]
<1>1. /\ i \in Nat \ {0} /\ j \in Nat \ {0}
      /\ families \in [Types -> Seq(Addrs)]
      /\ GatheredBy(t)
  <2>1. Scraping(t)
    BY DEF CollectNextType, Scraping
  <2> QED BY <2>1 DEF RInv, IInv, TypeOK, Gathered
<1>2. /\ Len(TypeOrder) \in Nat /\ DOMAIN TypeOrder = 1..Len(TypeOrder)
      /\ \A k \in 1..(Len(TypeOrder) + 1) : Before(k) \in Nat
      /\ \A k \in DOMAIN TypeOrder : Before(k + 1) = Before(k) + Len(families[TypeOrder[k]])
  BY <1>1, Places, TypeOrderAssumption, LenProperties
<1>3. i \in DOMAIN TypeOrder /\ Before(i) \in Nat
  BY <1>1, <1>2 DEF CollectNextType
<1>4. \A k \in DOMAIN TypeOrder : /\ Len(families[TypeOrder[k]]) \in Nat
                                /\ DOMAIN families[TypeOrder[k]] = 1..Len(families[TypeOrder[k]])
  BY <1>1, TypeOrderAssumption, ElementOfSeq, LenProperties
<1>5. j = Len(families[TypeOrder[i]]) + 1
  <2>1. j <= Len(families[TypeOrder[i]]) + 1 /\ j > Len(families[TypeOrder[i]])
    BY <1>1, <1>2, <1>3 DEF GatheredBy, CollectNextType
  <2> QED BY <1>1, <1>3, <1>4, <2>1
<1>6. /\ results'[t] = results[t]
      /\ cursor'[t] = <<i + 1, 1>>
      /\ pc'[t] = "collect"
      /\ UNCHANGED <<families, heap>>
  BY DEF CollectNextType, RInv, IInv, TypeOK
<1>7. (\A k : Before(k)' = Before(k)) /\ Registered' = Registered
  BY <1>6 DEF Before, Registered
<1>8. ASSUME NEW k \in DOMAIN TypeOrder, NEW l \in DOMAIN families[TypeOrder[k]],
             Visited(t, k, l)'
      PROVE  Visited(t, k, l)
  <2>1. l \in 1..Len(families[TypeOrder[k]])
    BY <1>4
  <2>2. k < i + 1
    BY <1>2, <1>4, <1>6, <1>8, <2>1 DEF Visited
  <2>3. k < i \/ k = i
    BY <1>1, <1>2, <2>2
  <2> QED BY <1>4, <1>5, <2>1, <2>3 DEF Visited
<1>9. Len(results[t]) = Before(i + 1) + 1 - 1
  <2>1. Len(results[t]) = Before(i) + j - 1
    BY <1>1 DEF GatheredBy
  <2>2. Before(i + 1) = Before(i) + Len(families[TypeOrder[i]])
    BY <1>2, <1>3
  <2> QED BY <1>3, <1>4, <1>5, <2>1, <2>2
<1>10. \/ i + 1 \in DOMAIN TypeOrder /\ 1 <= Len(families[TypeOrder[i + 1]]) + 1
       \/ i + 1 = Len(TypeOrder) + 1 /\ 1 = 1
  <2>1. i + 1 \in DOMAIN TypeOrder \/ i + 1 = Len(TypeOrder) + 1
    BY <1>2, <1>3
  <2> QED BY <1>4, <2>1
<1> HIDE DEF i, j
<1> QED BY <1>1, <1>6, <1>7, <1>8, <1>9, <1>10 DEF GatheredBy

\* The loops end after the last vector.
LEMMA ScrapeEnds ==
  ASSUME RInv, NEW t \in Threads, CollectDone(t)
  PROVE  GatheredBy(t)'
<1>1. Scraping(t) /\ UNCHANGED <<families, heap, cursor, results>>
  BY DEF CollectDone, Scraping, scrape
<1>2. cursor[t][1] = Len(TypeOrder) + 1
  <2>1. GatheredBy(t) /\ cursor[t][1] > Len(TypeOrder) /\ cursor[t][1] \in Nat
    BY <1>1 DEF RInv, IInv, TypeOK, Gathered, CollectDone
  <2>2. Len(TypeOrder) \in Nat /\ DOMAIN TypeOrder = 1..Len(TypeOrder)
    BY TypeOrderAssumption, LenProperties
  <2> QED BY <2>1, <2>2 DEF GatheredBy
<1> QED BY <1>1, <1>2, GatheredStays

\* Only a scrape, begun or going on, leads to a scrape.
LEMMA NextGathered ==
  ASSUME RInv, NEW t \in Threads, Call(t) \/ Lock(t) \/ Run(t)
  PROVE  Gathered'
<1> SUFFICES ASSUME NEW u \in Threads, Scraping(u)'
             PROVE  GatheredBy(u)'
  BY DEF Gathered
<1>1. CASE u # t
  BY <1>1, OtherScrapes
<1>2. CASE u = t
  <2> USE DEF RInv, IInv, TypeOK, Goto, Finish
  <2>1. CASE Call(t) \/ Unlock(t) \/ Return(t)
    BY <1>2, <2>1 DEF Call, InvokeAdd, InvokeRemove, InvokeCollect, Invoke, Unlock, Return, Scraping
  <2>2. CASE Lock(t)
    BY <1>2, <2>2, ScrapeBegins
  <2>3. CASE AddCheckOtherType(t) \/ AddFind(t) \/ AddNew(t) \/ AddNewThrows(t)
    <3>1. call[t] # Scrape /\ call' = call
      <4>1. pc[t] \in AddLabels /\ call' = call
        BY <2>3 DEF AddCheckOtherType, AddFind, AddNew, AddNewThrows, AddLabels
      <4>2. call[t].op = "Add"
        BY <4>1, CallFacts DEF CallMatches
      <4> QED BY <4>1, <4>2 DEF Scrape
    <3>2. pc'[t] # "collect"
      BY <2>3 DEF AddCheckOtherType, AddFind, AddNew, AddNewThrows
    <3> QED BY <1>2, <3>1, <3>2 DEF Scraping
  <2>4. CASE RemoveFind(t) \/ RemoveErase(t)
    <3>1. call[t] # Scrape /\ call' = call
      BY <2>4, CallFacts DEF RemoveFind, RemoveErase, CallMatches, RemoveLabels, Scrape
    <3>2. pc'[t] # "collect"
      BY <2>4 DEF RemoveFind, RemoveErase
    <3> QED BY <1>2, <3>1, <3>2 DEF Scraping
  <2>5. CASE CollectFamily(t) \/ CollectNextType(t) \/ CollectDone(t)
    BY <1>2, <2>5, ScrapeAdvances, ScrapeTurns, ScrapeEnds
  <2> QED BY <2>1, <2>2, <2>3, <2>4, <2>5 DEF Run
<1> QED BY <1>1, <1>2

LEMMA NextRInv == RInv /\ [Next]_vars => RInv'
<1> SUFFICES ASSUME RInv, [Next]_vars PROVE RInv'
  OBVIOUS
<1>1. IInv'
  BY NextIInv DEF RInv
<1>2. CASE UNCHANGED vars
  <2>1. Phases'
    BY <1>2 DEF RInv, Phases, vars, scrape
  <2>2. Gathered'
    <3> SUFFICES ASSUME NEW u \in Threads, Scraping(u)'
                 PROVE  GatheredBy(u)'
      BY DEF Gathered
    <3>1. Scraping(u) /\ UNCHANGED <<families, heap, pc, cursor, results>>
      BY <1>2 DEF Scraping, vars, scrape
    <3>2. pc'[u] = "unlock" => cursor[u][1] = Len(TypeOrder) + 1
      BY <3>1 DEF RInv, Gathered, GatheredBy
    <3> QED BY <3>1, <3>2, GatheredStays
  <2> QED BY <1>1, <2>1, <2>2 DEF RInv
<1>3. CASE Next
  BY <1>1, <1>3, NextPhases, NextGathered DEF Next, RInv
<1> QED BY <1>2, <1>3

\* Every call is in one phase, and every scrape holds what its cursor has
\* passed, whatever the other threads do (registry.cc:46-59, 165-190).
THEOREM Progress == Spec => []RInv
<1>1. Init => RInv
  BY InitRInv
<1>2. RInv /\ [Next]_vars => RInv'
  BY NextRInv
<1> QED BY <1>1, <1>2, PTL DEF Spec

\* A finished scrape holds every registered family exactly once, grouped by
\* type and in registration order (registry.cc:46-59, 165-190).
THEOREM CompleteScrape == Spec => []ScrapeComplete
<1>1. RInv => ScrapeComplete
  <2> SUFFICES ASSUME RInv, NEW t \in Threads, pc[t] = "unlock", call[t] = Scrape
               PROVE  /\ Len(results[t]) = Before(Len(TypeOrder) + 1)
                      /\ \A i \in DOMAIN TypeOrder : \A j \in DOMAIN families[TypeOrder[i]] :
                           results[t][Before(i) + j] = heap[families[TypeOrder[i]][j]]
    BY DEF ScrapeComplete
  <2>1. GatheredBy(t)
    BY DEF RInv, Gathered, Scraping
  <2>2. /\ Len(TypeOrder) \in Nat /\ DOMAIN TypeOrder = 1..Len(TypeOrder)
        /\ Before(Len(TypeOrder) + 1) \in Nat
    BY Places, TypeOrderAssumption, LenProperties DEF RInv, IInv, TypeOK
  <2>3. cursor[t][1] = Len(TypeOrder) + 1 /\ cursor[t][2] = 1
    BY <2>1, <2>2 DEF GatheredBy
  <2>4. Len(results[t]) = Before(Len(TypeOrder) + 1)
    BY <2>1, <2>2, <2>3 DEF GatheredBy
  <2>5. \A i \in DOMAIN TypeOrder : \A j \in DOMAIN families[TypeOrder[i]] : Visited(t, i, j)
    BY <2>2, <2>3 DEF Visited
  <2> QED BY <2>1, <2>4, <2>5 DEF GatheredBy
<1> QED BY <1>1, Progress, PTL

-----------------------------------------------------------------------------
(* The refinement: one step of the table per call, at the step that fixes  *)
(* the answer                                                              *)

LEMMA InitRefines == Init => Abstract!Init
<1> SUFFICES ASSUME Init PROVE Abstract!Init
  OBVIOUS
<1>1. Table = << >>
  <2>1. Registered = {}
    BY DEF Init, Registered, Range
  <2> QED BY <2>1 DEF Table
<1>2. Response = [t \in Threads |-> NoReply]
  BY DEF Init, Response, NoReply, Scraped
<1> QED BY <1>1, <1>2 DEF Init, Abstract!Init, Abstract!NoCall, Abstract!NoReply, NoCall, NoReply,
           Behaviors

\* A set of families with different names is a function from names, whatever
\* the set and the identities of its members.
LEMMA Keyed ==
  ASSUME NEW R, NEW H, \A a, b \in R : H[a].name = H[b].name => a = b,
         NEW Tab, Tab = [n \in {H[a].name : a \in R} |->
                           LET a == CHOOSE a \in R : H[a].name = n
                           IN  [addr |-> a, family |-> H[a]]]
  PROVE  /\ DOMAIN Tab = {H[a].name : a \in R}
         /\ \A a \in R : Tab[H[a].name] = [addr |-> a, family |-> H[a]]
<1>1. DOMAIN Tab = {H[a].name : a \in R}
  OBVIOUS
<1>2. ASSUME NEW a \in R
      PROVE  Tab[H[a].name] = [addr |-> a, family |-> H[a]]
  <2> DEFINE c == CHOOSE b \in R : H[b].name = H[a].name
  <2>1. c = a
    OBVIOUS
  <2>2. Tab[H[a].name] = [addr |-> c, family |-> H[c]]
    OBVIOUS
  <2> HIDE DEF c
  <2> QED BY <2>1, <2>2
<1> QED BY <1>1, <1>2

\* The table in terms of the registry.
LEMMA TableNow ==
  ASSUME IInv
  PROVE  /\ DOMAIN Table = {heap[a].name : a \in Registered}
         /\ \A a \in Registered : /\ heap[a].name \in DOMAIN Table
                                 /\ Table[heap[a].name] = [addr |-> a, family |-> heap[a]]
                                 /\ Table[heap[a].name].addr = a
                                 /\ Table[heap[a].name].family = heap[a]
         /\ \A n \in DOMAIN Table : \E a \in Registered :
              n = heap[a].name /\ Table[n] = [addr |-> a, family |-> heap[a]]
         /\ Abstract!Used = Registered
         /\ Registered = DOMAIN heap
<1>1. \A a, b \in Registered : heap[a].name = heap[b].name => a = b
  BY DEF IInv, NamesUnique
<1>2. /\ DOMAIN Table = {heap[a].name : a \in Registered}
      /\ \A a \in Registered : /\ heap[a].name \in DOMAIN Table
                              /\ Table[heap[a].name] = [addr |-> a, family |-> heap[a]]
                              /\ Table[heap[a].name].addr = a
                              /\ Table[heap[a].name].family = heap[a]
      /\ \A n \in DOMAIN Table : \E a \in Registered :
           n = heap[a].name /\ Table[n] = [addr |-> a, family |-> heap[a]]
  <2>1. /\ DOMAIN Table = {heap[a].name : a \in Registered}
        /\ \A a \in Registered : Table[heap[a].name] = [addr |-> a, family |-> heap[a]]
    BY <1>1, Keyed DEF Table
  <2>2. /\ \A a \in Registered : heap[a].name \in DOMAIN Table
        /\ \A n \in DOMAIN Table : \E a \in Registered : n = heap[a].name
    <3> HIDE DEF Table
    <3> QED BY ONLY <2>1
  <2>3. \A a \in Registered : /\ Table[heap[a].name].addr = a
                            /\ Table[heap[a].name].family = heap[a]
    <3>1. ASSUME NEW a \in Registered, NEW h, h = heap[a]
          PROVE  Table[heap[a].name].addr = a /\ Table[heap[a].name].family = h
      <4>1. Table[heap[a].name] = [addr |-> a, family |-> h]
        BY ONLY <2>1, <3>1
      <4> QED BY ONLY <4>1
    <3> QED BY ONLY <3>1
  <2> QED BY ONLY <2>1, <2>2, <2>3
<1>3. Abstract!Used = Registered
  <2>1. ASSUME NEW n \in DOMAIN Table
        PROVE  Table[n].addr \in Registered
    <3>1. PICK a \in Registered : n = heap[a].name
      BY <1>2
    <3> QED BY <1>2, <3>1
  <2> QED BY <1>2, <2>1 DEF Abstract!Used
<1> QED BY <1>2, <1>3 DEF IInv, Ownership

\* The table after a step.
LEMMA TableNext ==
  ASSUME IInv'
  PROVE  /\ DOMAIN Table' = {heap'[a].name : a \in Registered'}
         /\ \A a \in Registered' : Table'[heap'[a].name] = [addr |-> a, family |-> heap'[a]]
<1>1. \A a, b \in Registered' : heap'[a].name = heap'[b].name => a = b
  BY DEF IInv, NamesUnique
<1> QED BY <1>1, Keyed DEF Table

\* A step that fixes an answer other than the end of a scrape.
LEMMA Responds ==
  ASSUME RInv, NEW t \in Threads, NEW r \in Replies \ {NoReply, Scraped},
         pc[t] \in Critical \ {"unlock"}, Finish(t, r), UNCHANGED results
  PROVE  /\ Response[t] = NoReply
         /\ Response' = [Response EXCEPT ![t] = r]
<1>1. /\ reply[t] = NoReply /\ NoReply # Scraped
      /\ reply' = [reply EXCEPT ![t] = r] /\ reply \in [Threads -> Replies]
  BY DEF RInv, IInv, TypeOK, Phases, Finish, Critical, AddLabels, RemoveLabels, NoReply, Scraped
<1>2. Response[t] = NoReply
  BY <1>1 DEF Response
<1>3. Response' = [Response EXCEPT ![t] = r]
  BY <1>1 DEF Response
<1> QED BY <1>2, <1>3

\* What the table does not see.
LEMMA Silent ==
  ASSUME RInv, UNCHANGED <<insert_behavior_, families, heap, call, reply>>,
         \A t \in Threads : reply[t] = Scraped => results'[t] = results[t]
  PROVE  UNCHANGED Abstract!vars
<1>1. Table' = Table
  BY DEF Table, Registered
<1>2. Response' = Response
  BY DEF Response
<1> QED BY <1>1, <1>2 DEF Abstract!vars

\* The mutex, the checks that pass and the gathering of families are no steps of
\* the table.
LEMMA SilentSteps ==
  ASSUME RInv, NEW t \in Threads,
         \/ Lock(t) \/ Unlock(t) \/ CollectFamily(t) \/ CollectNextType(t)
         \/ AddCheckOtherType(t) /\ UNCHANGED reply
         \/ AddFind(t) /\ UNCHANGED reply
         \/ RemoveFind(t) /\ UNCHANGED reply
  PROVE  UNCHANGED Abstract!vars
<1>1. CASE CollectFamily(t)
  <2>1. reply[t] # Scraped
    BY <1>1 DEF CollectFamily, RInv, Phases, NoReply, Scraped
  <2>2. \A u \in Threads \ {t} : results'[u] = results[u]
    BY <1>1 DEF CollectFamily, RInv, IInv, TypeOK
  <2> QED BY <1>1, <2>1, <2>2, Silent DEF CollectFamily
<1>2. CASE Lock(t) \/ Unlock(t) \/ CollectNextType(t)
  BY <1>2, Silent DEF Lock, Unlock, CollectNextType, scrape
<1>3. CASE (AddCheckOtherType(t) \/ AddFind(t) \/ RemoveFind(t)) /\ UNCHANGED reply
  BY <1>3, Silent DEF AddCheckOtherType, AddFind, RemoveFind, scrape
<1> QED BY <1>1, <1>2, <1>3

LEMMA InvokeRefines == ASSUME RInv, NEW t \in Threads, Call(t) PROVE Abstract!Invoke(t)
<1>1. PICK c \in Calls \ {NoCall} : Invoke(t, c)
  <2>1. \A f \in Family : [op |-> "Add", family |-> f] \in Calls \ {NoCall}
    BY CallFacts DEF AddCall
  <2>2. \A T \in Types, a \in Addrs \cup {Foreign} :
          [op |-> "Remove", type |-> T, addr |-> a] \in Calls \ {NoCall}
    BY CallFacts DEF RemoveCall
  <2>3. \A a \in refs : a \in Addrs /\ heap[a].type \in Types
    BY FamilyFacts DEF RInv, IInv, TypeOK, Ownership
  <2>4. Scrape \in Calls \ {NoCall}
    BY CallFacts DEF Scrape, NoCall
  <2> QED BY <2>1, <2>2, <2>3, <2>4 DEF Call, InvokeAdd, InvokeRemove, InvokeCollect
<1>2. /\ call[t] = NoCall /\ call' = [call EXCEPT ![t] = c]
      /\ UNCHANGED <<insert_behavior_, families, heap, reply, results>>
  BY <1>1 DEF Invoke, RInv, Phases, scrape
<1>3. c \in Abstract!Requests
  BY <1>1 DEF Calls, NoCall, Scrape, AddCall, RemoveCall, Abstract!Requests
<1>4. Table' = Table
  BY <1>2 DEF Table, Registered
<1>5. Response' = Response
  BY <1>2 DEF Response
<1> QED BY <1>2, <1>3, <1>4, <1>5 DEF Abstract!Invoke, Abstract!NoCall, NoCall

LEMMA ReturnRefines == ASSUME RInv, NEW t \in Threads, Return(t) PROVE Abstract!Finish(t)
<1>1. /\ pc[t] = "return"
      /\ call' = [call EXCEPT ![t] = NoCall]
      /\ reply' = [reply EXCEPT ![t] = NoReply]
      /\ results' = [results EXCEPT ![t] = << >>]
      /\ UNCHANGED <<families, heap>>
  BY DEF Return
<1>2. reply[t] # NoReply /\ NoReply # Scraped
  BY <1>1 DEF RInv, Phases, NoReply, Scraped
<1>3. Response[t] # NoReply
  BY <1>2 DEF Response, NoReply
<1>4. Response' = [Response EXCEPT ![t] = NoReply]
  BY <1>1, <1>2 DEF Response, RInv, IInv, TypeOK
<1>5. Table' = Table
  BY <1>1 DEF Table, Registered
<1> QED BY <1>1, <1>3, <1>4, <1>5
        DEF Abstract!Finish, Abstract!NoReply, Abstract!NoCall, NoReply, NoCall

\* The step of a call that answers starts with the call pending.
LEMMA AtWork ==
  ASSUME RInv, NEW t \in Threads
  PROVE  /\ pc[t] \in AddLabels => /\ call[t].op = "Add"
                                  /\ call[t].family \in Family
                                  /\ call[t].family.type \in Types
         /\ pc[t] \in RemoveLabels => /\ call[t].op = "Remove"
                                     /\ call[t].type \in Types
         /\ AddLabels \cup RemoveLabels \subseteq Critical \ {"unlock"}
BY CallFacts, FamilyFacts DEF RInv, IInv, CallMatches, Critical, AddLabels, RemoveLabels

\* The name is taken by a family of another type.
LEMMA AddCheckOtherTypeRefines ==
  ASSUME RInv, NEW t \in Threads, AddCheckOtherType(t)
  PROVE  Abstract!Refuse(t) \/ UNCHANGED Abstract!vars
<1> DEFINE f == call[t].family
<1>1. /\ pc[t] \in AddLabels /\ pc[t] \in Critical \ {"unlock"}
      /\ call[t].op = "Add" /\ f.type \in Types
      /\ UNCHANGED <<families, heap, call, results>>
  BY AtWork DEF AddCheckOtherType, AddLabels, scrape
<1>2. CASE UNCHANGED reply
  BY <1>2, SilentSteps
<1>3. CASE NameExistsInOtherType(f.type, f.name) /\ Finish(t, Thrown)
  <2>1. PICK T \in Types \ {f.type} : \E a \in Range(families[T]) : heap[a].name = f.name
    BY <1>3 DEF NameExistsInOtherType, NameExists
  <2>2. PICK a \in Registered : heap[a].name = f.name /\ heap[a].type = T
    BY <2>1 DEF Registered, RInv, IInv, Ownership
  <2>3. f.name \in DOMAIN Table /\ Table[f.name].family = heap[a] /\ heap[a] # f
    BY <2>1, <2>2, TableNow DEF RInv
  <2>4. Response[t] = NoReply /\ Response' = [Response EXCEPT ![t] = Thrown]
    <3>1. Thrown \in Replies \ {NoReply, Scraped}
      BY ReplyFacts DEF Thrown, NoReply, Scraped
    <3> QED BY <1>1, <1>3, <3>1, Responds
  <2>5. Table' = Table
    BY <1>1 DEF Table, Registered
  <2> QED BY <1>1, <2>3, <2>4, <2>5
          DEF Abstract!Refuse, Abstract!Pending, Abstract!Respond, Abstract!NoReply, NoReply,
              Abstract!Thrown, Thrown
<1> QED BY <1>2, <1>3 DEF AddCheckOtherType

\* The name is taken by a family of the type asked for.
LEMMA AddFindRefines ==
  ASSUME RInv, NEW t \in Threads, AddFind(t)
  PROVE  Abstract!Merge(t) \/ Abstract!Refuse(t) \/ UNCHANGED Abstract!vars
<1> DEFINE f == call[t].family
<1>1. /\ pc[t] \in AddLabels /\ pc[t] \in Critical \ {"unlock"}
      /\ call[t].op = "Add" /\ f.type \in Types
      /\ UNCHANGED <<families, heap, call, results>>
  BY AtWork DEF AddFind, AddLabels, scrape
<1>2. CASE UNCHANGED reply
  BY <1>2, SilentSteps
<1>3. ASSUME NEW i \in FirstNamed(f.type, f.name),
             IF Merges(families[f.type][i], f)
             THEN Finish(t, Ref(families[f.type][i])) ELSE Finish(t, Thrown)
      PROVE  Abstract!Merge(t) \/ Abstract!Refuse(t)
  <2> DEFINE a == families[f.type][i]
  <2>1. /\ a \in Registered /\ a \in Addrs
        /\ heap[a].type = f.type /\ heap[a].name = f.name
        /\ heap[a] \in Family /\ f \in Family
    <3>1. a \in Range(families[f.type]) /\ heap[a].name = f.name
      BY DEF FirstNamed, Range
    <3>2. a \in Registered /\ heap[a].type = f.type
      BY <1>1, <3>1 DEF Registered, RInv, IInv, Ownership
    <3>3. a \in DOMAIN heap /\ f \in Family
      BY <1>1, <3>2, AtWork DEF RInv, IInv, Ownership
    <3> QED BY <3>1, <3>2, <3>3 DEF RInv, IInv, TypeOK
  <2> HIDE DEF a
  <2>2. f.name \in DOMAIN Table /\ Table[f.name] = [addr |-> a, family |-> heap[a]]
    <3>1. heap[a].name \in DOMAIN Table /\ Table[heap[a].name] = [addr |-> a, family |-> heap[a]]
      BY <2>1, TableNow DEF RInv
    <3> QED BY <2>1, <3>1
  <2>3. Table' = Table
    BY <1>1 DEF Table, Registered
  <2>4. heap[a] = f <=> heap[a].labels = f.labels
    <3>1. \A x, y \in Family :
            x.type = y.type /\ x.name = y.name /\ x.labels = y.labels => x = y
      BY DEF Family
    <3> QED BY <2>1, <3>1
  <2>5. CASE Merges(a, f) /\ Finish(t, Ref(a))
    <3>1. Ref(a) \in Replies \ {NoReply, Scraped}
      BY <2>1, ReplyFacts DEF NoReply, Scraped
    <3>2. Response[t] = NoReply /\ Response' = [Response EXCEPT ![t] = Ref(a)]
      BY <1>1, <2>5, <3>1, Responds
    <3>3. insert_behavior_ = "Merge" /\ heap[a] = f
      BY <2>4, <2>5 DEF Merges
    <3>4. Table[f.name].family = f /\ Table[f.name].addr = a
      BY <2>2, <3>3
    <3> QED BY <1>1, <2>2, <2>3, <3>2, <3>3, <3>4
            DEF Abstract!Merge, Abstract!Pending, Abstract!Respond, Abstract!NoReply, NoReply,
                Abstract!Ref, Ref
  <2>6. CASE ~Merges(a, f) /\ Finish(t, Thrown)
    <3>1. Thrown \in Replies \ {NoReply, Scraped}
      BY ReplyFacts DEF Thrown, NoReply, Scraped
    <3>2. Response[t] = NoReply /\ Response' = [Response EXCEPT ![t] = Thrown]
      BY <1>1, <2>6, <3>1, Responds
    <3>3. insert_behavior_ = "Throw" \/ heap[a] # f
      BY <2>4, <2>6 DEF Merges, RInv, IInv, TypeOK, Behaviors
    <3> QED BY <1>1, <2>2, <2>3, <3>2, <3>3
            DEF Abstract!Refuse, Abstract!Pending, Abstract!Respond, Abstract!NoReply, NoReply,
                Abstract!Thrown, Thrown
  <2> QED BY <1>3, <2>5, <2>6 DEF a
<1> QED BY <1>2, <1>3 DEF AddFind

\* No family has the name: the checks made under the mutex still hold.
LEMMA NameFree ==
  ASSUME RInv, NEW t \in Threads, pc[t] = "new"
  PROVE  call[t].family.name \notin DOMAIN Table
<1>1. \A a \in Registered : heap[a].name # call[t].family.name
  BY DEF RInv, IInv, ChecksHold, NameExists, Registered
<1> QED BY <1>1, TableNow DEF RInv

\* The family cannot be constructed.
LEMMA AddNewThrowsRefines ==
  ASSUME RInv, NEW t \in Threads, AddNewThrows(t)
  PROVE  Abstract!Refuse(t)
<1>1. /\ pc[t] = "new" /\ pc[t] \in AddLabels /\ pc[t] \in Critical \ {"unlock"}
      /\ call[t].op = "Add"
      /\ UNCHANGED <<families, heap, call, results>>
  BY AtWork DEF AddNewThrows, AddLabels, scrape
<1>2. Thrown \in Replies \ {NoReply, Scraped}
  BY ReplyFacts DEF Thrown, NoReply, Scraped
<1>3. Response[t] = NoReply /\ Response' = [Response EXCEPT ![t] = Thrown]
  BY <1>1, <1>2, Responds DEF AddNewThrows
<1>4. Table' = Table
  BY <1>1 DEF Table, Registered
<1>5. call[t].family \in Rejected \/ Abstract!Used = Addrs
  BY TableNow DEF AddNewThrows, RInv
<1>6. call[t].family.name \notin DOMAIN Table
  BY <1>1, NameFree
<1> QED BY <1>1, <1>3, <1>4, <1>5, <1>6
        DEF Abstract!Refuse, Abstract!Pending, Abstract!Respond, Abstract!NoReply, NoReply,
            Abstract!Thrown, Thrown

\* The moment of push_back is the moment at which the name is taken.
LEMMA AddNewRefines ==
  ASSUME RInv, NEW t \in Threads, AddNew(t)
  PROVE  Abstract!Register(t)
<1> DEFINE f == call[t].family
<1>1. /\ pc[t] = "new" /\ pc[t] \in AddLabels /\ pc[t] \in Critical \ {"unlock"}
      /\ call[t].op = "Add" /\ f.type \in Types
      /\ UNCHANGED <<call, results>> /\ f \notin Rejected
  BY AtWork DEF AddNew, AddLabels, scrape
<1>2. PICK a \in Addrs \ DOMAIN heap :
        /\ heap' = [b \in DOMAIN heap \cup {a} |-> IF b = a THEN f ELSE heap[b]]
        /\ Finish(t, Ref(a))
  BY DEF AddNew
<1>3. IInv'
  BY AddNewStep DEF RInv
<1>4. Registered = DOMAIN heap /\ Registered' = Registered \cup {a} /\ a \notin Registered
  BY <1>2, <1>3 DEF RInv, IInv, Ownership
<1>5. /\ heap'[a] = f
      /\ \A b \in Registered : heap'[b] = heap[b]
  BY <1>2, <1>4
<1>6. f.name \notin DOMAIN Table
  BY <1>1, NameFree
<1>7. DOMAIN Table' = DOMAIN Table \cup {f.name}
  <2>1. DOMAIN Table' = {heap'[b].name : b \in Registered'}
    BY <1>3, TableNext
  <2>2. DOMAIN Table = {heap[b].name : b \in Registered}
    BY TableNow DEF RInv
  <2> QED BY <1>4, <1>5, <2>1, <2>2
<1>8. Table'[f.name] = [addr |-> a, family |-> f]
  BY <1>3, <1>4, <1>5, TableNext
<1>9. ASSUME NEW n \in DOMAIN Table
      PROVE  Table'[n] = Table[n]
  <2>1. PICK b \in Registered : n = heap[b].name /\ Table[n] = [addr |-> b, family |-> heap[b]]
    BY TableNow DEF RInv
  <2>2. b \in Registered' /\ heap'[b] = heap[b]
    BY <1>4, <1>5
  <2> QED BY <1>3, <2>1, <2>2, TableNext
<1>10. Table' = [n \in DOMAIN Table \cup {f.name} |->
                   IF n = f.name THEN [addr |-> a, family |-> f] ELSE Table[n]]
  <2>1. Table' = [n \in DOMAIN Table' |-> Table'[n]]
    BY DEF Table
  <2> QED BY <1>6, <1>7, <1>8, <1>9, <2>1
<1>11. Response[t] = NoReply /\ Response' = [Response EXCEPT ![t] = Ref(a)]
  <2>1. Ref(a) \in Replies \ {NoReply, Scraped}
    BY ReplyFacts DEF NoReply, Scraped
  <2> QED BY <1>1, <1>2, <2>1, Responds
<1>12. a \in Addrs \ Abstract!Used
  BY <1>4, TableNow DEF RInv
<1> QED BY <1>1, <1>6, <1>10, <1>11, <1>12
        DEF Abstract!Register, Abstract!Pending, Abstract!Respond, Abstract!NoReply, NoReply,
            Abstract!Ref, Ref

\* The names of the families a Remove takes out of the table.
Hit(t) == {n \in DOMAIN Table : /\ Table[n].addr = call[t].addr
                               /\ Table[n].family.type = call[t].type}

\* The vector of the type holds no such family.
LEMMA RemoveFindRefines ==
  ASSUME RInv, NEW t \in Threads, RemoveFind(t)
  PROVE  Abstract!Remove(t) \/ UNCHANGED Abstract!vars
<1>1. /\ pc[t] \in RemoveLabels /\ pc[t] \in Critical \ {"unlock"}
      /\ call[t].op = "Remove" /\ call[t].type \in Types
      /\ UNCHANGED <<families, heap, call, results>>
  BY AtWork DEF RemoveFind, RemoveLabels, scrape
<1>2. CASE UNCHANGED reply
  BY <1>2, SilentSteps
<1>3. CASE call[t].addr \notin Range(families[call[t].type]) /\ Finish(t, NotFound)
  <2>1. Hit(t) = {}
    <3> SUFFICES ASSUME NEW n \in DOMAIN Table, Table[n].addr = call[t].addr,
                        Table[n].family.type = call[t].type
                 PROVE  FALSE
      BY DEF Hit
    <3>1. PICK a \in Registered : n = heap[a].name /\ Table[n] = [addr |-> a, family |-> heap[a]]
      BY TableNow DEF RInv
    <3>2. a = call[t].addr /\ heap[a].type = call[t].type
      BY <3>1
    <3>3. PICK T \in Types : a \in Range(families[T])
      BY DEF Registered
    <3>4. heap[a].type = T
      BY <3>3 DEF RInv, IInv, Ownership
    <3> QED BY <1>3, <3>2, <3>3, <3>4
  <2>2. Table' = Table
    BY <1>1 DEF Table, Registered
  <2>3. Table = [n \in DOMAIN Table \ Hit(t) |-> Table[n]]
    BY <2>1 DEF Table
  <2>4. Response[t] = NoReply /\ Response' = [Response EXCEPT ![t] = NotFound]
    <3>1. NotFound \in Replies \ {NoReply, Scraped}
      BY ReplyFacts DEF NotFound, NoReply, Scraped
    <3> QED BY <1>1, <1>3, <3>1, Responds
  <2>5. Table' = Abstract!Restrict(Table, DOMAIN Table \ Hit(t))
    BY <2>2, <2>3 DEF Abstract!Restrict
  <2>6. Response' = [Response EXCEPT ![t] = [status |-> IF Hit(t) = {} THEN "false" ELSE "true"]]
    BY <2>1, <2>4 DEF NotFound
  <2> QED BY <1>1, <2>4, <2>5, <2>6
          DEF Abstract!Remove, Abstract!Pending, Abstract!Respond, Abstract!NoReply, NoReply, Hit
<1> QED BY <1>2, <1>3 DEF RemoveFind

\* The moment of erase is the moment at which the name becomes free.
LEMMA RemoveEraseRefines ==
  ASSUME RInv, NEW t \in Threads, RemoveErase(t)
  PROVE  Abstract!Remove(t)
<1> DEFINE a == call[t].addr
<1>1. /\ pc[t] \in RemoveLabels /\ pc[t] \in Critical \ {"unlock"}
      /\ call[t].op = "Remove" /\ call[t].type \in Types
      /\ heap' = [b \in DOMAIN heap \ {a} |-> heap[b]]
      /\ Finish(t, Found)
      /\ UNCHANGED <<call, results>>
  BY AtWork DEF RemoveErase, RemoveLabels, scrape
<1>2. IInv'
  BY RemoveEraseStep DEF RInv
<1>3. a \in Registered /\ heap[a].type = call[t].type
  <2>1. a \in Range(families[call[t].type])
    BY DEF RemoveErase, Range
  <2> QED BY <1>1, <2>1 DEF Registered, RInv, IInv, Ownership
<1>4. Registered' = Registered \ {a} /\ \A b \in Registered \ {a} : heap'[b] = heap[b]
  BY <1>1, <1>2 DEF RInv, IInv, Ownership
<1>5. Hit(t) = {heap[a].name}
  <2>1. heap[a].name \in Hit(t)
    BY <1>3, TableNow DEF RInv, Hit
  <2>2. ASSUME NEW n \in Hit(t)
        PROVE  n = heap[a].name
    <3>1. PICK b \in Registered : n = heap[b].name /\ Table[n] = [addr |-> b, family |-> heap[b]]
      BY TableNow DEF RInv, Hit
    <3> QED BY <3>1 DEF Hit
  <2> QED BY <2>1, <2>2
<1>6. \A b \in Registered \ {a} : heap[b].name # heap[a].name
  BY <1>3 DEF RInv, IInv, NamesUnique
<1>7. DOMAIN Table' = DOMAIN Table \ Hit(t)
  <2>1. DOMAIN Table' = {heap'[b].name : b \in Registered'}
    BY <1>2, TableNext
  <2>2. DOMAIN Table = {heap[b].name : b \in Registered}
    BY TableNow DEF RInv
  <2> QED BY <1>3, <1>4, <1>5, <1>6, <2>1, <2>2
<1>8. ASSUME NEW n \in DOMAIN Table \ Hit(t)
      PROVE  Table'[n] = Table[n]
  <2>1. PICK b \in Registered : n = heap[b].name /\ Table[n] = [addr |-> b, family |-> heap[b]]
    BY TableNow DEF RInv
  <2>2. b \in Registered' /\ heap'[b] = heap[b]
    BY <1>4, <1>5, <2>1
  <2> QED BY <1>2, <2>1, <2>2, TableNext
<1>9. Table' = [n \in DOMAIN Table \ Hit(t) |-> Table[n]]
  <2>1. Table' = [n \in DOMAIN Table' |-> Table'[n]]
    BY DEF Table
  <2> QED BY <1>7, <1>8, <2>1
<1>10. Response[t] = NoReply /\ Response' = [Response EXCEPT ![t] = Found]
  <2>1. Found \in Replies \ {NoReply, Scraped}
    BY ReplyFacts DEF Found, NoReply, Scraped
  <2> QED BY <1>1, <2>1, Responds
<1>11. Hit(t) # {}
  BY <1>5
<1> QED BY <1>1, <1>9, <1>10, <1>11
        DEF Abstract!Remove, Abstract!Pending, Abstract!Respond, Abstract!NoReply, NoReply,
            Found, Hit, Abstract!Restrict

\* When the loops end, a scrape holds what the table holds at that moment.
LEMMA CollectDoneRefines ==
  ASSUME RInv, NEW t \in Threads, CollectDone(t)
  PROVE  Abstract!Collect(t)
<1>1. /\ pc[t] = "collect" /\ call[t] = Scrape /\ reply[t] = NoReply /\ NoReply # Scraped
      /\ reply' = [reply EXCEPT ![t] = Scraped]
      /\ UNCHANGED <<families, heap, call, results>>
  BY DEF CollectDone, Finish, RInv, Phases, NoReply, Scraped, scrape
<1>2. Response[t] = NoReply
  BY <1>1 DEF Response
<1>3. Response' = [Response EXCEPT ![t] = [status |-> "scrape", families |-> Range(results[t])]]
  BY <1>1 DEF Response, RInv, IInv, TypeOK
<1>4. Table' = Table
  BY <1>1 DEF Table, Registered
<1>5. GatheredBy(t) /\ cursor[t][1] = Len(TypeOrder) + 1
  <2>1. GatheredBy(t) /\ cursor[t][1] > Len(TypeOrder) /\ cursor[t][1] \in Nat
    BY <1>1 DEF RInv, IInv, TypeOK, Gathered, Scraping, CollectDone
  <2>2. Len(TypeOrder) \in Nat /\ DOMAIN TypeOrder = 1..Len(TypeOrder)
    BY TypeOrderAssumption, LenProperties
  <2> QED BY <2>1, <2>2 DEF GatheredBy
<1>6. Range(results[t]) = {heap[a] : a \in Registered}
  <2>1. Range(results[t]) \subseteq {heap[a] : a \in Registered}
    BY <1>5 DEF GatheredBy
  <2>2. ASSUME NEW a \in Registered
        PROVE  heap[a] \in Range(results[t])
    <3>1. PICK T \in Types : a \in Range(families[T])
      BY DEF Registered
    <3>2. PICK k \in DOMAIN TypeOrder : TypeOrder[k] = T
      BY <3>1 DEF Types, Range
    <3>3. PICK l \in DOMAIN families[TypeOrder[k]] : families[TypeOrder[k]][l] = a
      BY <3>1, <3>2 DEF Range
    <3>4. Visited(t, k, l)
      <4>1. k \in 1..Len(TypeOrder) /\ Len(TypeOrder) \in Nat
        BY TypeOrderAssumption, LenProperties
      <4> QED BY <1>5, <4>1 DEF Visited
    <3> QED BY <1>5, <3>3, <3>4 DEF GatheredBy, Range
  <2> QED BY <2>1, <2>2
<1>7. {Table[n].family : n \in DOMAIN Table} = {heap[a] : a \in Registered}
  <2>1. \A a \in Registered : heap[a].name \in DOMAIN Table /\ Table[heap[a].name].family = heap[a]
    BY TableNow DEF RInv
  <2>2. \A n \in DOMAIN Table : \E a \in Registered : n = heap[a].name
    BY TableNow DEF RInv
  <2> QED BY <2>1, <2>2
<1>8. Response' = [Response EXCEPT ![t] = [status |-> "scrape",
                      families |-> {Table[n].family : n \in DOMAIN Table}]]
  BY <1>3, <1>6, <1>7
<1> QED BY <1>1, <1>2, <1>4, <1>8
        DEF Abstract!Collect, Abstract!Pending, Abstract!Respond, Abstract!NoReply, NoReply, Scrape

LEMMA NextRefines == RInv /\ [Next]_vars => [Abstract!Next]_Abstract!vars
<1> SUFFICES ASSUME RInv, [Next]_vars PROVE [Abstract!Next]_Abstract!vars
  OBVIOUS
<1>1. CASE UNCHANGED vars
  BY <1>1, Silent DEF vars, scrape
<1>2. ASSUME NEW t \in Threads, Call(t) \/ Lock(t) \/ Run(t)
      PROVE  [Abstract!Next]_Abstract!vars
  <2>1. UNCHANGED insert_behavior_
    BY <1>2 DEF Call, InvokeAdd, InvokeRemove, InvokeCollect, Invoke, Lock, Run, AddCheckOtherType,
                AddFind, AddNew, AddNewThrows, RemoveFind, RemoveErase, CollectFamily,
                CollectNextType, CollectDone, Unlock, Return
  <2>2. CASE Call(t)
    BY <2>1, <2>2, InvokeRefines DEF Abstract!Next
  <2>3. CASE Lock(t) \/ Unlock(t) \/ CollectFamily(t) \/ CollectNextType(t)
    BY <2>3, SilentSteps
  <2>4. CASE AddCheckOtherType(t) \/ AddFind(t)
    BY <2>1, <2>4, AddCheckOtherTypeRefines, AddFindRefines DEF Abstract!Next
  <2>5. CASE AddNew(t) \/ AddNewThrows(t)
    BY <2>1, <2>5, AddNewRefines, AddNewThrowsRefines DEF Abstract!Next
  <2>6. CASE RemoveFind(t) \/ RemoveErase(t)
    BY <2>1, <2>6, RemoveFindRefines, RemoveEraseRefines DEF Abstract!Next
  <2>7. CASE CollectDone(t) \/ Return(t)
    BY <2>1, <2>7, CollectDoneRefines, ReturnRefines DEF Abstract!Next
  <2> QED BY <1>2, <2>2, <2>3, <2>4, <2>5, <2>6, <2>7 DEF Run
<1> QED BY <1>1, <1>2 DEF Next

\* Add, Remove and Collect are atomic operations on one table from names to
\* families, whatever the threads do at the same time (registry.cc:126-209).
THEOREM Atomic == Spec => Linearizable
BY Progress, InitRefines, NextRefines, PTL DEF Spec, Linearizable, Abstract!Spec

=============================================================================
