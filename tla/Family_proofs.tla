---------------------------- MODULE Family_proofs ----------------------------
(* Proofs about module Family, for all threads, label sets and addresses:   *)
(* its invariant, and that it implements FamilySpec.                        *)
EXTENDS Family, TLAPS

-----------------------------------------------------------------------------
(* The inductive invariant                                                  *)

\* What calls and replies look like.
LEMMA Shapes ==
  ASSUME NEW c \in Calls, NEW r \in Replies
  PROVE  /\ c.op \in {"none", "Add", "Remove", "Has", "Collect"}
         /\ c.op \in {"Add", "Has"} => c.labels \in LabelSets /\ c # NoCall /\ c # Gather
         /\ c.op = "Remove" => c.metric \in Addrs \cup {Foreign} /\ c # NoCall /\ c # Gather
         /\ c.op = "Collect" <=> c = Gather
         /\ c.op = "none" <=> c = NoCall
         /\ r.status = "ref" => r.metric \in Addrs /\ r = Ref(r.metric)
         /\ r.status \in {"none", "done", "throw", "true", "false", "ref"}
         /\ r = Answer(TRUE) => r.status = "true"
         /\ r = NoReply <=> r.status = "none"
         /\ r = Done <=> r.status = "done"
<1>1. \A a \in Addrs : Ref(a).status = "ref" /\ Ref(a).metric = a
  BY DEF Ref
<1> QED BY <1>1 DEF Calls, NoCall, Gather, Replies, NoReply, Done, Thrown, Answer, Ref

LEMMA Initial == Init => IInv
<1> SUFFICES ASSUME Init PROVE IInv
  OBVIOUS
<1> USE DEF Init
<1>1. DOMAIN metrics_ = {} /\ Range(metrics_) = {}
  BY DEF Range
<1>2. TypeOK
  BY <1>1 DEF TypeOK, Labels, Calls, Replies
<1>3. Holding
  BY NoOneAssumption DEF Holding, Locked
<1>4. Places
  BY <1>1 DEF Places, Place, Locked, NoCall, NoReply
<1>5. Ownership
  BY <1>1 DEF Ownership, IsInjective
<1>6. Clean /\ Private
  BY <1>1 DEF Clean, Private
<1>7. NeverSeenInvalid
  BY DEF NeverSeenInvalid, NoReply, Answer, Ref
<1> QED BY <1>2, <1>3, <1>4, <1>5, <1>6, <1>7 DEF IInv

\* What a thread that holds the mutex knows.
LEMMA Alone ==
  ASSUME IInv, NEW t \in Threads, pc[t] \in Locked
  PROVE  /\ \A u \in Threads \ {t} : pc[u] \notin Locked
         /\ pc[t] # "check" => \A l \in DOMAIN metrics_ : Valid(l)
         /\ pc[t] = "check" => \A l \in DOMAIN metrics_ \ {call[t].labels} : Valid(l)
<1>1. \A u \in Threads \ {t} : pc[u] \notin Locked
  BY DEF IInv, Holding
<1>2. \A u \in Threads, l \in DOMAIN metrics_ : Checking(u, l) => u = t
  BY <1>1 DEF Checking, Locked
<1> QED BY <1>1, <1>2 DEF IInv, Clean, Checking

\* A call is made.
LEMMA InvokeStep == ASSUME IInv, NEW t \in Threads, Call(t) PROVE IInv'
<1>1. PICK c \in Calls \ {NoCall} :
        /\ Invoke(t, c)
        /\ IF c.op = "Add" THEN \E a \in Addrs \ Live : spare' = [spare EXCEPT ![t] = a]
           ELSE UNCHANGED spare
  <2>1. CASE InvokeAdd(t)
    <3>1. PICK l \in LabelSets, a \in Addrs \ Live :
            Invoke(t, [op |-> "Add", labels |-> l]) /\ spare' = [spare EXCEPT ![t] = a]
      BY <2>1 DEF InvokeAdd
    <3>2. [op |-> "Add", labels |-> l] \in Calls \ {NoCall}
      BY DEF Calls, NoCall
    <3> QED BY <3>1, <3>2
  <2>2. CASE InvokeRemove(t)
    BY <2>2 DEF InvokeRemove, Calls, NoCall, IInv, TypeOK
  <2>3. CASE InvokeHas(t)
    BY <2>3 DEF InvokeHas, Calls, NoCall
  <2>4. CASE InvokeCollect(t)
    BY <2>4 DEF InvokeCollect, Calls, NoCall, Gather
  <2> QED BY <2>1, <2>2, <2>3, <2>4 DEF Call
<1>2. /\ pc[t] = "idle" /\ pc' = [pc EXCEPT ![t] = "lock"]
      /\ call' = [call EXCEPT ![t] = c]
      /\ UNCHANGED <<metrics_, mutex_, reply, results, refs>>
  BY <1>1 DEF Invoke, Goto
<1>3. TypeOK'
  BY <1>1, <1>2 DEF IInv, TypeOK, Labels
<1>4. Holding'
  BY <1>2 DEF IInv, TypeOK, Holding, Locked
<1>5. Places'
  <2> SUFFICES ASSUME NEW u \in Threads PROVE Place(u)'
    BY DEF Places
  <2>1. CASE u # t
    <3>1. spare'[u] = spare[u] /\ pc'[u] = pc[u] /\ call'[u] = call[u]
      BY <1>1, <1>2, <2>1 DEF IInv, TypeOK
    <3> QED BY <1>2, <3>1 DEF IInv, Places, Place
  <2>2. CASE u = t
    <3>1. pc'[u] = "lock" /\ call'[u] = c
      BY <1>2, <2>2 DEF IInv, TypeOK
    <3>2. spare'[u] # NoOne <=> c.op = "Add"
      <4>1. spare[t] = NoOne
        BY <1>2 DEF IInv, Places, Place
      <4>2. \A a \in Addrs : a # NoOne
        BY NoOneAssumption
      <4> QED BY <1>1, <2>2, <4>1, <4>2 DEF IInv, TypeOK
    <3>3. reply[u] = NoReply /\ results[u] = {} /\ reply[u].status # "ref"
      BY <1>2, <2>2 DEF IInv, Places, Place, NoReply
    <3> QED BY <1>2, <3>1, <3>2, <3>3 DEF Place, Locked
  <2> QED BY <2>1, <2>2
<1>6. Ownership'
  <2>1. \A u \in Threads : spare'[u] # NoOne => spare'[u] \notin Range(metrics_)
    BY <1>1 DEF IInv, Ownership, TypeOK, Live
  <2>2. ASSUME NEW u \in Threads, NEW v \in Threads \ {u}, spare'[u] # NoOne
        PROVE  spare'[v] # spare'[u]
    <3>1. \A w \in Threads : spare[w] \in Range(spare)
      BY DEF Range, IInv, TypeOK
    <3> QED BY <1>1, <2>2, <3>1 DEF IInv, Ownership, TypeOK, Live
  <2> QED BY <1>2, <2>1, <2>2 DEF IInv, Ownership
<1>7. Clean'
  BY <1>2 DEF IInv, TypeOK, Clean, Checking
<1>8. Private'
  BY <1>2 DEF IInv, TypeOK, Private
<1>9. NeverSeenInvalid'
  <2>1. reply[t] \notin {Answer(TRUE)} \cup {Ref(a) : a \in Addrs} /\ results[t] = {}
    BY <1>2 DEF IInv, Places, Place, NoReply, Answer, Ref
  <2> QED BY <1>2, <2>1 DEF IInv, TypeOK, NeverSeenInvalid
<1> QED BY <1>3, <1>4, <1>5, <1>6, <1>7, <1>8, <1>9 DEF IInv

\* The mutex is taken.
LEMMA LockStep == ASSUME IInv, NEW t \in Threads, Lock(t) PROVE IInv'
<1>1. /\ pc[t] = "lock" /\ mutex_ = NoOne /\ mutex_' = t
      /\ pc' = [pc EXCEPT ![t] = Entry(call[t].op)]
      /\ UNCHANGED <<metrics_, spare, call, reply, results, refs>>
  BY DEF Lock, Goto
<1>2. call[t].op \in {"Add", "Remove", "Has", "Collect"}
  <2>1. call[t] \in Calls /\ call[t] # NoCall
    BY <1>1 DEF IInv, TypeOK, Places, Place
  <2> QED BY <2>1, Shapes DEF Replies
<1>3. /\ pc'[t] = Entry(call[t].op) /\ \A u \in Threads \ {t} : pc'[u] = pc[u]
      /\ Entry(call[t].op) \in {"insert", "remove", "has", "collect"}
      /\ Entry(call[t].op) = "insert" <=> call[t].op = "Add"
  BY <1>1, <1>2 DEF IInv, TypeOK, Entry
<1>4. TypeOK'
  BY <1>1, <1>3 DEF IInv, TypeOK, Labels
<1>5. Holding'
  BY <1>1, <1>3, NoOneAssumption DEF IInv, Holding, Locked
<1>6. Places'
  <2> SUFFICES ASSUME NEW u \in Threads PROVE Place(u)'
    BY DEF Places
  <2>1. CASE u # t
    BY <1>1, <1>3, <2>1 DEF IInv, Places, Place
  <2>2. CASE u = t
    BY <1>1, <1>3, <2>2 DEF IInv, Places, Place, Locked
  <2> QED BY <2>1, <2>2
<1>7. Ownership'
  BY <1>1 DEF IInv, Ownership
<1>8. Clean'
  BY <1>1, <1>3 DEF IInv, Clean, Checking
<1>9. Private'
  BY <1>1, <1>3 DEF IInv, Private
<1>10. NeverSeenInvalid'
  BY <1>1 DEF IInv, NeverSeenInvalid
<1> QED BY <1>4, <1>5, <1>6, <1>7, <1>8, <1>9, <1>10 DEF IInv

\* The mutex is given back.
LEMMA UnlockStep == ASSUME IInv, NEW t \in Threads, Unlock(t) PROVE IInv'
<1>1. /\ pc[t] = "unlock" /\ mutex_' = NoOne
      /\ pc' = [pc EXCEPT ![t] = "return"]
      /\ UNCHANGED <<metrics_, spare, call, reply, results, refs>>
  BY DEF Unlock, Goto
<1>2. pc'[t] = "return" /\ \A u \in Threads \ {t} : pc'[u] = pc[u] /\ pc[u] \notin Locked
  BY <1>1, Alone DEF IInv, TypeOK, Locked
<1>3. TypeOK'
  BY <1>1, <1>2 DEF IInv, TypeOK, Labels
<1>4. Holding'
  BY <1>1, <1>2, NoOneAssumption DEF IInv, Holding, Locked
<1>5. Places'
  <2> SUFFICES ASSUME NEW u \in Threads PROVE Place(u)'
    BY DEF Places
  <2>1. CASE u # t
    BY <1>1, <1>2, <2>1 DEF IInv, Places, Place
  <2>2. CASE u = t
    BY <1>1, <1>2, <2>2 DEF IInv, Places, Place, Locked
  <2> QED BY <2>1, <2>2
<1>6. Ownership'
  BY <1>1 DEF IInv, Ownership
<1>7. Clean'
  BY <1>1, <1>2 DEF IInv, Clean, Checking
<1>8. Private'
  BY <1>1, <1>2 DEF IInv, Private
<1>9. NeverSeenInvalid'
  BY <1>1 DEF IInv, NeverSeenInvalid
<1> QED BY <1>3, <1>4, <1>5, <1>6, <1>7, <1>8, <1>9 DEF IInv

\* The caller has the result. A pointer it gets is not one that an Add under way
\* is about to take back: that one's labels are not valid.
LEMMA ReturnStep == ASSUME IInv, NEW t \in Threads, Return(t) PROVE IInv'
<1>1. /\ pc[t] = "return" /\ pc' = [pc EXCEPT ![t] = "idle"]
      /\ refs' = IF reply[t].status = "ref" /\ StillOwned(t)
                 THEN refs \cup {reply[t].metric} ELSE refs
      /\ call' = [call EXCEPT ![t] = NoCall]
      /\ reply' = [reply EXCEPT ![t] = NoReply]
      /\ results' = [results EXCEPT ![t] = {}]
      /\ UNCHANGED <<metrics_, spare, mutex_>>
  BY DEF Return, Goto
<1>2. /\ pc'[t] = "idle" /\ call'[t] = NoCall /\ reply'[t] = NoReply /\ results'[t] = {}
      /\ \A u \in Threads \ {t} : /\ pc'[u] = pc[u] /\ call'[u] = call[u]
                                 /\ reply'[u] = reply[u] /\ results'[u] = results[u]
  BY <1>1 DEF IInv, TypeOK
<1>3. reply[t].status = "ref" => /\ reply[t] \in {Ref(a) : a \in Addrs}
                                 /\ reply[t].metric \in Addrs
                                 /\ Valid(call[t].labels)
  <2>1. call[t] \in Calls /\ reply[t] \in Replies
    BY DEF IInv, TypeOK
  <2>2. reply[t].status = "ref" => reply[t].metric \in Addrs /\ reply[t] = Ref(reply[t].metric)
    BY <2>1, Shapes
  <2> QED BY <2>2 DEF IInv, NeverSeenInvalid
<1>4. TypeOK'
  <2>1. NoCall \in Calls /\ NoReply \in Replies
    BY DEF Calls, Replies
  <2> QED BY <1>1, <1>3, <2>1 DEF IInv, TypeOK, Labels
<1>5. Holding'
  BY <1>1, <1>2 DEF IInv, Holding, Locked
<1>6. Places'
  <2> SUFFICES ASSUME NEW u \in Threads PROVE Place(u)'
    BY DEF Places
  <2>1. CASE u # t
    BY <1>1, <1>2, <2>1 DEF IInv, Places, Place
  <2>2. CASE u = t
    BY <1>1, <1>2, <2>2 DEF IInv, Places, Place, Locked, NoCall, NoReply
  <2> QED BY <2>1, <2>2
<1>7. Ownership'
  <2>1. refs' \subseteq Range(metrics_)
    BY <1>1 DEF IInv, Ownership, StillOwned, Range
  <2> QED BY <1>1, <2>1 DEF IInv, Ownership
<1>8. Clean'
  BY <1>1, <1>2 DEF IInv, Clean, Checking
<1>9. Private'
  <2> SUFFICES ASSUME NEW u \in Threads, pc[u] = "check", ~Valid(call[u].labels), u # t
               PROVE  metrics_[call[u].labels] \notin refs'
    BY <1>1, <1>2 DEF Private
  <2>1. call[u].labels \in DOMAIN metrics_ /\ metrics_[call[u].labels] \notin refs
    BY DEF IInv, Places, Place, Private
  <2>2. ASSUME reply[t].status = "ref", StillOwned(t)
        PROVE  metrics_[call[u].labels] # reply[t].metric
    BY <1>3, <2>1, <2>2 DEF IInv, Ownership, IsInjective, StillOwned
  <2> QED BY <1>1, <2>1, <2>2
<1>10. NeverSeenInvalid'
  <2>1. NoReply \notin {Answer(TRUE)} \cup {Ref(a) : a \in Addrs}
    BY DEF NoReply, Answer, Ref
  <2> QED BY <1>2, <2>1 DEF IInv, NeverSeenInvalid
<1> QED BY <1>4, <1>5, <1>6, <1>7, <1>8, <1>9, <1>10 DEF IInv

\* What a thread does with the mutex leaves the other threads where they are.
LEMMA OthersStay ==
  ASSUME IInv, NEW t \in Threads, pc[t] \in Locked, NEW u \in Threads \ {t},
         pc'[u] = pc[u], call'[u] = call[u], spare'[u] = spare[u],
         reply'[u] = reply[u], results'[u] = results[u]
  PROVE  Place(u)'
<1>1. pc[u] \notin Locked
  BY Alone
<1> QED BY <1>1 DEF IInv, Places, Place, Locked

\* A call takes effect, and what is left in the map is valid.
LEMMA Completes ==
  ASSUME IInv, NEW t \in Threads, pc[t] \in Locked \ {"unlock"},
         NEW r \in Replies \ {NoReply}, Finish(t, r), UNCHANGED <<mutex_, call, results>>,
         r.status = "ref" => call[t].op = "Add",
         r \in {Answer(TRUE)} \cup {Ref(a) : a \in Addrs} => Valid(call[t].labels),
         spare' = [spare EXCEPT ![t] = NoOne],
         DOMAIN metrics_' \subseteq DOMAIN metrics_,
         \A l \in DOMAIN metrics_' : metrics_'[l] = metrics_[l] /\ Valid(l),
         refs' \subseteq refs, refs' \subseteq Range(metrics_')
  PROVE  IInv'
<1>1. /\ pc' = [pc EXCEPT ![t] = "unlock"] /\ pc'[t] = "unlock"
      /\ reply' = [reply EXCEPT ![t] = r] /\ reply'[t] = r
      /\ spare'[t] = NoOne
      /\ \A u \in Threads \ {t} : /\ pc'[u] = pc[u] /\ reply'[u] = reply[u]
                                 /\ spare'[u] = spare[u] /\ pc[u] \notin Locked
  BY Alone DEF Finish, Goto, IInv, TypeOK
<1>2. TypeOK'
  BY <1>1 DEF IInv, TypeOK, Labels
<1>3. Holding'
  BY <1>1 DEF IInv, Holding, Locked
<1>4. Places'
  <2>1. \A u \in Threads \ {t} : Place(u)'
    BY <1>1, OthersStay
  <2>2. Place(t)'
    BY <1>1 DEF IInv, Places, Place, Locked
  <2> QED BY <2>1, <2>2 DEF Places
<1>5. Ownership'
  <2>1. IsInjective(metrics_')
    BY DEF IInv, Ownership, IsInjective
  <2>2. Range(metrics_') \subseteq Range(metrics_)
    BY DEF Range
  <2> QED BY <1>1, <2>1, <2>2 DEF IInv, Ownership
<1>6. Clean'
  BY DEF Clean
<1>7. Private'
  BY <1>1 DEF Private, Locked
<1>8. NeverSeenInvalid'
  <2> DEFINE Refs == {Answer(TRUE)} \cup {Ref(a) : a \in Addrs}
  <2>1. \A u \in Threads : /\ \A l \in results[u] : Valid(l)
                           /\ reply[u] \in Refs => Valid(call[u].labels)
    BY DEF IInv, NeverSeenInvalid
  <2> HIDE DEF Refs
  <2>2. \A u \in Threads : /\ \A l \in results'[u] : Valid(l)
                           /\ reply'[u] \in Refs => Valid(call'[u].labels)
    <3>1. r \in Refs => Valid(call[t].labels)
      BY DEF Refs
    <3> QED BY <1>1, <2>1, <3>1
  <2> QED BY <2>2 DEF NeverSeenInvalid, Refs
<1> QED BY <1>2, <1>3, <1>4, <1>5, <1>6, <1>7, <1>8 DEF IInv

\* No object is waiting any more, or none ever was.
LEMMA NotSpare ==
  ASSUME IInv, NEW t \in Threads, pc[t] \in Locked \ {"insert"}
  PROVE  spare = [spare EXCEPT ![t] = NoOne]
BY DEF IInv, TypeOK, Places, Place, Locked

\* The call that is at the entry of an operation is one of it.
LEMMA AtEntry ==
  ASSUME IInv, NEW t \in Threads
  PROVE  /\ pc[t] = "insert" => call[t].op = "Add"
         /\ pc[t] = "remove" => call[t].op = "Remove"
         /\ pc[t] = "has" => call[t].op = "Has"
         /\ pc[t] = "collect" => call[t].op = "Collect"
<1>1. call[t] \in Calls
  BY DEF IInv, TypeOK
<1>2. CASE pc[t] \in {"insert", "remove", "has", "collect"}
  <2>1. pc[t] = Entry(call[t].op) /\ call[t] # NoCall
    BY <1>2 DEF IInv, Places, Place, Locked
  <2>2. call[t].op \in {"Add", "Remove", "Has", "Collect"}
    BY <1>1, <2>1, Shapes DEF Replies
  <2> QED BY <1>2, <2>1, <2>2 DEF Entry
<1> QED BY <1>2

\* insert puts a new metric into the map, or finds one that has the labels.
LEMMA AddInsertStep == ASSUME IInv, NEW t \in Threads, AddInsert(t) PROVE IInv'
<1> DEFINE l == call[t].labels
<1>1. /\ pc[t] = "insert" /\ spare' = [spare EXCEPT ![t] = NoOne]
      /\ UNCHANGED <<mutex_, call, results, refs>>
  BY DEF AddInsert
<1>2. /\ pc[t] \in Locked \ {"unlock"} /\ call[t].op = "Add" /\ l \in LabelSets
      /\ spare[t] \in Addrs /\ \A k \in DOMAIN metrics_ : Valid(k)
  <2>1. call[t].op = "Add"
    BY <1>1, AtEntry
  <2>2. l \in LabelSets
    BY <2>1, Shapes DEF IInv, TypeOK, Replies
  <2>3. spare[t] \in Addrs
    BY <1>1, <2>1 DEF IInv, TypeOK, Places, Place
  <2> QED BY <1>1, <2>1, <2>2, <2>3, Alone DEF Locked
<1>3. CASE l \in DOMAIN metrics_
  <2>1. Finish(t, Ref(metrics_[l])) /\ UNCHANGED metrics_
    BY <1>3 DEF AddInsert
  <2>2. Ref(metrics_[l]) \in Replies \ {NoReply} /\ metrics_[l] \in Addrs
    BY <1>3 DEF IInv, TypeOK, Replies, Ref, NoReply
  <2>3. refs \subseteq Range(metrics_)
    BY DEF IInv, Ownership
  <2> QED BY <1>1, <1>2, <1>3, <2>1, <2>2, <2>3, Completes
<1>4. CASE l \notin DOMAIN metrics_
  <2>1. /\ metrics_' = [k \in DOMAIN metrics_ \cup {l} |->
                         IF k = l THEN spare[t] ELSE metrics_[k]]
        /\ pc' = [pc EXCEPT ![t] = "check"] /\ UNCHANGED reply
    BY <1>4 DEF AddInsert, Goto
  <2>2. /\ DOMAIN metrics_' = DOMAIN metrics_ \cup {l}
        /\ metrics_'[l] = spare[t] /\ \A k \in DOMAIN metrics_ : metrics_'[k] = metrics_[k]
        /\ Range(metrics_') = Range(metrics_) \cup {spare[t]}
    BY <1>4, <2>1 DEF Range
  <2>3. /\ pc'[t] = "check" /\ spare'[t] = NoOne
        /\ \A u \in Threads \ {t} : /\ pc'[u] = pc[u] /\ spare'[u] = spare[u]
                                   /\ pc[u] \notin Locked
    BY <1>1, <1>2, <2>1, Alone DEF IInv, TypeOK
  <2>4. spare[t] \notin Range(metrics_) /\ spare[t] \notin refs
    BY <1>2, NoOneAssumption DEF IInv, Ownership
  <2>5. TypeOK'
    BY <1>1, <1>2, <2>1, <2>2 DEF IInv, TypeOK, Labels
  <2>6. Holding'
    BY <1>1, <2>3 DEF IInv, Holding, Locked
  <2>7. Places'
    <3>1. \A u \in Threads \ {t} : Place(u)'
      BY <1>1, <1>2, <2>1, <2>3, OthersStay
    <3>2. Place(t)'
      BY <1>1, <1>2, <2>1, <2>2, <2>3 DEF IInv, Places, Place, Locked
    <3> QED BY <3>1, <3>2 DEF Places
  <2>8. Ownership'
    <3>1. IsInjective(metrics_')
      BY <2>2, <2>4 DEF IInv, Ownership, IsInjective, Range
    <3>2. \A u \in Threads \ {t} : spare[u] # NoOne => spare[u] # spare[t]
      BY <1>2, NoOneAssumption DEF IInv, Ownership
    <3> QED BY <1>1, <2>2, <2>3, <3>1, <3>2 DEF IInv, Ownership
  <2>9. Clean'
    BY <1>1, <1>2, <2>2, <2>3 DEF Clean, Checking
  <2>10. Private'
    BY <1>1, <2>2, <2>3, <2>4 DEF Private, Locked
  <2>11. NeverSeenInvalid'
    BY <1>1, <2>1 DEF IInv, NeverSeenInvalid
  <2> QED BY <2>5, <2>6, <2>7, <2>8, <2>9, <2>10, <2>11 DEF IInv
<1> QED BY <1>3, <1>4

\* The labels are checked.
LEMMA AddCheckStep == ASSUME IInv, NEW t \in Threads, AddCheck(t) PROVE IInv'
<1> DEFINE l == call[t].labels
<1>1. pc[t] = "check" /\ UNCHANGED <<spare, mutex_, call, results, refs>>
  BY DEF AddCheck
<1>2. /\ pc[t] \in Locked \ {"unlock", "insert"} /\ call[t].op = "Add"
      /\ l \in DOMAIN metrics_ /\ \A k \in DOMAIN metrics_ \ {l} : Valid(k)
      /\ refs \subseteq Range(metrics_) /\ spare' = [spare EXCEPT ![t] = NoOne]
  BY <1>1, Alone, NotSpare DEF Locked, IInv, Places, Place, Ownership
<1>3. Valid(l) <=> ~\E name \in DOMAIN l : Refused(name)
  BY DEF Valid, Refused
<1>4. CASE Valid(l)
  <2>1. Finish(t, Ref(metrics_[l])) /\ UNCHANGED metrics_
    BY <1>3, <1>4 DEF AddCheck
  <2>2. Ref(metrics_[l]) \in Replies \ {NoReply}
    BY <1>2 DEF IInv, TypeOK, Replies, Ref, NoReply
  <2> QED BY <1>1, <1>2, <1>4, <2>1, <2>2, Completes
<1>5. CASE ~Valid(l)
  <2>1. metrics_' = Restrict(metrics_, DOMAIN metrics_ \ {l}) /\ Finish(t, Thrown)
    BY <1>3, <1>5 DEF AddCheck
  <2>2. /\ DOMAIN metrics_' = DOMAIN metrics_ \ {l}
        /\ \A k \in DOMAIN metrics_' : metrics_'[k] = metrics_[k]
    BY <2>1 DEF Restrict
  <2>3. refs \subseteq Range(metrics_')
    <3>1. metrics_[l] \notin refs
      BY <1>1, <1>5 DEF IInv, Private
    <3> QED BY <1>2, <2>2, <3>1 DEF Range
  <2>4. /\ Thrown \in Replies \ {NoReply} /\ Thrown.status # "ref"
        /\ Thrown \notin {Answer(TRUE)} \cup {Ref(a) : a \in Addrs}
    BY DEF Replies, Thrown, NoReply, Answer, Ref
  <2> QED BY <1>1, <1>2, <2>1, <2>2, <2>3, <2>4, Completes
<1> QED BY <1>4, <1>5

\* A metric is destroyed, or none.
LEMMA RemoveStep == ASSUME IInv, NEW t \in Threads, Remove(t) PROVE IInv'
<1>1. /\ pc[t] = "remove" /\ Finish(t, Done)
      /\ UNCHANGED <<spare, mutex_, call, results>>
  BY DEF Remove
<1>2. /\ pc[t] \in Locked \ {"unlock", "insert"} /\ \A k \in DOMAIN metrics_ : Valid(k)
      /\ refs \subseteq Range(metrics_) /\ spare' = [spare EXCEPT ![t] = NoOne]
  BY <1>1, Alone, NotSpare DEF Locked, IInv, Ownership
<1> DEFINE Shrinks == /\ DOMAIN metrics_' \subseteq DOMAIN metrics_
                      /\ \A k \in DOMAIN metrics_' : metrics_'[k] = metrics_[k]
                      /\ refs' \subseteq refs /\ refs' \subseteq Range(metrics_')
<1>3. Shrinks
  <2>1. CASE UNCHANGED <<metrics_, refs>>
    BY <1>2, <2>1
  <2>2. ASSUME NEW l \in DOMAIN metrics_, metrics_[l] = call[t].metric,
               metrics_' = Restrict(metrics_, DOMAIN metrics_ \ {l}),
               refs' = refs \ {call[t].metric}
        PROVE  Shrinks
    <3>1. /\ DOMAIN metrics_' = DOMAIN metrics_ \ {l}
          /\ \A k \in DOMAIN metrics_' : metrics_'[k] = metrics_[k]
      BY <2>2 DEF Restrict
    <3> QED BY <1>2, <2>2, <3>1 DEF Range
  <2> QED BY <2>1, <2>2 DEF Remove
<1>4. /\ Done \in Replies \ {NoReply} /\ Done.status # "ref"
      /\ Done \notin {Answer(TRUE)} \cup {Ref(a) : a \in Addrs}
  BY DEF Replies, Done, NoReply, Answer, Ref
<1> QED BY <1>1, <1>2, <1>3, <1>4, Completes

\* The map is asked for labels.
LEMMA HasStep == ASSUME IInv, NEW t \in Threads, Has(t) PROVE IInv'
<1> DEFINE b == call[t].labels \in DOMAIN metrics_
<1>1. /\ pc[t] = "has" /\ Finish(t, Answer(b))
      /\ UNCHANGED <<metrics_, spare, mutex_, call, results, refs>>
  BY DEF Has
<1>2. /\ pc[t] \in Locked \ {"unlock", "insert"} /\ \A k \in DOMAIN metrics_ : Valid(k)
      /\ refs \subseteq Range(metrics_) /\ spare' = [spare EXCEPT ![t] = NoOne]
  BY <1>1, Alone, NotSpare DEF Locked, IInv, Ownership
<1>3. /\ Answer(b) \in Replies \ {NoReply} /\ Answer(b).status # "ref"
      /\ Answer(b) \in {Answer(TRUE)} \cup {Ref(a) : a \in Addrs} => b
  BY DEF Replies, NoReply, Answer, Ref
<1> HIDE DEF b
<1>4. b => Valid(call[t].labels)
  BY <1>2 DEF b
<1> QED BY <1>1, <1>2, <1>3, <1>4, Completes

\* A scrape takes a sample.
LEMMA CollectMetricStep == ASSUME IInv, NEW t \in Threads, CollectMetric(t) PROVE IInv'
<1>1. PICK l \in DOMAIN metrics_ \ results[t] : results' = [results EXCEPT ![t] = @ \cup {l}]
  BY DEF CollectMetric
<1>2. /\ pc[t] = "collect" /\ UNCHANGED <<metrics_, spare, mutex_, pc, call, reply, refs>>
      /\ results'[t] = results[t] \cup {l} /\ Valid(l) /\ l \in LabelSets
      /\ \A u \in Threads \ {t} : results'[u] = results[u]
  BY <1>1, Alone DEF CollectMetric, IInv, TypeOK, Locked
<1>3. TypeOK'
  BY <1>1, <1>2 DEF IInv, TypeOK
<1>4. Holding'
  BY <1>2 DEF IInv, Holding
<1>5. Places'
  <2> SUFFICES ASSUME NEW u \in Threads PROVE Place(u)'
    BY DEF Places
  <2> QED BY <1>1, <1>2 DEF IInv, Places, Place, Locked
<1>6. Ownership' /\ Private'
  BY <1>2 DEF IInv, Ownership, Private
<1>7. Clean'
  BY <1>2 DEF IInv, Clean, Checking
<1>8. NeverSeenInvalid'
  BY <1>2 DEF IInv, NeverSeenInvalid
<1> QED BY <1>3, <1>4, <1>5, <1>6, <1>7, <1>8 DEF IInv

\* A scrape is done.
LEMMA CollectDoneStep == ASSUME IInv, NEW t \in Threads, CollectDone(t) PROVE IInv'
<1>1. /\ pc[t] = "collect" /\ Finish(t, Done)
      /\ UNCHANGED <<metrics_, spare, mutex_, call, results, refs>>
  BY DEF CollectDone
<1>2. /\ pc[t] \in Locked \ {"unlock", "insert"} /\ \A k \in DOMAIN metrics_ : Valid(k)
      /\ refs \subseteq Range(metrics_) /\ spare' = [spare EXCEPT ![t] = NoOne]
  BY <1>1, Alone, NotSpare DEF Locked, IInv, Ownership
<1>3. /\ Done \in Replies \ {NoReply} /\ Done.status # "ref"
      /\ Done \notin {Answer(TRUE)} \cup {Ref(a) : a \in Addrs}
  BY DEF Replies, Done, NoReply, Answer, Ref
<1> QED BY <1>1, <1>2, <1>3, Completes

LEMMA Inductive == IInv /\ [Next]_vars => IInv'
<1> SUFFICES ASSUME IInv, [Next]_vars PROVE IInv'
  OBVIOUS
<1>1. CASE UNCHANGED vars
  <2>1. TypeOK' /\ Holding' /\ Places'
    BY <1>1 DEF vars, IInv, TypeOK, Holding, Places, Place
  <2>2. Ownership' /\ Clean' /\ Private'
    BY <1>1 DEF vars, IInv, Ownership, Clean, Checking, Private
  <2>3. NeverSeenInvalid'
    BY <1>1 DEF vars, IInv, NeverSeenInvalid
  <2> QED BY <2>1, <2>2, <2>3 DEF IInv
<1>2. ASSUME NEW t \in Threads, Run(t) PROVE IInv'
  BY <1>2, AddInsertStep, AddCheckStep, RemoveStep, HasStep, CollectMetricStep,
     CollectDoneStep, UnlockStep, ReturnStep DEF Run
<1> QED BY <1>1, <1>2, InvokeStep, LockStep DEF Next

\* The invariant holds in every state, for any threads, labels and addresses.
THEOREM Invariance == Spec => []IInv
BY Initial, Inductive, PTL DEF Spec

\* Every variable keeps its type; the addresses in the map are those of objects.
THEOREM TypeCorrect == Spec => []TypeOK
<1>1. IInv => TypeOK
  BY DEF IInv
<1> QED BY <1>1, Invariance, PTL

\* No metric has two owners, and no pointer the program may use dangles, although
\* Add takes a badly labelled metric out of the map again (family.cc:37-57).
THEOREM SoleOwner == Spec => []Ownership
<1>1. IInv => Ownership
  BY DEF IInv
<1> QED BY <1>1, Invariance, PTL

\* No Has, scrape or Add ever reports labels that are not valid (family.cc:37-53).
THEOREM OnlyValidSeen == Spec => []NeverSeenInvalid
<1>1. IInv => NeverSeenInvalid
  BY DEF IInv
<1> QED BY <1>1, Invariance, PTL

\* With the mutex free the map holds valid labels only (family.cc:44-51).
THEOREM CleanAfterwards == Spec => []CleanWhenFree
<1>1. IInv => CleanWhenFree
  BY NoOneAssumption DEF IInv, CleanWhenFree, Clean, Checking, Holding, Locked
<1> QED BY <1>1, Invariance, PTL

-----------------------------------------------------------------------------
(* The family implements FamilySpec                                         *)

LEMMA InitRefines == Init => Abstract!Init
<1> SUFFICES ASSUME Init PROVE Abstract!Init
  OBVIOUS
<1>1. Unchecked = {} /\ metrics_ = << >>
  BY DEF Init, Unchecked
<1>2. Table = << >>
  BY <1>1 DEF Table, Restrict
<1>3. Response = [t \in Threads |-> NoReply]
  BY DEF Init, Response, NoReply, Done
<1> QED BY <1>2, <1>3 DEF Init, Abstract!Init, Abstract!NoCall, Abstract!NoReply, NoCall, NoReply

\* The map without what is being checked, for a thread with the mutex.
LEMMA TableOf ==
  ASSUME IInv, NEW t \in Threads, pc[t] \in Locked
  PROVE  /\ pc[t] # "check" => Unchecked = {} /\ Table = Restrict(metrics_, DOMAIN metrics_)
         /\ pc[t] = "check" => /\ Unchecked = {call[t].labels}
                               /\ Table = Restrict(metrics_, DOMAIN metrics_ \ {call[t].labels})
<1>1. \A u \in Threads \ {t} : pc[u] # "check"
  BY Alone DEF Locked
<1>2. pc[t] # "check" => Unchecked = {}
  BY <1>1 DEF Unchecked
<1>3. pc[t] = "check" => Unchecked = {call[t].labels}
  BY <1>1 DEF Unchecked
<1>4. DOMAIN metrics_ \ {} = DOMAIN metrics_
  OBVIOUS
<1> QED BY <1>2, <1>3, <1>4 DEF Table

LEMMA SameTable ==
  ASSUME NEW f, NEW g, NEW S, \A x \in S : f[x] = g[x]
  PROVE  Restrict(f, S) = Restrict(g, S)
BY DEF Restrict

\* A thread that finishes its call responds, and no other does.
LEMMA Responds ==
  ASSUME IInv, NEW t \in Threads, pc[t] \in Locked \ {"unlock"}, NEW r \in Replies,
         Finish(t, r), UNCHANGED <<call, results>>
  PROVE  /\ Response[t] = NoReply
         /\ Response' = [Response EXCEPT ![t] =
                            IF r = Done /\ call[t] = Gather
                            THEN [status |-> "scrape", samples |-> results[t]] ELSE r]
         /\ pc'[t] = "unlock" /\ \A u \in Threads \ {t} : pc'[u] = pc[u] /\ pc[u] # "check"
<1>1. reply' = [reply EXCEPT ![t] = r] /\ pc' = [pc EXCEPT ![t] = "unlock"]
  BY DEF Finish, Goto
<1>2. reply[t] = NoReply /\ NoReply # Done
  BY DEF IInv, Places, Place, Locked, NoReply, Done
<1>3. \A u \in Threads \ {t} : pc[u] \notin Locked
  BY Alone
<1> QED BY <1>1, <1>2, <1>3 DEF Response, IInv, TypeOK, Locked

\* Steps that no caller can tell.
LEMMA Silent ==
  ASSUME IInv, UNCHANGED <<metrics_, call>>, Unchecked' = Unchecked,
         \A t \in Threads : reply'[t] = reply[t] /\ (reply[t] # Done \/ results'[t] = results[t])
  PROVE  UNCHANGED Abstract!vars
<1>1. Table' = Table
  BY DEF Table
<1>2. Response' = Response
  BY DEF Response
<1> QED BY <1>1, <1>2 DEF Abstract!vars

LEMMA InvokeRefines == ASSUME IInv, NEW t \in Threads, Call(t) PROVE Abstract!Invoke(t)
<1>1. PICK c \in Calls \ {NoCall} : Invoke(t, c)
  BY DEF Call, InvokeAdd, InvokeRemove, InvokeHas, InvokeCollect, Calls, NoCall, Gather, IInv, TypeOK
<1>2. /\ pc[t] = "idle" /\ pc' = [pc EXCEPT ![t] = "lock"]
      /\ call' = [call EXCEPT ![t] = c] /\ call[t] = NoCall
      /\ UNCHANGED <<metrics_, reply, results>>
  BY <1>1 DEF Invoke, Goto, IInv, Places, Place
<1>3. c \in Abstract!Requests
  BY <1>1 DEF Calls, NoCall, Gather, Abstract!Requests
<1>4. Unchecked' = Unchecked
  BY <1>2 DEF Unchecked, IInv, TypeOK
<1>5. Table' = Table
  BY <1>2, <1>4 DEF Table
<1>6. Response' = Response
  <2>1. reply[t] = NoReply /\ NoReply # Done
    BY <1>2 DEF IInv, Places, Place, NoReply, Done
  <2> QED BY <1>2, <2>1 DEF Response, IInv, TypeOK
<1> QED BY <1>2, <1>3, <1>5, <1>6 DEF Abstract!Invoke, Abstract!NoCall, NoCall

LEMMA ReturnRefines == ASSUME IInv, NEW t \in Threads, Return(t) PROVE Abstract!Finish(t)
<1>1. /\ pc[t] = "return" /\ pc' = [pc EXCEPT ![t] = "idle"]
      /\ call' = [call EXCEPT ![t] = NoCall]
      /\ reply' = [reply EXCEPT ![t] = NoReply]
      /\ results' = [results EXCEPT ![t] = {}]
      /\ UNCHANGED metrics_
  BY DEF Return, Goto
<1>2. reply[t] # NoReply /\ reply'[t] = NoReply /\ NoReply # Done
  BY <1>1 DEF IInv, TypeOK, Places, Place, NoReply, Done
<1>3. Response[t] # NoReply
  BY <1>2 DEF Response, NoReply
<1>4. Response' = [Response EXCEPT ![t] = NoReply]
  BY <1>1, <1>2 DEF Response, IInv, TypeOK
<1>5. Unchecked' = Unchecked
  BY <1>1 DEF Unchecked, IInv, TypeOK
<1>6. Table' = Table
  BY <1>1, <1>5 DEF Table
<1> QED BY <1>1, <1>3, <1>4, <1>6
        DEF Abstract!Finish, Abstract!NoReply, Abstract!NoCall, NoReply, NoCall

\* insert is no step of the map, unless it finds the labels.
LEMMA AddInsertRefines ==
  ASSUME IInv, NEW t \in Threads, AddInsert(t)
  PROVE  Abstract!AddKnown(t) \/ UNCHANGED Abstract!vars
<1> DEFINE l == call[t].labels
<1>1. pc[t] = "insert" /\ pc[t] \in Locked \ {"unlock"} /\ UNCHANGED <<call, results>>
  BY DEF AddInsert, Locked
<1>2. Table = Restrict(metrics_, DOMAIN metrics_) /\ Unchecked = {}
  BY <1>1, TableOf
<1>3. CASE l \in DOMAIN metrics_
  <2>1. Finish(t, Ref(metrics_[l])) /\ UNCHANGED metrics_
    BY <1>3 DEF AddInsert
  <2>2. Ref(metrics_[l]) \in Replies /\ Ref(metrics_[l]) # Done
    BY <1>3 DEF IInv, TypeOK, Replies, Ref, Done
  <2>3. /\ Response[t] = NoReply /\ Response' = [Response EXCEPT ![t] = Ref(metrics_[l])]
        /\ Unchecked' = Unchecked
    <3>1. /\ pc'[t] = "unlock" /\ \A u \in Threads \ {t} : pc'[u] = pc[u] /\ pc[u] # "check"
          /\ Response[t] = NoReply /\ Response' = [Response EXCEPT ![t] = Ref(metrics_[l])]
      BY <1>1, <2>1, <2>2, Responds
    <3> QED BY <1>1, <3>1 DEF Unchecked
  <2>4. Table' = Table
    BY <2>1, <2>3 DEF Table
  <2>5. l \in DOMAIN Table /\ Table[l] = metrics_[l]
    BY <1>2, <1>3 DEF Restrict
  <2>6. call[t].op = "Add"
    BY <1>1, AtEntry
  <2> QED BY <1>1, <2>3, <2>4, <2>5, <2>6
          DEF Abstract!AddKnown, Abstract!Pending, Abstract!Respond, Abstract!NoReply, NoReply, Ref
<1>4. CASE l \notin DOMAIN metrics_
  <2>1. /\ metrics_' = [k \in DOMAIN metrics_ \cup {l} |->
                         IF k = l THEN spare[t] ELSE metrics_[k]]
        /\ pc' = [pc EXCEPT ![t] = "check"] /\ UNCHANGED reply
    BY <1>4 DEF AddInsert, Goto
  <2>2. Unchecked' = {l}
    <3>1. \A u \in Threads \ {t} : pc[u] # "check"
      BY <1>1, Alone DEF Locked
    <3> QED BY <1>1, <2>1, <3>1 DEF Unchecked, IInv, TypeOK
  <2>3. DOMAIN metrics_' \ {l} = DOMAIN metrics_ /\ \A k \in DOMAIN metrics_ : metrics_'[k] = metrics_[k]
    BY <1>4, <2>1
  <2>4. Table' = Table
    BY <1>2, <2>2, <2>3, SameTable DEF Table
  <2>5. Response' = Response
    BY <1>1, <2>1 DEF Response
  <2> QED BY <1>1, <2>4, <2>5 DEF Abstract!vars
<1> QED BY <1>3, <1>4

\* The check is the moment at which the metric is there, or the call has failed.
LEMMA AddCheckRefines ==
  ASSUME IInv, NEW t \in Threads, AddCheck(t)
  PROVE  Abstract!AddFresh(t) \/ Abstract!AddRefused(t)
<1> DEFINE l == call[t].labels
<1>1. /\ pc[t] = "check" /\ pc[t] \in Locked \ {"unlock"} /\ UNCHANGED <<call, results>>
      /\ call[t].op = "Add" /\ l \in DOMAIN metrics_
  BY DEF AddCheck, Locked, IInv, Places, Place
<1>2. Table = Restrict(metrics_, DOMAIN metrics_ \ {l})
  BY <1>1, TableOf
<1>3. Valid(l) <=> ~\E name \in DOMAIN l : Refused(name)
  BY DEF Valid, Refused
<1>4. CASE Valid(l)
  <2>1. Finish(t, Ref(metrics_[l])) /\ UNCHANGED metrics_
    BY <1>3, <1>4 DEF AddCheck
  <2>2. Ref(metrics_[l]) \in Replies /\ Ref(metrics_[l]) # Done /\ metrics_[l] \in Addrs
    BY <1>1 DEF IInv, TypeOK, Replies, Ref, Done
  <2>3. /\ Response[t] = NoReply /\ Response' = [Response EXCEPT ![t] = Ref(metrics_[l])]
        /\ Unchecked' = {}
    <3>1. /\ pc'[t] = "unlock" /\ \A u \in Threads \ {t} : pc'[u] = pc[u] /\ pc[u] # "check"
          /\ Response[t] = NoReply /\ Response' = [Response EXCEPT ![t] = Ref(metrics_[l])]
      BY <1>1, <2>1, <2>2, Responds
    <3> QED BY <1>1, <3>1 DEF Unchecked
  <2>4. Table' = Restrict(metrics_, DOMAIN metrics_)
    <3>1. DOMAIN metrics_ \ {} = DOMAIN metrics_
      OBVIOUS
    <3> QED BY <2>1, <2>3, <3>1 DEF Table
  <2>5. Table' = [k \in DOMAIN Table \cup {l} |-> IF k = l THEN metrics_[l] ELSE Table[k]]
    <3>1. DOMAIN Table \cup {l} = DOMAIN metrics_
      BY <1>1, <1>2 DEF Restrict
    <3> QED BY <1>1, <1>2, <2>4, <3>1 DEF Restrict
  <2>6. l \notin DOMAIN Table /\ metrics_[l] \in Addrs \ Range(Table)
    BY <1>1, <1>2, <2>2 DEF Restrict, Range, IInv, Ownership, IsInjective
  <2>7. Abstract!AddFresh(t)
    BY <1>1, <1>4, <2>3, <2>5, <2>6
       DEF Abstract!AddFresh, Abstract!Pending, Abstract!Respond, Abstract!NoReply, NoReply,
           Valid, Ref, Range, Abstract!Range
  <2> QED BY <2>7
<1>5. CASE ~Valid(l)
  <2>1. metrics_' = Restrict(metrics_, DOMAIN metrics_ \ {l}) /\ Finish(t, Thrown)
    BY <1>3, <1>5 DEF AddCheck
  <2>2. Thrown \in Replies /\ Thrown # Done
    BY DEF Replies, Thrown, Done
  <2>3. /\ Response[t] = NoReply /\ Response' = [Response EXCEPT ![t] = Thrown]
        /\ Unchecked' = {}
    <3>1. /\ pc'[t] = "unlock" /\ \A u \in Threads \ {t} : pc'[u] = pc[u] /\ pc[u] # "check"
          /\ Response[t] = NoReply /\ Response' = [Response EXCEPT ![t] = Thrown]
      BY <1>1, <2>1, <2>2, Responds
    <3> QED BY <1>1, <3>1 DEF Unchecked
  <2>4. Table' = Table
    <3>1. /\ DOMAIN metrics_' \ {} = DOMAIN metrics_ \ {l}
          /\ \A k \in DOMAIN metrics_ \ {l} : metrics_'[k] = metrics_[k]
      BY <2>1 DEF Restrict
    <3> QED BY <1>2, <2>3, <3>1, SameTable DEF Table
  <2> QED BY <1>1, <1>5, <2>3, <2>4
          DEF Abstract!AddRefused, Abstract!Pending, Abstract!Respond, Abstract!NoReply, NoReply,
              Valid, Thrown
<1> QED BY <1>4, <1>5

\* erase takes out the one entry that owns the metric, if there is one.
LEMMA RemoveRefines ==
  ASSUME IInv, NEW t \in Threads, Remove(t)
  PROVE  Abstract!Remove(t)
<1> DEFINE m == call[t].metric
<1>1. /\ pc[t] = "remove" /\ pc[t] \in Locked \ {"unlock"} /\ UNCHANGED <<call, results>>
      /\ Finish(t, Done) /\ call[t].op = "Remove" /\ call[t] # Gather
  BY AtEntry DEF Remove, Locked, Gather
<1>2. Table = Restrict(metrics_, DOMAIN metrics_)
  BY <1>1, TableOf
<1>3. Done \in Replies
  BY DEF Replies
<1>4. /\ Response[t] = NoReply /\ Response' = [Response EXCEPT ![t] = Done]
      /\ Unchecked' = {}
  <2>1. /\ pc'[t] = "unlock" /\ \A u \in Threads \ {t} : pc'[u] = pc[u] /\ pc[u] # "check"
        /\ Response[t] = NoReply /\ Response' = [Response EXCEPT ![t] = Done]
    BY <1>1, <1>3, Responds
  <2> QED BY <1>1, <2>1 DEF Unchecked
<1> DEFINE Kept == {l \in DOMAIN metrics_ : metrics_[l] # m}
<1>5. DOMAIN metrics_' = Kept /\ \A l \in Kept : metrics_'[l] = metrics_[l]
  <2>1. CASE m \notin Range(metrics_) /\ UNCHANGED metrics_
    BY <2>1 DEF Range
  <2>2. ASSUME NEW l \in DOMAIN metrics_, metrics_[l] = m,
               metrics_' = Restrict(metrics_, DOMAIN metrics_ \ {l})
        PROVE  DOMAIN metrics_' = Kept /\ \A k \in Kept : metrics_'[k] = metrics_[k]
    <3>1. DOMAIN metrics_ \ {l} = Kept
      BY <2>2 DEF IInv, Ownership, IsInjective
    <3> QED BY <2>2, <3>1 DEF Restrict
  <2> QED BY <2>1, <2>2 DEF Remove
<1>6. Table' = Restrict(metrics_, Kept)
  <2>1. DOMAIN metrics_' \ {} = Kept
    BY <1>5
  <2> QED BY <1>4, <1>5, <2>1, SameTable DEF Table
<1>7. {l \in DOMAIN Table : Table[l] # m} = Kept /\ \A l \in Kept : Table[l] = metrics_[l]
  BY <1>2 DEF Restrict
<1>8. Table' = Restrict(Table, {l \in DOMAIN Table : Table[l] # m})
  BY <1>6, <1>7, SameTable
<1> QED BY <1>1, <1>4, <1>8
        DEF Abstract!Remove, Abstract!Pending, Abstract!Respond, Abstract!NoReply, NoReply, Done,
            Restrict, Abstract!Restrict

\* A query answers what the map says at that moment.
LEMMA HasRefines ==
  ASSUME IInv, NEW t \in Threads, Has(t)
  PROVE  Abstract!Has(t)
<1> DEFINE b == call[t].labels \in DOMAIN metrics_
<1>1. /\ pc[t] = "has" /\ pc[t] \in Locked \ {"unlock"}
      /\ UNCHANGED <<metrics_, call, results>>
      /\ Finish(t, Answer(b)) /\ call[t].op = "Has"
  BY AtEntry DEF Has, Locked
<1>2. Unchecked = {} /\ Table = Restrict(metrics_, DOMAIN metrics_)
  BY <1>1, TableOf
<1>3. Answer(b) \in Replies /\ Answer(b) # Done
  BY DEF Replies, Answer, Done
<1>4. /\ Response[t] = NoReply /\ Response' = [Response EXCEPT ![t] = Answer(b)]
      /\ Unchecked' = {}
  <2> HIDE DEF b
  <2>1. /\ pc'[t] = "unlock" /\ \A u \in Threads \ {t} : pc'[u] = pc[u] /\ pc[u] # "check"
        /\ Response[t] = NoReply /\ Response' = [Response EXCEPT ![t] = Answer(b)]
    BY <1>1, <1>3, Responds
  <2> QED BY <1>1, <2>1 DEF Unchecked
<1>5. Table' = Table
  BY <1>1, <1>2, <1>4 DEF Table
<1>6. DOMAIN Table = DOMAIN metrics_
  BY <1>2 DEF Restrict
<1> QED BY <1>1, <1>4, <1>5, <1>6
        DEF Abstract!Has, Abstract!Pending, Abstract!Respond, Abstract!NoReply, NoReply, Answer

\* When the loop ends, a scrape holds what the map holds at that moment.
LEMMA CollectDoneRefines ==
  ASSUME IInv, NEW t \in Threads, CollectDone(t)
  PROVE  Abstract!Collect(t)
<1>1. /\ pc[t] = "collect" /\ pc[t] \in Locked \ {"unlock"}
      /\ UNCHANGED <<metrics_, call, results>>
      /\ Finish(t, Done) /\ call[t].op = "Collect"
  BY AtEntry DEF CollectDone, Locked
<1>2. Unchecked = {} /\ Table = Restrict(metrics_, DOMAIN metrics_)
  BY <1>1, TableOf
<1>3. Done \in Replies /\ call[t] = Gather
  BY <1>1, Shapes DEF Replies, IInv, TypeOK
<1>4. /\ Response[t] = NoReply
      /\ Response' = [Response EXCEPT ![t] = [status |-> "scrape", samples |-> results[t]]]
      /\ Unchecked' = {}
  <2>1. /\ pc'[t] = "unlock" /\ \A u \in Threads \ {t} : pc'[u] = pc[u] /\ pc[u] # "check"
        /\ Response[t] = NoReply
        /\ Response' = [Response EXCEPT ![t] = [status |-> "scrape", samples |-> results[t]]]
    BY <1>1, <1>3, Responds
  <2> QED BY <1>1, <2>1 DEF Unchecked
<1>5. Table' = Table
  BY <1>1, <1>2, <1>4 DEF Table
<1>6. results[t] = DOMAIN Table
  BY <1>1, <1>2 DEF CollectDone, Restrict, IInv, Places, Place
<1> QED BY <1>1, <1>4, <1>5, <1>6
        DEF Abstract!Collect, Abstract!Pending, Abstract!Respond, Abstract!NoReply, NoReply

\* The mutex and the gathering of samples are no steps of the map.
LEMMA SilentSteps ==
  ASSUME IInv, NEW t \in Threads, Lock(t) \/ Unlock(t) \/ CollectMetric(t)
  PROVE  UNCHANGED Abstract!vars
<1>1. CASE Lock(t)
  <2>1. pc[t] = "lock" /\ pc' = [pc EXCEPT ![t] = Entry(call[t].op)]
    BY <1>1 DEF Lock, Goto
  <2>2. call[t].op \in {"Add", "Remove", "Has", "Collect"}
    <3>1. call[t] \in Calls /\ call[t] # NoCall
      BY <2>1 DEF IInv, TypeOK, Places, Place
    <3> QED BY <3>1, Shapes DEF Replies
  <2>3. Entry(call[t].op) # "check"
    BY <2>2 DEF Entry
  <2>4. Unchecked' = Unchecked
    BY <1>1, <2>1, <2>3 DEF Lock, Unchecked, IInv, TypeOK
  <2> QED BY <1>1, <2>4, Silent DEF Lock
<1>2. CASE Unlock(t)
  <2>1. pc[t] = "unlock" /\ pc' = [pc EXCEPT ![t] = "return"]
    BY <1>2 DEF Unlock, Goto
  <2>2. Unchecked' = Unchecked
    BY <1>2, <2>1 DEF Unlock, Unchecked, IInv, TypeOK
  <2> QED BY <1>2, <2>2, Silent DEF Unlock
<1>3. CASE CollectMetric(t)
  <2>1. Unchecked' = Unchecked
    BY <1>3 DEF CollectMetric, Unchecked
  <2>2. reply[t] = NoReply /\ NoReply # Done
    BY <1>3 DEF CollectMetric, IInv, Places, Place, NoReply, Done
  <2>3. \A u \in Threads \ {t} : results'[u] = results[u]
    BY <1>3 DEF CollectMetric, IInv, TypeOK
  <2> QED BY <1>3, <2>1, <2>2, <2>3, Silent DEF CollectMetric
<1> QED BY <1>1, <1>2, <1>3

LEMMA NextRefines == IInv /\ [Next]_vars => [Abstract!Next]_Abstract!vars
<1> SUFFICES ASSUME IInv, [Next]_vars PROVE [Abstract!Next]_Abstract!vars
  OBVIOUS
<1>1. CASE UNCHANGED vars
  <2>1. Unchecked' = Unchecked
    BY <1>1 DEF vars, Unchecked
  <2> QED BY <1>1, <2>1, Silent DEF vars
<1>2. ASSUME NEW t \in Threads, Call(t) \/ Lock(t) \/ Run(t)
      PROVE  [Abstract!Next]_Abstract!vars
  <2>1. CASE Call(t)
    BY <2>1, InvokeRefines DEF Abstract!Next
  <2>2. CASE Lock(t) \/ Unlock(t) \/ CollectMetric(t)
    BY <2>2, SilentSteps
  <2>3. CASE AddInsert(t)
    BY <2>3, AddInsertRefines DEF Abstract!Next
  <2>4. CASE AddCheck(t)
    BY <2>4, AddCheckRefines DEF Abstract!Next
  <2>5. CASE Remove(t) \/ Has(t) \/ CollectDone(t)
    BY <2>5, RemoveRefines, HasRefines, CollectDoneRefines DEF Abstract!Next
  <2>6. CASE Return(t)
    BY <2>6, ReturnRefines DEF Abstract!Next
  <2> QED BY <1>2, <2>1, <2>2, <2>3, <2>4, <2>5, <2>6 DEF Run
<1> QED BY <1>1, <1>2 DEF Next

\* Add, Remove, Has and Collect are atomic operations on a map that never holds
\* invalid labels, whatever the threads do at the same time (family.cc:37-105).
THEOREM Atomic == Spec => Linearizable
BY Invariance, InitRefines, NextRefines, PTL DEF Spec, Linearizable, Abstract!Spec
=============================================================================
