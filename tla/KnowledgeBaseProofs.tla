--------------------------- MODULE KnowledgeBaseProofs ---------------------------
(***************************************************************************)
(* Proofs about the knowledge base, for any number of ingests and of       *)
(* assessments, any controls files and any top_k.                          *)
(***************************************************************************)
EXTENDS KnowledgeBase, ListLemmas

Stages == {"start", "list", "unlink", "open", "add", "search", "done", "selected",
           "missing", "failed", "killed"}

\* The stages of an ingest from its listing of the directory on.
Changing == {"unlink", "open", "add"}

TypeOK ==
    /\ linked \in Procs \cup {None}
    /\ content \in [Procs -> [ControlIds -> Nat]]
    /\ pc \in [Procs -> Stages]
    /\ listed \in [Ingesters -> BOOLEAN]
    /\ handle \in [Procs -> Procs \cup {None}]
    /\ docs \in [Ingesters -> [ControlIds -> Nat]]
    /\ selected \in [Readers -> [ControlIds -> Nat]]
    /\ last \in [ControlIds -> Nat]
    /\ damaged \in BOOLEAN
    /\ \A p \in Procs : pc[p] \in {"add", "search"} => handle[p] \in Procs
    /\ \A p \in Ingesters : pc[p] = "start" => docs[p] = Nothing

\* A process that has not opened the store has not created one.
Unopened(p) ==
    pc[p] \in {"start", "list", "unlink", "open"} =>
        content[p] = Nothing /\ linked # p /\ \A q \in Procs : handle[q] # p

\* The directory has no store, or an empty one.
Empty == linked = None \/ content[linked] = Nothing

\* A control is there n times because some controls file lists it that often.
Listed(n, id) == n > 0 => \E p \in Ingesters : n <= docs[p][id]

\* Ingests take turns, and each adds to a store that is empty.
Turns ==
    Ingesters \cap disturbed = {} =>
        /\ \A p, q \in Ingesters : Active(p) /\ Active(q) => p = q
        /\ \A s \in Procs : \A id \in ControlIds : Listed(content[s][id], id)
        /\ \A r \in Readers : \A id \in ControlIds : Listed(selected[r][id], id)
        /\ \A p \in Ingesters :
              /\ pc[p] = "unlink" => listed[p] \/ Empty
              /\ pc[p] = "open" => Empty
              /\ pc[p] = "add" => content[handle[p]] = Nothing

\* Between ingests the store is what the last one has made of it.
Idle == IF linked = None THEN last = Nothing ELSE content[linked] = last
Repaired ==
    Peaceful =>
        /\ \A p \in Ingesters : pc[p] = "add" => linked = handle[p]
        /\ (\A p \in Ingesters : pc[p] \notin Changing) => Idle

IInv ==
    /\ TypeOK
    /\ \A p \in Procs : Unopened(p)
    /\ Turns
    /\ Repaired

-----------------------------------------------------------------------------
(* Documents *)

\* What a search may return is no more than what the store has.
LEMMA NearestIsThere ==
    ASSUME NEW bag, NEW k, NEW pick \in Nearest(bag, k)
    PROVE  /\ pick \in [ControlIds -> Nat]
           /\ \A id \in ControlIds : pick[id] <= bag[id]
<1>1. 0 .. k \subseteq Nat
  OBVIOUS
<1> QED
  BY <1>1 DEF Nearest

-----------------------------------------------------------------------------
(* Steps *)

\* Every step but an Add leaves the documents as they are.
LEMMA ContentFrame ==
    ASSUME [Next]_vars, \A p \in Ingesters : ~Add(p)
    PROVE  content' = content
BY DEF Next, Ingest, Assess, Load, List, Unlink, UnlinkFails, OpenToAdd, EmbedFails, Missing,
       Check, OpenToSearch, Open, Search, Killed, store, vars

\* Types.
LEMMA TypeStep == IInv /\ [Next]_vars => TypeOK'
<1> SUFFICES ASSUME IInv, [Next]_vars PROVE TypeOK'
  OBVIOUS
<1>0. TypeOK
  BY DEF IInv
<1> USE <1>0, ProcsAssumption, RubricAssumption DEF TypeOK, Procs, Stages, Step
<1>1. ASSUME NEW p \in Ingesters, Load(p) PROVE TypeOK'
  BY <1>1, TopKAssumption DEF Load, store
<1>2. ASSUME NEW p \in Ingesters, List(p) PROVE TypeOK'
  BY <1>2 DEF List, store, observed
<1>3. ASSUME NEW p \in Ingesters, Unlink(p) PROVE TypeOK'
  BY <1>3 DEF Unlink, observed
<1>4. ASSUME NEW p \in Ingesters, UnlinkFails(p) \/ EmbedFails(p) PROVE TypeOK'
  BY <1>4 DEF UnlinkFails, EmbedFails, store
<1>5. ASSUME NEW p \in Ingesters, OpenToAdd(p) PROVE TypeOK'
  BY <1>5 DEF OpenToAdd, Open, observed
<1>6. ASSUME NEW p \in Ingesters, Add(p) PROVE TypeOK'
  <2>1. handle[p] \in Procs
    BY <1>6 DEF Add
  <2>2. [id \in ControlIds |-> content[handle[p]][id] + docs[p][id]]
            \in [ControlIds -> Nat]
    BY <2>1
  <2> QED
    BY <1>6, <2>1, <2>2 DEF Add
<1>7. ASSUME NEW r \in Readers, Missing(r) \/ Check(r) PROVE TypeOK'
  BY <1>7 DEF Missing, Check, store, observed
<1>8. ASSUME NEW r \in Readers, OpenToSearch(r) PROVE TypeOK'
  BY <1>8 DEF OpenToSearch, Open, observed
<1>9. ASSUME NEW r \in Readers, Search(r) PROVE TypeOK'
  <2>1. PICK pick \in Nearest(content[handle[r]], TopK) :
           selected' = [selected EXCEPT ![r] = Of(pick, Rubric)]
    BY <1>9 DEF Search
  <2>2. Of(pick, Rubric) \in [ControlIds -> Nat]
    BY NearestIsThere DEF Of
  <2> QED
    BY <1>9, <2>1, <2>2 DEF Search, store, observed
<1>10. ASSUME NEW p \in Procs, Killed(p) PROVE TypeOK'
  BY <1>10 DEF Killed, store
<1>11. ASSUME UNCHANGED vars PROVE TypeOK'
  BY <1>11 DEF vars, store, local, observed
<1> QED
  BY <1>1, <1>2, <1>3, <1>4, <1>5, <1>6, <1>7, <1>8, <1>9, <1>10, <1>11
     DEF Next, Ingest, Assess

\* A store is created by the process that opens it.
LEMMA UnopenedStep == IInv /\ [Next]_vars => (\A q \in Procs : Unopened(q))'
<1> SUFFICES ASSUME IInv, [Next]_vars, NEW q \in Procs PROVE Unopened(q)'
  OBVIOUS
<1>0. TypeOK /\ Unopened(q)
  BY DEF IInv
<1> USE <1>0, ProcsAssumption DEF TypeOK, Procs, Step, Unopened
<1>1. ASSUME NEW p \in Procs, pc[p] = "open", Open(p),
             pc' = [pc EXCEPT ![p] = "add"] \/ pc' = [pc EXCEPT ![p] = "search"]
      PROVE  Unopened(q)'
  <2>1. CASE q = p
    BY <1>1, <2>1
  <2>2. CASE q # p
    BY <1>1, <2>2 DEF Open
  <2> QED
    BY <2>1, <2>2
<1>2. ASSUME NEW p \in Ingesters, Add(p) PROVE Unopened(q)'
  BY <1>2 DEF Add
<1>3. ASSUME NEW p \in Ingesters,
             Load(p) \/ List(p) \/ Unlink(p) \/ UnlinkFails(p) \/ EmbedFails(p)
      PROVE  Unopened(q)'
  BY <1>3 DEF Load, List, Unlink, UnlinkFails, EmbedFails, store
<1>4. ASSUME NEW r \in Readers, Missing(r) \/ Check(r) \/ Search(r) PROVE Unopened(q)'
  BY <1>4 DEF Missing, Check, Search, store
<1>5. ASSUME NEW p \in Procs, Killed(p) PROVE Unopened(q)'
  BY <1>5 DEF Killed, store
<1>6. ASSUME UNCHANGED vars PROVE Unopened(q)'
  BY <1>6 DEF vars, store, local
<1> QED
  BY <1>1, <1>2, <1>3, <1>4, <1>5, <1>6 DEF Next, Ingest, Assess, OpenToAdd, OpenToSearch

\* An ingest that begins disturbs those that are under way, and nothing is forgotten
\* of who was disturbed.
LEMMA Disturbing ==
    ASSUME IInv, [Next]_vars
    PROVE  /\ disturbed \subseteq disturbed'
           /\ damaged => damaged'
           /\ \A p \in Ingesters : Load(p) =>
                 \A q \in Ingesters : q # p /\ Active(q) => q \in disturbed'
<1>1. \A p \in Procs : Begin(p) => disturbed \subseteq disturbed'
  BY DEF Begin
<1>2. disturbed \subseteq disturbed'
  BY <1>1 DEF Next, Ingest, Assess, Load, List, Unlink, UnlinkFails, OpenToAdd, EmbedFails,
              Missing, Check, OpenToSearch, Open, Search, Killed, Add, observed, vars, Procs
<1>3. damaged => damaged'
  BY DEF Next, Ingest, Assess, Load, List, Unlink, UnlinkFails, OpenToAdd, EmbedFails,
         Missing, Check, OpenToSearch, Open, Search, Killed, Add, observed, vars
<1>4. ASSUME NEW p \in Ingesters, Load(p), NEW q \in Ingesters, q # p, Active(q)
      PROVE  q \in disturbed'
  BY <1>4 DEF Load, Begin, Procs
<1> QED
  BY <1>2, <1>3, <1>4

\* Two ingests that are under way at a time have disturbed one another.
LEMMA OneAtATime ==
    ASSUME IInv, [Next]_vars, Ingesters \cap disturbed' = {},
           NEW p \in Ingesters, NEW q \in Ingesters, Active(p)', Active(q)'
    PROVE  p = q
<1>0. TypeOK /\ (Active(p) /\ Active(q) => p = q) /\ Ingesters \cap disturbed = {}
  BY Disturbing DEF IInv, Turns
<1>1. p \notin Readers /\ q \notin Readers /\ p \in Procs /\ q \in Procs
  BY ProcsAssumption DEF Procs
<1>2. pc'[p] \in Wiping /\ pc'[q] \in Wiping
  BY <1>1 DEF Active
<1>3. ASSUME NEW l \in Ingesters, Load(l) PROVE p = q
  <2>1. \A x \in Procs : x # l => pc'[x] = pc[x]
    BY <1>0, <1>3 DEF Load, Step, TypeOK
  <2>2. \A x \in {p, q} : x # l => Active(x)
    BY <1>1, <1>2, <2>1 DEF Active
  <2>3. \A x \in {p, q} : x = l
    BY <1>3, <2>2, Disturbing
  <2> QED
    BY <2>3
<1>4. CASE \A l \in Ingesters : ~Load(l)
  <2>1. ASSUME NEW x \in Ingesters, pc'[x] \in Wiping PROVE pc[x] \in Wiping
    <3> USE <1>0, <2>1, ProcsAssumption DEF Step, TypeOK, Wiping, Procs
    <3>1. ASSUME NEW l \in Ingesters, Ingest(l) PROVE pc[x] \in Wiping
      BY <1>4, <3>1 DEF Ingest, List, Unlink, UnlinkFails, OpenToAdd, EmbedFails, Add
    <3>2. ASSUME NEW r \in Readers, Assess(r) PROVE pc[x] \in Wiping
      BY <3>2 DEF Assess, Missing, Check, OpenToSearch, Search
    <3>3. ASSUME NEW l \in Procs, Killed(l) PROVE pc[x] \in Wiping
      BY <3>3 DEF Killed
    <3>4. CASE UNCHANGED vars
      BY <3>4 DEF vars, local
    <3> QED
      BY <3>1, <3>2, <3>3, <3>4 DEF Next
  <2> QED
    BY <1>0, <1>2, <2>1 DEF Active
<1> QED
  BY <1>3, <1>4

\* While an ingest is under way and not disturbed, the others do nothing to the store;
\* an assessment may create one, which is empty.
LEMMA OthersLeaveEmpty ==
    ASSUME IInv, [Next]_vars, Ingesters \cap disturbed' = {},
           NEW p \in Ingesters, pc[p] \in Changing, pc'[p] = pc[p]
    PROVE  /\ UNCHANGED <<content, handle[p], listed[p], docs[p]>>
           /\ Empty => Empty'
           /\ linked # None => linked' = linked
<1>0. TypeOK /\ p \in Procs /\ Ingesters \cap disturbed = {}
  BY Disturbing DEF IInv, Procs
<1>1. Active(p)
  BY <1>0 DEF Active, Wiping, Changing
<1>2. \A q \in Ingesters : Active(q) => q = p
  BY <1>0, <1>1 DEF IInv, Turns
<1> USE <1>0, ProcsAssumption DEF TypeOK, Step
<1>3. ASSUME NEW q \in Ingesters, Ingest(q)
      PROVE  UNCHANGED <<store, listed, handle>> /\ docs'[p] = docs[p]
  <2>1. q \in Procs /\ q \notin Readers
    BY DEF Procs
  <2>2. CASE Load(q)
    <3>1. q # p
      BY <2>1, <2>2 DEF Load, Changing
    <3> QED
      BY <2>2, <3>1 DEF Load
  <2>3. CASE ~Load(q)
    <3>1. pc[q] \in Wiping /\ pc'[q] # pc[q]
      BY <1>3, <2>1, <2>3 DEF Ingest, List, Unlink, UnlinkFails, OpenToAdd, Add, EmbedFails, Wiping
    <3>2. q = p
      BY <1>2, <2>1, <3>1 DEF Active
    <3> QED
      BY <3>1, <3>2
  <2> QED
    BY <2>2, <2>3
<1>4. ASSUME NEW r \in Readers, Assess(r), ~OpenToSearch(r)
      PROVE  UNCHANGED <<store, listed, handle, docs>>
  BY <1>4 DEF Assess, Missing, Check, Search
<1>5. ASSUME NEW r \in Readers, OpenToSearch(r)
      PROVE  /\ UNCHANGED <<content, handle[p], listed, docs>>
             /\ linked' = IF linked = None THEN r ELSE linked
             /\ content[r] = Nothing
  <2>1. r \in Procs /\ r # p
    BY DEF Procs
  <2> QED
    BY <1>5, <2>1 DEF OpenToSearch, Open, IInv, Unopened
<1>6. ASSUME (\E q \in Procs : Killed(q)) \/ UNCHANGED vars
      PROVE  UNCHANGED <<store, listed, handle, docs>>
  BY <1>6 DEF Killed, vars, store, local
<1>7. ASSUME ~ \E r \in Readers : OpenToSearch(r)
      PROVE  /\ UNCHANGED <<content, handle[p], listed[p], docs[p]>>
             /\ Empty => Empty'
             /\ linked # None => linked' = linked
  <2>1. /\ linked' = linked /\ content' = content /\ handle' = handle /\ listed' = listed
        /\ docs'[p] = docs[p]
    BY <1>3, <1>4, <1>6, <1>7 DEF Next, store
  <2> QED
    BY <2>1 DEF Empty
<1>8. ASSUME NEW r \in Readers, OpenToSearch(r)
      PROVE  /\ UNCHANGED <<content, handle[p], listed[p], docs[p]>>
             /\ Empty => Empty'
             /\ linked # None => linked' = linked
  BY <1>5, <1>8 DEF Empty
<1> QED
  BY <1>7, <1>8

\* How an ingest comes to each stage after its listing.
LEMMA Entering ==
    ASSUME TypeOK, [Next]_vars, NEW p \in Ingesters, pc'[p] # pc[p]
    PROVE  /\ pc'[p] = "unlink" => List(p)
           /\ pc'[p] = "open" => Unlink(p)
           /\ pc'[p] = "add" => OpenToAdd(p)
           /\ pc[p] \in Changing /\ pc'[p] \notin Changing => Add(p) \/ damaged'
<1> USE ProcsAssumption DEF TypeOK, Step, Procs, Changing
<1>1. CASE UNCHANGED vars
  BY <1>1 DEF vars, local
<1>2. ASSUME NEW r \in Readers, Assess(r) PROVE FALSE
  BY <1>2 DEF Assess, Missing, Check, OpenToSearch, Search
<1>3. ASSUME NEW q \in Procs, Killed(q)
      PROVE  pc'[p] = "killed" /\ (p = q => damaged')
  BY <1>3 DEF Killed
<1>4. ASSUME NEW q \in Ingesters, Ingest(q), q # p PROVE FALSE
  BY <1>4 DEF Ingest, Load, List, Unlink, UnlinkFails, OpenToAdd, EmbedFails, Add
<1>5. CASE Ingest(p)
  BY <1>5 DEF Ingest, Load, List, Unlink, UnlinkFails, OpenToAdd, EmbedFails, Add
<1>6. ASSUME NEW q \in Procs, Killed(q) PROVE p = q
  BY <1>6 DEF Killed
<1> QED
  BY <1>1, <1>2, <1>3, <1>4, <1>5, <1>6 DEF Next

\* What was listed stays listed: an ingest loads its controls file once.
LEMMA ListedStays ==
    ASSUME TypeOK, [Next]_vars, NEW n \in Nat, NEW id \in ControlIds, Listed(n, id)
    PROVE  n > 0 => \E p \in Ingesters : n <= docs'[p][id]
<1> SUFFICES ASSUME n > 0 PROVE \E p \in Ingesters : n <= docs'[p][id]
  OBVIOUS
<1>1. PICK p \in Ingesters : n <= docs[p][id]
  BY DEF Listed
<1>2. pc[p] # "start"
  <2>1. docs[p] # Nothing
    BY <1>1 DEF Nothing
  <2> QED
    BY <2>1 DEF TypeOK
<1>3. docs'[p] = docs[p]
  <2>1. ASSUME NEW q \in Ingesters, Load(q) PROVE docs'[p] = docs[p]
    BY <1>2, <2>1 DEF Load, Step, TypeOK
  <2>2. CASE \A q \in Ingesters : ~Load(q)
    BY <2>2 DEF Next, Ingest, Assess, List, Unlink, UnlinkFails, OpenToAdd, EmbedFails, Missing,
                Check, OpenToSearch, Open, Search, Killed, Add, vars, local
  <2> QED
    BY <2>1, <2>2
<1> QED
  BY <1>1, <1>3

\* Each ingest that no other disturbs finds the store empty when it adds to it.
LEMMA TurnsStep == IInv /\ [Next]_vars => Turns'
<1> SUFFICES ASSUME IInv, [Next]_vars, Ingesters \cap disturbed' = {} PROVE Turns'
  BY DEF Turns
<1>0. TypeOK /\ Ingesters \cap disturbed = {} /\ TypeOK'
  BY Disturbing, TypeStep DEF IInv
<1>1. ASSUME NEW p \in Ingesters, NEW q \in Ingesters, Active(p)', Active(q)'
      PROVE  p = q
  BY <1>1, OneAtATime
<1>2. ASSUME NEW s \in Procs, NEW id \in ControlIds PROVE Listed(content[s][id], id)'
  <2>0. Listed(content[s][id], id)
    BY <1>0 DEF IInv, Turns
  <2>1. ASSUME NEW p \in Ingesters, Add(p) PROVE Listed(content[s][id], id)'
    <3>0. docs' = docs /\ docs[p][id] \in Nat
      BY <1>0, <2>1 DEF Add, TypeOK
    <3>1. pc[p] = "add" /\ handle[p] \in Procs /\ content[handle[p]] = Nothing
      BY <1>0, <2>1 DEF IInv, Turns, Add, Step, TypeOK, Procs
    <3>2. content' = [content EXCEPT ![handle[p]] =
              [x \in ControlIds |-> content[handle[p]][x] + docs[p][x]]]
      BY <2>1 DEF Add
    <3>3. CASE s = handle[p]
      <4>1. content'[s][id] = Nothing[id] + docs[p][id]
        BY <1>0, <3>1, <3>2, <3>3 DEF TypeOK
      <4>2. content'[s][id] = docs[p][id]
        BY <3>0, <4>1 DEF Nothing
      <4> QED
        BY <3>0, <4>2 DEF Listed
    <3>4. CASE s # handle[p]
      <4>1. content'[s] = content[s]
        BY <1>0, <3>2, <3>4 DEF TypeOK
      <4> QED
        BY <2>0, <3>0, <4>1 DEF Listed
    <3> QED
      BY <3>3, <3>4
  <2>2. CASE \A p \in Ingesters : ~Add(p)
    <3>1. content'[s][id] = content[s][id] /\ content[s][id] \in Nat
      BY <1>0, <2>2, ContentFrame DEF TypeOK
    <3> QED
      <4>1. content'[s][id] > 0 => \E p \in Ingesters : content[s][id] <= docs'[p][id]
        BY <1>0, <2>0, <3>1, ListedStays
      <4> QED
        BY <3>1, <4>1 DEF Listed
  <2> QED
    BY <2>1, <2>2
<1>3. ASSUME NEW r \in Readers, NEW id \in ControlIds PROVE Listed(selected[r][id], id)'
  <2>0. Listed(selected[r][id], id) /\ selected[r][id] \in Nat
    BY <1>0 DEF IInv, Turns, TypeOK
  <2>1. ASSUME NEW x \in Readers, Search(x) PROVE Listed(selected[r][id], id)'
    <3>0. docs' = docs
      BY <2>1 DEF Search
    <3>1. PICK pick \in Nearest(content[handle[x]], TopK) :
             selected' = [selected EXCEPT ![x] = Of(pick, Rubric)]
      BY <2>1 DEF Search
    <3>2. pick[id] \in Nat /\ pick[id] <= content[handle[x]][id]
      BY NearestIsThere
    <3>3. handle[x] \in Procs
      BY <1>0, <2>1 DEF Search, Step, TypeOK, Procs
    <3>4. content[handle[x]][id] \in Nat /\ Listed(content[handle[x]][id], id)
      BY <1>0, <3>3 DEF IInv, Turns, TypeOK
    <3>5. \A p \in Ingesters : docs[p][id] \in Nat
      BY <1>0 DEF TypeOK
    <3>6. CASE r = x
      <4>1. selected'[r][id] = Of(pick, Rubric)[id]
        BY <1>0, <3>1, <3>6 DEF TypeOK
      <4>2. selected'[r][id] = pick[id] \/ selected'[r][id] = 0
        BY <4>1 DEF Of
      <4>3. Listed(pick[id], id)
        BY <3>2, <3>4, <3>5 DEF Listed
      <4> QED
        BY <3>0, <4>2, <4>3 DEF Listed
    <3>7. CASE r # x
      <4>1. selected'[r] = selected[r]
        BY <1>0, <3>1, <3>7 DEF TypeOK
      <4> QED
        BY <2>0, <3>0, <4>1 DEF Listed
    <3> QED
      BY <3>6, <3>7
  <2>2. CASE \A x \in Readers : ~Search(x)
    <3>1. selected' = selected
      BY <2>2 DEF Next, Ingest, Assess, Load, List, Unlink, UnlinkFails, OpenToAdd, EmbedFails,
                  Missing, Check, OpenToSearch, Open, Killed, Add, vars, local
    <3> QED
      <4>1. selected[r][id] > 0 => \E p \in Ingesters : selected[r][id] <= docs'[p][id]
        BY <1>0, <2>0, ListedStays
      <4> QED
        BY <3>1, <4>1 DEF Listed
  <2> QED
    BY <2>1, <2>2
<1>4. ASSUME NEW p \in Ingesters
      PROVE  /\ pc'[p] = "unlink" => listed'[p] \/ Empty'
             /\ pc'[p] = "open" => Empty'
             /\ pc'[p] = "add" => (content[handle[p]])' = Nothing
  <2>0. /\ p \in Procs
        /\ pc[p] = "unlink" => listed[p] \/ Empty
        /\ pc[p] = "open" => Empty
        /\ pc[p] = "add" => content[handle[p]] = Nothing
    BY <1>0 DEF IInv, Turns, Procs
  <2>1. CASE pc'[p] = pc[p] /\ pc[p] \in Changing
    BY <2>0, <2>1, OthersLeaveEmpty DEF Changing
  <2>2. CASE pc'[p] # pc[p] /\ pc'[p] = "unlink"
    BY <1>0, <2>2, Entering DEF List, store, Empty, TypeOK
  <2>3. CASE pc'[p] # pc[p] /\ pc'[p] = "open"
    <3>1. Unlink(p)
      BY <1>0, <2>3, Entering
    <3>2. /\ pc[p] = "unlink" /\ content' = content
          /\ linked' = IF listed[p] THEN None ELSE linked
      BY <3>1 DEF Unlink, Step
    <3> QED
      BY <2>0, <2>3, <3>2 DEF Empty
  <2>4. CASE pc'[p] # pc[p] /\ pc'[p] = "add"
    <3>1. OpenToAdd(p)
      BY <1>0, <2>4, Entering
    <3>2. /\ pc[p] = "open" /\ content' = content
          /\ linked' = IF linked = None THEN p ELSE linked
          /\ handle' = [handle EXCEPT ![p] = linked']
      BY <3>1 DEF OpenToAdd, Open, Step
    <3>3. content[p] = Nothing /\ Empty
      BY <2>0, <3>2 DEF IInv, Unopened
    <3>4. handle'[p] = linked' /\ content[linked'] = Nothing
      BY <1>0, <2>0, <3>2, <3>3 DEF Empty, TypeOK
    <3> QED
      BY <2>4, <3>2, <3>4
  <2> QED
    BY <2>1, <2>2, <2>3, <2>4 DEF Changing
<1> QED
  BY <1>1, <1>2, <1>3, <1>4 DEF Turns

\* An ingest that no other disturbs leaves its documents in the store that the next
\* process will find.
LEMMA RepairedStep == IInv /\ [Next]_vars => Repaired'
<1> SUFFICES ASSUME IInv, [Next]_vars, Peaceful' PROVE Repaired'
  BY DEF Repaired
<1>0. /\ TypeOK /\ Peaceful /\ ~damaged' /\ Ingesters \cap disturbed' = {}
      /\ Ingesters \cap disturbed = {}
  BY Disturbing DEF IInv, Peaceful
<1>1. ASSUME NEW p \in Ingesters, pc'[p] = "add" PROVE linked' = handle'[p]
  <2>1. CASE pc'[p] = pc[p]
    <3>1. linked = handle[p] /\ linked # None
      BY <1>0, <1>1, <2>1, ProcsAssumption DEF IInv, Repaired, TypeOK, Procs
    <3> QED
      BY <1>0, <1>1, <2>1, <3>1, OthersLeaveEmpty DEF Changing
  <2>2. CASE pc'[p] # pc[p]
    <3>1. OpenToAdd(p) /\ p \in Procs
      BY <1>0, <1>1, <2>2, Entering DEF Procs
    <3> QED
      BY <1>0, <3>1 DEF OpenToAdd, Open, TypeOK
  <2> QED
    BY <2>1, <2>2
<1>2. ASSUME \A p \in Ingesters : pc'[p] \notin Changing PROVE Idle'
  <2>1. ASSUME NEW p \in Ingesters, pc[p] \in Changing PROVE Idle'
    <3>1. Add(p)
      BY <1>0, <1>2, <2>1, Entering
    <3>2. /\ pc[p] = "add" /\ linked' = linked /\ last' = docs[p]
          /\ content' = [content EXCEPT ![handle[p]] =
                [x \in ControlIds |-> content[handle[p]][x] + docs[p][x]]]
      BY <3>1 DEF Add, Step
    <3>3. /\ linked = handle[p] /\ content[handle[p]] = Nothing
          /\ handle[p] \in Procs /\ linked # None
      BY <1>0, <3>2, ProcsAssumption DEF IInv, Repaired, Turns, TypeOK, Procs
    <3>4. content'[linked] = [x \in ControlIds |-> Nothing[x] + docs[p][x]]
      BY <1>0, <3>2, <3>3 DEF TypeOK
    <3>5. docs[p] \in [ControlIds -> Nat] /\ \A x \in ControlIds : Nothing[x] + docs[p][x] = docs[p][x]
      BY <1>0 DEF TypeOK, Nothing
    <3>6. content'[linked] = docs[p]
      BY <3>4, <3>5
    <3> QED
      BY <3>2, <3>3, <3>6 DEF Idle
  <2>2. CASE \A p \in Ingesters : pc[p] \notin Changing
    <3>0. Idle
      BY <1>0, <2>2 DEF IInv, Repaired
    <3>1. ASSUME NEW p \in Ingesters, Ingest(p) PROVE UNCHANGED <<store, last>>
      <4>1. p \in Procs
        BY DEF Procs
      <4> QED
        BY <1>0, <1>2, <2>2, <3>1, <4>1
           DEF Ingest, Load, List, Unlink, UnlinkFails, OpenToAdd, EmbedFails, Add, Step,
               Changing, TypeOK
    <3>2. ASSUME NEW r \in Readers, Assess(r), ~OpenToSearch(r) PROVE UNCHANGED <<store, last>>
      BY <3>2 DEF Assess, Missing, Check, Search, observed
    <3>3. ASSUME (\E p \in Procs : Killed(p)) \/ UNCHANGED vars PROVE UNCHANGED <<store, last>>
      BY <3>3 DEF Killed, vars, observed
    <3>4. ASSUME UNCHANGED <<store, last>> PROVE Idle'
      BY <3>0, <3>4 DEF Idle, store
    <3>5. ASSUME NEW r \in Readers, OpenToSearch(r) PROVE Idle'
      <4>1. /\ r \in Procs /\ pc[r] = "open" /\ content' = content /\ last' = last
            /\ linked' = IF linked = None THEN r ELSE linked
        BY <3>5 DEF OpenToSearch, Open, Step, Procs, observed
      <4>2. content[r] = Nothing /\ r # None
        BY <4>1, ProcsAssumption DEF IInv, Unopened
      <4> QED
        BY <3>0, <4>1, <4>2 DEF Idle
    <3> QED
      BY <3>1, <3>2, <3>3, <3>4, <3>5 DEF Next
  <2> QED
    BY <2>1, <2>2
<1> QED
  BY <1>1, <1>2 DEF Repaired

-----------------------------------------------------------------------------
(* The theorems *)

\* Nothing is there in the beginning.
LEMMA InitIInv == Init => IInv
<1> SUFFICES ASSUME Init PROVE IInv
  OBVIOUS
<1>1. TypeOK
  BY DEF Init, TypeOK, Stages, Nothing, Procs
<1>2. \A p \in Procs : Unopened(p)
  BY ProcsAssumption DEF Init, Unopened
<1>3. Turns
  BY DEF Init, Turns, Listed, Active, Wiping, Nothing, Procs
<1>4. Repaired
  BY DEF Init, Repaired, Idle, Procs
<1> QED
  BY <1>1, <1>2, <1>3, <1>4 DEF IInv

\* The inductive invariant, for any number of processes.
THEOREM Invariance == Spec => []IInv
<1>1. IInv /\ [Next]_vars => IInv'
  BY TypeStep, UnopenedStep, TurnsStep, RepairedStep DEF IInv
<1> QED
  BY <1>1, InitIInv, PTL DEF Spec

\* When no ingest overlapped another and none was cut short, the store holds the
\* entries of the controls file of the last one, whatever was there before.
THEOREM IngestIsIdempotentHolds == Spec => []IngestIsIdempotent
<1>1. IInv => IngestIsIdempotent
  BY DEF IInv, Repaired, Idle, IngestIsIdempotent, Changing
<1> QED
  BY <1>1, Invariance, PTL

\* An assessment selects a control more often than every controls file lists it only
\* when two ingests overlapped; ingests that failed or were killed do not matter.
THEOREM DuplicatesNeedOverlapHolds == Spec => []DuplicatesNeedOverlap
<1>1. IInv => DuplicatesNeedOverlap
  BY DEF IInv, Turns, Listed, DuplicatesNeedOverlap
<1> QED
  BY <1>1, Invariance, PTL

-----------------------------------------------------------------------------
(* Undisturbed assessments *)

\* While an assessment is not disturbed no ingest is under way, and the store it has
\* open is what the last ingest has left.
Undisturbed ==
    Peaceful =>
        \A r \in Readers : Active(r) /\ r \notin disturbed =>
            /\ \A p \in Ingesters : ~Active(p)
            /\ pc[r] = "search" => content[handle[r]] = last

\* Only an assessment that begins becomes active, and it notices an ingest.
LEMMA QuietBefore ==
    ASSUME IInv, Undisturbed, [Next]_vars, Peaceful',
           NEW r \in Readers, Active(r)', r \notin disturbed'
    PROVE  /\ \A p \in Ingesters : ~Active(p)
           /\ pc[r] = "search" => Active(r)
           /\ pc[r] # pc'[r] => Check(r) \/ OpenToSearch(r)
<1>0. TypeOK /\ Peaceful /\ r \notin disturbed /\ r \in Procs /\ r \notin Ingesters
  BY Disturbing, ProcsAssumption DEF IInv, Peaceful, Procs
<1>1. pc'[r] \in {"open", "search"}
  BY <1>0 DEF Active
<1> USE <1>0, <1>1, ProcsAssumption DEF TypeOK, Step, Procs
<1>2. ASSUME NEW p \in Ingesters, Ingest(p) PROVE pc'[r] = pc[r]
  BY <1>2 DEF Ingest, Load, List, Unlink, UnlinkFails, OpenToAdd, EmbedFails, Add
<1>3. ASSUME NEW x \in Readers, Assess(x), x # r PROVE pc'[r] = pc[r]
  BY <1>3 DEF Assess, Missing, Check, OpenToSearch, Search
<1>4. ASSUME NEW x \in Procs, Killed(x) PROVE pc'[r] = pc[r]
  BY <1>4 DEF Killed
<1>5. ASSUME UNCHANGED vars PROVE pc'[r] = pc[r]
  BY <1>5 DEF vars, local
<1>6. ASSUME Assess(r) PROVE Check(r) \/ OpenToSearch(r)
  BY <1>6 DEF Assess, Missing, Check, OpenToSearch, Search
<1>7. pc[r] # pc'[r] => Check(r) \/ OpenToSearch(r)
  BY <1>2, <1>3, <1>4, <1>5, <1>6 DEF Next
<1>8. CASE Check(r)
  BY <1>8 DEF Check, Begin
<1>9. CASE ~Check(r)
  <2>1. Active(r)
    BY <1>7, <1>9 DEF Active, OpenToSearch
  <2> QED
    BY <1>7, <1>9, <2>1 DEF Undisturbed
<1> QED
  BY <1>7, <1>8, <1>9 DEF Active

\* Every step keeps it.
LEMMA UndisturbedStep == IInv /\ Undisturbed /\ [Next]_vars => Undisturbed'
<1> SUFFICES ASSUME IInv, Undisturbed, [Next]_vars, Peaceful',
                    NEW r \in Readers, Active(r)', r \notin disturbed'
             PROVE  /\ \A p \in Ingesters : ~Active(p)'
                    /\ pc'[r] = "search" => content'[handle'[r]] = last'
  BY DEF Undisturbed
<1>0. TypeOK /\ Peaceful /\ r \notin disturbed /\ r \in Procs /\ r \notin Ingesters
  BY Disturbing, ProcsAssumption DEF IInv, Peaceful, Procs
<1>1. /\ \A p \in Ingesters : ~Active(p)
      /\ pc[r] = "search" => Active(r)
      /\ pc[r] # pc'[r] => Check(r) \/ OpenToSearch(r)
  BY QuietBefore
<1>2. \A p \in Ingesters : p \in Procs /\ p \notin Readers /\ pc[p] \notin Wiping
  BY <1>1, ProcsAssumption DEF Active, Procs
<1>3. ASSUME NEW p \in Ingesters PROVE ~Load(p)
  <2> SUFFICES ASSUME Load(p) PROVE FALSE
    OBVIOUS
  <2>1. r # p /\ pc'[r] = pc[r]
    BY <1>0 DEF Load, Step, TypeOK
  <2>2. Active(r)
    BY <2>1 DEF Active
  <2> QED
    BY <1>0, <2>1, <2>2 DEF Load, Begin
<1>4. \A p \in Ingesters : ~Ingest(p)
  BY <1>2, <1>3 DEF Ingest, List, Unlink, UnlinkFails, OpenToAdd, EmbedFails, Add, Step, Wiping
<1>5. ASSUME NEW p \in Ingesters PROVE ~Active(p)'
  BY <1>0, <1>2, <1>4, ProcsAssumption
     DEF Next, Assess, Missing, Check, OpenToSearch, Search, Killed, Step, Active, Wiping, TypeOK,
         vars, local, Procs
<1>6. UNCHANGED <<content, last>>
  BY <1>4 DEF Next, Assess, Missing, Check, OpenToSearch, Open, Search, Killed, store, observed,
              vars
<1>7. ASSUME pc'[r] = "search" PROVE content[handle'[r]] = last
  <2>1. CASE pc[r] = "search"
    <3>1. handle'[r] = handle[r]
      BY <1>0, <1>4, <2>1, ProcsAssumption
         DEF Next, Assess, Missing, Check, OpenToSearch, Open, Search, Killed, Step, TypeOK,
             vars, local, Procs
    <3> QED
      BY <1>0, <1>1, <2>1, <3>1 DEF Undisturbed
  <2>2. CASE pc[r] # "search"
    <3>1. OpenToSearch(r)
      BY <1>1, <1>7, <2>2, <1>0 DEF Check, Step, TypeOK
    <3>2. /\ pc[r] = "open" /\ linked' = (IF linked = None THEN r ELSE linked)
          /\ handle'[r] = linked'
      BY <1>0, <3>1 DEF OpenToSearch, Open, Step, TypeOK
    <3>3. Idle
      BY <1>0, <1>2 DEF IInv, Repaired, Changing, Wiping
    <3>4. content[r] = Nothing
      BY <1>0, <3>2 DEF IInv, Unopened
    <3> QED
      BY <3>2, <3>3, <3>4 DEF Idle
  <2> QED
    BY <2>1, <2>2
<1> QED
  BY <1>5, <1>6, <1>7

\* What a search selects of a store with the documents of a bag.
LEMMA SelectionFacts ==
    ASSUME NEW bag \in [ControlIds -> Nat], NEW pick \in Nearest(bag, TopK)
    PROVE  /\ \A id \in ControlIds : Of(pick, Rubric)[id] <= Of(bag, Rubric)[id]
           /\ Size(Of(pick, Rubric)) <= TopK
           /\ Size(Of(pick, Rubric)) + Size(Of(bag, ControlIds \ Rubric))
                 >= FE!Min({TopK, Size(bag)})
<1> DEFINE known   == Of(pick, Rubric)
           unknown == Of(pick, ControlIds \ Rubric)
           foreign == Of(bag, ControlIds \ Rubric)
<1>1. pick \in [ControlIds -> Nat] /\ \A id \in ControlIds : pick[id] <= bag[id]
  BY NearestIsThere
<1>2. known \in [ControlIds -> Nat] /\ unknown \in [ControlIds -> Nat]
      /\ foreign \in [ControlIds -> Nat]
  BY <1>1 DEF Of
<1>3. \A id \in ControlIds : pick[id] = known[id] + unknown[id]
  BY <1>1 DEF Of
<1>4. \A id \in ControlIds : unknown[id] <= foreign[id]
  BY <1>1 DEF Of
<1>5. \A id \in ControlIds : known[id] <= Of(bag, Rubric)[id]
  BY <1>1 DEF Of
<1> HIDE DEF known, unknown, foreign
<1>6. /\ Size(pick) \in Nat /\ Size(known) \in Nat /\ Size(unknown) \in Nat
      /\ Size(pick) = Size(known) + Size(unknown)
  <2>1. /\ Total(pick, ControlIds) \in Nat
        /\ Total(known, ControlIds) \in Nat /\ Total(unknown, ControlIds) \in Nat
        /\ Total(pick, ControlIds) = Total(known, ControlIds) + Total(unknown, ControlIds)
    BY <1>1, <1>2, <1>3, RubricAssumption, TotalSplit
  <2> QED
    BY <2>1 DEF Size, Total
<1>7. Size(foreign) \in Nat /\ Size(unknown) <= Size(foreign)
  <2>1. /\ Total(foreign, ControlIds) \in Nat
        /\ Total(unknown, ControlIds) <= Total(foreign, ControlIds)
    BY <1>2, <1>4, RubricAssumption, TotalGrows
  <2> QED
    BY <2>1 DEF Size, Total
<1>8. Size(bag) \in Nat
  <2>1. Total(bag, ControlIds) \in Nat
    BY RubricAssumption, TotalGrows
  <2> QED
    BY <2>1 DEF Size, Total
<1>9. Size(pick) = FE!Min({TopK, Size(bag)}) /\ FE!Min({TopK, Size(bag)}) <= TopK
  <2>1. FE!Min({TopK, Size(bag)}) = IF TopK <= Size(bag) THEN TopK ELSE Size(bag)
    BY <1>8, TopKAssumption DEF FE!Min
  <2>2. Size(pick) = FE!Min({TopK, Size(bag)})
    BY DEF Nearest
  <2> QED
    BY <1>8, <2>1, <2>2, TopKAssumption
<1>10. Size(known) <= TopK
  BY <1>6, <1>9, TopKAssumption
<1>11. Size(known) + Size(foreign) >= FE!Min({TopK, Size(bag)})
  BY <1>6, <1>7, <1>9
<1> QED
  BY <1>5, <1>10, <1>11 DEF known, foreign

\* An assessment that no ingest overlaps finds the knowledge base if there ever was an
\* ingest, and selects as many entries of the last one as it can.
THEOREM PeacefulReadHolds == Spec => PeacefulRead
<1> DEFINE Read ==
      \A r \in Readers : Peaceful =>
          /\ pc[r] = "start" /\ pc'[r] = "missing" =>
                last = Nothing \/ \E p \in Ingesters : Active(p)
          /\ pc[r] = "search" /\ pc'[r] = "selected" /\ r \notin disturbed =>
                /\ \A id \in ControlIds : selected'[r][id] <= Of(last, Rubric)[id]
                /\ Size(selected'[r]) <= TopK
                /\ Size(selected'[r]) + Size(Of(last, ControlIds \ Rubric))
                      >= FE!Min({TopK, Size(last)})
<1>1. IInv /\ Undisturbed /\ [Next]_vars => Read
  <2> SUFFICES ASSUME IInv, Undisturbed, [Next]_vars, NEW r \in Readers, Peaceful
               PROVE  /\ pc[r] = "start" /\ pc'[r] = "missing" =>
                            last = Nothing \/ \E p \in Ingesters : Active(p)
                      /\ pc[r] = "search" /\ pc'[r] = "selected" /\ r \notin disturbed =>
                            /\ \A id \in ControlIds :
                                  selected'[r][id] <= Of(last, Rubric)[id]
                            /\ Size(selected'[r]) <= TopK
                            /\ Size(selected'[r]) + Size(Of(last, ControlIds \ Rubric))
                                  >= FE!Min({TopK, Size(last)})
    OBVIOUS
  <2>0. TypeOK /\ r \in Procs /\ r \notin Ingesters
    BY ProcsAssumption DEF IInv, Procs
  <2>1. ASSUME pc'[r] \in {"missing", "selected"}, pc[r] # pc'[r]
        PROVE  Missing(r) \/ Search(r)
    <3> USE <2>0, ProcsAssumption DEF Step, TypeOK, Procs
    <3>1. ASSUME NEW p \in Ingesters, Ingest(p) PROVE pc'[r] = pc[r]
      BY <3>1 DEF Ingest, Load, List, Unlink, UnlinkFails, OpenToAdd, EmbedFails, Add
    <3>2. ASSUME NEW x \in Readers, Assess(x), x # r PROVE pc'[r] = pc[r]
      BY <3>2 DEF Assess, Missing, Check, OpenToSearch, Search
    <3>3. ASSUME NEW x \in Procs, Killed(x) PROVE pc'[r] \in {pc[r], "killed"}
      BY <3>3 DEF Killed
    <3>4. ASSUME UNCHANGED vars PROVE pc'[r] = pc[r]
      BY <3>4 DEF vars, local
    <3>5. ~Check(r) /\ ~OpenToSearch(r)
      BY <2>1 DEF Check, OpenToSearch
    <3> QED
      BY <2>1, <3>1, <3>2, <3>3, <3>4, <3>5 DEF Next, Assess
  <2>2. ASSUME pc[r] = "start", pc'[r] = "missing"
        PROVE  last = Nothing \/ \E p \in Ingesters : Active(p)
    <3>1. linked = None
      BY <2>0, <2>1, <2>2 DEF Missing, Search, Step
    <3>2. CASE \A p \in Ingesters : pc[p] \notin Changing
      BY <3>1, <3>2 DEF IInv, Repaired, Idle
    <3>3. CASE \E p \in Ingesters : pc[p] \in Changing
      BY <3>3 DEF Active, Changing, Wiping
    <3> QED
      BY <3>2, <3>3
  <2>3. ASSUME pc[r] = "search", pc'[r] = "selected", r \notin disturbed
        PROVE  /\ \A id \in ControlIds :
                     selected'[r][id] <= Of(last, Rubric)[id]
               /\ Size(selected'[r]) <= TopK
               /\ Size(selected'[r]) + Size(Of(last, ControlIds \ Rubric))
                     >= FE!Min({TopK, Size(last)})
    <3>1. Search(r)
      BY <2>0, <2>1, <2>3 DEF Missing, Step
    <3>2. content[handle[r]] = last
      BY <2>3 DEF Undisturbed, Active
    <3>3. PICK pick \in Nearest(last, TopK) :
             selected' = [selected EXCEPT ![r] = Of(pick, Rubric)]
      BY <3>1, <3>2 DEF Search
    <3>4. selected'[r] = Of(pick, Rubric)
      BY <2>0, <3>3 DEF TypeOK
    <3>5. last \in [ControlIds -> Nat]
      BY <2>0 DEF TypeOK
    <3> QED
      BY <3>4, <3>5, SelectionFacts
  <2> QED
    BY <2>2, <2>3
<1>2. Init => Undisturbed
  BY ProcsAssumption DEF Init, Undisturbed, Active, Procs
<1>3. Spec => [](IInv /\ Undisturbed)
  BY <1>2, Invariance, UndisturbedStep, PTL DEF Spec
<1>4. Spec => [][Read]_vars
  BY <1>1, <1>3, PTL DEF Spec
<1> QED
  BY <1>4 DEF PeacefulRead

=============================================================================
