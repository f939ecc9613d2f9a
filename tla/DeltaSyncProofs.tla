---------------------------- MODULE DeltaSyncProofs --------------------------
(***************************************************************************)
(* What is stored of a library is what it held at the stored link, for any *)
(* library, any number of runs that overlap and die, and any faults.       *)
(***************************************************************************)
EXTENDS DeltaSync, FiniteSetTheorems, TLAPS

LEMMA InitIInv == Init => IInv
<1> SUFFICES ASSUME Init PROVE IInv
    OBVIOUS
<1> USE DeltaSyncAssumption DEF Init
<1>1. Nothing \in [Items -> Row \cup {Absent, Unstaged}] /\ Idle \in Session
    BY DEF Nothing, Idle, Session, Phases
<1>2. TypeOK
    BY <1>1 DEF TypeOK, Gone, There
<1>3. \A s \in Sessions : Fits(session[s]) /\ Shows(session[s])
    BY <1>1 DEF Fits, Shows, LinkFits, StageFits, TodoFits, PendingFits, CountFits, ShowsFits,
       TopRow, Idle, Nothing
<1>4. TokenCovers /\ TokenDelivered /\ \A i \in Items : TopRow(items[i])
    BY DEF TokenCovers, TokenDelivered, Same, Gone, There, TopRow
<1>5. Rooted(content) /\ (\A i \in Items : changed[i] <= version) /\ token <= version
    BY DEF There
<1> QED BY <1>2, <1>3, <1>4, <1>5 DEF IInv

-----------------------------------------------------------------------------
(* The library                                                             *)

\* What no run has been told of is what changed last: everything else fits as before.
LEMMA TouchKeeps ==
    ASSUME IInv, NEW which \in SUBSET Items, Touch(which),
           UNCHANGED <<store, session, delivered, faults>>,
           content' \in [Items -> Place \cup {Absent}], Rooted(content'),
           \A i \in Items \ which : content'[i] = content[i]
    PROVE  IInv'
<1>1. /\ version' = version + 1 /\ version \in Nat /\ token \in Nat
      /\ changed' \in [Items -> Nat] /\ changed \in [Items -> Nat]
      /\ \A i \in which : changed'[i] = version'
      /\ \A i \in Items \ which : changed'[i] = changed[i]
    BY DEF IInv, TypeOK, Touch
<1>2. TypeOK'
    BY <1>1 DEF IInv, TypeOK, store
<1>3. (\A i \in Items : changed'[i] <= version') /\ token' <= version'
    BY <1>1 DEF IInv, store
<1>4. TokenCovers'
    BY <1>1 DEF IInv, TokenCovers, Same, There, store
<1>5. TokenDelivered' /\ \A i \in Items : TopRow(items'[i])
    BY DEF IInv, TokenDelivered, store
<1>6. ASSUME NEW s \in Sessions PROVE Fits(session[s])' /\ Shows(session[s])'
    <2> DEFINE x == session[s]
    <2>1. x \in Session /\ x' = x /\ Fits(x) /\ Shows(x)
        BY DEF IInv, TypeOK
    <2>2. x.link \in Nat /\ x.base \in Nat /\ x.todo \subseteq Items
        BY <2>1 DEF Session
    <2>3. LinkFits(x)'
        BY <1>1, <2>1, <2>2 DEF Fits, LinkFits, store
    <2>4. StageFits(x)'
        <3> SUFFICES ASSUME x.phase \notin {"idle", "opening"}, x.pending # "none", ~x.invalid,
                            NEW i \in Items \ x.todo, changed'[i] <= x.link
                     PROVE  IF x.full \/ changed'[i] > x.base
                            THEN \/ x.staged[i] = Unstaged /\ x.full /\ ~There(content', i)
                                 \/ Same(x.staged[i], i)'
                            ELSE x.staged[i] = Unstaged
            BY <2>1 DEF StageFits, There
        <3>1. x.link <= version
            BY <2>1 DEF Fits, LinkFits
        <3>2. i \notin which
            BY <1>1, <2>2, <3>1
        <3>3. content'[i] = content[i] /\ changed'[i] = changed[i]
            BY <1>1, <3>2
        <3> QED BY <2>1, <3>3 DEF Fits, StageFits, Same, There
    <2>5. TodoFits(x)'
        <3>1. \A i \in x.todo : changed[i] > x.base => changed'[i] > x.base
            BY <1>1, <2>2 DEF IInv
        <3> QED BY <2>1, <3>1 DEF Fits, TodoFits
    <2>6. \A i \in Items : TopRow(x.staged[i])'
        BY <2>1 DEF Fits, TopRow
    <2>7. PendingFits(x)' /\ ShowsFits(x)'
        BY <2>1 DEF Fits, PendingFits, ShowsFits, Nothing
    <2>8. CountFits(x)'
        <3> SUFFICES ASSUME x.phase \in {"counted", "checked"}, x.full, x.count = 0,
                            NEW i \in Items, changed'[i] <= x.link
                     PROVE  content'[i] = Absent
            BY <2>1 DEF CountFits, There
        <3>1. x.link <= version
            BY <2>1 DEF Fits, LinkFits
        <3>2. i \notin which
            BY <1>1, <2>2, <3>1
        <3> QED BY <1>1, <2>1, <3>2 DEF Fits, CountFits, There
    <2> QED BY <2>1, <2>3, <2>4, <2>5, <2>6, <2>7, <2>8 DEF Fits, Shows
<1> QED BY <1>2, <1>3, <1>4, <1>5, <1>6 DEF IInv, Rooted, There, TopRow

LEMMA ChangeKeeps == ASSUME IInv, Change PROVE IInv'
<1> USE DeltaSyncAssumption
<1>1. content \in [Items -> Place \cup {Absent}] /\ Rooted(content)
    BY DEF IInv, TypeOK
<1>2. ASSUME NEW i \in Items, Delete(i) PROVE IInv'
    <2> DEFINE lost == {i} \cup Children(i)
    <2>1. lost \in SUBSET Items /\ Touch(lost)
        BY <1>2 DEF Delete, Children
    <2>2. /\ content' = [j \in Items |-> IF j \in lost THEN Absent ELSE content[j]]
          /\ UNCHANGED <<store, session, delivered, faults>>
        BY <1>2 DEF Delete
    <2>3. content' \in [Items -> Place \cup {Absent}] /\ \A j \in Items \ lost : content'[j] = content[j]
        BY <1>1, <2>2
    <2>4. Rooted(content')
        <3> SUFFICES ASSUME NEW j \in Items, content'[j] # Absent, content'[j].parent # Root
                     PROVE  content'[content'[j].parent] # Absent
                            /\ content'[content'[j].parent].parent = Root
            BY DEF Rooted, There
        <3>1. j \notin lost /\ content'[j] = content[j] /\ content[j] \in Place
            BY <1>1, <2>2, <2>3
        <3> DEFINE q == content[j].parent
        <3>2. q \in Items /\ content[q] # Absent /\ content[q].parent = Root
            BY <1>1, <3>1 DEF Rooted, There, Place
        <3>3. q # i
            BY <3>1 DEF Children, There
        <3>4. q \notin Children(i)
            BY <3>2 DEF Children
        <3> QED BY <2>3, <3>1, <3>2, <3>3, <3>4
    <2> HIDE DEF lost
    <2> QED BY <2>1, <2>2, <2>3, <2>4, TouchKeeps
<1>3. ASSUME NEW i \in Items, NEW p \in Places[i], Put(i, p) PROVE IInv'
    <2>1. p \in Place /\ p.parent # i
        OBVIOUS
    <2>2. /\ content' = [content EXCEPT ![i] = p] /\ Touch({i})
          /\ UNCHANGED <<store, session, delivered, faults>>
        BY <1>3 DEF Put
    <2>3. content' \in [Items -> Place \cup {Absent}] /\ \A j \in Items \ {i} : content'[j] = content[j]
        BY <1>1, <2>1, <2>2
    <2>4. Rooted(content')
        <3> SUFFICES ASSUME NEW j \in Items, content'[j] # Absent, content'[j].parent # Root
                     PROVE  content'[content'[j].parent] # Absent
                            /\ content'[content'[j].parent].parent = Root
            BY DEF Rooted, There
        <3>1. CASE j = i
            BY <1>1, <1>3, <2>1, <2>2, <3>1 DEF Put, There, Place
        <3>2. CASE j # i
            <4> DEFINE q == content[j].parent
            <4>1. content'[j] = content[j] /\ content[j] \in Place
                BY <1>1, <2>3, <3>2
            <4>2. q \in Items /\ content[q] # Absent /\ content[q].parent = Root
                BY <1>1, <4>1 DEF Rooted, There, Place
            <4>3. q = i => p.parent = Root
                BY <1>3, <4>1 DEF Put, Children, There
            <4>4. p # Absent
                BY <2>1
            <4> QED BY <1>1, <2>2, <4>1, <4>2, <4>3, <4>4
        <3> QED BY <3>1, <3>2
    <2> QED BY <2>2, <2>3, <2>4, TouchKeeps
<1> QED BY <1>2, <1>3 DEF Change

-----------------------------------------------------------------------------
(* The runs                                                                *)

\* A step of the runs that leaves library and store alone, after which each fits.
LEMMA RunsKeep ==
    ASSUME IInv, UNCHANGED <<graph, store>>,
           delivered' \in Nat, delivered' >= delivered, faults' \in Nat,
           session' \in [Sessions -> Session],
           \A s \in Sessions : Fits(session'[s])
                              /\ (session'[s].phase = "durable" => session'[s].shows <= delivered')
    PROVE  IInv'
<1>1. TypeOK'
    BY DEF IInv, TypeOK, graph, store
<1>2. TokenCovers' /\ (\A i \in Items : TopRow(items[i])') /\ Rooted(content)'
      /\ (\A i \in Items : changed[i] <= version)' /\ (token <= version)'
    BY DEF IInv, TokenCovers, Same, There, TopRow, Rooted, graph, store
<1>3. TokenDelivered'
    BY DEF IInv, TypeOK, TokenDelivered, store
<1>4. ASSUME NEW s \in Sessions PROVE Fits(session[s])' /\ Shows(session[s])'
    <2> DEFINE y == session'[s]
    <2>1. Fits(y)
        OBVIOUS
    <2>2. LinkFits(session[s])'
        BY <2>1 DEF Fits, LinkFits, graph, store
    <2>3. StageFits(session[s])'
        BY <2>1 DEF Fits, StageFits, Same, There, graph
    <2>4. TodoFits(session[s])' /\ \A i \in Items : TopRow(session[s].staged[i])'
        BY <2>1 DEF Fits, TodoFits, TopRow, graph
    <2>5. Shows(session[s])'
        BY DEF Shows
    <2>6. PendingFits(session[s])' /\ CountFits(session[s])' /\ ShowsFits(session[s])'
        BY <2>1 DEF Fits, PendingFits, CountFits, ShowsFits, Nothing, There, graph
    <2> QED BY <2>2, <2>3, <2>4, <2>5, <2>6 DEF Fits
<1> QED BY <1>1, <1>2, <1>3, <1>4 DEF IInv

\* The same when one run moves.
LEMMA RunKeeps ==
    ASSUME IInv, UNCHANGED <<graph, store>>,
           delivered' \in Nat, delivered' >= delivered, faults' \in Nat,
           NEW s \in Sessions, NEW y \in Session, Becomes(s, y), Fits(y),
           y.phase = "durable" => y.shows <= delivered'
    PROVE  IInv'
<1>1. session' \in [Sessions -> Session] /\ session'[s] = y
      /\ \A t \in Sessions \ {s} : session'[t] = session[t]
    BY DEF IInv, TypeOK, Becomes
<1>2. ASSUME NEW t \in Sessions
      PROVE  Fits(session'[t]) /\ (session'[t].phase = "durable" => session'[t].shows <= delivered')
    <2>1. CASE t = s
        BY <1>1, <2>1
    <2>2. CASE t # s
        <3>1. session'[t] = session[t] /\ session[t].shows \in Nat /\ delivered \in Nat
            BY <1>1, <2>2 DEF IInv, TypeOK, Session
        <3> QED BY <3>1 DEF IInv, Shows
    <2> QED BY <2>1, <2>2
<1> QED BY <1>1, <1>2, RunsKeep

\* No run fits the state worse for being idle.
LEMMA IdleFits == ASSUME IInv PROVE Idle \in Session /\ Fits(Idle) /\ Idle.phase # "durable"
<1>1. Idle \in Session
    BY DEF Idle, Session, Phases, Nothing
<1>2. Fits(Idle)
    BY DeltaSyncAssumption DEF Idle, Nothing, Fits, LinkFits, StageFits, TodoFits, TopRow,
       PendingFits, CountFits, ShowsFits, IInv, TypeOK
<1> QED BY <1>1, <1>2 DEF Idle

\* Neither does a run whose staging is swept.
LEMMA SweptFits ==
    ASSUME IInv, NEW x \in Session, Fits(x)
    PROVE  Swept(x) \in Session /\ Fits(Swept(x)) /\ Swept(x).phase = x.phase
           /\ Swept(x).shows = x.shows
<1> DEFINE y == Swept(x)
<1>1. /\ y \in Session /\ y.pending = "none" /\ y.staged = Nothing
      /\ y.phase = x.phase /\ y.fresh = x.fresh /\ y.base = x.base /\ y.full = x.full
      /\ y.link = x.link /\ y.todo = x.todo /\ y.invalid = x.invalid /\ y.count = x.count
      /\ y.shows = x.shows
    BY DEF Swept, Session, Nothing
<1> HIDE DEF y
<1>2. LinkFits(y) /\ StageFits(y) /\ PendingFits(y) /\ CountFits(y) /\ ShowsFits(y)
    BY <1>1 DEF Fits, LinkFits, StageFits, PendingFits, CountFits, ShowsFits
<1>3. TodoFits(y) /\ \A i \in Items : TopRow(y.staged[i])
    BY <1>1, DeltaSyncAssumption DEF Fits, TodoFits, TopRow, Nothing, Session
<1> QED BY <1>1, <1>2, <1>3 DEF Fits, y

\* A run that opens an enumeration stages nothing and waits for all it will be shown.
LEMMA OpenedFits ==
    ASSUME IInv, NEW x \in Session, Fits(x), x.phase # "idle", NEW full \in BOOLEAN
    PROVE  Opened(x, full) \in Session /\ Fits(Opened(x, full)) /\ Opened(x, full).phase = "paging"
<1> DEFINE y == Opened(x, full)
<1>1. version \in Nat /\ token \in Nat /\ x.base \in Nat /\ token <= version /\ x.base <= token
    BY DEF IInv, TypeOK, Session, Fits, LinkFits
<1>2. /\ y \in Session /\ y.phase = "paging" /\ y.full = full /\ y.pending = "open"
      /\ y.link = version /\ y.base = x.base /\ y.fresh = x.fresh /\ y.invalid = FALSE
      /\ y.todo = Listed(full, x.base) /\ y.staged = [i \in Items |-> Unstaged]
    BY <1>1 DEF Opened, Session, Phases, Listed, Nothing
<1> HIDE DEF y
<1>3. LinkFits(y)
    <2>1. x.phase # "idle" /\ x.fresh => x.base = token
        BY DEF Fits, LinkFits
    <2> QED BY <1>1, <1>2, <2>1 DEF LinkFits
<1>4. StageFits(y)
    BY <1>1, <1>2 DEF StageFits, Listed, IInv, TypeOK
<1>5. TodoFits(y) /\ \A i \in Items : TopRow(y.staged[i])
    BY <1>2, DeltaSyncAssumption DEF TodoFits, TopRow, Listed
<1>6. PendingFits(y) /\ CountFits(y) /\ ShowsFits(y)
    BY <1>2 DEF PendingFits, CountFits, ShowsFits
<1> QED BY <1>2, <1>3, <1>4, <1>5, <1>6 DEF Fits, y

\* A run that has been shown everything fits in every later phase.
LEMMA AdvancedFits ==
    ASSUME IInv, NEW x \in Session, Fits(x), x.phase \notin {"idle", "opening"},
           x.todo = {}, ~x.invalid,
           NEW y \in Session, y.phase \in {"staged", "counted", "checked", "emitted", "durable"},
           y.fresh = x.fresh, y.base = x.base, y.full = x.full, y.link = x.link, y.todo = x.todo,
           y.staged = x.staged, y.invalid = x.invalid,
           y.pending = x.pending \/ (x.pending # "none" /\ y.pending = "complete"),
           x.phase # "paging" \/ y.pending = "complete", CountFits(y), ShowsFits(y)
    PROVE  Fits(y)
<1>1. LinkFits(y)
    BY DEF Fits, LinkFits
<1>2. StageFits(y)
    BY DEF Fits, StageFits
<1>3. TodoFits(y) /\ \A i \in Items : TopRow(y.staged[i])
    BY DEF Fits, TodoFits
<1>4. PendingFits(y)
    BY DEF Fits, PendingFits, Session, Phases
<1> QED BY <1>1, <1>2, <1>3, <1>4 DEF Fits

LEMMA SizeType ==
    ASSUME NEW c PROVE Size(c) \in Nat /\ (Size(c) = 0 <=> \A i \in Items : c[i] = Absent)
<1> DEFINE I == {i \in Items : c[i] # Absent}
<1>1. IsFiniteSet(I)
    <2>1. I \in SUBSET Items
        OBVIOUS
    <2> QED BY <2>1, DeltaSyncAssumption, FS_Subset DEF DeltaSyncAssumption
<1>2. Cardinality(I) \in Nat /\ (Cardinality(I) = 0 <=> I = {})
    BY <1>1, FS_CardinalityType, FS_EmptySet
<1> QED BY <1>2 DEF Size

\* What Graph shows of an item is the item, and a row like the others.
LEMMA ShownIsRow ==
    ASSUME IInv, NEW i \in Items
    PROVE  Shown(i) \in Row \cup {Absent} /\ TopRow(Shown(i)) /\ Same(Shown(i), i)
<1> USE DeltaSyncAssumption
<1>1. CASE ~There(content, i)
    BY <1>1 DEF Shown, Same, TopRow
<1>2. CASE There(content, i)
    <2> DEFINE p == content[i].parent
    <2>1. content[i] \in Place /\ p \in Items \cup {Root} /\ content[i].name \in Names
        BY <1>2 DEF IInv, TypeOK, There, Place
    <2>2. Above(content, p) \in Names \cup {Root} /\ (p = Root => Above(content, p) = Root)
        <3>1. CASE p = Root
            BY <3>1 DEF Above
        <3>2. CASE p # Root
            <4>1. p \in Items /\ content[p] \in Place
                BY <1>2, <2>1, <3>2 DEF IInv, TypeOK, Rooted, There
            <4> QED BY <3>2, <4>1 DEF Above, Place
        <3> QED BY <3>1, <3>2
    <2>3. Shown(i) = [parent |-> p, name |-> content[i].name, above |-> Above(content, p)]
        BY <1>2 DEF Shown, AsRow
    <2>4. Shown(i) \in Row
        BY <2>1, <2>2, <2>3 DEF Row
    <2>5. TopRow(Shown(i))
        BY <2>2, <2>3 DEF TopRow
    <2>6. Shown(i) # Absent /\ Shown(i) # Unstaged
        BY <2>4
    <2> QED BY <1>2, <2>3, <2>4, <2>5, <2>6 DEF Same
<1> QED BY <1>1, <1>2

\* A page stages what the library holds of the items it shows, once.
LEMMA PageFits ==
    ASSUME IInv, NEW s \in Sessions, NEW shown \in SUBSET Items, NEW silent \in SUBSET Items,
           Page(s, shown, silent)
    PROVE  IInv'
<1> DEFINE x == session[s]
           y == [x EXCEPT !.todo = x.todo \ shown,
                          !.staged = [i \in Items |-> IF i \in shown \ silent THEN Shown(i)
                                                     ELSE x.staged[i]]]
<1>1. /\ x \in Session /\ Fits(x) /\ x.phase = "paging" /\ x.pending # "none"
      /\ \A i \in shown \ x.todo : changed[i] > x.link
      /\ \A i \in silent : x.full /\ ~There(content, i)
      /\ Becomes(s, y) /\ UNCHANGED <<graph, store, delivered, faults>>
    BY DEF IInv, TypeOK, Page, InPhase
<1>2. x.staged \in [Items -> Row \cup {Absent, Unstaged}] /\ x.link \in Nat /\ changed \in [Items -> Nat]
    BY <1>1 DEF Session, IInv, TypeOK
<1>3. [i \in Items |-> IF i \in shown \ silent THEN Shown(i) ELSE x.staged[i]]
          \in [Items -> Row \cup {Absent, Unstaged}]
    BY <1>2, ShownIsRow
<1>4. /\ y \in Session /\ y.todo = x.todo \ shown /\ y.phase = "paging"
      /\ y.staged = [i \in Items |-> IF i \in shown \ silent THEN Shown(i) ELSE x.staged[i]]
      /\ y.base = x.base /\ y.fresh = x.fresh /\ y.full = x.full /\ y.link = x.link
      /\ y.pending = x.pending /\ y.invalid = x.invalid
    BY <1>1, <1>3 DEF Session
<1> HIDE DEF y
<1>5. LinkFits(y)
    BY <1>1, <1>4 DEF Fits, LinkFits
<1>6. StageFits(y)
    <2> SUFFICES ASSUME ~y.invalid, NEW i \in Items \ y.todo, changed[i] <= y.link
                 PROVE  IF y.full \/ changed[i] > y.base
                        THEN \/ y.staged[i] = Unstaged /\ y.full /\ ~There(content, i)
                             \/ Same(y.staged[i], i)
                        ELSE y.staged[i] = Unstaged
        BY DEF StageFits
    <2>1. CASE i \in shown
        <3>1. i \in x.todo
            BY <1>1, <1>2, <1>4, <2>1
        <3>2. x.staged[i] = Unstaged /\ (x.full \/ changed[i] > x.base)
            BY <1>1, <3>1 DEF Fits, TodoFits
        <3>3. CASE i \in silent
            BY <1>1, <1>4, <3>2, <3>3
        <3>4. CASE i \notin silent
            BY <1>4, <2>1, <3>2, <3>4, ShownIsRow
        <3> QED BY <3>3, <3>4
    <2>2. CASE i \notin shown
        <3>1. i \in Items \ x.todo /\ y.staged[i] = x.staged[i]
            BY <1>4, <2>2
        <3> QED BY <1>1, <1>4, <3>1 DEF Fits, StageFits
    <2> QED BY <2>1, <2>2
<1>7. TodoFits(y)
    <2>1. x.todo \subseteq Items
        BY <1>1 DEF Session
    <2> QED BY <1>1, <1>4, <2>1 DEF Fits, TodoFits
<1>8. \A i \in Items : TopRow(y.staged[i])
    BY <1>1, <1>4, ShownIsRow DEF Fits
<1>9. PendingFits(y) /\ CountFits(y) /\ ShowsFits(y)
    BY <1>1, <1>4 DEF PendingFits, CountFits, ShowsFits
<1>10. delivered' \in Nat /\ delivered' >= delivered /\ faults' \in Nat
    BY <1>1 DEF IInv, TypeOK
<1> QED BY <1>1, <1>4, <1>5, <1>6, <1>7, <1>8, <1>9, <1>10, RunKeeps DEF Fits

LEMMA StartKeeps ==
    ASSUME IInv, NEW s \in Sessions, NEW full \in BOOLEAN, NEW old \in SUBSET Sessions,
           Start(s, full, old)
    PROVE  IInv'
<1>1. session \in [Sessions -> Session] /\ token \in Nat /\ faults \in Nat /\ delivered \in Nat
    BY DEF IInv, TypeOK
<1>2. /\ session[s].phase = "idle" /\ s \notin old /\ UNCHANGED <<graph, store, delivered>>
      /\ session' = [t \in Sessions |-> IF t = s THEN Started(session[s], full)
                                        ELSE IF t \in old THEN Swept(session[t]) ELSE session[t]]
    BY DEF Start, InPhase, Sweepable
<1>3. faults' \in Nat
    BY <1>1 DEF Start, Fault
<1>4. ASSUME NEW t \in Sessions
      PROVE  /\ session'[t] \in Session /\ Fits(session'[t])
             /\ session'[t].phase = "durable" => session'[t].shows <= delivered'
    <2> DEFINE x == session[t]
    <2>1. x \in Session /\ Fits(x) /\ Shows(x)
        BY <1>1 DEF IInv
    <2>2. CASE t = s
        <3> DEFINE y == Started(x, full)
        <3>1. /\ y \in Session /\ y.phase = "opening" /\ y.base = token /\ y.fresh = TRUE
              /\ y.full = (full \/ token = 0) /\ y.todo = x.todo /\ y.staged = x.staged
              /\ y.pending = x.pending
            BY <1>1, <2>1 DEF Started, Session, Phases
        <3>2. x.todo = {}
            BY <1>2, <2>1, <2>2 DEF Fits, LinkFits
        <3>3. session'[t] = y
            BY <1>2, <2>2
        <3> HIDE DEF y
        <3>4. LinkFits(y)
            BY <1>1, <3>1, <3>2 DEF LinkFits
        <3>5. StageFits(y) /\ TodoFits(y)
            BY <3>1, <3>2 DEF StageFits, TodoFits
        <3>6. \A i \in Items : TopRow(y.staged[i])
            BY <2>1, <3>1 DEF Fits
        <3>7. PendingFits(y) /\ CountFits(y) /\ ShowsFits(y)
            BY <2>1, <3>1 DEF Fits, PendingFits, CountFits, ShowsFits
        <3> QED BY <3>1, <3>3, <3>4, <3>5, <3>6, <3>7 DEF Fits
    <2>3. CASE t # s /\ t \in old
        <3>1. session'[t] = Swept(x) /\ x.phase = "idle"
            BY <1>2, <2>3 DEF Start, Sweepable, Live
        <3> QED BY <2>1, <3>1, SweptFits
    <2>4. CASE t # s /\ t \notin old
        BY <1>2, <2>1, <2>4 DEF Shows
    <2> QED BY <2>2, <2>3, <2>4
<1>5. session' \in [Sessions -> Session]
    BY <1>2, <1>4
<1> QED BY <1>1, <1>2, <1>3, <1>4, <1>5, RunsKeep

\* A step that makes one run fail leaves an idle run, perhaps with its staging.
LEMMA FailedKeeps ==
    ASSUME IInv, NEW s \in Sessions, UNCHANGED <<graph, store>>, delivered' \in Nat,
           delivered' >= delivered, faults' \in Nat, Becomes(s, Idle)
    PROVE  IInv'
BY IdleFits, RunKeeps

\* What a run saves is the library as of the link it saves, for the items that have not
\* changed since.
LEMMA MergedIsTrue ==
    ASSUME IInv, NEW x \in Session, Fits(x), x.phase \notin {"idle", "opening", "paging"},
           x.pending # "none", NEW i \in Items, changed[i] <= x.link
    PROVE  Same(Merged(x)[i], i)
<1>1. x.todo = {} /\ ~x.invalid
    BY DEF Fits, LinkFits, Session, Phases
<1>2. IF x.full \/ changed[i] > x.base
      THEN \/ x.staged[i] = Unstaged /\ x.full /\ ~There(content, i)
           \/ Same(x.staged[i], i)
      ELSE x.staged[i] = Unstaged
    BY <1>1 DEF Fits, StageFits
<1>3. Absent # Unstaged
    BY DeltaSyncAssumption DEF DeltaSyncAssumption
<1>4. CASE x.staged[i] = Unstaged /\ x.full /\ ~There(content, i)
    BY <1>4 DEF Merged, Same
<1>5. CASE Same(x.staged[i], i)
    <2>1. x.staged[i] # Unstaged
        BY <1>3, <1>5 DEF Same
    <2> QED BY <1>5, <2>1 DEF Merged
<1>6. CASE ~x.full /\ ~(changed[i] > x.base)
    <2>1. changed[i] <= token
        BY <1>6 DEF Fits, LinkFits, IInv, TypeOK, Session
    <2>2. Same(items[i], i)
        BY <2>1 DEF IInv, TokenCovers
    <2> QED BY <1>2, <1>6, <2>2 DEF Merged
<1> QED BY <1>2, <1>4, <1>5, <1>6

LEMMA WorkKeeps ==
    ASSUME IInv, NEW s \in Sessions,
           \/ Open(s) \/ Complete(s) \/ CountRows(s) \/ CheckStage(s) \/ Stream(s) \/ Finalize(s)
           \/ MissStage(s)
           \/ \E accepted, known \in BOOLEAN : Upload(s, accepted, known)
    PROVE  IInv'
<1> DEFINE x == session[s]
<1>1. x \in Session /\ Fits(x) /\ Shows(x) /\ faults \in Nat /\ delivered \in Nat /\ x.shows \in Nat
    BY DEF IInv, TypeOK, Session
<1>2. CASE Open(s)
    <2>1. x.phase # "idle" /\ x.full \in BOOLEAN
        BY <1>1, <1>2 DEF Open, InPhase, Session
    <2> QED BY <1>1, <1>2, <2>1, OpenedFits, RunKeeps DEF Open
<1>3. CASE Complete(s)
    <2>1. CASE Usable(x)
        <3> DEFINE y == [x EXCEPT !.phase = "staged", !.pending = "complete"]
        <3>1. y \in Session /\ y.phase = "staged" /\ CountFits(y) /\ ShowsFits(y)
            BY <1>1 DEF Session, Phases, CountFits, ShowsFits
        <3>2. Fits(y)
            BY <1>1, <1>3, <2>1, <3>1, AdvancedFits DEF Complete, InPhase, Usable, Session
        <3>3. Becomes(s, y)
            BY <1>3, <2>1 DEF Complete
        <3> HIDE DEF y
        <3> QED BY <1>1, <1>3, <3>1, <3>2, <3>3, RunKeeps DEF Complete
    <2>2. CASE ~Usable(x)
        BY <1>1, <1>3, <2>2, FailedKeeps DEF Complete
    <2> QED BY <2>1, <2>2
<1>4. CASE CountRows(s)
    <2> DEFINE y == [x EXCEPT !.phase = "counted", !.count = Size(Merged(x))]
    <2>1. /\ y \in Session /\ y.phase = "counted" /\ y.full = x.full /\ y.link = x.link
          /\ y.count = Size(Merged(x))
        BY <1>1, SizeType DEF Session, Phases
    <2>2. CountFits(y) /\ ShowsFits(y)
        <3>1. ASSUME y.count = 0, NEW i \in Items, changed[i] <= y.link PROVE ~There(content, i)
            <4>1. Merged(x)[i] = Absent
                BY <2>1, <3>1, SizeType
            <4>2. Same(Merged(x)[i], i)
                BY <1>1, <1>4, <2>1, <3>1, MergedIsTrue DEF CountRows, InPhase
            <4> QED BY <4>1, <4>2 DEF Same
        <3> QED BY <2>1, <3>1 DEF CountFits, ShowsFits
    <2>3. Fits(y)
        BY <1>1, <1>4, <2>1, <2>2, AdvancedFits DEF CountRows, InPhase, Session, Fits, LinkFits
    <2>4. Becomes(s, y)
        BY <1>4 DEF CountRows
    <2> HIDE DEF y
    <2> QED BY <1>1, <1>4, <2>1, <2>3, <2>4, RunKeeps DEF CountRows
<1>5. CASE CheckStage(s)
    <2> DEFINE y == [x EXCEPT !.phase = "checked"]
    <2>1. /\ y \in Session /\ y.phase = "checked" /\ y.full = x.full /\ y.link = x.link
          /\ y.count = x.count
        BY <1>1 DEF Session, Phases
    <2>2. CountFits(y) /\ ShowsFits(y)
        BY <1>1, <1>5, <2>1 DEF Fits, CountFits, ShowsFits, CheckStage, InPhase
    <2>3. Fits(y)
        BY <1>1, <1>5, <2>1, <2>2, AdvancedFits DEF CheckStage, InPhase, Session, Fits, LinkFits
    <2>4. Becomes(s, y)
        BY <1>5 DEF CheckStage
    <2> HIDE DEF y
    <2> QED BY <1>1, <1>5, <2>1, <2>3, <2>4, RunKeeps DEF CheckStage
<1>6. CASE Stream(s)
    <2>1. CASE Whole(x)
        <3> DEFINE y == [x EXCEPT !.phase = "emitted", !.shows = Reaches(x)]
        <3>1. Reaches(x) \in Nat
            BY <1>1 DEF Reaches, Session, IInv, TypeOK
        <3>2. /\ y \in Session /\ y.phase = "emitted" /\ y.shows = Reaches(x)
              /\ y.pending = x.pending /\ y.link = x.link
              /\ y.fresh = x.fresh /\ y.base = x.base /\ y.full = x.full /\ y.todo = x.todo
              /\ y.staged = x.staged /\ y.invalid = x.invalid
            BY <1>1, <3>1 DEF Session, Phases
        <3>3. CountFits(y) /\ ShowsFits(y)
            BY <3>2 DEF CountFits, ShowsFits, Reaches
        <3>4. Fits(y)
            <4>1. x.todo = {} /\ ~x.invalid
                BY <1>1, <1>6 DEF Stream, InPhase, Fits, LinkFits
            <4>2. x.phase = "checked"
                BY <1>6 DEF Stream, InPhase
            <4> HIDE DEF x, y
            <4> QED BY <1>1, <3>2, <3>3, <4>1, <4>2, AdvancedFits
        <3>5. Becomes(s, y)
            BY <1>6, <2>1 DEF Stream
        <3> HIDE DEF y
        <3> QED BY <1>1, <1>6, <3>2, <3>4, <3>5, RunKeeps DEF Stream
    <2>2. CASE ~Whole(x)
        BY <1>1, <1>6, <2>2, FailedKeeps DEF Stream
    <2> QED BY <2>1, <2>2
<1>7. CASE MissStage(s)
    BY <1>1, <1>7, FailedKeeps DEF MissStage
<1>8. ASSUME InPhase(s, "emitted"), Becomes(s, [x EXCEPT !.phase = "durable"]), Delivered(s),
             UNCHANGED <<graph, store>>, faults' \in Nat
      PROVE  IInv'
    <2> DEFINE y == [x EXCEPT !.phase = "durable"]
    <2>1. /\ y \in Session /\ y.phase = "durable" /\ y.shows = x.shows
          /\ y.pending = x.pending /\ y.link = x.link
          /\ y.fresh = x.fresh /\ y.base = x.base /\ y.full = x.full /\ y.todo = x.todo
          /\ y.staged = x.staged /\ y.invalid = x.invalid
        BY <1>1 DEF Session, Phases
    <2>2. CountFits(y) /\ ShowsFits(y)
        BY <1>1, <1>8, <2>1 DEF Fits, CountFits, ShowsFits, InPhase
    <2>3. Fits(y)
        <3>1. x.todo = {} /\ ~x.invalid
            BY <1>1, <1>8 DEF InPhase, Fits, LinkFits
        <3>2. x.phase = "emitted"
            BY <1>8 DEF InPhase
        <3> HIDE DEF x, y
        <3> QED BY <1>1, <2>1, <2>2, <3>1, <3>2, AdvancedFits
    <2>4. delivered' \in Nat /\ delivered' >= delivered /\ x.shows <= delivered'
        BY <1>1, <1>8 DEF Delivered, Later
    <2>5. Becomes(s, y)
        BY <1>8
    <2> HIDE DEF y
    <2> QED BY <1>8, <2>1, <2>3, <2>4, <2>5, RunKeeps
<1>9. CASE Finalize(s)
    <2>1. CASE Output[s] = "file"
        BY <1>1, <1>8, <1>9, <2>1 DEF Finalize
    <2>2. CASE Output[s] # "file"
        BY <1>1, <1>9, <2>2, FailedKeeps DEF Finalize
    <2> QED BY <2>1, <2>2
<1>10. ASSUME NEW accepted \in BOOLEAN, NEW known \in BOOLEAN, Upload(s, accepted, known)
      PROVE  IInv'
    <2>1. faults' \in Nat
        BY <1>1, <1>10 DEF Upload, Fault
    <2>2. CASE known
        BY <1>8, <1>10, <2>1, <2>2 DEF Upload, Confirmed
    <2>3. CASE ~known
        <3>1. Becomes(s, Idle) /\ UNCHANGED <<graph, store>>
            BY <1>10, <2>3 DEF Upload, Confirmed
        <3>2. delivered' \in Nat /\ delivered' >= delivered
            BY <1>1, <1>10 DEF Upload, Delivered, Later
        <3> QED BY <2>1, <3>1, <3>2, FailedKeeps
    <2> QED BY <2>2, <2>3
<1> QED BY <1>2, <1>3, <1>4, <1>5, <1>6, <1>7, <1>9, <1>10

LEMMA DisturbKeeps == ASSUME IInv, NEW s \in Sessions, Disturb(s) PROVE IInv'
<1> DEFINE x == session[s]
<1>0. Fault /\ UNCHANGED <<graph, store, delivered>>
    BY DEF Disturb, SweepStalled, ResetDelta, GiveUp, Die, SkipInvalid
<1>1. /\ x \in Session /\ Fits(x) /\ Shows(x) /\ delivered \in Nat /\ faults' \in Nat
      /\ UNCHANGED <<graph, store, delivered>>
    BY <1>0 DEF IInv, TypeOK, Fault
<1>2. CASE SweepStalled(s)
    BY <1>1, <1>2, SweptFits, RunKeeps DEF SweepStalled, Shows
<1>3. CASE ResetDelta(s)
    <2>1. x.phase # "idle" /\ Becomes(s, Opened(x, TRUE))
        BY <1>3 DEF ResetDelta, InPhase, Reset
    <2> DEFINE y == Opened(x, TRUE)
    <2>2. y \in Session /\ Fits(y) /\ y.phase = "paging"
        BY <1>1, <2>1, OpenedFits
    <2> HIDE DEF y
    <2>3. Becomes(s, y)
        BY <2>1 DEF y
    <2> QED BY <1>1, <2>2, <2>3, RunKeeps
<1>4. CASE GiveUp(s)
    BY <1>1, <1>4, FailedKeeps DEF GiveUp
<1>5. CASE Die(s)
    <2> DEFINE y == [Idle EXCEPT !.pending = x.pending, !.staged = x.staged]
    <2>1. /\ y \in Session /\ y.phase = "idle" /\ y.base = 0 /\ y.todo = {} /\ y.staged = x.staged
          /\ y.pending = x.pending
        BY <1>1 DEF Session, Idle, Phases
    <2>2. Fits(y)
        BY <1>1, <2>1 DEF Fits, LinkFits, StageFits, TodoFits, PendingFits, CountFits, ShowsFits,
           IInv, TypeOK
    <2> HIDE DEF y
    <2>3. Becomes(s, y)
        BY <1>5 DEF Die, y
    <2> QED BY <1>1, <2>1, <2>2, <2>3, RunKeeps
<1>6. ASSUME NEW i \in Items, SkipInvalid(s, i) PROVE IInv'
    <2> DEFINE y == [x EXCEPT !.todo = x.todo \ {i}, !.invalid = TRUE]
    <2>1. /\ y \in Session /\ y.phase = "paging" /\ y.todo \subseteq x.todo /\ y.staged = x.staged
          /\ y.base = x.base /\ y.fresh = x.fresh /\ y.full = x.full /\ y.link = x.link /\ y.invalid
          /\ y.pending = x.pending
        BY <1>1, <1>6 DEF SkipInvalid, InPhase, Session
    <2>2. Fits(y)
        BY <1>1, <1>6, <2>1 DEF Fits, LinkFits, StageFits, TodoFits, PendingFits, CountFits,
           ShowsFits, SkipInvalid, InPhase
    <2>3. Becomes(s, y)
        BY <1>6 DEF SkipInvalid
    <2> HIDE DEF y
    <2> QED BY <1>1, <2>1, <2>2, <2>3, RunKeeps
<1> QED BY <1>2, <1>3, <1>4, <1>5, <1>6 DEF Disturb

-----------------------------------------------------------------------------
(* The store                                                               *)

LEMMA CommitKeeps ==
    ASSUME IInv, NEW s \in Sessions, Commit(s)
    PROVE  IInv' /\ token' >= token
<1> DEFINE x == session[s]
           done == x.pending = "complete" /\ ~Conflicts(s)
<1>1. /\ x \in Session /\ Fits(x) /\ Shows(x) /\ x.phase = "durable" /\ x.link \in Nat
      /\ token \in Nat /\ delivered \in Nat /\ faults \in Nat
      /\ session \in [Sessions -> Session]
      /\ UNCHANGED <<graph, delivered, faults>>
    BY DEF IInv, TypeOK, Session, Commit, InPhase
<1>2. /\ items' = IF done THEN Merged(x) ELSE items
      /\ token' = IF done THEN x.link ELSE token
      /\ session' = [t \in Sessions |-> IF t = s THEN Idle
                                        ELSE [session[t] EXCEPT !.fresh = session[t].fresh /\ ~done]]
    BY DEF Commit
<1>3. done => x.base = token /\ x.base <= x.link
    BY <1>1 DEF Fits, LinkFits, Conflicts
<1>4. token' \in Nat /\ token' >= token /\ token' <= delivered /\ token' <= version
    BY <1>1, <1>2, <1>3 DEF IInv, TokenDelivered, Shows, Fits, LinkFits, ShowsFits
<1> HIDE DEF done
<1>5. TokenCovers'
    <2> SUFFICES ASSUME NEW i \in Items, changed[i] <= token' PROVE Same(items'[i], i)
        BY <1>1 DEF TokenCovers, Same, There, graph
    <2>1. CASE done
        BY <1>1, <1>2, <2>1, MergedIsTrue DEF done
    <2>2. CASE ~done
        BY <1>2, <2>2 DEF IInv, TokenCovers
    <2> QED BY <2>1, <2>2
<1>6. items' \in [Items -> Row \cup {Absent}] /\ \A i \in Items : TopRow(items'[i])
    <2>1. CASE done
        <3> SUFFICES ASSUME NEW i \in Items
                     PROVE  Merged(x)[i] \in Row \cup {Absent} /\ TopRow(Merged(x)[i])
            BY <1>2, <2>1 DEF Merged
        <3>1. /\ x.staged[i] \in Row \cup {Absent, Unstaged} /\ items[i] \in Row \cup {Absent}
              /\ TopRow(x.staged[i]) /\ TopRow(items[i])
            BY <1>1 DEF Session, IInv, TypeOK, Fits
        <3>2. TopRow(Absent)
            BY DeltaSyncAssumption DEF TopRow
        <3> QED BY <3>1, <3>2 DEF Merged
    <2>2. CASE ~done
        BY <1>2, <2>2 DEF IInv, TypeOK
    <2> QED BY <2>1, <2>2
<1>7. ASSUME NEW t \in Sessions
      PROVE  session'[t] \in Session /\ Fits(session[t])' /\ Shows(session[t])'
    <2>1. CASE t = s
        <3>1. session'[t] = Idle /\ Idle \in Session /\ Fits(Idle) /\ Idle.phase = "idle" /\ Idle.base = 0
            BY <1>2, <2>1, IdleFits DEF Idle
        <3> QED BY <1>1, <1>4, <3>1
            DEF Fits, LinkFits, StageFits, TodoFits, PendingFits, CountFits, ShowsFits, Nothing,
                TopRow, Shows
    <2>2. CASE t # s
        <3> DEFINE z == session[t]
                   y == [z EXCEPT !.fresh = z.fresh /\ ~done]
        <3>1. z \in Session /\ Fits(z) /\ Shows(z) /\ session'[t] = y
            BY <1>1, <1>2, <2>2 DEF IInv
        <3>2. /\ y \in Session /\ (y.fresh => z.fresh /\ ~done) /\ y.phase = z.phase
              /\ y.base = z.base /\ y.full = z.full /\ y.pending = z.pending /\ y.link = z.link
              /\ y.todo = z.todo /\ y.staged = z.staged /\ y.invalid = z.invalid
              /\ y.count = z.count /\ y.shows = z.shows
              /\ y.base \in Nat
            BY <3>1 DEF Session
        <3> HIDE DEF y
        <3>3. LinkFits(session[t])'
            <4>1. y.base <= token' /\ (y.phase # "idle" /\ y.fresh => y.base = token')
                BY <1>1, <1>2, <1>4, <3>1, <3>2 DEF Fits, LinkFits
            <4> QED BY <1>1, <3>1, <3>2, <4>1 DEF Fits, LinkFits, graph
        <3>4. StageFits(session[t])'
            BY <1>1, <3>1, <3>2 DEF Fits, StageFits, Same, There, graph
        <3>5. TodoFits(session[t])' /\ \A i \in Items : TopRow(session[t].staged[i])'
            BY <1>1, <3>1, <3>2 DEF Fits, TodoFits, TopRow, graph
        <3>6. Shows(session[t])'
            BY <1>1, <3>1, <3>2 DEF Shows
        <3>7. PendingFits(session[t])' /\ CountFits(session[t])' /\ ShowsFits(session[t])'
            BY <1>1, <3>1, <3>2 DEF Fits, PendingFits, CountFits, ShowsFits, Nothing, There, graph
        <3> QED BY <3>1, <3>2, <3>3, <3>4, <3>5, <3>6, <3>7 DEF Fits
    <2> QED BY <2>1, <2>2
<1>8. TypeOK'
    <2>1. session' \in [Sessions -> Session]
        BY <1>2, <1>7
    <2> QED BY <1>1, <1>4, <1>6, <2>1 DEF IInv, TypeOK, graph
<1>9. Rooted(content)' /\ (\A i \in Items : changed[i] <= version)'
    BY <1>1 DEF IInv, Rooted, There, graph
<1>10. TokenDelivered' /\ (token <= version)' /\ \A i \in Items : TopRow(items[i])'
    BY <1>1, <1>4, <1>6 DEF TokenDelivered, graph, TopRow
<1> QED BY <1>4, <1>5, <1>7, <1>8, <1>9, <1>10 DEF IInv

-----------------------------------------------------------------------------
(* Results                                                                 *)

LEMMA NextKeeps == IInv /\ [Next]_vars => IInv'
<1> SUFFICES ASSUME IInv, [Next]_vars PROVE IInv'
    OBVIOUS
<1>1. CASE Change
    BY <1>1, ChangeKeeps
<1>2. ASSUME NEW s \in Sessions, Work(s) PROVE IInv'
    BY <1>2, StartKeeps, PageFits, WorkKeeps, CommitKeeps DEF Work
<1>3. ASSUME NEW s \in Sessions, Disturb(s) PROVE IInv'
    BY <1>3, DisturbKeeps
<1>4. CASE UNCHANGED vars
    <2>1. UNCHANGED <<graph, store>> /\ UNCHANGED <<session, delivered, faults>>
        BY <1>4 DEF vars
    <2>2. /\ session \in [Sessions -> Session] /\ delivered \in Nat /\ faults \in Nat
          /\ \A s \in Sessions : Fits(session[s]) /\ Shows(session[s])
        BY DEF IInv, TypeOK
    <2> QED BY <2>1, <2>2, RunsKeep DEF Shows
<1> QED BY <1>1, <1>2, <1>3, <1>4 DEF Next

\* The invariant of overlapping runs: each fits the library, the store and the others.
THEOREM InductiveInvariant == Spec => []IInv
<1> QED BY InitIInv, NextKeeps, PTL DEF Spec

\* A run that asks for what changed since the stored link misses nothing.
THEOREM StoredLinkCovers == Spec => []TokenCovers
<1>1. IInv => TokenCovers
    BY DEF IInv
<1> QED BY <1>1, InductiveInvariant, PTL

\* The stored link is that of a snapshot a durable artifact has shown.
THEOREM StoredLinkDelivered == Spec => []TokenDelivered
<1>1. IInv => TokenDelivered
    BY DEF IInv
<1> QED BY <1>1, InductiveInvariant, PTL

\* No commit, however late, takes the stored link back.
THEOREM StoredLinkAdvances == Spec => TokenAdvances
<1>1. IInv /\ [Next]_vars => token' >= token
    <2> SUFFICES ASSUME IInv, [Next]_vars PROVE token' >= token
        OBVIOUS
    <2>1. token \in Nat
        BY DEF IInv, TypeOK
    <2>2. CASE \E s \in Sessions : Commit(s)
        BY <2>2, CommitKeeps
    <2>3. CASE ~\E s \in Sessions : Commit(s)
        <3>1. token' = token
            BY <2>3 DEF Next, Change, Put, Delete, Work, Disturb, Start, Open, Complete, CountRows,
               CheckStage, Stream, Finalize, MissStage, Page, Upload, SweepStalled, ResetDelta, GiveUp, Die,
               SkipInvalid, store, vars
        <3> QED BY <2>1, <3>1
    <2> QED BY <2>2, <2>3
<1> QED BY <1>1, InductiveInvariant, PTL DEF Spec, TokenAdvances

\* A snapshot is in the artifact when it has been streamed, and not otherwise.
LEMMA OnlyStreamEmits ==
    ASSUME IInv, [Next]_vars, NEW s \in Sessions, InPhase(s, "checked"),
           session'[s].phase = "emitted"
    PROVE  Stream(s)
<1>1. session \in [Sessions -> Session] /\ session[s].phase = "checked" /\ session' # session
    BY DEF IInv, TypeOK, InPhase
<1>2. ~Change
    BY <1>1 DEF Change, Put, Delete
<1>3. ASSUME NEW t \in Sessions, NEW y, Becomes(t, y), y.phase = "emitted" => t = s /\ Stream(s)
      PROVE  Stream(s)
    <2>1. CASE t = s
        BY <1>1, <1>3, <2>1 DEF Becomes
    <2>2. CASE t # s
        BY <1>1, <1>3, <2>2 DEF Becomes
    <2> QED BY <2>1, <2>2
<1>4. \A t \in Sessions : session[t] \in Session
    BY <1>1
<1>5. Idle.phase = "idle"
    BY DEF Idle
<1>6. ASSUME NEW t \in Sessions, Work(t) PROVE Stream(s)
    <2> DEFINE x == session[t]
    <2>0. x \in Session
        BY <1>4
    <2>1. CASE Stream(t)
        <3>1. CASE t = s
            BY <2>1, <3>1
        <3>2. CASE t # s
            BY <1>1, <2>1, <3>2 DEF Stream, Becomes
        <3> QED BY <3>1, <3>2
    <2>2. ASSUME NEW full \in BOOLEAN, NEW old \in SUBSET Sessions, Start(t, full, old)
          PROVE  Stream(s)
        <3>1. session'[s] \in {session[s], Swept(session[s]), Started(session[s], full)}
            BY <2>2 DEF Start
        <3>2. Swept(session[s]).phase = "checked" /\ Started(session[s], full).phase = "opening"
            BY <1>1 DEF Swept, Started, Session
        <3> QED BY <1>1, <3>1, <3>2
    <2>3. CASE Open(t)
        <3>1. Opened(x, x.full).phase = "paging"
            BY <2>0 DEF Opened, Session
        <3> QED BY <1>3, <2>3, <3>1 DEF Open
    <2>4. CASE Complete(t)
        <3>1. [x EXCEPT !.phase = "staged", !.pending = "complete"].phase = "staged"
            BY <2>0 DEF Session
        <3> QED BY <1>3, <1>5, <2>4, <3>1 DEF Complete
    <2>5. CASE CountRows(t)
        <3>1. [x EXCEPT !.phase = "counted", !.count = Size(Merged(x))].phase = "counted"
            BY <2>0 DEF Session
        <3> QED BY <1>3, <2>5, <3>1 DEF CountRows
    <2>6. CASE Finalize(t)
        <3>1. [x EXCEPT !.phase = "durable"].phase = "durable"
            BY <2>0 DEF Session
        <3> QED BY <1>3, <1>5, <2>6, <3>1 DEF Finalize
    <2>7. CASE MissStage(t)
        BY <1>3, <1>5, <2>7 DEF MissStage
    <2>8. ASSUME NEW shown \in SUBSET Items, NEW silent \in SUBSET Items, Page(t, shown, silent)
          PROVE  Stream(s)
        <3> DEFINE y == [x EXCEPT !.todo = x.todo \ shown,
                                  !.staged = [i \in Items |-> IF i \in shown \ silent THEN Shown(i)
                                                             ELSE x.staged[i]]]
        <3>1. Becomes(t, y) /\ y.phase = "paging"
            BY <2>0, <2>8 DEF Page, InPhase, Session
        <3> QED BY <1>3, <3>1
    <2>9. ASSUME NEW accepted \in BOOLEAN, NEW known \in BOOLEAN, Upload(t, accepted, known)
          PROVE  Stream(s)
        <3>1. [x EXCEPT !.phase = "durable"].phase = "durable"
            BY <2>0 DEF Session
        <3> QED BY <1>3, <1>5, <2>9, <3>1 DEF Upload
    <2>10. CASE Commit(t)
        <3>1. session'[s] = Idle \/ session'[s].phase = session[s].phase
            BY <1>1, <1>4, <2>10 DEF Commit, Session
        <3> QED BY <1>1, <1>5, <3>1
    <2>11. CASE CheckStage(t)
        <3>1. [x EXCEPT !.phase = "checked"].phase = "checked"
            BY <2>0 DEF Session
        <3> QED BY <1>3, <2>11, <3>1 DEF CheckStage
    <2> QED BY <1>6, <2>1, <2>2, <2>3, <2>4, <2>5, <2>6, <2>7, <2>8, <2>9, <2>10, <2>11 DEF Work
<1>7. ASSUME NEW t \in Sessions, Disturb(t) PROVE Stream(s)
    <2> DEFINE x == session[t]
    <2>0. x \in Session
        BY <1>4
    <2>1. CASE SweepStalled(t)
        <3>1. Swept(x).phase = x.phase
            BY <2>0 DEF Swept, Session
        <3> QED BY <1>1, <2>1, <3>1 DEF SweepStalled, Becomes
    <2>2. CASE ResetDelta(t)
        <3>1. Reset(x).phase = "paging"
            BY <2>0 DEF Reset, Opened, Session
        <3> QED BY <1>3, <2>2, <3>1 DEF ResetDelta
    <2>3. CASE GiveUp(t)
        BY <1>3, <1>5, <2>3 DEF GiveUp
    <2>4. CASE Die(t)
        <3>1. [Idle EXCEPT !.pending = x.pending, !.staged = x.staged].phase = "idle"
            BY DEF Idle
        <3> QED BY <1>3, <2>4, <3>1 DEF Die
    <2>5. ASSUME NEW i \in Items, SkipInvalid(t, i) PROVE Stream(s)
        <3>1. [x EXCEPT !.todo = x.todo \ {i}, !.invalid = TRUE].phase = x.phase
            BY <2>0 DEF Session
        <3> QED BY <1>3, <2>5, <3>1 DEF SkipInvalid, InPhase
    <2> QED BY <1>7, <2>1, <2>2, <2>3, <2>4, <2>5 DEF Disturb
<1> QED BY <1>1, <1>2, <1>6, <1>7 DEF Next, vars

\* A row whose folder the snapshot shows as it is gives the item the path it has.
LEMMA TruePaths ==
    ASSUME IInv, NEW c \in [Items -> Row \cup {Absent, Unstaged}], NEW i \in Items, There(content, i),
           Same(c[i], i), TopRow(c[i]),
           content[i].parent # Root => Same(c[content[i].parent], content[i].parent)
    PROVE  PathIn(c, i) = TruePath(i)
<1> USE DeltaSyncAssumption
<1>1. content[i] \in Place /\ c[i] \in Row /\ c[i].parent = content[i].parent /\ c[i].name = content[i].name
    BY DEF IInv, TypeOK, There, Same
<1>2. CASE content[i].parent = Root
    BY <1>1, <1>2 DEF TopRow, PathIn, TruePath, Above
<1>3. CASE content[i].parent # Root
    <2> DEFINE q == content[i].parent
    <2>1. There(content, q)
        BY <1>3 DEF IInv, Rooted
    <2>2. c[q] # Absent /\ c[q].name = content[q].name
        BY <1>3, <2>1 DEF Same
    <2> QED BY <1>1, <1>3, <2>2 DEF PathIn, TruePath, Above
<1> QED BY <1>2, <1>3

\* What a run streams is the library as of the link it reaches, also when its staging is
\* swept on the way.
LEMMA StreamedIsTrue ==
    ASSUME IInv, NEW x \in Session, Fits(x), x.phase = "checked", Whole(x),
           NEW i \in Items, changed[i] <= Reaches(x)
    PROVE  Same(Merged(x)[i], i)
<1>1. CASE x.pending = "complete"
    BY <1>1, MergedIsTrue DEF Reaches
<1>2. CASE x.pending # "complete"
    <2>1. x.pending = "none"
        BY <1>2 DEF Fits, PendingFits, Session
    <2>2. \A j \in Items : Merged(x)[j] = IF x.full THEN Absent ELSE items[j]
        BY <2>1 DEF Fits, PendingFits, Nothing, Merged
    <2>3. CASE x.full
        <3>1. Size(Merged(x)) = 0
            BY <2>2, <2>3, SizeType
        <3>2. x.count = 0 /\ changed[i] <= x.link
            BY <2>3, <3>1 DEF Whole, Reaches
        <3>3. ~There(content, i)
            BY <2>3, <3>2 DEF Fits, CountFits
        <3> QED BY <2>2, <2>3, <3>3 DEF Same
    <2>4. CASE ~x.full
        BY <1>2, <2>2, <2>4 DEF Reaches, IInv, TokenCovers
    <2> QED BY <2>3, <2>4
<1> QED BY <1>1, <1>2

\* The artifact of a run shows the library as of the link it reaches, which is the one the run
\* will save if it saves any: each item that did not change since is in it at its path, and
\* none that is gone.
THEOREM ArtifactIsTrue == Spec => ArtifactShowsLibrary
<1>1. ASSUME IInv, [Next]_vars, NEW s \in Sessions,
             InPhase(s, "checked"), session'[s].phase = "emitted",
             NEW i \in Items, Settled(i, Reaches(session[s]))
      PROVE  /\ Same(Merged(session[s])[i], i)
             /\ There(content, i) => PathIn(Merged(session[s]), i) = TruePath(i)
    <2> DEFINE x == session[s]
               c == Merged(x)
    <2>1. x \in Session /\ Fits(x) /\ x.phase = "checked" /\ Stream(s)
        BY <1>1, OnlyStreamEmits DEF IInv, TypeOK, InPhase
    <2>2. Whole(x)
        <3>1. session'[s] = IF Whole(x) THEN [x EXCEPT !.phase = "emitted", !.shows = Reaches(x)]
                            ELSE Idle
            BY <1>1, <2>1 DEF Stream, Becomes, IInv, TypeOK
        <3> QED BY <1>1, <3>1 DEF Idle
    <2>3. \A j \in Items : changed[j] <= Reaches(x) => Same(c[j], j)
        BY <1>1, <2>1, <2>2, StreamedIsTrue
    <2>4. c \in [Items -> Row \cup {Absent, Unstaged}] /\ \A j \in Items : TopRow(c[j])
        BY <1>1, <2>1, DeltaSyncAssumption DEF Merged, Session, IInv, TypeOK, Fits, TopRow
    <2>5. changed[i] <= Reaches(x) /\ (There(content, i) /\ content[i].parent # Root
                                           => changed[content[i].parent] <= Reaches(x))
        BY <1>1 DEF Settled
    <2>6. There(content, i) => content[i].parent \in Items \cup {Root}
        BY <1>1 DEF IInv, TypeOK, There, Place
    <2> HIDE DEF c
    <2> QED BY <1>1, <2>3, <2>4, <2>5, <2>6, TruePaths DEF c
<1>2. IInv /\ [Next]_vars =>
          \A s \in Sessions :
              InPhase(s, "checked") /\ session'[s].phase = "emitted" =>
                  \A i \in Items : Settled(i, Reaches(session[s])) =>
                      /\ Same(Merged(session[s])[i], i)
                      /\ There(content, i) => PathIn(Merged(session[s]), i) = TruePath(i)
    BY <1>1
<1> QED BY <1>2, InductiveInvariant, PTL DEF Spec, ArtifactShowsLibrary
=============================================================================
