--------------------------- MODULE FleetSyncProofs ---------------------------
(***************************************************************************)
(* Theorems about FleetSync for any number of nodes, projects and commits: *)
(* its types, for every fleet, and LagIsScheduled, for the fleets that     *)
(* have one branch and one gateway per repository.                         *)
(***************************************************************************)
EXTENDS FleetSync, FiniteSetTheorems, WellFoundedInduction, TLAPS

-----------------------------------------------------------------------------
(* Helpers: the newest commit, and queues of events.                       *)

LEMMA NewestExists ==
    ASSUME NEW n \in Nat, NEW S, S \subseteq 0 .. n, S # {}
    PROVE  \E m \in S : \A d \in S : d <= m
<1> DEFINE Above(i) == (i + 1) .. n
           T == {Above(i) : i \in S}
           R == StrictSubsetOrdering(0 .. n)
<1>1. IsWellFoundedOn(R, FiniteSubsetsOf(0 .. n))
    BY FS_StrictSubsetOrderingWellFounded
<1>2. T \subseteq FiniteSubsetsOf(0 .. n) /\ T # {}
    <2>1. ASSUME NEW i \in S PROVE Above(i) \in SUBSET (0 .. n) /\ IsFiniteSet(Above(i))
        <3>1. i + 1 \in Int /\ n \in Int
            OBVIOUS
        <3> QED
            BY <3>1, FS_Interval
    <2> QED
        BY <2>1 DEF FiniteSubsetsOf
<1>3. PICK x \in T : \A y \in T : ~ (<<y, x>> \in R)
    <2> HIDE DEF T, R
    <2> QED
        BY <1>1, <1>2, WFMin
<1>4. PICK i \in S : x = Above(i)
    OBVIOUS
<1>5. ASSUME NEW j \in S, j > i PROVE FALSE
    <2>1. Above(j) \in T
        OBVIOUS
    <2>2. Above(j) \subseteq Above(i) /\ j \in Above(i) /\ j \notin Above(j)
        BY <1>5
    <2>3. <<Above(j), Above(i)>> \in R
        BY <2>2 DEF StrictSubsetOrdering
    <2> QED
        BY <1>3, <1>4, <2>1, <2>3
<1> QED
    BY <1>5

LEMMA AppendFacts ==
    ASSUME NEW S, NEW q \in Seq(S), NEW e \in S
    PROVE  /\ Append(q, e) \in Seq(S) /\ Len(q) \in Nat /\ Len(Append(q, e)) = Len(q) + 1
           /\ DOMAIN q = 1 .. Len(q) /\ DOMAIN Append(q, e) = 1 .. (Len(q) + 1)
           /\ \A i \in DOMAIN q : Append(q, e)[i] = q[i]
           /\ Append(q, e)[Len(q) + 1] = e
OBVIOUS

LEMMA TailFacts ==
    ASSUME NEW S, NEW q \in Seq(S), q # <<>>
    PROVE  /\ Tail(q) \in Seq(S) /\ Head(q) = q[1] /\ 1 \in DOMAIN q
           /\ DOMAIN q = 1 .. Len(q) /\ DOMAIN Tail(q) = 1 .. (Len(q) - 1) /\ Len(q) \in Nat
           /\ \A i \in DOMAIN Tail(q) : i + 1 \in DOMAIN q /\ Tail(q)[i] = q[i + 1]
           /\ \A i \in DOMAIN q : i = 1 \/ (i - 1 \in DOMAIN Tail(q) /\ Tail(q)[i - 1] = q[i])
OBVIOUS

-----------------------------------------------------------------------------
(* Types.                                                                  *)

LEMMA Typed ==
    ASSUME TypeOK
    PROVE  /\ \A s \in Sources : /\ tip[s] \in 0 .. MaxCommits
                                 /\ versions[s] \in Seq(0 .. MaxCommits)
                                 /\ Len(versions[s]) \in Nat
                                 /\ DOMAIN versions[s] = 1 .. Len(versions[s])
                                 /\ \A i \in DOMAIN versions[s] : versions[s][i] \in 0 .. MaxCommits
           /\ \A n \in Nodes : /\ events[n] \in Seq(Event)
                               /\ \A i \in DOMAIN events[n] : events[n][i] \in Event
           /\ \A p \in Projects : Source(p) \in Sources /\ p.node \in Nodes
                                  /\ Source(p).repo = p.repo /\ p.repo \in Repos
           /\ \A s \in Sources : s.repo \in Repos
           /\ DOMAIN events = Nodes /\ DOMAIN versions = Sources
<1>1. \A s \in Sources : versions[s] \in Seq(0 .. MaxCommits)
    BY DEF TypeOK
<1>2. \A n \in Nodes : events[n] \in Seq(Event)
    BY DEF TypeOK
<1>3. \A S : \A q \in Seq(S) : Len(q) \in Nat /\ DOMAIN q = 1 .. Len(q) /\ \A i \in DOMAIN q : q[i] \in S
    OBVIOUS
<1>4. \A s \in Sources : tip[s] \in 0 .. MaxCommits
    BY DEF TypeOK
<1>5. \A p \in Projects : Source(p) \in Sources /\ Source(p).repo = p.repo /\ p.repo \in Repos
    BY DEF Source, Sources, Repos
<1>6. \A s \in Sources : s.repo \in Repos
    BY DEF Source, Sources, Repos
<1>7. \A p \in Projects : p.node \in Nodes
    BY TopologyAssumption
<1>8. DOMAIN events = Nodes /\ DOMAIN versions = Sources
    BY DEF TypeOK
<1>9. \A s \in Sources : /\ Len(versions[s]) \in Nat /\ DOMAIN versions[s] = 1 .. Len(versions[s])
                         /\ \A i \in DOMAIN versions[s] : versions[s][i] \in 0 .. MaxCommits
    BY <1>1, <1>3
<1>10. \A n \in Nodes : \A i \in DOMAIN events[n] : events[n][i] \in Event
    BY <1>2, <1>3
<1> QED
    BY <1>1, <1>2, <1>4, <1>5, <1>6, <1>7, <1>8, <1>9, <1>10

\* The conjuncts of the type invariant about the document and its events, and
\* about everything else.
DocumentOK ==
    /\ versions \in [Sources -> Seq(0 .. MaxCommits)]
    /\ events \in [Nodes -> Seq(Event)]
    /\ \A n \in Nodes : \A i \in DOMAIN events[n] :
          events[n][i].at \in DOMAIN versions[events[n][i].source]
    /\ missed \subseteq Projects

\* What a document keeps when commit_hash is written: its versions are only
\* appended to, and so are the events of every node.
Extends(s, h) ==
    \/ versions'[s] = versions[s] /\ versions[s] # <<>>
    \/ versions'[s] = Append(versions[s], h)

LEMMA UpsertFacts ==
    ASSUME TypeOK, NEW s \in Sources, NEW h \in 0 .. MaxCommits, Upsert(s, h)
    PROVE  \E kind \in {"insert", "update", "touch"} :
              /\ \/ kind = "touch" /\ versions' = versions /\ versions[s] # <<>>
                    /\ h \in {NoHash, Last(versions[s])}
                 \/ kind # "touch" /\ versions' = [versions EXCEPT ![s] = Append(versions[s], h)]
              /\ events' = [n \in Nodes |->
                    IF Delivers(n, s, kind)
                       THEN Append(events[n], [source |-> s, kind |-> kind, at |-> Len(versions'[s])])
                       ELSE events[n]]
              /\ missed' = IF kind = "touch" \/ h = NoHash THEN missed ELSE missed \cup
                    {p \in registered : Source(p) = s /\ p.node \in up /\ ~Delivers(p.node, s, kind)}
<1> DEFINE v == versions[s]
           kind == IF v = <<>> THEN "insert"
                   ELSE IF h \in {NoHash, Last(v)} THEN "touch" ELSE "update"
           w == IF kind = "touch" THEN v ELSE Append(v, h)
<1>1. /\ versions' = [versions EXCEPT ![s] = w]
      /\ events' = [n \in Nodes |->
            IF Delivers(n, s, kind)
               THEN Append(events[n], [source |-> s, kind |-> kind, at |-> Len(w)])
               ELSE events[n]]
      /\ missed' = IF kind = "touch" \/ h = NoHash THEN missed ELSE missed \cup
            {p \in registered : Source(p) = s /\ p.node \in up /\ ~Delivers(p.node, s, kind)}
    BY DEF Upsert
<1>2. DOMAIN versions = Sources /\ versions = [t \in Sources |-> versions[t]]
    BY DEF TypeOK
<1>3. versions'[s] = w
    BY <1>1, <1>2
<1>4. kind \in {"insert", "update", "touch"}
    OBVIOUS
<1>5. \/ kind = "touch" /\ w = v /\ v # <<>> /\ h \in {NoHash, Last(v)}
      \/ kind # "touch" /\ w = Append(v, h)
    OBVIOUS
<1> HIDE DEF kind, w
<1>6. w = v => versions' = versions
    BY <1>1, <1>2
<1> QED
    BY <1>1, <1>3, <1>4, <1>5, <1>6

LEMMA UpsertTyped ==
    ASSUME TypeOK, NEW s \in Sources, NEW h \in 0 .. MaxCommits, Upsert(s, h)
    PROVE  DocumentOK'
<1>1. PICK kind \in {"insert", "update", "touch"} :
         /\ \/ kind = "touch" /\ versions' = versions /\ versions[s] # <<>>
            \/ kind # "touch" /\ versions' = [versions EXCEPT ![s] = Append(versions[s], h)]
         /\ events' = [n \in Nodes |->
               IF Delivers(n, s, kind)
                  THEN Append(events[n], [source |-> s, kind |-> kind, at |-> Len(versions'[s])])
                  ELSE events[n]]
         /\ missed' \subseteq missed \cup registered
    BY UpsertFacts
<1>2. PICK e : e = [source |-> s, kind |-> kind, at |-> Len(versions'[s])]
    OBVIOUS
<1>3. /\ versions' \in [Sources -> Seq(0 .. MaxCommits)] /\ e.at \in DOMAIN versions'[s]
      /\ Len(versions'[s]) \in Nat
      /\ \A t \in Sources : DOMAIN versions[t] \subseteq DOMAIN versions'[t]
    <2>1. versions[s] \in Seq(0 .. MaxCommits) /\ versions \in [Sources -> Seq(0 .. MaxCommits)]
        BY DEF TypeOK
    <2>2. CASE versions' = versions /\ versions[s] # <<>>
        <3>1. Len(versions[s]) \in Nat /\ Len(versions[s]) # 0
              /\ DOMAIN versions[s] = 1 .. Len(versions[s])
            BY <2>1, <2>2
        <3> QED
            BY <1>2, <2>1, <2>2, <3>1
    <2>3. CASE versions' = [versions EXCEPT ![s] = Append(versions[s], h)]
        <3>1. /\ Append(versions[s], h) \in Seq(0 .. MaxCommits)
              /\ Len(Append(versions[s], h)) = Len(versions[s]) + 1 /\ Len(versions[s]) \in Nat
              /\ DOMAIN versions[s] = 1 .. Len(versions[s])
              /\ DOMAIN Append(versions[s], h) = 1 .. (Len(versions[s]) + 1)
            BY <2>1, AppendFacts
        <3>2. /\ versions'[s] = Append(versions[s], h)
              /\ \A t \in Sources : t # s => versions'[t] = versions[t]
            BY <2>1, <2>3
        <3>3. versions' \in [Sources -> Seq(0 .. MaxCommits)]
            BY <2>1, <2>3, <3>1
        <3>4. e.at = Len(versions[s]) + 1
            BY <1>2, <3>1, <3>2
        <3> QED
            BY <3>1, <3>2, <3>3, <3>4
    <2> QED
        BY <1>1, <2>2, <2>3
<1>4. e \in Event /\ e.source = s
    BY <1>2, <1>3 DEF Event
<1>5. ASSUME NEW n \in Nodes
      PROVE  /\ events'[n] \in Seq(Event)
             /\ \A i \in DOMAIN events'[n] :
                   events'[n][i].at \in DOMAIN versions'[events'[n][i].source]
    <2>1. events[n] \in Seq(Event) /\ events'[n] \in {events[n], Append(events[n], e)}
        BY <1>1, <1>2, Typed
    <2>2. \A i \in DOMAIN events[n] : events[n][i].at \in DOMAIN versions'[events[n][i].source]
        BY <1>3, Typed DEF TypeOK, Event
    <2>3. CASE events'[n] = Append(events[n], e)
        <3>1. /\ events'[n] \in Seq(Event) /\ DOMAIN events[n] = 1 .. Len(events[n])
              /\ DOMAIN events'[n] = 1 .. (Len(events[n]) + 1) /\ Len(events[n]) \in Nat
              /\ \A i \in DOMAIN events[n] : events'[n][i] = events[n][i]
              /\ events'[n][Len(events[n]) + 1] = e
            BY <1>4, <2>1, <2>3, AppendFacts
        <3>2. ASSUME NEW i \in DOMAIN events'[n]
              PROVE  events'[n][i].at \in DOMAIN versions'[events'[n][i].source]
            <4>1. i \in DOMAIN events[n] \/ i = Len(events[n]) + 1
                BY <3>1
            <4> QED
                BY <1>3, <1>4, <2>2, <3>1, <4>1
        <3> QED
            BY <3>1, <3>2
    <2> QED
        BY <2>1, <2>2, <2>3
<1>6. events' \in [Nodes -> Seq(Event)]
    BY <1>1, <1>5
<1> QED
    BY <1>1, <1>3, <1>5, <1>6 DEF DocumentOK, TypeOK

\* The newest commit exists, and a branch moves to a commit that is newer
\* than its own.
LEMMA NewTipsFacts ==
    ASSUME TypeOK, NEW s \in Sources, NEW c \in NewTips(s)
    PROVE  c \in 1 .. MaxCommits /\ tip[s] < c
<1> DEFINE newest == CHOOSE d \in Pushed : \A e \in Pushed : e <= d
<1>1. Pushed \subseteq 0 .. MaxCommits /\ Pushed # {}
    BY Typed DEF Pushed
<1>2. newest \in 0 .. MaxCommits
    <2>1. \E d \in Pushed : \A e \in Pushed : e <= d
        BY <1>1, NewestExists, BoundsAssumption
    <2> QED
        BY <1>1, <2>1
<1>3. /\ c \in {tip[t] : t \in {t \in Sources : t.repo = s.repo}} \cup {newest + 1}
      /\ tip[s] < c /\ c <= MaxCommits
    BY DEF NewTips
<1> HIDE DEF newest
<1>4. c \in Int
    BY <1>2, <1>3, Typed
<1> QED
    BY <1>3, <1>4, Typed, BoundsAssumption

\* A stream delivers less than the fleet has: the events of one node go.
LEMMA EventsDropped ==
    ASSUME TypeOK, NEW n \in Nodes, NEW q \in Seq(Event),
           \A i \in DOMAIN q : \E j \in DOMAIN events[n] : q[i] = events[n][j],
           events' = [events EXCEPT ![n] = q], versions' = versions
    PROVE  /\ events' \in [Nodes -> Seq(Event)]
           /\ \A m \in Nodes : \A i \in DOMAIN events'[m] :
                 events'[m][i].at \in DOMAIN versions'[events'[m][i].source]
BY DEF TypeOK

LEMMA NoEvents == <<>> \in Seq(Event) /\ DOMAIN <<>> = {}
OBVIOUS

LEMMA OpenedIsStream ==
    ASSUME NEW ps \in SUBSET Projects PROVE Opened(ps) \in Stream
BY DEF Opened, Stream, Repos

LEMMA ForgeTyped ==
    ASSUME TypeOK, \/ \E s \in Sources : Push(s)
                   \/ \E h \in hooks : LoseWebhook(h) \/ Webhook(h)
    PROVE  TypeOK'
<1>1. ASSUME NEW s \in Sources, Push(s) PROVE TypeOK'
    <2>1. PICK c \in NewTips(s) :
             /\ tip' = [tip EXCEPT ![s] = c]
             /\ hooks' = hooks \cup {[node |-> g.node, source |-> s, hash |-> c] :
                                        g \in {g \in Gateways : g.repo = s.repo}}
        BY <1>1 DEF Push
    <2>2. c \in 1 .. MaxCommits
        BY NewTipsFacts
    <2>3. tip' \in [Sources -> 0 .. MaxCommits] /\ hooks' \subseteq Message
        BY <2>1, <2>2, TopologyAssumption DEF TypeOK, Message
    <2> QED
        BY <1>1, <2>3 DEF Push, TypeOK, fleet, rows
<1>2. ASSUME NEW h \in hooks, LoseWebhook(h) \/ Webhook(h) PROVE TypeOK'
    <2>1. hooks' \subseteq hooks /\ writers' \subseteq writers \cup hooks
        BY <1>2 DEF LoseWebhook, Webhook
    <2>2. hooks' \subseteq Message /\ writers' \subseteq Message
        BY <2>1 DEF TypeOK
    <2> QED
        BY <1>2, <2>2 DEF LoseWebhook, Webhook, TypeOK, fleet, rows
<1> QED
    BY <1>1, <1>2

LEMMA WritersTyped ==
    ASSUME TypeOK, NEW w \in writers, UpdateCommitHash(w) \/ UpdateFails(w)
    PROVE  TypeOK'
<1>1. w.source \in Sources /\ w.hash \in 0 .. MaxCommits
    BY DEF TypeOK, Message
<1>2. CASE UpdateCommitHash(w)
    <2>1. DocumentOK'
        BY <1>1, <1>2, UpsertTyped DEF UpdateCommitHash
    <2> QED
        BY <1>2, <2>1 DEF UpdateCommitHash, DocumentOK, TypeOK, fleet, rows
<1>3. CASE UpdateFails(w)
    BY <1>3 DEF UpdateFails, TypeOK, fleet, rows
<1> QED
    BY <1>2, <1>3

LEMMA NodeTyped ==
    ASSUME TypeOK, NEW n \in Nodes,
           \/ OpenStream(n) \/ StreamBreaks(n) \/ Receive(n) \/ Forget(n) \/ Crash(n) \/ Boot(n)
    PROVE  TypeOK'
<1>1. Hosted(n) \subseteq registered /\ Closed \in Stream
    BY DEF Hosted, Closed, Stream
<1>2. CASE OpenStream(n)
    <2>1. Opened(Hosted(n)) \in Stream
        BY <1>1, OpenedIsStream DEF TypeOK
    <2>2. stream' \in [Nodes -> Stream]
        BY <1>2, <2>1 DEF OpenStream, TypeOK
    <2> QED
        BY <1>2, <2>2 DEF OpenStream, TypeOK, rows
<1>3. CASE StreamBreaks(n)
    <2>1. /\ events' \in [Nodes -> Seq(Event)]
          /\ \A m \in Nodes : \A i \in DOMAIN events'[m] :
                events'[m][i].at \in DOMAIN versions'[events'[m][i].source]
        BY <1>3, EventsDropped, NoEvents DEF StreamBreaks
    <2>2. stream' \in [Nodes -> Stream] /\ faults' \in 0 .. MaxFaults /\ missed' \subseteq Projects
        BY <1>1, <1>3, BoundsAssumption DEF StreamBreaks, TypeOK
    <2> QED
        BY <1>3, <2>1, <2>2 DEF StreamBreaks, TypeOK, rows
<1>4. CASE Receive(n)
    <2> DEFINE e == Head(events[n])
    <2>1. /\ Tail(events[n]) \in Seq(Event) /\ e \in Event /\ e.at \in DOMAIN versions[e.source]
          /\ \A i \in DOMAIN Tail(events[n]) : \E j \in DOMAIN events[n] : Tail(events[n])[i] = events[n][j]
        <3>1. events[n] \in Seq(Event) /\ events[n] # <<>>
            BY <1>4, Typed DEF Receive
        <3>2. Head(events[n]) = events[n][1] /\ 1 \in DOMAIN events[n]
            BY <3>1, TailFacts
        <3> QED
            BY <3>1, <3>2, TailFacts, Typed DEF TypeOK
    <2>2. /\ events' \in [Nodes -> Seq(Event)]
          /\ \A m \in Nodes : \A i \in DOMAIN events'[m] :
                events'[m][i].at \in DOMAIN versions'[events'[m][i].source]
        BY <1>4, <2>1, EventsDropped DEF Receive
    <2>3. PICK hash \in Lookup(e), lost \in SUBSET Hosts(n, e.source.repo) :
             LET key == [repo |-> e.source.repo, hash |-> hash]
             IN  IF hash # NoHash /\ IsRecent(key, recent[n])
                    THEN recent' = recent /\ requested' = requested /\ missed' = missed /\ faults' = faults
                    ELSE /\ lost = {} \/ faults < MaxFaults
                         /\ recent' = [recent EXCEPT ![n] = Remember(key, @)]
                         /\ requested' = requested \cup (Hosts(n, e.source.repo) \ lost)
                         /\ missed' = missed \cup lost
                         /\ faults' = IF lost = {} THEN faults ELSE faults + 1
        BY <1>4 DEF Receive
    <2>4. hash \in 0 .. MaxCommits /\ e.source \in Sources
        <3>1. e.source \in Sources
            BY <2>1 DEF Event
        <3>2. \E i \in DOMAIN versions[e.source] : hash = versions[e.source][i]
            <4>1. \A i \in e.at .. Len(versions[e.source]) : i \in DOMAIN versions[e.source]
                BY <2>1, <3>1, Typed
            <4> QED
                BY <2>1, <4>1 DEF Lookup
        <3> QED
            BY <3>1, <3>2, Typed
    <2> HIDE DEF e
    <2>5. recent' \in [Nodes -> SUBSET [repo : Repos, hash : 1 .. MaxCommits]]
        <3> DEFINE key == [repo |-> e.source.repo, hash |-> hash]
        <3>1. e.source.repo \in Repos
            BY <2>4, Typed
        <3>2. recent[n] \subseteq [repo : Repos, hash : 1 .. MaxCommits]
            BY DEF TypeOK
        <3>3. hash # 0 => hash \in 1 .. MaxCommits
            BY <2>4, BoundsAssumption
        <3>4. Remember(key, recent[n]) \subseteq [repo : Repos, hash : 1 .. MaxCommits]
            BY <3>1, <3>2, <3>3 DEF Remember, NoHash
        <3>5. recent' = recent \/ recent' = [recent EXCEPT ![n] = Remember(key, @)]
            BY <2>3
        <3> HIDE DEF key
        <3> QED
            BY <3>4, <3>5 DEF TypeOK
    <2>6. requested' \subseteq Projects /\ missed' \subseteq Projects
        BY <2>3 DEF Hosts, Hosted, TypeOK
    <2>7. faults' \in 0 .. MaxFaults
        BY <2>3, BoundsAssumption DEF TypeOK
    <2> QED
        BY <1>4, <2>2, <2>5, <2>6, <2>7 DEF Receive, TypeOK, rows
<1>5. CASE Forget(n)
    <2>1. recent' \in [Nodes -> SUBSET [repo : Repos, hash : 1 .. MaxCommits]]
        BY <1>5 DEF Forget, TypeOK
    <2> QED
        BY <1>5, <2>1 DEF Forget, TypeOK, rows
<1>6. CASE Crash(n)
    <2>1. /\ events' \in [Nodes -> Seq(Event)]
          /\ \A m \in Nodes : \A i \in DOMAIN events'[m] :
                events'[m][i].at \in DOMAIN versions'[events'[m][i].source]
        BY <1>6, EventsDropped, NoEvents DEF Crash
    <2>2. stream' \in [Nodes -> Stream] /\ faults' \in 0 .. MaxFaults
        BY <1>1, <1>6, BoundsAssumption DEF Crash, TypeOK
    <2>3. recent' \in [Nodes -> SUBSET [repo : Repos, hash : 1 .. MaxCommits]]
        BY <1>6 DEF Crash, TypeOK
    <2>4. requested' \subseteq Projects /\ creating' \subseteq Projects /\ missed' \subseteq Projects
          /\ writers' \subseteq Message /\ up' \subseteq Nodes
        BY <1>6 DEF Crash, TypeOK
    <2> QED
        BY <1>6, <2>1, <2>2, <2>3, <2>4 DEF Crash, TypeOK
<1>7. CASE Boot(n)
    BY <1>1, <1>7 DEF Boot, TypeOK, rows
<1> QED
    BY <1>2, <1>3, <1>4, <1>5, <1>6, <1>7

LEMMA ProjectTyped ==
    ASSUME TypeOK, NEW p \in Projects,
           Deploy(p) \/ Register(p) \/ FinishCreate(p) \/ Delete(p) \/ Pin(p) \/ Unpin(p)
    PROVE  TypeOK'
<1>1. Source(p) \in Sources /\ tip[Source(p)] \in 0 .. MaxCommits
    BY Typed
<1>2. CASE Deploy(p)
    <2>1. tried' \in [Projects -> 0 .. MaxCommits]
        BY <1>1, <1>2 DEF Deploy, TypeOK
    <2> QED
        BY <1>2, <2>1 DEF Deploy, TypeOK, fleet, rows
<1>3. CASE Register(p)
    BY <1>3, BoundsAssumption DEF Register, TypeOK, fleet
<1>4. CASE FinishCreate(p)
    <2>1. DocumentOK'
        <3>1. CASE Upsert(Source(p), NoHash)
            BY <1>1, <3>1, UpsertTyped, BoundsAssumption DEF NoHash
        <3>2. CASE UNCHANGED <<versions, events, missed>>
            BY <3>2 DEF DocumentOK, TypeOK
        <3> QED
            BY <1>4, <3>1, <3>2 DEF FinishCreate
    <2> QED
        BY <1>4, <2>1 DEF FinishCreate, DocumentOK, TypeOK, fleet
<1>5. CASE Delete(p)
    <2>1. pinnedAt' \in [Projects -> 0 .. Unpinned] /\ edits' \in 0 .. MaxEdits
        BY <1>5, BoundsAssumption DEF Delete, TypeOK, Unpinned
    <2> QED
        BY <1>5, <2>1 DEF Delete, TypeOK, fleet
<1>6. CASE Pin(p)
    <2>1. tip[Source(p)] \in 0 .. Unpinned /\ pinnedAt[p] \in 0 .. Unpinned
        BY <1>1, BoundsAssumption DEF Unpinned, TypeOK
    <2>2. pinnedAt' \in [Projects -> 0 .. Unpinned] /\ edits' \in 0 .. MaxEdits
        BY <1>6, <2>1, BoundsAssumption DEF Pin, TypeOK
    <2> QED
        BY <1>6, <2>2 DEF Pin, TypeOK, fleet
<1>7. CASE Unpin(p)
    <2>1. pinnedAt' \in [Projects -> 0 .. Unpinned]
        BY <1>7, BoundsAssumption DEF Unpin, TypeOK, Unpinned
    <2> QED
        BY <1>7, <2>1 DEF Unpin, TypeOK, fleet
<1> QED
    BY <1>2, <1>3, <1>4, <1>5, <1>6, <1>7

LEMMA NextTyped ==
    ASSUME TypeOK, [Next]_vars PROVE TypeOK'
<1>1. CASE UNCHANGED vars
    BY <1>1 DEF vars, TypeOK
<1> QED
    BY <1>1, ForgeTyped, WritersTyped, NodeTyped, ProjectTyped DEF Next

LEMMA InitTyped == ASSUME Init PROVE TypeOK
<1>1. \A n \in Nodes : Opened(Hosted(n)) \in Stream
    BY OpenedIsStream DEF Init, Hosted
<1>2. events \in [Nodes -> Seq(Event)] /\ versions \in [Sources -> Seq(0 .. MaxCommits)]
    <2>1. <<>> \in Seq(Event) /\ <<>> \in Seq(0 .. MaxCommits)
        OBVIOUS
    <2> QED
        BY <2>1 DEF Init
<1>3. \A n \in Nodes : DOMAIN events[n] = {}
    BY DEF Init
<1>4. stream \in [Nodes -> Stream]
    BY <1>1 DEF Init
<1>5. /\ tip \in [Sources -> 0 .. MaxCommits] /\ tried \in [Projects -> 0 .. MaxCommits]
      /\ pinnedAt \in [Projects -> 0 .. Unpinned] /\ faults \in 0 .. MaxFaults /\ edits \in 0 .. MaxEdits
    BY BoundsAssumption DEF Init, Unpinned
<1>6. /\ hooks \subseteq Message /\ writers \subseteq Message /\ up \subseteq Nodes
      /\ registered \subseteq Projects /\ creating \subseteq Projects
      /\ requested \subseteq Projects /\ missed \subseteq Projects
      /\ recent \in [Nodes -> SUBSET [repo : Repos, hash : 1 .. MaxCommits]]
    BY DEF Init
<1> QED
    BY <1>2, <1>3, <1>4, <1>5, <1>6 DEF TypeOK

-----------------------------------------------------------------------------
(* Fleets with one branch and one gateway per repository.  With two        *)
(* branches the guard against duplicates confuses their commits, and two   *)
(* gateways write a commit again after a newer one: LagIsScheduled is then *)
(* not true.                                                               *)

OneBranch == \A p, q \in Projects : p.repo = q.repo => p.branch = q.branch

OneGateway == \A g, h \in Gateways : g.repo = h.repo => g = h

\* Projects that need no event.
Busy == requested \cup creating \cup missed

\* A commit is written once: it has one message, which is with the gateway or
\* with a writer, until it is in the document.
CommitsInv ==
    /\ \A h \in hooks \cup writers :
          /\ h.hash <= tip[h.source]
          /\ \E g \in Gateways : g.node = h.node /\ g.repo = h.source.repo
          /\ \A i \in DOMAIN versions[h.source] : versions[h.source][i] # h.hash
    /\ hooks \cap writers = {}
    /\ \A s \in Sources : \A i, j \in DOMAIN versions[s] :
          versions[s][i] <= tip[s] /\ (versions[s][i] = versions[s][j] => i = j)

\* A commit that the guard of a node remembers is a version of the document,
\* and the projects of the node have tried this version and all before it, or
\* are busy.
RecentInv ==
    \A n \in Nodes, s \in Sources : \A key \in recent[n] : key.repo = s.repo =>
        \E j \in DOMAIN versions[s] :
           /\ versions[s][j] = key.hash
           /\ \A p \in registered : p.node = n /\ Source(p) = s =>
                 p \in Busy \/ \A m \in 1 .. j : versions[s][m] <= tried[p]

\* The event of a version is on its way to p.
Coming(p, k) ==
    \E i \in DOMAIN events[p.node] :
        events[p.node][i].source = Source(p) /\ events[p.node][i].at = k

\* A version that p has not tried is on its way, unless p is busy.
LagInv ==
    \A p \in registered : p.node \in up /\ p \notin Busy =>
        \A k \in DOMAIN versions[Source(p)] :
           versions[Source(p)][k] <= tried[p] \/ Coming(p, k)

LEMMA SameSource ==
    ASSUME OneBranch, NEW s \in Sources, NEW t \in Sources, s.repo = t.repo
    PROVE  s = t
<1>1. PICK p \in Projects : s = Source(p)
    BY DEF Sources
<1>2. PICK q \in Projects : t = Source(q)
    BY DEF Sources
<1> QED
    BY <1>1, <1>2 DEF OneBranch, Source

\* A message is known by its source and its commit.
LEMMA SameMessage ==
    ASSUME OneGateway, TypeOK, CommitsInv,
           NEW g \in hooks \cup writers, NEW h \in hooks \cup writers,
           g.source = h.source, g.hash = h.hash
    PROVE  g = h
<1>1. g \in Message /\ h \in Message
    BY DEF TypeOK
<1>2. g.node = h.node
    BY DEF CommitsInv, OneGateway
<1> QED
    BY <1>1, <1>2 DEF Message

-----------------------------------------------------------------------------
(* A commit is written once.                                               *)

\* Messages are dropped or handed over, branches move on, documents stay.
LEMMA MessagesMove ==
    ASSUME TypeOK, CommitsInv, versions' = versions, tip' = tip,
           hooks' \subseteq hooks, writers' \subseteq writers \cup (hooks \ hooks')
    PROVE  CommitsInv'
<1>1. hooks' \cup writers' \subseteq hooks \cup writers /\ hooks' \cap writers' = {}
    BY DEF CommitsInv
<1> QED
    BY <1>1 DEF CommitsInv

LEMMA PushKeepsCommits ==
    ASSUME TypeOK, CommitsInv, NEW s \in Sources, Push(s)
    PROVE  CommitsInv'
<1>1. PICK c \in NewTips(s) :
         /\ tip' = [tip EXCEPT ![s] = c]
         /\ hooks' = hooks \cup {[node |-> g.node, source |-> s, hash |-> c] :
                                    g \in {g \in Gateways : g.repo = s.repo}}
         /\ writers' = writers /\ versions' = versions
    BY DEF Push
<1>2. c \in 1 .. MaxCommits /\ tip[s] < c /\ DOMAIN tip = Sources
    BY NewTipsFacts DEF TypeOK
<1>3. tip'[s] = c /\ \A t \in Sources : t # s => tip'[t] = tip[t]
    BY <1>1, <1>2
<1>4. \A h \in hooks \cup writers : h.source \in Sources /\ h.hash \in 1 .. MaxCommits
    BY DEF TypeOK, Message
<1>5. \A h \in hooks \cup writers :
         /\ h.hash <= tip'[h.source]
         /\ \E g \in Gateways : g.node = h.node /\ g.repo = h.source.repo
         /\ \A i \in DOMAIN versions[h.source] : versions[h.source][i] # h.hash
         /\ h.source = s => h.hash # c
    BY <1>2, <1>3, <1>4, Typed DEF CommitsInv
<1>6. ASSUME NEW h, \E g \in Gateways : g.repo = s.repo /\ h = [node |-> g.node, source |-> s, hash |-> c]
      PROVE  /\ h.source = s /\ h.hash = c
             /\ \E g \in Gateways : g.node = h.node /\ g.repo = h.source.repo
             /\ \A i \in DOMAIN versions[s] : versions[s][i] # c
    <2>1. \A i \in DOMAIN versions[s] : versions[s][i] # c
        BY <1>2, Typed DEF CommitsInv
    <2> QED
        BY <1>6, <2>1
<1>7. \A h \in hooks' : h \in hooks \/
         \E g \in Gateways : g.repo = s.repo /\ h = [node |-> g.node, source |-> s, hash |-> c]
    BY <1>1
<1>8. ASSUME NEW h \in hooks' \cup writers'
      PROVE  /\ h.hash <= tip'[h.source]
             /\ \E g \in Gateways : g.node = h.node /\ g.repo = h.source.repo
             /\ \A i \in DOMAIN versions'[h.source] : versions'[h.source][i] # h.hash
    <2>1. CASE h \in hooks \cup writers
        BY <1>1, <1>5, <2>1
    <2>2. CASE \E g \in Gateways : g.repo = s.repo /\ h = [node |-> g.node, source |-> s, hash |-> c]
        BY <1>1, <1>2, <1>3, <1>6, <2>2
    <2> QED
        BY <1>1, <1>7, <2>1, <2>2
<1>9. hooks' \cap writers' = {}
    BY <1>1, <1>5, <1>6, <1>7 DEF CommitsInv
<1>10. \A t \in Sources : \A i, j \in DOMAIN versions'[t] :
          versions'[t][i] <= tip'[t] /\ (versions'[t][i] = versions'[t][j] => i = j)
    BY <1>1, <1>2, <1>3, Typed DEF CommitsInv
<1> QED
    BY <1>8, <1>9, <1>10 DEF CommitsInv

\* A new version, of a commit that is not in the document.
NewVersion(s, h) ==
    /\ h <= tip[s]
    /\ \A i \in DOMAIN versions[s] : versions[s][i] # h

LEMMA UpsertKeepsCommits ==
    ASSUME TypeOK, CommitsInv, NEW s \in Sources, NEW h \in 0 .. MaxCommits, Upsert(s, h),
           h = NoHash \/ NewVersion(s, h), tip' = tip, hooks' = hooks, writers' \subseteq writers,
           \A w \in hooks' \cup writers' : w.source = s => w.hash # h
    PROVE  CommitsInv'
<1>1. \/ versions' = versions
      \/ NewVersion(s, h) /\ versions' = [versions EXCEPT ![s] = Append(versions[s], h)]
    <2>1. PICK kind \in {"insert", "update", "touch"} :
             \/ kind = "touch" /\ versions' = versions
             \/ kind # "touch" /\ versions' = [versions EXCEPT ![s] = Append(versions[s], h)]
        BY UpsertFacts
    <2>2. ASSUME h = NoHash, ~ (\A i \in DOMAIN versions[s] : versions[s][i] # h)
          PROVE  versions' = versions
        <3>1. versions[s] # <<>> /\ h \in {NoHash, Last(versions[s])}
            BY <2>2
        <3>2. versions' = [versions EXCEPT ![s] = versions[s]]
            BY <3>1 DEF Upsert
        <3> QED
            BY <3>2 DEF TypeOK
    <2>3. h = NoHash => h <= tip[s]
        BY Typed DEF NoHash
    <2> QED
        BY <2>1, <2>2, <2>3 DEF NewVersion
<1>2. CASE versions' = versions
    BY <1>2, MessagesMove
<1>3. CASE NewVersion(s, h) /\ versions' = [versions EXCEPT ![s] = Append(versions[s], h)]
    <2>1. /\ versions'[s] = Append(versions[s], h)
          /\ \A t \in Sources : t # s => versions'[t] = versions[t]
        BY <1>3, Typed
    <2>2. /\ DOMAIN versions[s] = 1 .. Len(versions[s]) /\ Len(versions[s]) \in Nat
          /\ DOMAIN versions'[s] = 1 .. (Len(versions[s]) + 1)
          /\ \A i \in DOMAIN versions[s] : versions'[s][i] = versions[s][i]
          /\ versions'[s][Len(versions[s]) + 1] = h
        BY <2>1, AppendFacts, Typed
    <2>3. \A i, j \in DOMAIN versions'[s] :
             versions'[s][i] <= tip[s] /\ (versions'[s][i] = versions'[s][j] => i = j)
        <3>1. \A i \in DOMAIN versions'[s] : i \in DOMAIN versions[s] \/ i = Len(versions[s]) + 1
            BY <2>2
        <3> QED
            BY <1>3, <2>2, <3>1 DEF NewVersion, CommitsInv
    <2>4. ASSUME NEW w \in hooks' \cup writers'
          PROVE  \A i \in DOMAIN versions'[w.source] : versions'[w.source][i] # w.hash
        <3>1. w.source \in Sources /\ w \in hooks \cup writers
            BY DEF TypeOK, Message
        <3>2. \A i \in DOMAIN versions[w.source] : versions[w.source][i] # w.hash
            BY <3>1 DEF CommitsInv
        <3>3. \A i \in DOMAIN versions'[s] : i \in DOMAIN versions[s] \/ i = Len(versions[s]) + 1
            BY <2>2
        <3> QED
            BY <2>1, <2>2, <3>1, <3>2, <3>3
    <2>5. /\ hooks' \cap writers' = {}
          /\ \A w \in hooks' \cup writers' :
                w.hash <= tip'[w.source] /\ \E g \in Gateways : g.node = w.node /\ g.repo = w.source.repo
        BY DEF CommitsInv
    <2>6. \A t \in Sources : \A i, j \in DOMAIN versions'[t] :
             versions'[t][i] <= tip'[t] /\ (versions'[t][i] = versions'[t][j] => i = j)
        <3>1. ASSUME NEW t \in Sources, t # s
              PROVE  \A i, j \in DOMAIN versions'[t] :
                        versions'[t][i] <= tip'[t] /\ (versions'[t][i] = versions'[t][j] => i = j)
            BY <2>1, <3>1 DEF CommitsInv
        <3> QED
            BY <2>3, <3>1
    <2> QED
        BY <2>4, <2>5, <2>6 DEF CommitsInv
<1> QED
    BY <1>1, <1>2, <1>3

LEMMA NextKeepsCommits ==
    ASSUME OneGateway, TypeOK, CommitsInv, [Next]_vars
    PROVE  CommitsInv'
<1>1. CASE UNCHANGED vars
    BY <1>1, MessagesMove DEF vars
<1>2. ASSUME NEW s \in Sources, Push(s) PROVE CommitsInv'
    BY <1>2, PushKeepsCommits
<1>3. ASSUME NEW h \in hooks, LoseWebhook(h) \/ Webhook(h) PROVE CommitsInv'
    <2>1. hooks' = hooks \ {h} /\ writers' \subseteq writers \cup {h} /\ versions' = versions /\ tip' = tip
        BY <1>3 DEF LoseWebhook, Webhook
    <2> QED
        BY <2>1, MessagesMove
<1>4. ASSUME NEW w \in writers, UpdateCommitHash(w) PROVE CommitsInv'
    <2>1. /\ writers' = writers \ {w} /\ Upsert(w.source, w.hash)
          /\ tip' = tip /\ hooks' = hooks
        BY <1>4 DEF UpdateCommitHash
    <2>2. w.source \in Sources /\ w.hash \in 0 .. MaxCommits /\ NewVersion(w.source, w.hash)
        BY DEF TypeOK, Message, CommitsInv, NewVersion
    <2>3. ASSUME NEW h \in hooks' \cup writers', h.source = w.source, h.hash = w.hash PROVE FALSE
        <3>1. h \in hooks \cup writers /\ h # w
            BY <2>1 DEF CommitsInv
        <3> QED
            BY <2>3, <3>1, SameMessage
    <2> QED
        BY <2>1, <2>2, <2>3, UpsertKeepsCommits
<1>5. ASSUME NEW w \in writers, UpdateFails(w) PROVE CommitsInv'
    BY <1>5, MessagesMove DEF UpdateFails
<1>6. ASSUME NEW n \in Nodes,
             OpenStream(n) \/ StreamBreaks(n) \/ Receive(n) \/ Forget(n) \/ Crash(n) \/ Boot(n)
      PROVE  CommitsInv'
    <2>1. hooks' = hooks /\ writers' \subseteq writers /\ versions' = versions /\ tip' = tip
        BY <1>6 DEF OpenStream, StreamBreaks, Receive, Forget, Crash, Boot
    <2> QED
        BY <2>1, MessagesMove
<1>7. ASSUME NEW p \in Projects,
             Deploy(p) \/ Register(p) \/ Delete(p) \/ Pin(p) \/ Unpin(p)
      PROVE  CommitsInv'
    <2>1. hooks' = hooks /\ writers' = writers /\ versions' = versions /\ tip' = tip
        BY <1>7 DEF Deploy, Register, Delete, Pin, Unpin
    <2> QED
        BY <2>1, MessagesMove
<1>8. ASSUME NEW p \in Projects, FinishCreate(p) PROVE CommitsInv'
    <2>1. hooks' = hooks /\ writers' = writers /\ tip' = tip
        BY <1>8 DEF FinishCreate
    <2>2. CASE Upsert(Source(p), NoHash)
        <3>1. Source(p) \in Sources /\ NoHash \in 0 .. MaxCommits
            BY Typed, BoundsAssumption DEF NoHash
        <3>2. \A w \in hooks' \cup writers' : w.hash # NoHash
            BY <2>1 DEF TypeOK, Message, NoHash
        <3> QED
            BY <2>1, <2>2, <3>1, <3>2, UpsertKeepsCommits
    <2>3. CASE versions' = versions
        BY <2>1, <2>3, MessagesMove
    <2> QED
        BY <1>8, <2>2, <2>3 DEF FinishCreate
<1> QED
    BY <1>1, <1>2, <1>3, <1>4, <1>5, <1>6, <1>7, <1>8 DEF Next

-----------------------------------------------------------------------------
(* A lag is scheduled.                                                     *)

EventsKept(p) ==
    \A i \in DOMAIN events[p.node] : events[p.node][i].source = Source(p) =>
        \E j \in DOMAIN events'[p.node] : events'[p.node][j] = events[p.node][i]

\* p is where it was, with the events of its document.
Stays(p) ==
    /\ p \in registered /\ p \notin Busy /\ tried'[p] = tried[p]
    /\ p.node \in up' => p.node \in up /\ EventsKept(p)

\* A step that writes no version and remembers no commit.
LEMMA QuietStep ==
    ASSUME TypeOK, RecentInv, LagInv, versions' = versions, registered' \subseteq Projects,
           \A n \in Nodes : recent'[n] \subseteq recent[n],
           \A p \in registered' :
              \/ p \in Busy'
              \/ \A k \in DOMAIN versions[Source(p)] : versions[Source(p)][k] <= tried'[p]
              \/ Stays(p)
              \/ p.node \notin up' /\ recent'[p.node] = {}
    PROVE  RecentInv' /\ LagInv'
<1>1. ASSUME NEW n \in Nodes, NEW s \in Sources, NEW key \in recent'[n], key.repo = s.repo
      PROVE  \E j \in DOMAIN versions'[s] :
                /\ versions'[s][j] = key.hash
                /\ \A p \in registered' : p.node = n /\ Source(p) = s =>
                      p \in Busy' \/ \A m \in 1 .. j : versions'[s][m] <= tried'[p]
    <2>1. PICK j \in DOMAIN versions[s] :
             /\ versions[s][j] = key.hash
             /\ \A p \in registered : p.node = n /\ Source(p) = s =>
                   p \in Busy \/ \A m \in 1 .. j : versions[s][m] <= tried[p]
        BY <1>1 DEF RecentInv
    <2>2. \A m \in 1 .. j : m \in DOMAIN versions[s]
        BY Typed
    <2>3. ASSUME NEW p \in registered', p.node = n, Source(p) = s, p \notin Busy'
          PROVE  \A m \in 1 .. j : versions[s][m] <= tried'[p]
        <3>1. CASE \A k \in DOMAIN versions[Source(p)] : versions[Source(p)][k] <= tried'[p]
            BY <2>2, <2>3, <3>1
        <3>2. CASE Stays(p)
            BY <2>1, <2>3, <3>2 DEF Stays
        <3> QED
            BY <2>3, <3>1, <3>2
    <2> QED
        BY <2>1, <2>3
<1>2. RecentInv'
    BY <1>1 DEF RecentInv
<1>3. ASSUME NEW p \in registered', p.node \in up', p \notin Busy',
             NEW k \in DOMAIN versions[Source(p)], ~ (versions[Source(p)][k] <= tried'[p])
      PROVE  \E i \in DOMAIN events'[p.node] :
                events'[p.node][i].source = Source(p) /\ events'[p.node][i].at = k
    <2>1. Stays(p)
        BY <1>3
    <2>2. p \in registered /\ p.node \in up /\ tried'[p] = tried[p] /\ p \notin Busy
        BY <1>3, <2>1 DEF Stays
    <2>3. Coming(p, k)
        BY <1>3, <2>2 DEF LagInv
    <2> QED
        BY <1>3, <2>1, <2>3 DEF Stays, EventsKept, Coming
<1>4. LagInv'
    BY <1>3 DEF LagInv, Coming, Source
<1> QED
    BY <1>2, <1>4

\* A commit is written into a document.
LEMMA UpsertStep ==
    ASSUME TypeOK, CommitsInv, RecentInv, LagInv,
           NEW s \in Sources, NEW h \in 0 .. MaxCommits, Upsert(s, h),
           h = NoHash \/ NewVersion(s, h),
           registered' = registered, up' = up, tried' = tried, recent' = recent,
           requested \cup creating \subseteq requested' \cup creating'
    PROVE  RecentInv' /\ LagInv'
<1>1. PICK kind \in {"insert", "update", "touch"} :
         /\ \/ kind = "touch" /\ versions' = versions /\ versions[s] # <<>>
               /\ h \in {NoHash, Last(versions[s])}
            \/ kind # "touch" /\ versions' = [versions EXCEPT ![s] = Append(versions[s], h)]
         /\ events' = [n \in Nodes |->
               IF Delivers(n, s, kind)
                  THEN Append(events[n], [source |-> s, kind |-> kind, at |-> Len(versions'[s])])
                  ELSE events[n]]
         /\ missed' = IF kind = "touch" \/ h = NoHash THEN missed ELSE missed \cup
               {p \in registered : Source(p) = s /\ p.node \in up /\ ~Delivers(p.node, s, kind)}
    BY UpsertFacts
<1>2. PICK e : e = [source |-> s, kind |-> kind, at |-> Len(versions'[s])]
    OBVIOUS
<1>3. ASSUME NEW t \in Sources, NEW k \in DOMAIN versions[t]
      PROVE  k \in DOMAIN versions'[t] /\ versions'[t][k] = versions[t][k]
    <2>1. CASE versions' = versions
        BY <1>3, <2>1
    <2>2. CASE versions' = [versions EXCEPT ![s] = Append(versions[s], h)]
        <3>1. /\ versions'[s] = Append(versions[s], h) /\ (t # s => versions'[t] = versions[t])
            BY <2>2, Typed
        <3>2. \A i \in DOMAIN versions[s] : i \in DOMAIN Append(versions[s], h)
                                            /\ Append(versions[s], h)[i] = versions[s][i]
            BY AppendFacts, Typed
        <3> QED
            BY <1>3, <3>1, <3>2
    <2> QED
        BY <1>1, <2>1, <2>2
<1>4. ASSUME NEW t \in Sources, NEW k \in DOMAIN versions'[t], k \notin DOMAIN versions[t]
      PROVE  /\ t = s /\ k = Len(versions'[s]) /\ versions'[s][k] = h /\ kind # "touch"
    <2>1. kind # "touch" /\ versions' = [versions EXCEPT ![s] = Append(versions[s], h)]
        BY <1>1, <1>4
    <2>2. versions'[s] = Append(versions[s], h) /\ (t # s => versions'[t] = versions[t])
        BY <2>1, Typed
    <2>3. /\ DOMAIN versions[s] = 1 .. Len(versions[s]) /\ Len(versions[s]) \in Nat
          /\ DOMAIN versions'[s] = 1 .. (Len(versions[s]) + 1)
          /\ versions'[s][Len(versions[s]) + 1] = h /\ Len(versions'[s]) = Len(versions[s]) + 1
        BY <2>2, AppendFacts, Typed
    <2> QED
        BY <1>4, <2>1, <2>2, <2>3
<1>5. Busy \subseteq Busy' /\ missed \subseteq missed'
    BY <1>1 DEF Busy
<1>6. \A q \in registered : Source(q)' = Source(q) /\ Source(q) \in Sources /\ q.node \in Nodes
    BY Typed DEF TypeOK, Source
<1>7. ASSUME NEW n \in Nodes, NEW t \in Sources, NEW key \in recent'[n], key.repo = t.repo
      PROVE  \E j \in DOMAIN versions'[t] :
                /\ versions'[t][j] = key.hash
                /\ \A p \in registered' : p.node = n /\ Source(p) = t =>
                      p \in Busy' \/ \A m \in 1 .. j : versions'[t][m] <= tried'[p]
    <2>1. PICK j \in DOMAIN versions[t] :
             /\ versions[t][j] = key.hash
             /\ \A p \in registered : p.node = n /\ Source(p) = t =>
                   p \in Busy \/ \A m \in 1 .. j : versions[t][m] <= tried[p]
        BY <1>7 DEF RecentInv
    <2>2. \A m \in 1 .. j : m \in DOMAIN versions[t] /\ versions'[t][m] = versions[t][m]
        BY <1>3, Typed
    <2>3. j \in DOMAIN versions'[t] /\ versions'[t][j] = key.hash
        BY <1>3, <2>1
    <2> QED
        BY <1>5, <2>1, <2>2, <2>3
<1>8. RecentInv'
    BY <1>7 DEF RecentInv
<1>9. ASSUME NEW n \in Nodes, NEW i \in DOMAIN events[n]
      PROVE  i \in DOMAIN events'[n] /\ events'[n][i] = events[n][i]
    <2>1. events'[n] \in {events[n], Append(events[n], e)} /\ events[n] \in Seq(Event)
        BY <1>1, <1>2, Typed
    <2>2. e \in Event
        <3>1. Len(versions'[s]) \in Nat
            <4>1. versions' \in [Sources -> Seq(0 .. MaxCommits)]
                BY UpsertTyped DEF DocumentOK
            <4> QED
                BY <4>1
        <3> QED
            BY <1>2, <3>1 DEF Event
    <2> QED
        BY <1>9, <2>1, <2>2, AppendFacts
<1>10. ASSUME NEW p \in registered', p.node \in up', p \notin Busy',
              NEW k \in DOMAIN versions'[Source(p)], ~ (versions'[Source(p)][k] <= tried'[p])
       PROVE  \E i \in DOMAIN events'[p.node] :
                 events'[p.node][i].source = Source(p) /\ events'[p.node][i].at = k
    <2>1. p \in registered /\ p.node \in up /\ p \notin Busy /\ Source(p) \in Sources /\ p.node \in Nodes
        BY <1>5, <1>6, <1>10
    <2>2. CASE k \in DOMAIN versions[Source(p)]
        <3>1. Coming(p, k)
            BY <1>3, <1>10, <2>1, <2>2 DEF LagInv
        <3> QED
            BY <1>9, <2>1, <3>1 DEF Coming
    <2>3. CASE k \notin DOMAIN versions[Source(p)]
        <3>1. Source(p) = s /\ k = Len(versions'[s]) /\ versions'[s][k] = h /\ kind # "touch"
            BY <1>4, <1>10, <2>1, <2>3
        <3>2. h # NoHash
            <4>1. tried[p] \in 0 .. MaxCommits
                BY <2>1 DEF TypeOK
            <4> QED
                BY <1>10, <3>1, <4>1 DEF NoHash
        <3>3. p \notin missed'
            BY <1>10 DEF Busy
        <3>4. Delivers(p.node, s, kind)
            BY <1>1, <2>1, <3>1, <3>2, <3>3
        <3>5. events'[p.node] = Append(events[p.node], e)
            BY <1>1, <1>2, <2>1, <3>4
        <3>6. /\ Len(events[p.node]) + 1 \in DOMAIN events'[p.node]
              /\ events'[p.node][Len(events[p.node]) + 1] = e
            <4>1. events[p.node] \in Seq(Event)
                BY <2>1, Typed
            <4>2. Len(events[p.node]) + 1 \in 1 .. (Len(events[p.node]) + 1)
                BY <4>1
            <4> QED
                BY <3>5, <4>1, <4>2
        <3> QED
            BY <1>2, <3>1, <3>6
    <2> QED
        BY <2>2, <2>3
<1>11. LagInv'
    BY <1>10 DEF LagInv, Coming, Source
<1> QED
    BY <1>8, <1>11

\* A node takes the next event of its stream.
LEMMA ReceiveStep ==
    ASSUME OneBranch, TypeOK, CommitsInv, RecentInv, LagInv, NEW n \in Nodes, Receive(n)
    PROVE  RecentInv' /\ LagInv'
<1>1. PICK e : e = Head(events[n])
    OBVIOUS
<1>2. PICK hash \in Lookup(e), lost \in SUBSET Hosts(n, e.source.repo) :
         LET key == [repo |-> e.source.repo, hash |-> hash]
         IN  IF hash # NoHash /\ IsRecent(key, recent[n])
                THEN recent' = recent /\ requested' = requested /\ missed' = missed
                ELSE /\ recent' = [recent EXCEPT ![n] = Remember(key, @)]
                     /\ requested' = requested \cup (Hosts(n, e.source.repo) \ lost)
                     /\ missed' = missed \cup lost
    BY <1>1 DEF Receive
<1>3. PICK key : key = [repo |-> e.source.repo, hash |-> hash]
    OBVIOUS
<1>4. PICK s : s = e.source
    OBVIOUS
<1>5. /\ UNCHANGED <<tip, versions, up, registered, creating, tried>>
      /\ events' = [events EXCEPT ![n] = Tail(events[n])] /\ events[n] # <<>>
    BY DEF Receive, rows
<1>6. /\ e \in Event /\ s \in Sources /\ e.at \in DOMAIN versions[s]
      /\ \A i \in DOMAIN events[n] : events[n][i] = e \/ \E j \in DOMAIN events'[n] : events'[n][j] = events[n][i]
    <2>1. events[n] \in Seq(Event)
        BY Typed
    <2>2. e = events[n][1] /\ 1 \in DOMAIN events[n] /\ events'[n] = Tail(events[n])
        BY <1>1, <1>5, <2>1, TailFacts, Typed
    <2>3. \A i \in DOMAIN events[n] : i = 1 \/ \E j \in DOMAIN events'[n] : events'[n][j] = events[n][i]
        <3>1. \A i \in DOMAIN events[n] :
                 i = 1 \/ (i - 1 \in DOMAIN Tail(events[n]) /\ Tail(events[n])[i - 1] = events[n][i])
            BY <1>5, <2>1, TailFacts
        <3> QED
            BY <2>2, <3>1
    <2>4. e \in Event /\ e.at \in DOMAIN versions[e.source]
        BY <2>2, Typed DEF TypeOK
    <2> QED
        BY <1>4, <2>2, <2>3, <2>4 DEF Event
<1>7. PICK j \in DOMAIN versions[s] : versions[s][j] = hash /\ e.at <= j
    <2>1. \A i \in e.at .. Len(versions[s]) : i \in DOMAIN versions[s] /\ e.at <= i
        BY <1>6, Typed
    <2> QED
        BY <1>2, <1>4, <1>6, <2>1, Typed DEF Lookup
\* Every project of n and s is busy, or has tried what the event announces.
<1>8. ASSUME NEW p \in registered, p.node = n, Source(p) = s
      PROVE  p \in Busy' \/ \A m \in 1 .. j : versions[s][m] <= tried[p]
    <2>1. CASE hash # NoHash /\ key \in recent[n]
        <3>1. PICK l \in DOMAIN versions[s] :
                 /\ versions[s][l] = hash
                 /\ p \in Busy \/ \A m \in 1 .. l : versions[s][m] <= tried[p]
            BY <1>3, <1>4, <1>6, <1>8, <2>1 DEF RecentInv
        <3>2. l = j
            BY <1>6, <1>7, <3>1 DEF CommitsInv
        <3>3. Busy \subseteq Busy'
            BY <1>2, <1>5 DEF Busy
        <3> QED
            BY <3>1, <3>2, <3>3
    <2>2. CASE ~ (hash # NoHash /\ key \in recent[n])
        <3>1. /\ requested' = requested \cup (Hosts(n, e.source.repo) \ lost)
              /\ missed' = missed \cup lost
            BY <1>2, <1>3, <2>2 DEF IsRecent
        <3>2. p \in Hosts(n, e.source.repo)
            BY <1>4, <1>8, Typed DEF Hosts, Hosted, At, TypeOK
        <3> QED
            BY <3>1, <3>2 DEF Busy
    <2> QED
        BY <2>1, <2>2
<1>9. Busy \subseteq Busy'
    BY <1>2, <1>5 DEF Busy
<1>10. ASSUME NEW m \in Nodes, NEW k \in recent'[m]
       PROVE  k \in recent[m] \/ (m = n /\ k = key)
    <2>1. recent' = recent \/ recent' = [recent EXCEPT ![n] = Remember(key, @)]
        BY <1>2, <1>3
    <2> QED
        BY <1>10, <2>1 DEF Remember, TypeOK
<1>11. ASSUME NEW m \in Nodes, NEW t \in Sources, NEW k \in recent'[m], k.repo = t.repo
       PROVE  \E i \in DOMAIN versions'[t] :
                 /\ versions'[t][i] = k.hash
                 /\ \A p \in registered' : p.node = m /\ Source(p) = t =>
                       p \in Busy' \/ \A l \in 1 .. i : versions'[t][l] <= tried'[p]
    <2>1. CASE k \in recent[m]
        <3>1. PICK i \in DOMAIN versions[t] :
                 /\ versions[t][i] = k.hash
                 /\ \A p \in registered : p.node = m /\ Source(p) = t =>
                       p \in Busy \/ \A l \in 1 .. i : versions[t][l] <= tried[p]
            BY <1>11, <2>1 DEF RecentInv
        <3> QED
            BY <1>5, <1>9, <3>1
    <2>2. CASE m = n /\ k = key
        <3>1. t = s
            BY <1>3, <1>4, <1>6, <1>11, <2>2, SameSource
        <3> QED
            BY <1>3, <1>5, <1>7, <1>8, <2>2, <3>1
    <2> QED
        BY <1>10, <1>11, <2>1, <2>2
<1>12. RecentInv'
    BY <1>11 DEF RecentInv
<1>13. ASSUME NEW p \in registered', p.node \in up', p \notin Busy',
              NEW k \in DOMAIN versions[Source(p)], ~ (versions[Source(p)][k] <= tried'[p])
       PROVE  \E i \in DOMAIN events'[p.node] :
                 events'[p.node][i].source = Source(p) /\ events'[p.node][i].at = k
    <2>1. p \in registered /\ p.node \in up /\ p \notin Busy
        BY <1>5, <1>9, <1>13
    <2>2. PICK i \in DOMAIN events[p.node] :
             events[p.node][i].source = Source(p) /\ events[p.node][i].at = k
        BY <1>5, <1>13, <2>1 DEF LagInv, Coming
    <2>3. CASE p.node # n
        BY <1>5, <2>2, <2>3, Typed
    <2>4. CASE p.node = n /\ events[n][i] # e
        BY <1>6, <2>2, <2>4
    <2>5. CASE p.node = n /\ events[n][i] = e
        <3>1. Source(p) = s /\ k = e.at
            BY <1>4, <2>2, <2>5
        <3>2. k \in 1 .. j
            BY <1>6, <1>7, <3>1, Typed
        <3> QED
            BY <1>5, <1>8, <1>13, <2>1, <2>5, <3>1, <3>2
    <2> QED
        BY <2>3, <2>4, <2>5
<1>14. LagInv'
    BY <1>5, <1>13 DEF LagInv, Coming, Source
<1> QED
    BY <1>12, <1>14

\* The steps that a project does not notice: it stays busy, or where it is.
LEMMA StaysOrBusy ==
    ASSUME NEW p \in registered, tried'[p] = tried[p], p.node \in up' => p.node \in up,
           Busy \subseteq Busy', EventsKept(p)
    PROVE  p \in Busy' \/ Stays(p)
BY DEF Stays

LEMMA EventsUntouched ==
    ASSUME NEW p, events'[p.node] = events[p.node] PROVE EventsKept(p)
BY DEF EventsKept

\* Nothing changes for the nodes.
LEMMA ForgeStep ==
    ASSUME TypeOK, RecentInv, LagInv,
           UNCHANGED <<versions, up, recent, events, registered, tried>>, Busy \subseteq Busy'
    PROVE  RecentInv' /\ LagInv'
<1>1. \A p \in registered : p \in Busy' \/ Stays(p)
    BY EventsUntouched, StaysOrBusy
<1> QED
    BY <1>1, QuietStep DEF TypeOK

LEMMA BreakStep ==
    ASSUME TypeOK, RecentInv, LagInv, NEW n \in Nodes, StreamBreaks(n)
    PROVE  RecentInv' /\ LagInv'
<1>1. /\ UNCHANGED <<versions, up, recent, registered, tried, requested, creating>>
      /\ events' = [events EXCEPT ![n] = <<>>]
      /\ missed' = missed \cup
            {p \in Hosted(n) : \E i \in DOMAIN events[n] : events[n][i].source = Source(p)}
    BY DEF StreamBreaks, rows
<1>2. Busy \subseteq Busy'
    BY <1>1 DEF Busy
<1>3. ASSUME NEW p \in registered PROVE p \in Busy' \/ Stays(p)
    <2>1. CASE p.node # n
        BY <1>1, <1>2, <2>1, EventsUntouched, StaysOrBusy
    <2>2. CASE p.node = n /\ \E i \in DOMAIN events[n] : events[n][i].source = Source(p)
        <3>1. p \in Hosted(n)
            BY <2>2 DEF Hosted, At, TypeOK
        <3> QED
            BY <1>1, <2>2, <3>1 DEF Busy
    <2>3. CASE p.node = n /\ ~ (\E i \in DOMAIN events[n] : events[n][i].source = Source(p))
        <3>1. EventsKept(p)
            BY <2>3 DEF EventsKept
        <3> QED
            BY <1>1, <1>2, <3>1, StaysOrBusy
    <2> QED
        BY <2>1, <2>2, <2>3
<1> QED
    BY <1>1, <1>3, QuietStep DEF TypeOK

LEMMA CrashStep ==
    ASSUME TypeOK, RecentInv, LagInv, NEW n \in Nodes, Crash(n)
    PROVE  RecentInv' /\ LagInv'
<1>1. /\ UNCHANGED <<versions, registered, tried>> /\ up' = up \ {n}
      /\ events' = [events EXCEPT ![n] = <<>>] /\ recent' = [recent EXCEPT ![n] = {}]
      /\ requested' = requested \ At(n) /\ creating' = creating \ At(n) /\ missed' = missed \ At(n)
    BY DEF Crash
<1>2. recent'[n] = {} /\ \A m \in Nodes : recent'[m] \subseteq recent[m]
    BY <1>1 DEF TypeOK
<1>3. ASSUME NEW p \in registered
      PROVE  p \in Busy' \/ Stays(p) \/ (p.node \notin up' /\ recent'[p.node] = {})
    <2>1. CASE p.node = n
        BY <1>1, <1>2, <2>1
    <2>2. CASE p.node # n
        <3>1. p \in Busy => p \in Busy'
            BY <1>1, <2>2 DEF Busy, At
        <3> QED
            BY <1>1, <2>2, <3>1, EventsUntouched DEF Stays
    <2> QED
        BY <2>1, <2>2
<1> QED
    BY <1>1, <1>2, <1>3, QuietStep DEF TypeOK

LEMMA BootStep ==
    ASSUME TypeOK, RecentInv, LagInv, NEW n \in Nodes, Boot(n)
    PROVE  RecentInv' /\ LagInv'
<1>1. /\ UNCHANGED <<versions, recent, events, registered, creating, tried, missed>>
      /\ up' = up \cup {n} /\ requested' = requested \cup Hosted(n)
    BY DEF Boot, rows
<1>2. Busy \subseteq Busy'
    BY <1>1 DEF Busy
<1>3. ASSUME NEW p \in registered PROVE p \in Busy' \/ Stays(p)
    <2>1. CASE p.node = n
        BY <1>1, <2>1 DEF Hosted, At, Busy, TypeOK
    <2>2. CASE p.node # n
        BY <1>1, <1>2, <2>2, EventsUntouched, StaysOrBusy
    <2> QED
        BY <2>1, <2>2
<1> QED
    BY <1>1, <1>3, QuietStep DEF TypeOK

LEMMA DeployStep ==
    ASSUME TypeOK, CommitsInv, RecentInv, LagInv, NEW p \in Projects, Deploy(p)
    PROVE  RecentInv' /\ LagInv'
<1>1. /\ UNCHANGED <<versions, recent, events, registered, creating, up>>
      /\ requested' = requested \ {p} /\ missed' = missed \ {p}
      /\ tried' = [tried EXCEPT ![p] = tip[Source(p)]]
    BY DEF Deploy, fleet, rows
<1>2. tried'[p] = tip[Source(p)] /\ Source(p) \in Sources
    BY <1>1, Typed DEF TypeOK
<1>3. \A k \in DOMAIN versions[Source(p)] : versions[Source(p)][k] <= tried'[p]
    BY <1>2 DEF CommitsInv
<1>4. ASSUME NEW q \in registered, q # p PROVE q \in Busy' \/ Stays(q)
    <2>1. q \in Busy => q \in Busy'
        BY <1>1, <1>4 DEF Busy
    <2>2. tried'[q] = tried[q]
        BY <1>1, <1>4 DEF TypeOK
    <2> QED
        BY <1>1, <2>1, <2>2, EventsUntouched DEF Stays
<1> QED
    BY <1>1, <1>3, <1>4, QuietStep DEF TypeOK

LEMMA CreateStep ==
    ASSUME TypeOK, CommitsInv, RecentInv, LagInv, NEW p \in Projects, FinishCreate(p)
    PROVE  RecentInv' /\ LagInv'
<1>1. /\ UNCHANGED <<recent, registered, up, tried>>
      /\ requested' = requested \cup {p} /\ creating' = creating \ {p}
    BY DEF FinishCreate, fleet
<1>2. CASE Upsert(Source(p), NoHash)
    <2>1. Source(p) \in Sources /\ NoHash \in 0 .. MaxCommits
        BY Typed, BoundsAssumption DEF NoHash
    <2>2. requested \cup creating \subseteq requested' \cup creating'
        BY <1>1
    <2> QED
        BY <1>1, <1>2, <2>1, <2>2, UpsertStep
<1>3. CASE UNCHANGED <<versions, events, missed>>
    <2>1. Busy \subseteq Busy'
        BY <1>1, <1>3 DEF Busy
    <2> QED
        BY <1>1, <1>3, <2>1, ForgeStep
<1> QED
    BY <1>2, <1>3 DEF FinishCreate

LEMMA RowsStep ==
    ASSUME TypeOK, RecentInv, LagInv, NEW p \in Projects,
           Register(p) \/ Delete(p) \/ Pin(p) \/ Unpin(p)
    PROVE  RecentInv' /\ LagInv'
<1>1. UNCHANGED <<versions, recent, events, up, requested, tried>>
    BY DEF Register, Delete, Pin, Unpin, fleet
<1>2. CASE Register(p)
    <2>1. registered' = registered \cup {p} /\ p \in creating' /\ Busy \subseteq Busy'
        BY <1>1, <1>2 DEF Register, Busy
    <2>2. \A q \in registered : q \in Busy' \/ Stays(q)
        BY <1>1, <2>1, EventsUntouched, StaysOrBusy
    <2>3. \A q \in registered' : q \in Busy' \/ Stays(q)
        BY <2>1, <2>2 DEF Busy
    <2> QED
        BY <1>1, <2>1, <2>3, QuietStep DEF TypeOK
<1>3. CASE Delete(p)
    <2>1. registered' = registered \ {p} /\ creating' = creating /\ missed' = missed \ {p}
        BY <1>3 DEF Delete
    <2>2. \A q \in registered' : q \in Busy' \/ Stays(q)
        <3> SUFFICES ASSUME NEW q \in registered' PROVE q \in Busy' \/ Stays(q)
            OBVIOUS
        <3>1. q \in registered /\ (q \in Busy => q \in Busy')
            BY <1>1, <2>1 DEF Busy
        <3> QED
            BY <1>1, <3>1, EventsUntouched DEF Stays
    <2> QED
        BY <1>1, <2>1, <2>2, QuietStep DEF TypeOK
<1>4. CASE Pin(p) \/ Unpin(p)
    <2>1. registered' = registered /\ creating' = creating /\ missed' = missed
        BY <1>4 DEF Pin, Unpin
    <2> QED
        BY <1>1, <2>1, ForgeStep DEF Busy
<1> QED
    BY <1>2, <1>3, <1>4

LEMMA NextKeepsLag ==
    ASSUME OneBranch, TypeOK, CommitsInv, RecentInv, LagInv, [Next]_vars
    PROVE  RecentInv' /\ LagInv'
<1>1. CASE UNCHANGED vars
    <2>1. UNCHANGED <<versions, up, recent, events, registered, tried, requested, creating, missed>>
        BY <1>1 DEF vars
    <2> QED
        BY <2>1, ForgeStep DEF Busy
<1>2. ASSUME \/ \E s \in Sources : Push(s)
             \/ \E h \in hooks : LoseWebhook(h) \/ Webhook(h)
             \/ \E w \in writers : UpdateFails(w)
             \/ \E n \in Nodes : OpenStream(n)
      PROVE  RecentInv' /\ LagInv'
    <2>1. UNCHANGED <<versions, up, recent, events, registered, tried, requested, creating, missed>>
        BY <1>2 DEF Push, LoseWebhook, Webhook, UpdateFails, OpenStream, fleet, rows
    <2> QED
        BY <2>1, ForgeStep DEF Busy
<1>3. ASSUME NEW w \in writers, UpdateCommitHash(w) PROVE RecentInv' /\ LagInv'
    <2>1. w.source \in Sources /\ w.hash \in 0 .. MaxCommits /\ NewVersion(w.source, w.hash)
        BY DEF TypeOK, Message, CommitsInv, NewVersion
    <2>2. /\ UNCHANGED <<registered, up, tried, recent, requested, creating>>
          /\ Upsert(w.source, w.hash)
        BY <1>3 DEF UpdateCommitHash, fleet, rows
    <2> QED
        BY <2>1, <2>2, UpsertStep
<1>4. ASSUME NEW n \in Nodes, Forget(n) PROVE RecentInv' /\ LagInv'
    <2>1. UNCHANGED <<versions, up, events, registered, tried, requested, creating, missed>>
        BY <1>4 DEF Forget, rows
    <2>2. \A m \in Nodes : recent'[m] \subseteq recent[m]
        BY <1>4 DEF Forget, TypeOK
    <2>3. \A p \in registered : p \in Busy' \/ Stays(p)
        BY <2>1, EventsUntouched, StaysOrBusy DEF Busy
    <2> QED
        BY <2>1, <2>2, <2>3, QuietStep DEF TypeOK
<1> QED
    BY <1>1, <1>2, <1>3, <1>4, BreakStep, ReceiveStep, CrashStep, BootStep, DeployStep, CreateStep,
       RowsStep DEF Next

-----------------------------------------------------------------------------

\* Messages, versions, events, the guard and the rows keep their types, in
\* every fleet: also with several branches and gateways per repository.
THEOREM TypeCorrect == Spec => []TypeOK
BY InitTyped, NextTyped, PTL DEF Spec

\* Whatever webhooks, writes, streams and nodes fail, and in whatever order
\* commits are written, a project that is behind a commit of its document has
\* a deployment coming (mongo.go:223-276), in every fleet with one branch and
\* one gateway per repository.
THEOREM LagsAreScheduled ==
    ASSUME OneBranch, OneGateway
    PROVE  Spec => []LagIsScheduled
<1> DEFINE Inv == TypeOK /\ CommitsInv /\ RecentInv /\ LagInv
<1>1. Init => Inv
    <2> SUFFICES ASSUME Init PROVE Inv
        OBVIOUS
    <2>1. hooks = {} /\ writers = {} /\ \A n \in Nodes : recent[n] = {}
        BY DEF Init
    <2>2. \A s \in Sources : DOMAIN versions[s] = {}
        BY DEF Init
    <2>3. \A p \in registered : Source(p) \in Sources
        BY InitTyped, Typed DEF TypeOK
    <2> QED
        BY <2>1, <2>2, <2>3, InitTyped DEF CommitsInv, RecentInv, LagInv
<1>2. Inv /\ [Next]_vars => Inv'
    <2> SUFFICES ASSUME TypeOK, CommitsInv, RecentInv, LagInv, [Next]_vars PROVE Inv'
        OBVIOUS
    <2>1. TypeOK'
        BY NextTyped
    <2>2. CommitsInv'
        BY NextKeepsCommits
    <2>3. RecentInv' /\ LagInv'
        BY NextKeepsLag
    <2> QED
        BY <2>1, <2>2, <2>3
<1>3. Inv => LagIsScheduled
    <2> SUFFICES ASSUME Inv, NEW p \in registered, p.node \in up,
                        NEW c \in Written(Source(p)), tried[p] < c,
                        p \notin requested \cup creating \cup missed
                 PROVE  Announced(p)
        BY DEF LagIsScheduled
    <2>1. PICK k \in DOMAIN versions[Source(p)] : c = versions[Source(p)][k]
        BY DEF Written, ToSet
    <2>2. tried[p] \in 0 .. MaxCommits /\ c \in 0 .. MaxCommits
        BY <2>1, Typed DEF TypeOK
    <2>3. Coming(p, k)
        BY <2>1, <2>2 DEF LagInv, Busy
    <2> QED
        BY <2>3 DEF Coming, Announced
<1> HIDE DEF Inv
<1> QED
    BY <1>1, <1>2, <1>3, PTL DEF Spec

=============================================================================
