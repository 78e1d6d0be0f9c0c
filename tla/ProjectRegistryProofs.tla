------------------------- MODULE ProjectRegistryProofs -------------------------
(***************************************************************************)
(* Theorems about ProjectRegistry for any number of handlers, projects and *)
(* requests.  All of them come from the inductive invariant RegistryInv.   *)
(***************************************************************************)
EXTENDS ProjectRegistry, SequenceTheorems, FiniteSetTheorems, TLAPS

-----------------------------------------------------------------------------
(* The inductive invariant.                                                *)

\* A handler that works on a project, and one whose project is to come.
Holding == {"check", "write", "enqueue", "stop", "delete"}

Holds(t) == calls[t].at \in Holding

Registering(t) == calls[t].at = "register"

Creating == {t \in Threads : calls[t].at \in {"resolve", "place", "register"}}

\* What a handler carries along.
CallOK(t) ==
    /\ calls[t].at \in Positions
    /\ calls[t].at = "idle" => calls[t] = Idle
    /\ Holds(t) => calls[t].id \in 1 .. nextId - 1 /\ {"at", "id", "cfg"} \subseteq DOMAIN calls[t]
    /\ ~Holds(t) => calls[t].id = 0
    /\ Holds(t) \/ Registering(t) =>
          calls[t].cfg \in Config /\ calls[t].cfg.dir \in folders
    /\ calls[t].at \in {"resolve", "place"} =>
          calls[t].req \in CreateRequests /\ {"at", "id", "req", "base"} \subseteq DOMAIN calls[t]

\* Every handler that creates a project has an id to come.
CallsInv ==
    /\ DOMAIN calls = Threads
    /\ \A t \in Threads : CallOK(t)
    /\ IsFiniteSet(Creating)
    /\ used \in 0 .. MaxCalls
    /\ nextId + Cardinality(Creating) <= used + 1

RowsInv == \A r \in rows : r.id \in 1 .. nextId - 1 /\ r.cfg.dir \in folders

JobsInv == \A j \in jobs : j.cfg.dir \in folders

\* The names given so far are numbered, and no folder is a codebase.
Names(n) == (0 .. n) \cup {Codebase}

FoldersInv ==
    /\ IsFiniteSet(folders) /\ Cardinality(folders) <= MaxDirs
    /\ \A d \in folders :
          /\ d \in Seq(Names(Cardinality(folders)))
          /\ Len(d) >= 2 /\ d[Len(d)] # Codebase

\* The projects that have a directory or that a handler means to be there.
Claimed(d) ==
    {r.id : r \in {r \in rows : r.cfg.dir = d}}
       \cup {calls[t].id : t \in {t \in Threads : Holds(t) /\ calls[t].cfg.dir = d}}

\* A directory is of one project for ever.
OwnerInv == \A d \in folders : \A i, j \in Claimed(d) : i = j

\* A directory that is about to be registered: nothing is inside it, it is
\* inside no project, and nobody else has it.
FreshOK(t) ==
    /\ \A d \in folders : IsPrefix(calls[t].cfg.dir, d) => d = calls[t].cfg.dir
    /\ Claimed(calls[t].cfg.dir) = {}
    /\ \A r \in rows : r.id \notin overlapped => ~IsPrefix(r.cfg.dir, calls[t].cfg.dir)
    /\ \A u \in Threads : Registering(u) /\ u # t => calls[u].cfg.dir # calls[t].cfg.dir

FreshInv == \A t \in Threads : Registering(t) => FreshOK(t)

\* A handler that is alone with its project finds it where it was.
AloneInv ==
    /\ \A t, u \in Threads :
          t # u /\ Holds(t) /\ calls[t].id = calls[u].id => calls[t].id \in overlapped
    /\ \A t \in Threads :
          Holds(t) /\ calls[t].id \notin overlapped =>
             \E r \in rows : r.id = calls[t].id /\ r.cfg.dir = calls[t].cfg.dir

\* What runs or will run has a project, or its directory was left behind.
LeftInv ==
    /\ \A j \in jobs : j.cfg.dir \in Dirs \cup left
    /\ \A t \in Threads : calls[t].at = "enqueue" => calls[t].cfg.dir \in Dirs \cup left
    /\ \A t \in Threads :
          /\ calls[t].at = "delete"
          /\ calls[t].id \notin overlapped /\ calls[t].cfg.dir \notin left
          => /\ ~Deploying(calls[t].cfg.dir)
             /\ \A a \in apps : a.dir # calls[t].cfg.dir

Agrees(cfg, r) == cfg.own = r.cfg.own /\ cfg.key = r.cfg.key

Waits(dir) == \E j \in jobs : j.cfg.dir = dir /\ j.state = "pending"

\* The configuration of a row is also the one of the last of these there is:
\* a handler that will enqueue it, the request that waits, the deployment at
\* work, the application.
Announced(r) == \E t \in Threads : calls[t].at = "enqueue" /\ calls[t].id = r.id

SettledOK(r) ==
    /\ \A t \in Threads :
          calls[t].at = "enqueue" /\ calls[t].id = r.id => Agrees(calls[t].cfg, r)
    /\ ~Announced(r) =>
          \A j \in jobs :
             j.cfg.dir = r.cfg.dir /\ (j.state = "pending" \/ ~Waits(r.cfg.dir))
                => Agrees(j.cfg, r)
    /\ ~Announced(r) /\ ~Deploying(r.cfg.dir) /\ r.cfg.dir \notin stuck =>
          \A a \in apps : a.dir = r.cfg.dir => Agrees(a, r)

SettledInv == \A r \in rows : r.id \notin overlapped => SettledOK(r)

\* The base of a handler that creates a project has names given so far and is
\* in no directory about to be registered.  Once it was compared with the
\* table it is inside no project, also when the table has changed since.
PlacingOK(t) ==
    /\ calls[t].at \in {"resolve", "place"} =>
          /\ calls[t].base \in Seq(Names(Cardinality(folders)))
          /\ \A u \in Threads : Registering(u) => ~IsPrefix(calls[u].cfg.dir, calls[t].base)
    /\ calls[t].at = "place" =>
          /\ calls[t].base \notin Protected
          /\ \A r \in rows : r.id \notin overlapped => ~IsPrefix(r.cfg.dir, calls[t].base)

PlacingInv == \A t \in Threads : PlacingOK(t)

RegistryInv ==
    /\ TypeOK /\ CallsInv /\ RowsInv /\ JobsInv /\ FoldersInv
    /\ OwnerInv /\ FreshInv /\ AloneInv /\ DirsAreSeparate
    /\ LeftInv /\ AppsHaveProjects /\ SettledInv

-----------------------------------------------------------------------------
(* Paths.                                                                  *)

LEMMA PrefixMeans ==
    ASSUME NEW S, NEW s \in Seq(S), NEW t \in Seq(S)
    PROVE  IsPrefix(s, t) <=> Len(s) <= Len(t) /\ \A i \in 1 .. Len(s) : s[i] = t[i]
<1>1. Len(s) \in Nat /\ Len(t) \in Nat
    OBVIOUS
<1>2. ASSUME Len(s) <= Len(t)
      PROVE  SubSeq(t, 1, Len(s)) = s <=> \A i \in 1 .. Len(s) : s[i] = t[i]
    <2>1. /\ SubSeq(t, 1, Len(s)) \in Seq(S) /\ Len(SubSeq(t, 1, Len(s))) = Len(s)
          /\ \A i \in 1 .. Len(s) : SubSeq(t, 1, Len(s))[i] = t[i]
        BY <1>1, <1>2
    <2> QED
        BY <2>1
<1>3. SubSeq(s, 1, Len(s)) = s
    BY <1>1
<1> QED
    BY <1>1, <1>2, <1>3 DEF IsPrefix

\* What is inside Append(t, x) is that directory or what is inside t.
LEMMA PrefixOfAppend ==
    ASSUME NEW S, NEW s \in Seq(S), NEW t \in Seq(S), NEW x \in S, IsPrefix(s, Append(t, x))
    PROVE  s = Append(t, x) \/ IsPrefix(s, t)
<1> DEFINE u == Append(t, x)
<1>1. /\ u \in Seq(S) /\ Len(u) = Len(t) + 1 /\ \A i \in 1 .. Len(t) : u[i] = t[i]
      /\ Len(s) \in Nat /\ Len(t) \in Nat /\ IsPrefix(s, u)
    OBVIOUS
<1> HIDE DEF u
<1>2. Len(s) <= Len(t) + 1 /\ \A i \in 1 .. Len(s) : s[i] = u[i]
    BY <1>1, PrefixMeans
<1>3. CASE Len(s) = Len(t) + 1
    <2>1. s = u
        BY <1>1, <1>2, <1>3, SeqEqual
    <2> QED
        BY <2>1 DEF u
<1>4. CASE Len(s) <= Len(t)
    BY <1>1, <1>2, <1>4, PrefixMeans
<1> QED
    BY <1>1, <1>2, <1>3, <1>4

\* A path inside Append(t, x) has the name x.
LEMMA AppendIsPrefix ==
    ASSUME NEW S, NEW s \in Seq(S), NEW t \in Seq(S), NEW x \in S, IsPrefix(Append(t, x), s)
    PROVE  \E i \in 1 .. Len(s) : s[i] = x
<1> DEFINE u == Append(t, x)
<1>1. /\ u \in Seq(S) /\ Len(u) = Len(t) + 1 /\ u[Len(t) + 1] = x
      /\ Len(s) \in Nat /\ Len(t) \in Nat /\ IsPrefix(u, s)
    OBVIOUS
<1> HIDE DEF u
<1>2. Len(t) + 1 <= Len(s) /\ \A i \in 1 .. Len(t) + 1 : u[i] = s[i]
    BY <1>1, PrefixMeans
<1>3. s[Len(t) + 1] = x /\ Len(t) + 1 \in 1 .. Len(s)
    BY <1>1, <1>2
<1> QED
    BY <1>3

LEMMA SeqOfMore ==
    ASSUME NEW S, NEW T, S \subseteq T, NEW s \in Seq(S)
    PROVE  s \in Seq(T)
<1>1. s \in [1 .. Len(s) -> T] /\ Len(s) \in Nat
    OBVIOUS
<1> QED
    BY <1>1

-----------------------------------------------------------------------------
(* What the actions do, in the terms of the invariant.                     *)

LEMMA SentTyped == ASSUME NEW S, NEW f \in S \cup {Unsent}, NEW d \in S PROVE Sent(f, d) \in S
BY DEF Sent

LEMMA ToConfigTyped ==
    ASSUME NEW r, r.cfg \in Config
    PROVE  /\ ToConfig(r) \in Config /\ ToConfig(r).dir = r.cfg.dir
           /\ ToConfig(r).own = r.cfg.own /\ ToConfig(r).key = r.cfg.key
BY BoundsAssumption DEF ToConfig, Config

LEMMA ChangedTyped ==
    ASSUME NEW cfg \in Config, NEW q \in UpdateRequests
    PROVE  Changed(cfg, q) \in Config /\ Changed(cfg, q).dir = cfg.dir
<1>1. /\ q.key \in Keys \cup {Unsent} /\ q.port \in Ports \cup {Unsent}
      /\ q.shared \in Values \cup {Empty, Unsent} /\ q.own \in Values \cup {Empty, Unsent}
    BY RequestsAssumption
<1>2. /\ cfg.key \in Keys /\ cfg.dir \in Seq(0 .. Codebase) /\ cfg.port \in Ports \cup {GatewayPort}
      /\ cfg.shared \in Values \cup {Empty} /\ cfg.own \in Values \cup {Empty}
    BY DEF Config
<1> QED
    BY <1>1, <1>2 DEF Changed, Config, Sent

\* One handler goes on, the others stay where they are; two handlers that now
\* have the same project are noted.
LEMMA GoesOnFacts ==
    ASSUME RegistryInv, NEW t \in Threads, NEW c, GoesOn(t, c)
    PROVE  /\ DOMAIN calls' = Threads /\ calls'[t] = c
           /\ \A u \in Threads : u # t => calls'[u] = calls[u]
           /\ overlapped \subseteq overlapped'
           /\ \A u, v \in Threads : u # v /\ calls'[u].id = calls'[v].id /\ calls'[u].id \in 1 .. nextId
                                       => calls'[u].id \in overlapped'
           /\ \A i \in overlapped' : i \in overlapped \/ \E u \in Threads : calls'[u].id = i /\ i \in 1 .. nextId
<1>1. DOMAIN calls = Threads
    BY DEF RegistryInv, CallsInv
<1>2. DOMAIN calls' = Threads /\ calls'[t] = c /\ \A u \in Threads : u # t => calls'[u] = calls[u]
    BY <1>1 DEF GoesOn
<1>3. overlapped' = overlapped \cup Shared(calls')
    BY DEF GoesOn
<1> QED
    BY <1>2, <1>3 DEF Shared

LEMMA CountCreating ==
    ASSUME RegistryInv, NEW t \in Threads, NEW c, GoesOn(t, c)
    PROVE  /\ IsFiniteSet(Creating') /\ Cardinality(Creating) \in Nat /\ Cardinality(Creating') \in Nat
           /\ Cardinality(Creating') <= Cardinality(Creating) + 1
           /\ (c.at \notin {"resolve", "place", "register"} \/ calls[t].at \in {"resolve", "place", "register"})
                 => Cardinality(Creating') <= Cardinality(Creating)
           /\ (c.at \notin {"resolve", "place", "register"} /\ calls[t].at \in {"resolve", "place", "register"})
                 => Cardinality(Creating') + 1 = Cardinality(Creating)
<1>1. IsFiniteSet(Creating) /\ Cardinality(Creating) \in Nat
    BY FS_CardinalityType DEF RegistryInv, CallsInv
<1>2. calls'[t] = c /\ \A u \in Threads : u # t => calls'[u] = calls[u]
    BY GoesOnFacts
<1>3. CASE c.at \in {"resolve", "place", "register"} /\ calls[t].at \in {"resolve", "place", "register"}
    <2>1. Creating' = Creating
        BY <1>2, <1>3 DEF Creating
    <2> QED
        BY <1>1, <1>3, <2>1
<1>4. CASE c.at \in {"resolve", "place", "register"} /\ calls[t].at \notin {"resolve", "place", "register"}
    <2>1. Creating' = Creating \cup {t} /\ t \notin Creating
        BY <1>2, <1>4 DEF Creating
    <2>2. IsFiniteSet(Creating') /\ Cardinality(Creating') = Cardinality(Creating) + 1
        BY <1>1, <2>1, FS_AddElement
    <2> QED
        BY <1>1, <1>4, <2>2
<1>5. CASE c.at \notin {"resolve", "place", "register"} /\ calls[t].at \in {"resolve", "place", "register"}
    <2>1. Creating' = Creating \ {t} /\ t \in Creating
        BY <1>2, <1>5 DEF Creating
    <2>2. IsFiniteSet(Creating') /\ Cardinality(Creating') = Cardinality(Creating) - 1
        BY <1>1, <2>1, FS_RemoveElement
    <2>3. Cardinality(Creating') \in Nat
        BY <2>2, FS_CardinalityType
    <2> QED
        BY <1>1, <1>5, <2>2, <2>3
<1>6. CASE c.at \notin {"resolve", "place", "register"} /\ calls[t].at \notin {"resolve", "place", "register"}
    <2>1. Creating' = Creating
        BY <1>2, <1>6 DEF Creating
    <2> QED
        BY <1>1, <1>6, <2>1
<1> QED
    BY <1>3, <1>4, <1>5, <1>6

\* The types of what a step of a handler changes among the handlers.
LEMMA CallsTyped ==
    ASSUME RegistryInv, NEW t \in Threads, NEW c, GoesOn(t, c), CallOK(t)',
           folders \subseteq folders', used' \in 0 .. MaxCalls,
           \/ /\ nextId' = nextId /\ used' = used
              /\ (c.at \notin {"resolve", "place", "register"} \/ calls[t].at \in {"resolve", "place", "register"})
           \/ nextId' = nextId /\ used' = used + 1
           \/ /\ nextId' = nextId + 1 /\ used' = used
              /\ c.at \notin {"resolve", "place", "register"} /\ calls[t].at \in {"resolve", "place", "register"}
    PROVE  /\ CallsInv'
           /\ nextId' \in 1 .. MaxCalls + 1
           /\ \A u \in Threads : calls'[u].at \in Positions /\ calls'[u].id \in 0 .. MaxCalls
           /\ overlapped' \subseteq 1 .. MaxCalls
<1>1. /\ DOMAIN calls' = Threads /\ calls'[t] = c
      /\ \A u \in Threads : u # t => calls'[u] = calls[u]
    BY GoesOnFacts
<1>2. /\ nextId \in Nat /\ nextId >= 1 /\ used \in Nat /\ MaxCalls \in Nat /\ used' \in Nat /\ used' <= MaxCalls
      /\ nextId + Cardinality(Creating) <= used + 1
      /\ overlapped \subseteq 1 .. MaxCalls
    BY BoundsAssumption DEF RegistryInv, TypeOK, CallsInv
<1>3. IsFiniteSet(Creating') /\ nextId' + Cardinality(Creating') <= used' + 1
    BY <1>2, CountCreating
<1>4. nextId' \in 1 .. MaxCalls + 1 /\ nextId' >= nextId
    BY <1>2, <1>3, CountCreating
<1>5. ASSUME NEW u \in Threads PROVE CallOK(u)'
    <2>1. CASE u = t
        BY <2>1
    <2>2. CASE u # t
        <3>1. CallOK(u) /\ calls'[u] = calls[u]
            BY <1>1, <2>2 DEF RegistryInv, CallsInv
        <3> QED
            BY <1>2, <1>4, <3>1 DEF CallOK, Holds, Registering, Holding
    <2> QED
        BY <2>1, <2>2
<1>6. CallsInv'
    BY <1>1, <1>3, <1>5 DEF CallsInv
<1>7. \A u \in Threads : calls'[u].at \in Positions /\ calls'[u].id \in 0 .. nextId' - 1
    BY <1>2, <1>4, <1>5 DEF CallOK, Holds
<1>8. \A u \in Threads : calls'[u].id \in 0 .. MaxCalls
    BY <1>2, <1>4, <1>7
<1>9. ASSUME NEW i \in overlapped' PROVE i \in 1 .. MaxCalls
    <2>1. CASE i \in overlapped
        BY <1>2, <2>1
    <2>2. CASE \E u \in Threads : calls'[u].id = i /\ i \in 1 .. nextId
        <3>1. i \in 0 .. MaxCalls /\ i \in 1 .. nextId
            BY <1>8, <2>2
        <3> QED
            BY <1>2, <3>1
    <2> QED
        BY <2>1, <2>2, GoesOnFacts
<1> QED
    BY <1>4, <1>6, <1>7, <1>8, <1>9

LEMMA KeyRows ==
    ASSUME RegistryInv, NEW k
    PROVE  RowsWithKey(k) = {} \/ \E r \in rows : RowsWithKey(k) = {r} /\ r.cfg.key = k
BY DEF RegistryInv, TypeOK, RowsWithKey

\* The row r takes the configuration cfg, whose key no other row has.
Replaces(r, cfg) ==
    /\ r \in rows
    /\ \A s \in rows : s.cfg.key = cfg.key => s = r
    /\ rows' = (rows \ {r}) \cup {[id |-> r.id, cfg |-> cfg]}

LEMMA RegisterFacts ==
    ASSUME RegistryInv, NEW t \in Threads, Register(t)
    PROVE  /\ Registering(t)
           /\ UNCHANGED <<folders, jobs, apps, stuck, used>>
           /\ \/ /\ \A s \in rows : s.cfg.key # calls[t].cfg.key
                 /\ rows' = rows \cup {[id |-> nextId, cfg |-> calls[t].cfg]}
                 /\ left' = left /\ nextId' = nextId + 1
                 /\ GoesOn(t, [at |-> "enqueue", id |-> nextId, cfg |-> calls[t].cfg])
              \/ \E r \in rows :
                    /\ Replaces(r, calls[t].cfg)
                    /\ left' = left \cup {r.cfg.dir} /\ nextId' = nextId
                    /\ GoesOn(t, [at |-> "enqueue", id |-> r.id, cfg |-> calls[t].cfg])
<1> DEFINE cfg == calls[t].cfg
           old == RowsWithKey(cfg.key)
<1>1. Registering(t) /\ UNCHANGED <<folders, jobs, apps, stuck, used>>
    BY DEF Register, Registering
<1>2. CASE old = {}
    <2>1. \A s \in rows : s.cfg.key # cfg.key
        BY <1>2 DEF RowsWithKey
    <2>2. /\ rows' = rows \cup {[id |-> nextId, cfg |-> cfg]}
          /\ left' = left /\ nextId' = nextId + 1
          /\ GoesOn(t, [at |-> "enqueue", id |-> nextId, cfg |-> cfg])
        BY <1>2 DEF Register
    <2> QED
        BY <1>1, <2>1, <2>2
<1>3. ASSUME NEW r \in rows, old = {r}, r.cfg.key = cfg.key
      PROVE  /\ Replaces(r, cfg)
             /\ left' = left \cup {r.cfg.dir} /\ nextId' = nextId
             /\ GoesOn(t, [at |-> "enqueue", id |-> r.id, cfg |-> cfg])
    <2>1. (CHOOSE x \in old : TRUE) = r /\ {x.cfg.dir : x \in old} = {r.cfg.dir} /\ old # {}
        BY <1>3
    <2>2. \A s \in rows : s.cfg.key = cfg.key => s = r
        BY <1>3 DEF RowsWithKey
    <2>3. /\ rows' = (rows \ old) \cup {[id |-> (CHOOSE x \in old : TRUE).id, cfg |-> cfg]}
          /\ left' = left \cup {x.cfg.dir : x \in old}
          /\ nextId' = nextId
          /\ GoesOn(t, [at |-> "enqueue", id |-> (CHOOSE x \in old : TRUE).id, cfg |-> cfg])
        BY <2>1 DEF Register
    <2> HIDE DEF old, cfg
    <2> QED
        BY <1>3, <2>1, <2>2, <2>3 DEF Replaces
<1>4. old = {} \/ \E r \in rows : old = {r} /\ r.cfg.key = cfg.key
    BY KeyRows
<1> QED
    BY <1>1, <1>2, <1>3, <1>4

LEMMA WriteFacts ==
    ASSUME RegistryInv, NEW t \in Threads, Write(t)
    PROVE  /\ calls[t].at = "write"
           /\ UNCHANGED <<nextId, folders, jobs, apps, stuck, used>>
           /\ \/ UNCHANGED <<rows, left>> /\ GoesOn(t, Idle)
              \/ /\ left' = left \cup Abandoned(calls[t].id, calls[t].cfg.dir)
                 /\ GoesOn(t, [at |-> "enqueue", id |-> calls[t].id, cfg |-> calls[t].cfg])
                 /\ \/ calls[t].id \notin Ids /\ rows' = rows
                    \/ \E r \in rows : r.id = calls[t].id /\ Replaces(r, calls[t].cfg)
<1> DEFINE cfg == calls[t].cfg
           id == calls[t].id
<1>1. calls[t].at = "write" /\ UNCHANGED <<nextId, folders, jobs, apps, stuck, used>>
    BY DEF Write
<1>2. \/ UNCHANGED <<rows, left>> /\ GoesOn(t, Idle)
      \/ /\ ~ (id \in Ids /\ \E r \in RowsWithKey(cfg.key) : r.id # id)
         /\ rows' = {r \in rows : r.id # id} \cup (IF id \in Ids THEN {[id |-> id, cfg |-> cfg]} ELSE {})
         /\ left' = left \cup Abandoned(id, cfg.dir)
         /\ GoesOn(t, [at |-> "enqueue", id |-> id, cfg |-> cfg])
    BY DEF Write
<1> HIDE DEF cfg, id
<1>3. ASSUME id \notin Ids, rows' = {r \in rows : r.id # id} \cup (IF id \in Ids THEN {[id |-> id, cfg |-> cfg]} ELSE {})
      PROVE  rows' = rows
    BY <1>3 DEF Ids
<1>4. ASSUME id \in Ids, ~ (id \in Ids /\ \E r \in RowsWithKey(cfg.key) : r.id # id),
             rows' = {r \in rows : r.id # id} \cup (IF id \in Ids THEN {[id |-> id, cfg |-> cfg]} ELSE {})
      PROVE  \E r \in rows : r.id = id /\ Replaces(r, cfg)
    <2>1. PICK r \in rows : r.id = id
        BY <1>4 DEF Ids
    <2>2. \A s \in rows : s.id = id => s = r
        BY <2>1 DEF RegistryInv, TypeOK
    <2>3. \A s \in rows : s.cfg.key = cfg.key => s = r
        BY <1>4, <2>2 DEF RowsWithKey
    <2>4. {s \in rows : s.id # id} = rows \ {r}
        BY <2>1, <2>2
    <2>5. rows' = (rows \ {r}) \cup {[id |-> r.id, cfg |-> cfg]}
        BY <1>4, <2>1, <2>4
    <2> QED
        BY <2>1, <2>3, <2>5 DEF Replaces
<1> QED
    BY <1>1, <1>2, <1>3, <1>4 DEF cfg, id

-----------------------------------------------------------------------------
(* Steps that keep the directories: no folder is made and no project gets  *)
(* a directory that it or its handler did not have.                        *)

Has(R, i, d) == \E r \in R : r.id = i /\ r.cfg.dir = d

Keeps(t, c) ==
    /\ GoesOn(t, c)
    /\ folders' = folders /\ nextId' = nextId
    /\ c.at # "register"
    /\ \A s \in rows' : s.id \in Claimed(s.cfg.dir)
    /\ \A s \in rows' : s.id \notin overlapped => Has(rows, s.id, s.cfg.dir)
    /\ \A r \in rows : r.id \notin overlapped /\ r.id # calls[t].id => Has(rows', r.id, r.cfg.dir)
    /\ c.at \in Holding =>
          /\ c.id \in Claimed(c.cfg.dir)
          /\ c.id \notin overlapped' => Has(rows', c.id, c.cfg.dir)

\* Two handlers of one project are noted.
LEMMA AloneOrNoted ==
    ASSUME RegistryInv, NEW t \in Threads, NEW c, GoesOn(t, c), CallsInv', nextId' \in {nextId, nextId + 1},
           NEW u \in Threads, NEW v \in Threads, u # v, Holds(u)', calls'[u].id = calls'[v].id
    PROVE  calls'[u].id \in overlapped'
<1>1. calls'[u].id \in 1 .. nextId' - 1
    BY DEF CallsInv, CallOK
<1>2. nextId \in Nat
    BY DEF RegistryInv, TypeOK
<1>3. calls'[u].id \in 1 .. nextId
    BY <1>1, <1>2
<1> QED
    BY <1>3, GoesOnFacts

LEMMA KeepsClaims ==
    ASSUME RegistryInv, NEW t \in Threads, NEW c, Keeps(t, c), NEW d
    PROVE  Claimed(d)' \subseteq Claimed(d)
<1>1. ASSUME NEW s \in rows', s.cfg.dir = d PROVE s.id \in Claimed(d)
    BY <1>1 DEF Keeps
<1>2. ASSUME NEW u \in Threads, Holds(u)', calls'[u].cfg.dir = d PROVE calls'[u].id \in Claimed(d)
    <2>1. /\ calls'[t] = c /\ \A v \in Threads : v # t => calls'[v] = calls[v]
        BY GoesOnFacts DEF Keeps
    <2>2. CASE u = t
        BY <1>2, <2>1, <2>2 DEF Keeps, Holds
    <2>3. CASE u # t
        BY <1>2, <2>1, <2>3 DEF Holds, Claimed
    <2> QED
        BY <2>2, <2>3
<1> QED
    BY <1>1, <1>2 DEF Claimed

LEMMA KeepsProtects ==
    ASSUME RegistryInv, NEW t \in Threads, NEW c, Keeps(t, c), CallsInv'
    PROVE  FoldersInv' /\ OwnerInv' /\ FreshInv' /\ AloneInv' /\ DirsAreSeparate'
<1>1. /\ calls'[t] = c /\ \A v \in Threads : v # t => calls'[v] = calls[v]
      /\ overlapped \subseteq overlapped' /\ folders' = folders /\ c.at # "register"
      /\ GoesOn(t, c) /\ nextId' = nextId
    BY GoesOnFacts DEF Keeps
<1>2. FoldersInv'
    BY <1>1 DEF RegistryInv, FoldersInv, Names
<1>3. OwnerInv'
    BY <1>1, KeepsClaims DEF RegistryInv, OwnerInv
<1>4. \A s \in rows' : s.id \notin overlapped' =>
          s.id \notin overlapped /\ \E r \in rows : r.id = s.id /\ r.cfg.dir = s.cfg.dir
    BY <1>1 DEF Keeps, Has
<1>5. ASSUME NEW u \in Threads, Registering(u)' PROVE FreshOK(u)'
    <2>1. u # t /\ calls'[u] = calls[u] /\ Registering(u)
        BY <1>1, <1>5 DEF Registering
    <2>2. FreshOK(u)
        BY <2>1 DEF RegistryInv, FreshInv
    <2>3. \A d \in folders' : IsPrefix(calls'[u].cfg.dir, d) => d = calls'[u].cfg.dir
        BY <1>1, <2>1, <2>2 DEF FreshOK
    <2>4. Claimed(calls[u].cfg.dir)' = {}
        <3>1. Claimed(calls[u].cfg.dir) = {}
            BY <2>2 DEF FreshOK
        <3>2. PICK d : d = calls[u].cfg.dir
            OBVIOUS
        <3>3. Claimed(d)' = {}
            BY <3>1, <3>2, KeepsClaims
        <3> QED
            BY <2>1, <3>2, <3>3
    <2>5. \A r \in rows' : r.id \notin overlapped' => ~IsPrefix(r.cfg.dir, calls'[u].cfg.dir)
        BY <1>4, <2>1, <2>2 DEF FreshOK
    <2>6. \A v \in Threads : Registering(v)' /\ v # u => calls'[v].cfg.dir # calls'[u].cfg.dir
        BY <1>1, <2>1, <2>2 DEF FreshOK, Registering
    <2> QED
        BY <2>1, <2>3, <2>4, <2>5, <2>6 DEF FreshOK
<1>6. AloneInv'
    <2>1. ASSUME NEW u \in Threads, NEW v \in Threads, u # v, Holds(u)', calls'[u].id = calls'[v].id
          PROVE  calls'[u].id \in overlapped'
        BY <1>1, <2>1, AloneOrNoted
    <2>2. ASSUME NEW u \in Threads, Holds(u)', calls'[u].id \notin overlapped'
          PROVE  \E r \in rows' : r.id = calls'[u].id /\ r.cfg.dir = calls'[u].cfg.dir
        <3>1. CASE u = t
            BY <1>1, <2>2, <3>1 DEF Keeps, Has, Holds
        <3>2. CASE u # t
            <4>1. calls'[u] = calls[u] /\ Holds(u) /\ calls[u].id \notin overlapped
                BY <1>1, <2>2, <3>2 DEF Holds
            <4>2. calls[u].id # calls[t].id
                BY <3>2, <4>1 DEF RegistryInv, AloneInv
            <4>3. PICK r \in rows : r.id = calls[u].id /\ r.cfg.dir = calls[u].cfg.dir
                BY <4>1 DEF RegistryInv, AloneInv
            <4>4. Has(rows', r.id, r.cfg.dir)
                BY <4>1, <4>2, <4>3 DEF Keeps
            <4> QED
                BY <4>1, <4>3, <4>4 DEF Has
        <3> QED
            BY <3>1, <3>2
    <2> QED
        BY <2>1, <2>2 DEF AloneInv
<1>7. DirsAreSeparate'
    <2> SUFFICES ASSUME NEW r \in rows', NEW s \in rows', r.id # s.id,
                        r.id \notin overlapped', s.id \notin overlapped'
                 PROVE  ~IsPrefix(r.cfg.dir, s.cfg.dir)
        BY DEF DirsAreSeparate
    <2>1. PICK r0 \in rows : r0.id = r.id /\ r0.cfg.dir = r.cfg.dir
        BY <1>4
    <2>2. PICK s0 \in rows : s0.id = s.id /\ s0.cfg.dir = s.cfg.dir
        BY <1>4
    <2>3. r.id \notin overlapped /\ s.id \notin overlapped
        BY <1>1
    <2> QED
        BY <2>1, <2>2, <2>3 DEF RegistryInv, DirsAreSeparate
<1> QED
    BY <1>2, <1>3, <1>5, <1>6, <1>7 DEF FreshInv

\* The call of a handler, and what it works on: its project or one of the table.
Works(t, c) ==
    /\ c.at \in Holding
    /\ c.cfg \in Config
    /\ {"at", "id", "cfg"} \subseteq DOMAIN c
    /\ \/ Holds(t) /\ c.id = calls[t].id /\ c.cfg.dir = calls[t].cfg.dir
       \/ \E r \in rows : c.id = r.id /\ c.cfg.dir = r.cfg.dir

\* A handler that looks for the directory of a project to be created.
Resolves(c) ==
    /\ c.at \in {"resolve", "place"} /\ c.id = 0 /\ c.req \in CreateRequests
    /\ {"at", "id", "req", "base"} \subseteq DOMAIN c

\* Steps of a handler that leave the table and the folders alone.
Moves(t, c) ==
    /\ GoesOn(t, c)
    /\ rows' = rows /\ nextId' = nextId /\ folders' = folders /\ stuck' = stuck
    /\ \/ used' = used /\ c.at # "resolve" /\ (c.at = "place" => calls[t].at = "resolve")
       \/ used' = used + 1 /\ used < MaxCalls
    /\ \/ c = Idle
       \/ Resolves(c)
       \/ Works(t, c)

LEMMA MovesCalls ==
    ASSUME RegistryInv, NEW t \in Threads, NEW c, Moves(t, c)
    PROVE  /\ CallsInv'
           /\ nextId' \in 1 .. MaxCalls + 1
           /\ \A u \in Threads : calls'[u].at \in Positions /\ calls'[u].id \in 0 .. MaxCalls
           /\ overlapped' \subseteq 1 .. MaxCalls
<1>1. GoesOn(t, c) /\ nextId' = nextId /\ folders' = folders /\ calls'[t] = c
    BY GoesOnFacts DEF Moves
<1>2. used \in 0 .. MaxCalls /\ MaxCalls \in Nat
    BY BoundsAssumption DEF RegistryInv, CallsInv
<1>3. used' \in 0 .. MaxCalls
    BY <1>2 DEF Moves
<1>4. CallOK(t)'
    <2>1. CASE c = Idle
        BY <1>1, <2>1 DEF CallOK, Idle, Positions, Holds, Holding, Registering
    <2>2. CASE Resolves(c)
        BY <1>1, <2>2 DEF Resolves, CallOK, Positions, Holds, Holding, Registering
    <2>3. CASE Works(t, c)
        <3>1. c.id \in 1 .. nextId - 1 /\ c.cfg.dir \in folders
            BY <2>3 DEF Works, RegistryInv, CallsInv, CallOK, RowsInv
        <3> QED
            BY <1>1, <2>3, <3>1 DEF Works, CallOK, Positions, Holds, Holding, Registering
    <2> QED
        BY <2>1, <2>2, <2>3 DEF Moves
<1>5. c.at # "register"
    BY DEF Moves, Works, Holding, Idle, Resolves
<1>6. \/ /\ nextId' = nextId /\ used' = used
         /\ c.at \notin {"resolve", "place", "register"} \/ calls[t].at \in {"resolve", "place", "register"}
      \/ nextId' = nextId /\ used' = used + 1
    BY <1>1, <1>5 DEF Moves
<1> QED
    BY <1>1, <1>3, <1>4, <1>6, CallsTyped

LEMMA MovesKeeps ==
    ASSUME RegistryInv, NEW t \in Threads, NEW c, Moves(t, c)
    PROVE  Keeps(t, c)
<1>1. /\ GoesOn(t, c) /\ nextId' = nextId /\ folders' = folders /\ rows' = rows
      /\ overlapped \subseteq overlapped'
    BY GoesOnFacts DEF Moves
<1>2. c.at # "register" /\ (c.at \in Holding => Works(t, c))
    BY DEF Moves, Works, Holding, Idle, Resolves
<1>3. \A s \in rows' : s.id \in Claimed(s.cfg.dir)
    BY <1>1 DEF Claimed
<1>4. ASSUME c.at \in Holding
      PROVE  c.id \in Claimed(c.cfg.dir) /\ (c.id \notin overlapped' => Has(rows', c.id, c.cfg.dir))
    <2>1. CASE Holds(t) /\ c.id = calls[t].id /\ c.cfg.dir = calls[t].cfg.dir
        <3>1. c.id \in Claimed(c.cfg.dir)
            BY <2>1 DEF Claimed
        <3>2. c.id \notin overlapped => Has(rows, c.id, c.cfg.dir)
            BY <2>1 DEF RegistryInv, AloneInv, Has
        <3> QED
            BY <1>1, <3>1, <3>2
    <2>2. CASE \E r \in rows : c.id = r.id /\ c.cfg.dir = r.cfg.dir
        BY <1>1, <2>2 DEF Claimed, Has
    <2> QED
        BY <1>2, <1>4, <2>1, <2>2 DEF Works
<1> QED
    BY <1>1, <1>2, <1>3, <1>4 DEF Keeps, Has

\* The types of what a handler's step without a change of the table leaves.
LEMMA MovesTyped ==
    ASSUME RegistryInv, NEW t \in Threads, NEW c, Moves(t, c),
           jobs' \subseteq [cfg : Config, state : {"running", "pending"}], JobsInv',
           apps' \subseteq apps, left' \subseteq folders
    PROVE  /\ TypeOK' /\ CallsInv' /\ RowsInv' /\ JobsInv'
           /\ FoldersInv' /\ OwnerInv' /\ FreshInv' /\ AloneInv' /\ DirsAreSeparate'
<1>1. rows' = rows /\ folders' = folders /\ stuck' = stuck /\ nextId' = nextId
    BY DEF Moves
<1>2. TypeOK'
    BY <1>1, MovesCalls DEF RegistryInv, TypeOK
<1>3. RowsInv'
    BY <1>1 DEF RegistryInv, RowsInv
<1> QED
    BY <1>2, <1>3, MovesCalls, MovesKeeps, KeepsProtects

-----------------------------------------------------------------------------
(* The steps of the handlers that neither change the table nor have to do  *)
(* with the queue.                                                         *)

QuietMove(t, c) ==
    /\ Moves(t, c)
    /\ calls[t].at # "enqueue" /\ c.at # "enqueue"
    /\ jobs' = jobs /\ apps' \subseteq apps
    /\ left \subseteq left' /\ left' \subseteq folders
    /\ c.at = "delete" =>
          /\ Deploying(c.cfg.dir) => c.cfg.dir \in left'
          /\ \A a \in apps' : a.dir # c.cfg.dir

\* A handler that goes on keeps its project.
LEMMA GoesOnWorks ==
    ASSUME RegistryInv, NEW t \in Threads, Holds(t), NEW p \in Holding
    PROVE  /\ Works(t, [calls[t] EXCEPT !.at = p]) /\ [calls[t] EXCEPT !.at = p].at = p
           /\ [calls[t] EXCEPT !.at = p].cfg = calls[t].cfg
<1> DEFINE c == [calls[t] EXCEPT !.at = p]
<1>1. CallOK(t)
    BY DEF RegistryInv, CallsInv
<1>2. {"at", "id", "cfg"} \subseteq DOMAIN calls[t] /\ calls[t].cfg \in Config
    BY <1>1 DEF CallOK
<1>3. c.at = p /\ c.id = calls[t].id /\ c.cfg = calls[t].cfg /\ DOMAIN c = DOMAIN calls[t]
    BY <1>2
<1> HIDE DEF c
<1>4. Works(t, c)
    BY <1>2, <1>3 DEF Works
<1> QED
    BY <1>3, <1>4 DEF c

LEMMA QuietSteps ==
    ASSUME RegistryInv, NEW t \in Threads,
           \/ Create(t) \/ Resolve(t) \/ ResolveFails(t)
           \/ Update(t) \/ CheckPort(t) \/ Delete(t) \/ StopApp(t)
           \/ /\ calls[t].at = "write" /\ GoesOn(t, Idle)
              /\ UNCHANGED <<rows, nextId, folders, jobs, apps, stuck, left, used>>
    PROVE  \E c : QuietMove(t, c)
<1>0. left \subseteq folders /\ rows \subseteq [id : 1 .. MaxCalls, cfg : Config]
    BY DEF RegistryInv, TypeOK
<1>1. CASE Create(t)
    <2>1. PICK q \in CreateRequests, base \in Bases :
             /\ Starts(t, [at |-> "resolve", id |-> 0, req |-> q, base |-> base])
             /\ UNCHANGED <<rows, nextId, folders, jobs, apps, stuck, left>>
        BY <1>1 DEF Create
    <2> DEFINE c == [at |-> "resolve", id |-> 0, req |-> q, base |-> base]
    <2>2. c.at = "resolve" /\ Resolves(c) /\ Starts(t, c)
        BY <2>1 DEF Resolves
    <2> HIDE DEF c
    <2>3. Moves(t, c) /\ calls[t].at = "idle"
        BY <2>1, <2>2 DEF Starts, Moves, Idle
    <2> QED
        BY <1>0, <2>1, <2>2, <2>3 DEF QuietMove
<1>8. CASE Resolve(t)
    <2> DEFINE c == [calls[t] EXCEPT !.at = "place"]
    <2>1. calls[t].at = "resolve" /\ UNCHANGED <<rows, nextId, folders, jobs, apps, stuck, left, used>> /\ GoesOn(t, c)
        BY <1>8 DEF Resolve
    <2>2. /\ calls[t].id = 0 /\ calls[t].req \in CreateRequests
          /\ {"at", "id", "req", "base"} \subseteq DOMAIN calls[t]
        BY <2>1 DEF RegistryInv, CallsInv, CallOK, Holds, Holding
    <2>3. c.at = "place" /\ Resolves(c)
        BY <2>2 DEF Resolves
    <2> HIDE DEF c
    <2>4. Moves(t, c)
        BY <2>1, <2>3 DEF Moves
    <2> QED
        BY <1>0, <2>1, <2>3, <2>4 DEF QuietMove
<1>2. CASE ResolveFails(t)
    <2>1. Moves(t, Idle)
        BY <1>2 DEF ResolveFails, Moves, Idle
    <2> QED
        BY <1>0, <1>2, <2>1 DEF QuietMove, ResolveFails, Idle
<1>3. CASE Update(t)
    <2>1. PICK r \in rows, q \in UpdateRequests :
             /\ Starts(t, [at |-> "check", id |-> r.id, req |-> q, cfg |-> Changed(ToConfig(r), q)])
             /\ UNCHANGED <<rows, nextId, folders, jobs, apps, stuck, left>>
        BY <1>3 DEF Update
    <2> DEFINE c == [at |-> "check", id |-> r.id, req |-> q, cfg |-> Changed(ToConfig(r), q)]
    <2>2. /\ c.at = "check" /\ c.id = r.id /\ c.cfg = Changed(ToConfig(r), q) /\ Starts(t, c)
          /\ {"at", "id", "cfg"} \subseteq DOMAIN c
        BY <2>1
    <2> HIDE DEF c
    <2>3. c.cfg \in Config /\ c.cfg.dir = r.cfg.dir
        BY <1>0, <2>2, ToConfigTyped, ChangedTyped
    <2>4. Works(t, c)
        BY <2>2, <2>3 DEF Works, Holding
    <2>5. Moves(t, c) /\ calls[t].at = "idle"
        BY <2>1, <2>2, <2>4 DEF Starts, Moves, Idle
    <2> QED
        BY <1>0, <2>1, <2>2, <2>5 DEF QuietMove
<1>4. CASE CheckPort(t)
    <2>0. Holds(t) /\ calls[t].at = "check" /\ UNCHANGED <<rows, nextId, folders, jobs, apps, stuck, left, used>>
        BY <1>4 DEF CheckPort, Holds, Holding
    <2>1. CASE GoesOn(t, Idle)
        <3>1. Moves(t, Idle)
            BY <2>0, <2>1 DEF Moves, Idle
        <3> QED
            BY <1>0, <2>0, <3>1 DEF QuietMove, Idle
    <2>2. CASE GoesOn(t, [calls[t] EXCEPT !.at = "write"])
        <3> DEFINE c == [calls[t] EXCEPT !.at = "write"]
        <3>1. Works(t, c) /\ c.at = "write" /\ GoesOn(t, c)
            BY <2>0, <2>2, GoesOnWorks DEF Holding
        <3> HIDE DEF c
        <3>2. Moves(t, c)
            BY <2>0, <3>1 DEF Moves
        <3> QED
            BY <1>0, <2>0, <3>1, <3>2 DEF QuietMove
    <2> QED
        BY <1>4, <2>1, <2>2 DEF CheckPort
<1>5. CASE Delete(t)
    <2>1. PICK r \in rows :
             /\ Starts(t, [at |-> "stop", id |-> r.id, cfg |-> r.cfg])
             /\ UNCHANGED <<rows, nextId, folders, jobs, apps, stuck, left>>
        BY <1>5 DEF Delete
    <2> DEFINE c == [at |-> "stop", id |-> r.id, cfg |-> r.cfg]
    <2>2. /\ c.at = "stop" /\ c.id = r.id /\ c.cfg = r.cfg /\ Starts(t, c)
          /\ {"at", "id", "cfg"} \subseteq DOMAIN c
        BY <2>1
    <2> HIDE DEF c
    <2>4. Works(t, c)
        BY <1>0, <2>2 DEF Works, Holding
    <2>5. Moves(t, c) /\ calls[t].at = "idle"
        BY <2>1, <2>2, <2>4 DEF Starts, Moves, Idle
    <2> QED
        BY <1>0, <2>1, <2>2, <2>5 DEF QuietMove
<1>6. CASE StopApp(t)
    <2> DEFINE c == [calls[t] EXCEPT !.at = "delete"]
    <2>1. Holds(t) /\ calls[t].at = "stop" /\ UNCHANGED <<rows, nextId, folders, jobs, stuck, used>> /\ GoesOn(t, c)
        BY <1>6 DEF StopApp, Holds, Holding
    <2>2. Works(t, c) /\ c.at = "delete" /\ c.cfg = calls[t].cfg
        BY <2>1, GoesOnWorks DEF Holding
    <2>3. /\ apps' = {a \in apps : a.dir # calls[t].cfg.dir}
          /\ left' = left \cup (IF Deploying(calls[t].cfg.dir) THEN {calls[t].cfg.dir} ELSE {})
        BY <1>6 DEF StopApp
    <2>4. calls[t].cfg.dir \in folders
        BY <2>1 DEF RegistryInv, CallsInv, CallOK
    <2> HIDE DEF c
    <2>5. Moves(t, c)
        BY <2>1, <2>2 DEF Moves
    <2> QED
        BY <1>0, <2>1, <2>2, <2>3, <2>4, <2>5 DEF QuietMove
<1>7. CASE /\ calls[t].at = "write" /\ GoesOn(t, Idle)
           /\ UNCHANGED <<rows, nextId, folders, jobs, apps, stuck, left, used>>
    <2>1. Moves(t, Idle)
        BY <1>7 DEF Moves, Idle
    <2> QED
        BY <1>0, <1>7, <2>1 DEF QuietMove, Idle
<1> QED
    BY <1>1, <1>2, <1>3, <1>4, <1>5, <1>6, <1>7, <1>8

\* The handlers that will enqueue a deployment of r are the same, the queue is
\* the same and no application was started: r is as settled as it was.
LEMMA SettledStays ==
    ASSUME NEW r, SettledOK(r), jobs' = jobs, apps' \subseteq apps, stuck' = stuck,
           \A u \in Threads :
              \/ calls'[u] = calls[u]
              \/ /\ ~(calls[u].at = "enqueue" /\ calls[u].id = r.id)
                 /\ ~(calls'[u].at = "enqueue" /\ calls'[u].id = r.id)
    PROVE  SettledOK(r)'
<1>1. Announced(r)' <=> Announced(r)
    BY DEF Announced
<1>2. \A u \in Threads : calls'[u].at = "enqueue" /\ calls'[u].id = r.id => Agrees(calls'[u].cfg, r)
    BY DEF SettledOK
<1>3. (Deploying(r.cfg.dir)' <=> Deploying(r.cfg.dir)) /\ (Waits(r.cfg.dir)' <=> Waits(r.cfg.dir))
    BY DEF Deploying, Waits
<1> QED
    BY <1>1, <1>2, <1>3 DEF SettledOK, Agrees

\* The only handler of s is about to enqueue the configuration of s.
LEMMA SettledNew ==
    ASSUME NEW s, NEW t \in Threads, calls'[t].at = "enqueue", calls'[t].id = s.id, Agrees(calls'[t].cfg, s),
           \A u \in Threads : u # t => calls'[u].id # s.id
    PROVE  SettledOK(s)'
<1>1. Announced(s)'
    BY DEF Announced
<1>2. \A u \in Threads : calls'[u].at = "enqueue" /\ calls'[u].id = s.id => Agrees(calls'[u].cfg, s)
    OBVIOUS
<1> QED
    BY <1>1, <1>2 DEF SettledOK, Agrees

LEMMA QuietPreserves ==
    ASSUME RegistryInv, NEW t \in Threads, NEW c, QuietMove(t, c)
    PROVE  RegistryInv'
<1>1. /\ Moves(t, c) /\ jobs' = jobs /\ apps' \subseteq apps /\ left \subseteq left' /\ left' \subseteq folders
      /\ calls[t].at # "enqueue" /\ c.at # "enqueue"
    BY DEF QuietMove
<1>2. GoesOn(t, c) /\ rows' = rows /\ folders' = folders /\ stuck' = stuck
    BY <1>1 DEF Moves
<1>3. /\ calls'[t] = c /\ \A v \in Threads : v # t => calls'[v] = calls[v]
      /\ overlapped \subseteq overlapped'
    BY <1>2, GoesOnFacts
<1>4. jobs' \subseteq [cfg : Config, state : {"running", "pending"}] /\ JobsInv'
    BY <1>1, <1>2 DEF RegistryInv, TypeOK, JobsInv
<1>5. /\ TypeOK' /\ CallsInv' /\ RowsInv' /\ JobsInv'
      /\ FoldersInv' /\ OwnerInv' /\ FreshInv' /\ AloneInv' /\ DirsAreSeparate'
    BY <1>1, <1>4, MovesTyped
<1>6. Dirs' = Dirs
    BY <1>2 DEF Dirs
<1>7. LeftInv'
    <2>1. \A j \in jobs' : j.cfg.dir \in Dirs' \cup left'
        BY <1>1, <1>6 DEF RegistryInv, LeftInv
    <2>2. ASSUME NEW u \in Threads, calls'[u].at = "enqueue" PROVE calls'[u].cfg.dir \in Dirs' \cup left'
        <3>1. calls'[u] = calls[u]
            BY <1>1, <1>3, <2>2
        <3> QED
            BY <1>1, <1>6, <2>2, <3>1 DEF RegistryInv, LeftInv
    <2>3. ASSUME NEW u \in Threads, calls'[u].at = "delete",
                 calls'[u].id \notin overlapped', calls'[u].cfg.dir \notin left'
          PROVE  /\ \A j \in jobs' : j.cfg.dir # calls'[u].cfg.dir
                 /\ \A a \in apps' : a.dir # calls'[u].cfg.dir
        <3>1. CASE u = t
            BY <1>1, <1>3, <2>3, <3>1 DEF QuietMove, Deploying
        <3>2. CASE u # t
            BY <1>1, <1>3, <2>3, <3>2 DEF RegistryInv, LeftInv, Deploying
        <3> QED
            BY <3>1, <3>2
    <2> QED
        BY <2>1, <2>2, <2>3 DEF LeftInv, Deploying
<1>8. AppsHaveProjects'
    BY <1>1, <1>6 DEF RegistryInv, AppsHaveProjects
<1>9. ASSUME NEW r \in rows', r.id \notin overlapped' PROVE SettledOK(r)'
    <2>1. SettledOK(r)
        BY <1>2, <1>3, <1>9 DEF RegistryInv, SettledInv
    <2> QED
        BY <1>1, <1>2, <1>3, <2>1, SettledStays
<1> QED
    BY <1>5, <1>7, <1>8, <1>9 DEF RegistryInv, SettledInv

-----------------------------------------------------------------------------
(* The request of a deployment, and its way into the queue.                *)

LEMMA ByHandPreserves ==
    ASSUME RegistryInv, NEW t \in Threads, DeployByHand(t)
    PROVE  RegistryInv'
<1>1. PICK r0 \in rows : /\ Starts(t, [at |-> "enqueue", id |-> r0.id, cfg |-> ToConfig(r0)])
                         /\ UNCHANGED <<rows, nextId, folders, jobs, apps, stuck, left>>
    BY DEF DeployByHand
<1> DEFINE c == [at |-> "enqueue", id |-> r0.id, cfg |-> ToConfig(r0)]
<1>2. /\ c.at = "enqueue" /\ c.id = r0.id /\ c.cfg = ToConfig(r0) /\ Starts(t, c)
      /\ {"at", "id", "cfg"} \subseteq DOMAIN c
    BY <1>1
<1> HIDE DEF c
<1>3. /\ c.cfg \in Config /\ c.cfg.dir = r0.cfg.dir /\ Agrees(c.cfg, r0)
    <2>1. r0.cfg \in Config
        BY DEF RegistryInv, TypeOK
    <2> QED
        BY <1>2, <2>1, ToConfigTyped DEF Agrees
<1>4. Moves(t, c) /\ calls[t].at = "idle"
    <2>1. Works(t, c)
        BY <1>2, <1>3 DEF Works, Holding
    <2> QED
        BY <1>1, <1>2, <2>1 DEF Starts, Moves, Idle
<1>5. /\ calls'[t] = c /\ \A v \in Threads : v # t => calls'[v] = calls[v]
      /\ overlapped \subseteq overlapped'
    BY <1>4, GoesOnFacts DEF Moves
<1>6. /\ TypeOK' /\ CallsInv' /\ RowsInv' /\ JobsInv'
      /\ FoldersInv' /\ OwnerInv' /\ FreshInv' /\ AloneInv' /\ DirsAreSeparate'
    <2>1. jobs' \subseteq [cfg : Config, state : {"running", "pending"}] /\ JobsInv'
          /\ apps' \subseteq apps /\ left' \subseteq folders
        BY <1>1 DEF RegistryInv, TypeOK, JobsInv
    <2> QED
        BY <1>4, <2>1, MovesTyped
<1>7. Dirs' = Dirs /\ r0.cfg.dir \in Dirs /\ left' = left /\ jobs' = jobs /\ apps' = apps /\ rows' = rows
      /\ stuck' = stuck
    BY <1>1 DEF Dirs
<1>8. LeftInv'
    <2>1. \A j \in jobs' : j.cfg.dir \in Dirs' \cup left'
        BY <1>7 DEF RegistryInv, LeftInv
    <2>2. ASSUME NEW u \in Threads, calls'[u].at = "enqueue" PROVE calls'[u].cfg.dir \in Dirs' \cup left'
        <3>1. CASE u = t
            BY <1>3, <1>5, <1>7, <3>1
        <3>2. CASE u # t
            BY <1>5, <1>7, <2>2, <3>2 DEF RegistryInv, LeftInv
        <3> QED
            BY <3>1, <3>2
    <2>3. ASSUME NEW u \in Threads, calls'[u].at = "delete",
                 calls'[u].id \notin overlapped', calls'[u].cfg.dir \notin left'
          PROVE  /\ \A j \in jobs' : j.cfg.dir # calls'[u].cfg.dir
                 /\ \A a \in apps' : a.dir # calls'[u].cfg.dir
        <3>1. u # t /\ calls'[u] = calls[u]
            BY <1>2, <1>5, <2>3
        <3> QED
            BY <1>5, <1>7, <2>3, <3>1 DEF RegistryInv, LeftInv, Deploying
    <2> QED
        BY <2>1, <2>2, <2>3 DEF LeftInv, Deploying
<1>9. AppsHaveProjects'
    BY <1>7 DEF RegistryInv, AppsHaveProjects
<1>10. ASSUME NEW r \in rows', r.id \notin overlapped' PROVE SettledOK(r)'
    <2>1. SettledOK(r) /\ r \in rows
        BY <1>5, <1>7, <1>10 DEF RegistryInv, SettledInv
    <2>2. CASE r.id # r0.id
        BY <1>2, <1>4, <1>5, <1>7, <2>1, <2>2, SettledStays
    <2>3. CASE r.id = r0.id
        <3>1. r = r0
            BY <2>1, <2>3 DEF RegistryInv, TypeOK
        <3>2. \A u \in Threads : u # t => calls'[u].id # r.id
            <4> SUFFICES ASSUME NEW u \in Threads, u # t, calls'[u].id = r.id PROVE FALSE
                OBVIOUS
            <4>1. Holds(t)' /\ calls'[t].id = r.id /\ GoesOn(t, c) /\ nextId' = nextId
                BY <1>2, <1>4, <1>5, <2>3 DEF Holds, Holding, Moves
            <4>2. calls'[t].id \in overlapped'
                BY <1>6, <4>1, AloneOrNoted
            <4> QED
                BY <1>10, <4>1, <4>2
        <3> QED
            BY <1>2, <1>3, <1>5, <3>1, <3>2, SettledNew
    <2> QED
        BY <2>2, <2>3
<1> QED
    BY <1>6, <1>8, <1>9, <1>10 DEF RegistryInv, SettledInv

\* EnqueueDeployment leaves other directories alone; in its own it keeps the
\* deployment at work and replaces the one that waits.
LEMMA EnqueuedFacts ==
    ASSUME RegistryInv, NEW cfg \in Config
    PROVE  /\ Enqueued(cfg) \subseteq [cfg : Config, state : {"running", "pending"}]
           /\ \A j \in Enqueued(cfg) : j \in jobs \/ j.cfg = cfg
           /\ \A j : j.cfg.dir # cfg.dir => (j \in Enqueued(cfg) <=> j \in jobs)
           /\ \E j \in Enqueued(cfg) : j.cfg = cfg
           /\ \/ \A j \in Enqueued(cfg) : j.cfg.dir = cfg.dir => j.cfg = cfg
              \/ /\ \E j \in Enqueued(cfg) : j.cfg.dir = cfg.dir /\ j.state = "pending"
                 /\ \A j \in Enqueued(cfg) : j.cfg.dir = cfg.dir /\ j.state = "pending" => j.cfg = cfg
<1> DEFINE here == {j \in jobs : j.cfg.dir = cfg.dir}
           first == [cfg |-> cfg, state |-> "running"]
           next == [cfg |-> cfg, state |-> "pending"]
<1>1. jobs \subseteq [cfg : Config, state : {"running", "pending"}]
    BY DEF RegistryInv, TypeOK
<1>2. /\ first \in [cfg : Config, state : {"running", "pending"}] /\ first.cfg = cfg
      /\ next \in [cfg : Config, state : {"running", "pending"}] /\ next.cfg = cfg
      /\ first.state = "running" /\ next.state = "pending"
    OBVIOUS
<1>3. Enqueued(cfg) = IF here = {} THEN jobs \cup {first}
                      ELSE {j \in jobs : j \notin here \/ j.state = "running"} \cup {next}
    BY DEF Enqueued
<1> HIDE DEF first, next
<1>4. CASE here = {}
    BY <1>1, <1>2, <1>3, <1>4
<1>5. CASE here # {}
    <2>1. Enqueued(cfg) = {j \in jobs : j \notin here \/ j.state = "running"} \cup {next}
        BY <1>3, <1>5
    <2>2. \E j \in Enqueued(cfg) : j.cfg.dir = cfg.dir /\ j.state = "pending" /\ j.cfg = cfg
        BY <1>2, <2>1
    <2>3. \A j \in Enqueued(cfg) : j.cfg.dir = cfg.dir /\ j.state = "pending" => j.cfg = cfg
        BY <1>2, <2>1
    <2>4. /\ Enqueued(cfg) \subseteq [cfg : Config, state : {"running", "pending"}]
          /\ \A j \in Enqueued(cfg) : j \in jobs \/ j.cfg = cfg
        BY <1>1, <1>2, <2>1
    <2>5. \A j : j.cfg.dir # cfg.dir => (j \in Enqueued(cfg) <=> j \in jobs)
        BY <1>2, <2>1
    <2> QED
        BY <2>2, <2>3, <2>4, <2>5
<1> QED
    BY <1>4, <1>5

\* A directory in which two handlers, or a handler and a row, meet is theirs.
LEMMA SameOwner ==
    ASSUME RegistryInv, NEW d \in folders, NEW i \in Claimed(d), NEW j \in Claimed(d)
    PROVE  i = j
BY DEF RegistryInv, OwnerInv

LEMMA EnqueuePreserves ==
    ASSUME RegistryInv, NEW t \in Threads, Enqueue(t)
    PROVE  RegistryInv'
<1>1. PICK cfg : cfg = calls[t].cfg
    OBVIOUS
<1>2. /\ calls[t].at = "enqueue" /\ jobs' = Enqueued(cfg) /\ GoesOn(t, Idle)
      /\ rows' = rows /\ nextId' = nextId /\ folders' = folders /\ apps' = apps /\ stuck' = stuck
      /\ left' = left /\ used' = used
    BY <1>1 DEF Enqueue
<1>3. Holds(t) /\ cfg \in Config /\ cfg.dir \in folders
    <2>1. Holds(t) /\ CallOK(t)
        BY <1>2 DEF Holds, Holding, RegistryInv, CallsInv
    <2> QED
        BY <1>1, <2>1 DEF CallOK
<1>4. Moves(t, Idle)
    BY <1>2 DEF Moves, Idle
<1>5. /\ calls'[t] = Idle /\ \A v \in Threads : v # t => calls'[v] = calls[v]
      /\ overlapped \subseteq overlapped'
    BY <1>2, GoesOnFacts
<1>6. calls[t].id \in Claimed(cfg.dir)
    BY <1>1, <1>3 DEF Claimed
<1>7. /\ TypeOK' /\ CallsInv' /\ RowsInv' /\ JobsInv'
      /\ FoldersInv' /\ OwnerInv' /\ FreshInv' /\ AloneInv' /\ DirsAreSeparate'
    <2>1. jobs' \subseteq [cfg : Config, state : {"running", "pending"}]
        BY <1>2, <1>3, EnqueuedFacts
    <2>2. JobsInv'
        BY <1>2, <1>3, EnqueuedFacts DEF RegistryInv, JobsInv
    <2>3. apps' \subseteq apps /\ left' \subseteq folders
        BY <1>2 DEF RegistryInv, TypeOK
    <2> QED
        BY <1>4, <2>1, <2>2, <2>3, MovesTyped
<1>8. Dirs' = Dirs
    BY <1>2 DEF Dirs
<1>9. LeftInv'
    <2>1. ASSUME NEW j \in jobs' PROVE j.cfg.dir \in Dirs' \cup left'
        <3>1. j \in jobs \/ j.cfg = cfg
            BY <1>2, <1>3, EnqueuedFacts
        <3> QED
            BY <1>1, <1>2, <1>8, <3>1 DEF RegistryInv, LeftInv
    <2>2. ASSUME NEW u \in Threads, calls'[u].at = "enqueue" PROVE calls'[u].cfg.dir \in Dirs' \cup left'
        <3>1. calls'[u] = calls[u]
            BY <1>5, <2>2 DEF Idle
        <3> QED
            BY <1>2, <1>8, <2>2, <3>1 DEF RegistryInv, LeftInv
    <2>3. ASSUME NEW u \in Threads, calls'[u].at = "delete",
                 calls'[u].id \notin overlapped', calls'[u].cfg.dir \notin left'
          PROVE  /\ \A j \in jobs' : j.cfg.dir # calls'[u].cfg.dir
                 /\ \A a \in apps' : a.dir # calls'[u].cfg.dir
        <3>1. u # t /\ calls'[u] = calls[u] /\ Holds(u) /\ calls[u].id \notin overlapped
            BY <1>5, <2>3 DEF Idle, Holds, Holding
        <3>2. calls[u].id # calls[t].id
            BY <3>1 DEF RegistryInv, AloneInv
        <3>3. calls[u].cfg.dir # cfg.dir
            <4>1. calls[u].id \in Claimed(calls[u].cfg.dir)
                BY <3>1 DEF Claimed
            <4> QED
                BY <1>3, <1>6, <3>2, <4>1, SameOwner
        <3>4. \A j \in jobs' : j.cfg.dir = calls[u].cfg.dir => j \in jobs
            BY <1>2, <1>3, <3>3, EnqueuedFacts
        <3> QED
            BY <1>2, <2>3, <3>1, <3>4 DEF RegistryInv, LeftInv, Deploying
    <2> QED
        BY <2>1, <2>2, <2>3 DEF LeftInv, Deploying
<1>10. AppsHaveProjects'
    BY <1>2, <1>8 DEF RegistryInv, AppsHaveProjects
<1>11. ASSUME NEW r \in rows', r.id \notin overlapped' PROVE SettledOK(r)'
    <2>1. r \in rows /\ r.id \notin overlapped /\ SettledOK(r) /\ r.cfg.dir \in folders
        BY <1>2, <1>5, <1>11 DEF RegistryInv, SettledInv, RowsInv
    <2>2. r.id \in Claimed(r.cfg.dir)
        BY <2>1 DEF Claimed
    <2>3. CASE calls[t].id # r.id
        <3>1. r.cfg.dir # cfg.dir
            BY <1>3, <1>6, <2>2, <2>3, SameOwner
        <3>2. \A j : j.cfg.dir = r.cfg.dir => (j \in jobs' <=> j \in jobs)
            BY <1>2, <1>3, <3>1, EnqueuedFacts
        <3>3. \A u \in Threads : \/ calls'[u] = calls[u]
                                 \/ calls[u].id # r.id /\ calls'[u].at # "enqueue"
            BY <1>5, <2>3 DEF Idle
        <3>4. Announced(r)' <=> Announced(r)
            BY <3>3 DEF Announced
        <3>5. (Deploying(r.cfg.dir)' <=> Deploying(r.cfg.dir)) /\ (Waits(r.cfg.dir)' <=> Waits(r.cfg.dir))
            BY <3>2 DEF Deploying, Waits
        <3>6. \A u \in Threads : calls'[u].at = "enqueue" /\ calls'[u].id = r.id => Agrees(calls'[u].cfg, r)
            BY <2>1, <3>3 DEF SettledOK
        <3> QED
            BY <1>2, <2>1, <3>2, <3>4, <3>5, <3>6 DEF SettledOK, Agrees
    <2>4. CASE calls[t].id = r.id
        <3>1. Agrees(cfg, r)
            BY <1>1, <1>2, <2>1, <2>4 DEF SettledOK
        <3>2. r.cfg.dir = cfg.dir
            <4>1. PICK r0 \in rows : r0.id = calls[t].id /\ r0.cfg.dir = calls[t].cfg.dir
                BY <1>3, <2>1, <2>4 DEF RegistryInv, AloneInv
            <4>2. r0 = r
                BY <2>1, <2>4, <4>1 DEF RegistryInv, TypeOK
            <4> QED
                BY <1>1, <4>1, <4>2
        <3>3. \A u \in Threads : calls'[u].at = "enqueue" => calls'[u].id # r.id
            <4> SUFFICES ASSUME NEW u \in Threads, calls'[u].at = "enqueue", calls'[u].id = r.id PROVE FALSE
                OBVIOUS
            <4>1. u # t /\ calls[u].id = r.id
                BY <1>5 DEF Idle
            <4> QED
                BY <1>3, <2>1, <2>4, <4>1 DEF RegistryInv, AloneInv
        <3>4. Deploying(r.cfg.dir)'
            <4>1. \E j \in jobs' : j.cfg.dir = cfg.dir
                BY <1>2, <1>3, EnqueuedFacts
            <4> QED
                BY <1>2, <3>2, <4>1 DEF Deploying
        <3>5. ASSUME NEW j \in jobs', j.cfg.dir = r.cfg.dir,
                     j.state = "pending" \/ ~ (\E k \in jobs' : k.cfg.dir = r.cfg.dir /\ k.state = "pending")
              PROVE  j.cfg = cfg
            BY <1>2, <1>3, <3>2, <3>5, EnqueuedFacts
        <3> QED
            BY <3>1, <3>3, <3>4, <3>5 DEF SettledOK, Waits, Agrees
    <2> QED
        BY <2>3, <2>4
<1> QED
    BY <1>7, <1>9, <1>10, <1>11 DEF RegistryInv, SettledInv

-----------------------------------------------------------------------------
(* The end of a deployment.                                                *)

LEMMA PoppedFacts ==
    ASSUME RegistryInv, NEW j \in jobs
    PROVE  /\ Popped(j) \subseteq [cfg : Config, state : {"running", "pending"}]
           /\ \A k \in Popped(j) : \E i \in jobs : i.cfg = k.cfg
           /\ \A k : k.cfg.dir # j.cfg.dir => (k \in Popped(j) <=> k \in jobs)
           /\ \A k \in Popped(j) : k.cfg.dir = j.cfg.dir =>
                 k.state = "running" /\ \E i \in jobs : i.cfg = k.cfg /\ i.state = "pending"
           /\ Waits(j.cfg.dir) => \E k \in Popped(j) : k.cfg.dir = j.cfg.dir
<1>1. jobs \subseteq [cfg : Config, state : {"running", "pending"}]
    BY DEF RegistryInv, TypeOK
<1>2. ASSUME NEW k \in jobs
      PROVE  /\ [k EXCEPT !.state = "running"] \in [cfg : Config, state : {"running", "pending"}]
             /\ [k EXCEPT !.state = "running"].cfg = k.cfg
             /\ [k EXCEPT !.state = "running"].state = "running"
    BY <1>1
<1> DEFINE kept == {k \in jobs : k.cfg.dir # j.cfg.dir}
           popped == {[k EXCEPT !.state = "running"] :
                         k \in {k \in jobs : k.cfg.dir = j.cfg.dir /\ k.state = "pending"}}
<1>3. Popped(j) = kept \cup popped
    BY DEF Popped
<1>4. \A k \in popped : /\ k.cfg.dir = j.cfg.dir /\ k.state = "running"
                        /\ k \in [cfg : Config, state : {"running", "pending"}]
                        /\ \E i \in jobs : i.cfg = k.cfg /\ i.state = "pending"
    BY <1>2
<1>5. Waits(j.cfg.dir) => \E k \in popped : TRUE
    BY DEF Waits
<1> HIDE DEF popped
<1> QED
    BY <1>1, <1>3, <1>4, <1>5

LEMMA JobPreserves ==
    ASSUME RegistryInv, NEW j \in jobs, Deployed(j) \/ DeployFails(j)
    PROVE  RegistryInv'
<1>1. PICK d : d = j.cfg.dir
    OBVIOUS
<1>2. /\ rows' = rows /\ nextId' = nextId /\ folders' = folders /\ calls' = calls
      /\ overlapped' = overlapped /\ left' = left /\ used' = used /\ jobs' = Popped(j)
    BY DEF Deployed, DeployFails
<1>3. \/ apps' = {a \in apps : a.dir # d} \cup {j.cfg} /\ stuck' = stuck \ {d}
      \/ apps' \in {apps, {a \in apps : a.dir # d}} /\ stuck' = stuck \cup {d}
    BY <1>1 DEF Deployed, DeployFails
<1>4. j.cfg \in Config /\ d \in folders /\ d \in Dirs \cup left
    BY <1>1 DEF RegistryInv, TypeOK, JobsInv, LeftInv
<1>5. TypeOK'
    <2>1. jobs' \subseteq [cfg : Config, state : {"running", "pending"}]
        BY <1>2, PoppedFacts
    <2>2. apps' \subseteq Config /\ stuck' \subseteq folders
        BY <1>3, <1>4 DEF RegistryInv, TypeOK
    <2> QED
        BY <1>2, <2>1, <2>2 DEF RegistryInv, TypeOK
<1>6. CallsInv' /\ RowsInv' /\ FoldersInv' /\ OwnerInv' /\ FreshInv' /\ AloneInv' /\ DirsAreSeparate'
    <2>1. CallsInv'
        BY <1>2 DEF RegistryInv, CallsInv, CallOK, Creating, Holds, Registering
    <2>2. RowsInv' /\ DirsAreSeparate'
        BY <1>2 DEF RegistryInv, RowsInv, DirsAreSeparate
    <2>3. FoldersInv'
        BY <1>2 DEF RegistryInv, FoldersInv, Names
    <2>4. ASSUME NEW e PROVE Claimed(e)' = Claimed(e)
        BY <1>2 DEF Claimed, Holds
    <2>5. OwnerInv'
        BY <1>2, <2>4 DEF RegistryInv, OwnerInv
    <2>6. AloneInv'
        BY <1>2 DEF RegistryInv, AloneInv, Holds
    <2>7. FreshInv'
        <3> SUFFICES ASSUME NEW t \in Threads, Registering(t)' PROVE FreshOK(t)'
            BY DEF FreshInv
        <3>1. FreshOK(t)
            BY <1>2 DEF RegistryInv, FreshInv, Registering
        <3>2. Claimed(calls[t].cfg.dir)' = {}
            BY <1>2, <2>4, <3>1 DEF FreshOK
        <3>3. \A u \in Threads : Registering(u)' = Registering(u)
            BY <1>2 DEF Registering
        <3> QED
            BY <1>2, <3>1, <3>2, <3>3 DEF FreshOK
    <2> QED
        BY <2>1, <2>2, <2>3, <2>5, <2>6, <2>7
<1>7. JobsInv'
    BY <1>2, PoppedFacts DEF RegistryInv, JobsInv
<1>8. Dirs' = Dirs
    BY <1>2 DEF Dirs
<1>9. LeftInv'
    <2>1. \A k \in jobs' : \E i \in jobs : i.cfg = k.cfg
        BY <1>2, PoppedFacts
    <2>2. \A k \in jobs' : k.cfg.dir \in Dirs' \cup left'
        BY <1>2, <1>8, <2>1 DEF RegistryInv, LeftInv
    <2>3. \A u \in Threads : calls'[u].at = "enqueue" => calls'[u].cfg.dir \in Dirs' \cup left'
        BY <1>2, <1>8 DEF RegistryInv, LeftInv
    <2>4. ASSUME NEW u \in Threads, calls'[u].at = "delete",
                 calls'[u].id \notin overlapped', calls'[u].cfg.dir \notin left'
          PROVE  /\ \A k \in jobs' : k.cfg.dir # calls'[u].cfg.dir
                 /\ \A a \in apps' : a.dir # calls'[u].cfg.dir
        <3>1. /\ \A k \in jobs : k.cfg.dir # calls[u].cfg.dir
              /\ \A a \in apps : a.dir # calls[u].cfg.dir
            BY <1>2, <2>4 DEF RegistryInv, LeftInv, Deploying
        <3> QED
            BY <1>2, <1>3, <2>1, <3>1
    <2> QED
        BY <2>2, <2>3, <2>4 DEF LeftInv, Deploying
<1>10. AppsHaveProjects'
    BY <1>1, <1>2, <1>3, <1>4, <1>8 DEF RegistryInv, AppsHaveProjects
<1>11. ASSUME NEW r \in rows', r.id \notin overlapped' PROVE SettledOK(r)'
    <2>1. SettledOK(r)
        BY <1>2, <1>11 DEF RegistryInv, SettledInv
    <2>2. Announced(r)' <=> Announced(r)
        BY <1>2 DEF Announced
    <2>3. \A u \in Threads : calls'[u].at = "enqueue" /\ calls'[u].id = r.id => Agrees(calls'[u].cfg, r)
        BY <1>2, <2>1 DEF SettledOK
    <2>4. CASE r.cfg.dir # d
        <3>1. \A k : k.cfg.dir = r.cfg.dir => (k \in jobs' <=> k \in jobs)
            BY <1>1, <1>2, <2>4, PoppedFacts
        <3>2. (Deploying(r.cfg.dir)' <=> Deploying(r.cfg.dir)) /\ (Waits(r.cfg.dir)' <=> Waits(r.cfg.dir))
            BY <3>1 DEF Deploying, Waits
        <3>3. /\ \A a \in apps' : a.dir = r.cfg.dir => a \in apps
              /\ (r.cfg.dir \in stuck' <=> r.cfg.dir \in stuck)
            BY <1>1, <1>3, <2>4
        <3> QED
            BY <2>1, <2>2, <2>3, <3>1, <3>2, <3>3 DEF SettledOK, Agrees
    <2>5. CASE r.cfg.dir = d
        <3>1. ASSUME ~Announced(r), NEW k \in jobs', k.cfg.dir = d PROVE Agrees(k.cfg, r)
            <4>1. \E i \in jobs : i.cfg = k.cfg /\ i.state = "pending"
                BY <1>1, <1>2, <3>1, PoppedFacts
            <4> QED
                BY <2>1, <2>5, <3>1, <4>1 DEF SettledOK
        <3>2. ASSUME ~Announced(r), ~Deploying(d)', d \notin stuck', NEW a \in apps', a.dir = d
              PROVE  Agrees(a, r)
            <4>1. ~Waits(d)
                BY <1>1, <1>2, <3>2, PoppedFacts DEF Deploying
            <4>2. Agrees(j.cfg, r)
                BY <1>1, <2>1, <2>5, <3>2, <4>1 DEF SettledOK
            <4>3. a = j.cfg
                BY <1>3, <3>2
            <4> QED
                BY <4>2, <4>3
        <3> QED
            BY <2>2, <2>3, <2>5, <3>1, <3>2 DEF SettledOK, Agrees
    <2> QED
        BY <2>4, <2>5
<1> QED
    BY <1>5, <1>6, <1>7, <1>9, <1>10, <1>11 DEF RegistryInv, SettledInv

-----------------------------------------------------------------------------
(* Statements that change the table.                                       *)

\* A handler that goes on as the one who enqueues s is alone with it, if
\* nothing was noted.
LEMMA NowAlone ==
    ASSUME RegistryInv, NEW t \in Threads, NEW c, GoesOn(t, c), CallsInv', nextId' \in {nextId, nextId + 1},
           c.at \in Holding, c.id \notin overlapped', NEW u \in Threads, u # t
    PROVE  calls'[u].id # c.id
<1> SUFFICES ASSUME calls'[u].id = c.id PROVE FALSE
    OBVIOUS
<1>1. calls'[t] = c /\ Holds(t)'
    BY GoesOnFacts DEF Holds
<1>2. calls'[t].id \in overlapped'
    BY <1>1, AloneOrNoted
<1> QED
    BY <1>1, <1>2

\* The row of a project takes a configuration with a key of its own.
LEMMA ReplacedTyped ==
    ASSUME RegistryInv, NEW r, NEW cfg \in Config, Replaces(r, cfg)
    PROVE  /\ [id |-> r.id, cfg |-> cfg] \in rows'
           /\ \A s \in rows' : (s \in rows /\ s # r) \/ (s.id = r.id /\ s.cfg = cfg)
           /\ rows' \subseteq [id : 1 .. MaxCalls, cfg : Config]
           /\ \A s, q \in rows' : s.id = q.id \/ s.cfg.key = q.cfg.key => s = q
           /\ \A s \in rows : s.id = r.id => s = r
<1> DEFINE new == [id |-> r.id, cfg |-> cfg]
<1>1. r \in rows /\ rows \subseteq [id : 1 .. MaxCalls, cfg : Config]
      /\ \A s, q \in rows : s.id = q.id \/ s.cfg.key = q.cfg.key => s = q
    BY DEF RegistryInv, TypeOK, Replaces
<1>2. /\ new \in [id : 1 .. MaxCalls, cfg : Config] /\ new.id = r.id /\ new.cfg = cfg
      /\ rows' = (rows \ {r}) \cup {new}
      /\ \A s \in rows : s.cfg.key = cfg.key => s = r
    BY <1>1 DEF Replaces
<1> HIDE DEF new
<1>3. \A s \in rows' : (s \in rows /\ s # r) \/ s = new
    BY <1>2
<1>4. ASSUME NEW s \in rows', NEW q \in rows', s.id = q.id \/ s.cfg.key = q.cfg.key
      PROVE  s = q
    <2>1. CASE s \in rows /\ s # r /\ q \in rows /\ q # r
        BY <1>1, <1>4, <2>1
    <2>2. CASE s = new /\ q \in rows /\ q # r
        BY <1>1, <1>2, <1>4, <2>2
    <2>3. CASE q = new /\ s \in rows /\ s # r
        BY <1>1, <1>2, <1>4, <2>3
    <2> QED
        BY <1>3, <2>1, <2>2, <2>3
<1>5. new \in rows' /\ rows' \subseteq [id : 1 .. MaxCalls, cfg : Config]
    BY <1>1, <1>2
<1> QED
    BY <1>1, <1>2, <1>3, <1>4, <1>5 DEF new

\* A row that takes a new configuration is settled by the handler that will
\* enqueue it; the others stay as they are.
LEMMA ReplacedSettled ==
    ASSUME RegistryInv, NEW t \in Threads, NEW c, NEW r, Replaces(r, c.cfg), GoesOn(t, c), CallsInv', nextId' = nextId,
           calls[t].at # "enqueue", c.at = "enqueue", c.id = r.id, c.cfg \in Config,
           jobs' = jobs, apps' = apps, stuck' = stuck
    PROVE  SettledInv'
<1>1. /\ calls'[t] = c /\ \A v \in Threads : v # t => calls'[v] = calls[v]
      /\ overlapped \subseteq overlapped'
    BY GoesOnFacts
<1> SUFFICES ASSUME NEW s \in rows', s.id \notin overlapped' PROVE SettledOK(s)'
    BY DEF SettledInv
<1>2. (s \in rows /\ s # r) \/ (s.id = r.id /\ s.cfg = c.cfg)
    BY ReplacedTyped
<1>3. CASE s \in rows /\ s # r
    <2>1. s.id # r.id /\ SettledOK(s)
        BY <1>1, <1>3, ReplacedTyped DEF RegistryInv, SettledInv
    <2> QED
        BY <1>1, <2>1, SettledStays
<1>4. CASE s.id = r.id /\ s.cfg = c.cfg
    <2>1. \A u \in Threads : u # t => calls'[u].id # c.id
        BY <1>4, NowAlone DEF Holding
    <2>2. Agrees(calls'[t].cfg, s)
        BY <1>1, <1>4 DEF Agrees
    <2> QED
        BY <1>1, <1>4, <2>1, <2>2, SettledNew
<1> QED
    BY <1>2, <1>3, <1>4

LEMMA WritePreserves ==
    ASSUME RegistryInv, NEW t \in Threads, Write(t)
    PROVE  RegistryInv'
<1>1. /\ calls[t].at = "write" /\ Holds(t)
      /\ nextId' = nextId /\ folders' = folders /\ jobs' = jobs /\ apps' = apps /\ stuck' = stuck /\ used' = used
    BY WriteFacts DEF Holds, Holding
<1>2. CASE UNCHANGED <<rows, left>> /\ GoesOn(t, Idle)
    <2>1. \E c : QuietMove(t, c)
        BY <1>1, <1>2, QuietSteps
    <2> QED
        BY <2>1, QuietPreserves
<1>3. ASSUME left' = left \cup Abandoned(calls[t].id, calls[t].cfg.dir),
             GoesOn(t, [at |-> "enqueue", id |-> calls[t].id, cfg |-> calls[t].cfg]),
             \/ calls[t].id \notin Ids /\ rows' = rows
             \/ \E r \in rows : r.id = calls[t].id /\ Replaces(r, calls[t].cfg)
      PROVE  RegistryInv'
    <2>1. PICK c : c = [at |-> "enqueue", id |-> calls[t].id, cfg |-> calls[t].cfg]
        OBVIOUS
    <2>2. /\ c.at = "enqueue" /\ c.id = calls[t].id /\ c.cfg = calls[t].cfg /\ GoesOn(t, c)
          /\ {"at", "id", "cfg"} \subseteq DOMAIN c
        BY <1>3, <2>1
    <2>3. c.id \in 1 .. nextId - 1 /\ c.cfg \in Config /\ c.cfg.dir \in folders
        BY <1>1, <2>2 DEF RegistryInv, CallsInv, CallOK
    <2>4. /\ calls'[t] = c /\ \A v \in Threads : v # t => calls'[v] = calls[v]
          /\ overlapped \subseteq overlapped'
        BY <2>2, GoesOnFacts
    <2>5. /\ CallsInv' /\ nextId' \in 1 .. MaxCalls + 1
          /\ \A u \in Threads : calls'[u].at \in Positions /\ calls'[u].id \in 0 .. MaxCalls
          /\ overlapped' \subseteq 1 .. MaxCalls
        <3>1. CallOK(t)'
            BY <1>1, <2>2, <2>3, <2>4 DEF CallOK, Positions, Holds, Holding, Registering
        <3>2. used' \in 0 .. MaxCalls
            BY <1>1 DEF RegistryInv, CallsInv
        <3> QED
            BY <1>1, <2>2, <3>1, <3>2, CallsTyped
    <2>6. \/ c.id \notin Ids /\ rows' = rows
          \/ \E r \in rows : r.id = c.id /\ Replaces(r, c.cfg)
        BY <1>3, <2>2
    <2>7. c.id \notin overlapped => Has(rows, c.id, c.cfg.dir)
        BY <1>1, <2>2 DEF RegistryInv, AloneInv, Has
    <2>8. c.id \in Claimed(c.cfg.dir)
        BY <1>1, <2>2 DEF Claimed
    <2>9. ASSUME NEW s \in rows'
          PROVE  s \in rows \/ (c.id \in Ids /\ s.id = c.id /\ s.cfg = c.cfg)
        <3>1. CASE rows' = rows
            BY <3>1
        <3>2. ASSUME NEW r \in rows, r.id = c.id, Replaces(r, c.cfg)
              PROVE  s \in rows \/ (c.id \in Ids /\ s.id = c.id /\ s.cfg = c.cfg)
            <4>0. c.cfg \in Config /\ Replaces(r, c.cfg)
                BY <2>3, <3>2
            <4>1. \A x \in rows' : (x \in rows /\ x # r) \/ (x.id = r.id /\ x.cfg = c.cfg)
                BY <4>0, ReplacedTyped
            <4>2. c.id \in Ids
                BY <3>2 DEF Ids
            <4> QED
                BY <3>2, <4>1, <4>2
        <3> QED
            BY <2>6, <3>1, <3>2
    <2>10. ASSUME NEW q \in rows, q.id # c.id PROVE q \in rows'
        BY <2>6, <2>10 DEF Replaces
    <2>11. c.id \in Ids => Has(rows', c.id, c.cfg.dir)
        <3> SUFFICES ASSUME c.id \in Ids PROVE Has(rows', c.id, c.cfg.dir)
            OBVIOUS
        <3>1. PICK r \in rows : r.id = c.id /\ Replaces(r, c.cfg)
            BY <2>6
        <3>2. PICK n : n = [id |-> r.id, cfg |-> c.cfg]
            OBVIOUS
        <3>3. n \in rows' /\ n.id = c.id /\ n.cfg = c.cfg
            BY <2>3, <3>1, <3>2, ReplacedTyped
        <3> QED
            BY <3>3 DEF Has
    <2>12. Keeps(t, c)
        <3>1. \A s \in rows' : s.id \in Claimed(s.cfg.dir)
            BY <2>8, <2>9 DEF Claimed
        <3>2. \A s \in rows' : s.id \notin overlapped => Has(rows, s.id, s.cfg.dir)
            BY <2>7, <2>9 DEF Has
        <3>3. \A q \in rows : q.id # calls[t].id => Has(rows', q.id, q.cfg.dir)
            BY <2>2, <2>10 DEF Has
        <3>4. c.id \notin overlapped' => Has(rows', c.id, c.cfg.dir)
            <4>1. c.id \notin overlapped' => c.id \in Ids
                BY <2>4, <2>7 DEF Has, Ids
            <4> QED
                BY <2>11, <4>1
        <3> QED
            BY <1>1, <2>2, <2>8, <3>1, <3>2, <3>3, <3>4 DEF Keeps
    <2>13. FoldersInv' /\ OwnerInv' /\ FreshInv' /\ AloneInv' /\ DirsAreSeparate'
        BY <2>5, <2>12, KeepsProtects
    <2>14. rows' \subseteq [id : 1 .. MaxCalls, cfg : Config]
           /\ \A s, q \in rows' : s.id = q.id \/ s.cfg.key = q.cfg.key => s = q
        <3>1. CASE rows' = rows
            BY <3>1 DEF RegistryInv, TypeOK
        <3>2. CASE \E r \in rows : r.id = c.id /\ Replaces(r, c.cfg)
            BY <2>3, <3>2, ReplacedTyped
        <3> QED
            BY <2>6, <3>1, <3>2
    <2>15. left \subseteq left' /\ left' \subseteq folders
        <3>1. \A r \in rows : r.cfg.dir \in folders
            BY DEF RegistryInv, RowsInv
        <3> QED
            BY <1>3, <2>2, <2>3, <3>1 DEF Abandoned, RegistryInv, TypeOK
    <2>16. TypeOK'
        BY <1>1, <2>5, <2>14, <2>15 DEF RegistryInv, TypeOK
    <2>17. RowsInv' /\ JobsInv'
        BY <1>1, <2>3, <2>9 DEF RegistryInv, RowsInv, JobsInv
    <2>18. Dirs \subseteq Dirs' \cup left' /\ c.cfg.dir \in Dirs' \cup left'
        <3>1. c.id \in overlapped =>
                 c.cfg.dir \in left' /\ \A r \in rows : r.id = c.id => r.cfg.dir \in left'
            BY <1>3, <2>2 DEF Abandoned
        <3>2. c.id \notin overlapped =>
                 c.cfg.dir \in Dirs' /\ \A r \in rows : r.id = c.id => r.cfg.dir = c.cfg.dir
            BY <2>7, <2>11 DEF Has, Ids, Dirs, RegistryInv, TypeOK
        <3>3. \A r \in rows : r.id # c.id => r.cfg.dir \in Dirs'
            BY <2>10 DEF Dirs
        <3> QED
            BY <3>1, <3>2, <3>3 DEF Dirs
    <2>19. LeftInv'
        <3>1. \A j \in jobs' : j.cfg.dir \in Dirs' \cup left'
            BY <1>1, <2>15, <2>18 DEF RegistryInv, LeftInv
        <3>2. ASSUME NEW u \in Threads, calls'[u].at = "enqueue" PROVE calls'[u].cfg.dir \in Dirs' \cup left'
            <4>1. CASE u = t
                BY <2>4, <2>18, <4>1
            <4>2. CASE u # t
                BY <2>4, <2>15, <2>18, <3>2, <4>2 DEF RegistryInv, LeftInv
            <4> QED
                BY <4>1, <4>2
        <3>3. ASSUME NEW u \in Threads, calls'[u].at = "delete",
                     calls'[u].id \notin overlapped', calls'[u].cfg.dir \notin left'
              PROVE  /\ \A j \in jobs' : j.cfg.dir # calls'[u].cfg.dir
                     /\ \A a \in apps' : a.dir # calls'[u].cfg.dir
            <4>1. u # t /\ calls'[u] = calls[u]
                BY <2>2, <2>4, <3>3
            <4> QED
                BY <1>1, <2>4, <2>15, <3>3, <4>1 DEF RegistryInv, LeftInv, Deploying
        <3> QED
            BY <3>1, <3>2, <3>3 DEF LeftInv, Deploying
    <2>20. AppsHaveProjects'
        BY <1>1, <2>15, <2>18 DEF RegistryInv, AppsHaveProjects
    <2>21. SettledInv'
        <3>1. CASE \E r \in rows : r.id = c.id /\ Replaces(r, c.cfg)
            BY <1>1, <2>2, <2>3, <2>5, <3>1, ReplacedSettled
        <3>2. CASE c.id \notin Ids /\ rows' = rows
            <4> SUFFICES ASSUME NEW s \in rows', s.id \notin overlapped' PROVE SettledOK(s)'
                BY DEF SettledInv
            <4>1. s \in rows /\ s.id # c.id /\ SettledOK(s)
                BY <2>4, <3>2 DEF Ids, RegistryInv, SettledInv
            <4> QED
                BY <1>1, <2>4, <4>1, SettledStays
        <3> QED
            BY <2>6, <3>1, <3>2
    <2> QED
        BY <2>5, <2>13, <2>16, <2>17, <2>19, <2>20, <2>21 DEF RegistryInv
<1> QED
    BY <1>2, <1>3, WriteFacts

\* DeleteProject: nobody else works on the project unless that was noted, and
\* nothing runs or will run in its directory unless that was noted, too.
LEMMA DeletePreserves ==
    ASSUME RegistryInv, NEW t \in Threads, DeleteRow(t)
    PROVE  RegistryInv'
<1>1. PICK id, d : id = calls[t].id /\ d = calls[t].cfg.dir
    OBVIOUS
<1>2. /\ calls[t].at = "delete" /\ Holds(t) /\ GoesOn(t, Idle)
      /\ rows' = {r \in rows : r.id # id}
      /\ nextId' = nextId /\ folders' = folders /\ jobs' = jobs /\ apps' = apps /\ stuck' = stuck /\ used' = used
    BY <1>1 DEF DeleteRow, Holds, Holding
<1>3. left' = left \cup Abandoned(id, d) \cup (IF Deploying(d) THEN {d} ELSE {})
    BY <1>1 DEF DeleteRow
<1>4. /\ calls'[t] = Idle /\ \A v \in Threads : v # t => calls'[v] = calls[v]
      /\ overlapped \subseteq overlapped'
    BY <1>2, GoesOnFacts
<1>5. d \in folders /\ id \in Claimed(d)
    BY <1>1, <1>2 DEF RegistryInv, CallsInv, CallOK, Claimed
<1>6. /\ CallsInv' /\ nextId' \in 1 .. MaxCalls + 1
      /\ \A u \in Threads : calls'[u].at \in Positions /\ calls'[u].id \in 0 .. MaxCalls
      /\ overlapped' \subseteq 1 .. MaxCalls
    <2>1. CallOK(t)'
        BY <1>4 DEF CallOK, Idle, Positions, Holds, Holding, Registering
    <2>2. used' \in 0 .. MaxCalls
        BY <1>2 DEF RegistryInv, CallsInv
    <2>3. Idle.at = "idle"
        BY DEF Idle
    <2> QED
        BY <1>2, <2>1, <2>2, <2>3, CallsTyped
<1>7. Keeps(t, Idle)
    <2>1. \A s \in rows' : s.id \in Claimed(s.cfg.dir) /\ Has(rows, s.id, s.cfg.dir)
        BY <1>2 DEF Claimed, Has
    <2>2. \A r \in rows : r.id # calls[t].id => Has(rows', r.id, r.cfg.dir)
        BY <1>1, <1>2 DEF Has
    <2> QED
        BY <1>2, <2>1, <2>2 DEF Keeps, Idle, Holding
<1>8. FoldersInv' /\ OwnerInv' /\ FreshInv' /\ AloneInv' /\ DirsAreSeparate'
    BY <1>6, <1>7, KeepsProtects
<1>9. left \subseteq left' /\ left' \subseteq folders
    <2>1. \A r \in rows : r.cfg.dir \in folders
        BY DEF RegistryInv, RowsInv
    <2> QED
        BY <1>3, <1>5, <2>1 DEF Abandoned, RegistryInv, TypeOK
<1>10. TypeOK' /\ RowsInv' /\ JobsInv'
    BY <1>2, <1>6, <1>9 DEF RegistryInv, TypeOK, RowsInv, JobsInv
\* A directory that is no longer a project's and was not left behind is d.
<1>11. ASSUME NEW r \in rows, r.id = id, r.cfg.dir \notin left'
       PROVE  id \notin overlapped /\ r.cfg.dir = d
    <2>1. id \notin overlapped
        BY <1>3, <1>11 DEF Abandoned
    <2>2. PICK r0 \in rows : r0.id = id /\ r0.cfg.dir = d
        BY <1>1, <1>2, <2>1 DEF RegistryInv, AloneInv
    <2> QED
        BY <1>11, <2>1, <2>2 DEF RegistryInv, TypeOK
<1>12. ASSUME NEW e, e \in Dirs \cup left, e \notin Dirs' \cup left'
       PROVE  /\ e = d /\ id \notin overlapped /\ d \notin left
              /\ \A j \in jobs : j.cfg.dir # d
              /\ \A a \in apps : a.dir # d
    <2>1. e \notin left /\ e \notin left'
        BY <1>9, <1>12
    <2>2. PICK r \in rows : r.cfg.dir = e
        BY <1>12, <2>1 DEF Dirs
    <2>3. r.id = id
        BY <1>2, <1>12, <2>2 DEF Dirs
    <2>4. e = d /\ id \notin overlapped
        BY <1>11, <2>1, <2>2, <2>3
    <2>5. ~Deploying(d) /\ \A a \in apps : a.dir # d
        BY <1>1, <1>2, <2>1, <2>4 DEF RegistryInv, LeftInv
    <2> QED
        BY <2>1, <2>4, <2>5 DEF Deploying
<1>13. LeftInv'
    <2>1. \A j \in jobs' : j.cfg.dir \in Dirs' \cup left'
        BY <1>2, <1>12 DEF RegistryInv, LeftInv
    <2>2. ASSUME NEW u \in Threads, calls'[u].at = "enqueue" PROVE calls'[u].cfg.dir \in Dirs' \cup left'
        <3>1. u # t /\ calls'[u] = calls[u]
            BY <1>4, <2>2 DEF Idle
        <3>2. calls[u].cfg.dir \in Dirs \cup left /\ Holds(u)
            BY <2>2, <3>1 DEF RegistryInv, LeftInv, Holds, Holding
        <3>3. calls[u].cfg.dir = d => calls[u].id = id
            <4>1. calls[u].cfg.dir = d => calls[u].id \in Claimed(d)
                BY <3>2 DEF Claimed
            <4> QED
                BY <1>5, <4>1, SameOwner
        <3>4. calls[u].id = id => id \in overlapped
            BY <1>1, <3>1, <3>2 DEF RegistryInv, AloneInv
        <3> QED
            BY <1>12, <3>1, <3>2, <3>3, <3>4
    <2>3. ASSUME NEW u \in Threads, calls'[u].at = "delete",
                 calls'[u].id \notin overlapped', calls'[u].cfg.dir \notin left'
          PROVE  /\ \A j \in jobs' : j.cfg.dir # calls'[u].cfg.dir
                 /\ \A a \in apps' : a.dir # calls'[u].cfg.dir
        <3>1. u # t /\ calls'[u] = calls[u]
            BY <1>4, <2>3 DEF Idle
        <3> QED
            BY <1>2, <1>4, <1>9, <2>3, <3>1 DEF RegistryInv, LeftInv, Deploying
    <2> QED
        BY <2>1, <2>2, <2>3 DEF LeftInv, Deploying
<1>14. AppsHaveProjects'
    <2> SUFFICES ASSUME NEW a \in apps PROVE a.dir \in Dirs' \cup left'
        BY <1>2 DEF AppsHaveProjects
    <2>1. a.dir \in Dirs \cup left
        BY DEF RegistryInv, AppsHaveProjects
    <2> QED
        BY <1>12, <2>1
<1>15. SettledInv'
    <2> SUFFICES ASSUME NEW s \in rows', s.id \notin overlapped' PROVE SettledOK(s)'
        BY DEF SettledInv
    <2>1. SettledOK(s)
        BY <1>2, <1>4 DEF RegistryInv, SettledInv
    <2>2. calls'[t].at # "enqueue" /\ calls[t].at # "enqueue"
        BY <1>2, <1>4 DEF Idle
    <2> QED
        BY <1>2, <1>4, <2>1, <2>2, SettledStays
<1> QED
    BY <1>6, <1>8, <1>10, <1>13, <1>14, <1>15 DEF RegistryInv

\* RegisterProject, whether it inserts or updates: the project i has its
\* handler's configuration, and its old directory is left behind.
Registers(t, i, c) ==
    /\ GoesOn(t, c) /\ c.at = "enqueue" /\ c.id = i /\ c.cfg = calls[t].cfg
    /\ nextId' \in {nextId, nextId + 1} /\ i \in 1 .. nextId' - 1
    /\ \E n \in rows' : n.id = i /\ n.cfg = c.cfg
    /\ \A s \in rows' : (s \in rows /\ s.id # i) \/ (s.id = i /\ s.cfg = c.cfg)
    /\ \A r \in rows : r \in rows' \/ (r.id = i /\ r.cfg.dir \in left')
    /\ rows' \subseteq [id : 1 .. MaxCalls, cfg : Config]
    /\ \A s, q \in rows' : s.id = q.id \/ s.cfg.key = q.cfg.key => s = q
    /\ left \subseteq left' /\ left' \subseteq folders
    /\ CallsInv' /\ nextId' \in 1 .. MaxCalls + 1
    /\ \A u \in Threads : calls'[u].at \in Positions /\ calls'[u].id \in 0 .. MaxCalls
    /\ overlapped' \subseteq 1 .. MaxCalls

LEMMA RegisterCase ==
    ASSUME RegistryInv, NEW t \in Threads, Register(t)
    PROVE  \E i, c : Registers(t, i, c)
<1>1. PICK cfg : cfg = calls[t].cfg
    OBVIOUS
<1>2. Registering(t) /\ calls[t].at = "register" /\ folders' = folders /\ used' = used
    BY RegisterFacts DEF Registering
<1>3. cfg \in Config /\ cfg.dir \in folders
    BY <1>1, <1>2 DEF RegistryInv, CallsInv, CallOK
<1>4. /\ rows \subseteq [id : 1 .. MaxCalls, cfg : Config] /\ left \subseteq folders /\ nextId \in Nat /\ nextId >= 1
      /\ \A r \in rows : r.id \in 1 .. nextId - 1 /\ r.cfg.dir \in folders
      /\ \A s, q \in rows : s.id = q.id \/ s.cfg.key = q.cfg.key => s = q
    BY DEF RegistryInv, TypeOK, RowsInv
<1>5. ASSUME NEW i, NEW c, c = [at |-> "enqueue", id |-> i, cfg |-> cfg], GoesOn(t, c), i \in 1 .. nextId' - 1,
             nextId' \in {nextId, nextId + 1}
      PROVE  /\ CallsInv' /\ nextId' \in 1 .. MaxCalls + 1
             /\ \A u \in Threads : calls'[u].at \in Positions /\ calls'[u].id \in 0 .. MaxCalls
             /\ overlapped' \subseteq 1 .. MaxCalls
             /\ c.at = "enqueue" /\ c.id = i /\ c.cfg = cfg
    <2>1. /\ c.at = "enqueue" /\ c.id = i /\ c.cfg = cfg /\ calls'[t] = c
          /\ {"at", "id", "cfg"} \subseteq DOMAIN c
        BY <1>5, GoesOnFacts
    <2>2. CallOK(t)'
        BY <1>2, <1>3, <1>5, <2>1 DEF CallOK, Positions, Holds, Holding, Registering
    <2>3. used' \in 0 .. MaxCalls
        BY <1>2 DEF RegistryInv, CallsInv
    <2> QED
        BY <1>2, <1>5, <2>1, <2>2, <2>3, CallsTyped
<1>6. CASE /\ \A s \in rows : s.cfg.key # calls[t].cfg.key
           /\ rows' = rows \cup {[id |-> nextId, cfg |-> calls[t].cfg]}
           /\ left' = left /\ nextId' = nextId + 1
           /\ GoesOn(t, [at |-> "enqueue", id |-> nextId, cfg |-> calls[t].cfg])
    <2>1. PICK c : c = [at |-> "enqueue", id |-> nextId, cfg |-> cfg]
        OBVIOUS
    <2>2. PICK n : n = [id |-> nextId, cfg |-> cfg]
        OBVIOUS
    <2>3. PICK i : i = nextId
        OBVIOUS
    <2>4. GoesOn(t, c) /\ i \in 1 .. nextId' - 1
        BY <1>1, <1>4, <1>6, <2>1, <2>3
    <2>5. n.id = i /\ n.cfg = cfg /\ rows' = rows \cup {n}
        BY <1>1, <1>6, <2>2, <2>3
    <2>6. /\ CallsInv' /\ nextId' \in 1 .. MaxCalls + 1
          /\ \A u \in Threads : calls'[u].at \in Positions /\ calls'[u].id \in 0 .. MaxCalls
          /\ overlapped' \subseteq 1 .. MaxCalls
          /\ c.at = "enqueue" /\ c.id = i /\ c.cfg = cfg
        BY <1>5, <1>6, <2>1, <2>3, <2>4
    <2>7. \A s \in rows : s.id # i /\ s.cfg.key # cfg.key
        BY <1>1, <1>4, <1>6, <2>3
    <2>8. ASSUME NEW s \in rows', NEW q \in rows', s.id = q.id \/ s.cfg.key = q.cfg.key PROVE s = q
        BY <1>4, <2>5, <2>7, <2>8
    <2>9. /\ \E m \in rows' : m.id = i /\ m.cfg = c.cfg
          /\ \A s \in rows' : (s \in rows /\ s.id # i) \/ (s.id = i /\ s.cfg = c.cfg)
          /\ \A r \in rows : r \in rows'
        BY <2>5, <2>6, <2>7
    <2>10. rows' \subseteq [id : 1 .. MaxCalls, cfg : Config]
        <3>1. n \in [id : 1 .. MaxCalls, cfg : Config]
            <4>1. nextId \in 1 .. MaxCalls
                BY <1>4, <1>6, <2>6, BoundsAssumption
            <4> QED
                BY <1>3, <2>2, <4>1
        <3> QED
            BY <1>4, <2>5, <3>1
    <2>11. Registers(t, i, c)
        BY <1>1, <1>4, <1>6, <2>4, <2>6, <2>8, <2>9, <2>10 DEF Registers
    <2> QED
        BY <2>11
<1>7. ASSUME NEW r \in rows, Replaces(r, calls[t].cfg), left' = left \cup {r.cfg.dir}, nextId' = nextId,
             GoesOn(t, [at |-> "enqueue", id |-> r.id, cfg |-> calls[t].cfg])
      PROVE  \E i, c : Registers(t, i, c)
    <2>1. PICK c : c = [at |-> "enqueue", id |-> r.id, cfg |-> cfg]
        OBVIOUS
    <2>2. PICK n : n = [id |-> r.id, cfg |-> cfg]
        OBVIOUS
    <2>3. PICK i : i = r.id
        OBVIOUS
    <2>4. GoesOn(t, c) /\ i \in 1 .. nextId' - 1 /\ Replaces(r, cfg)
        BY <1>1, <1>4, <1>7, <2>1, <2>3
    <2>6. /\ CallsInv' /\ nextId' \in 1 .. MaxCalls + 1
          /\ \A u \in Threads : calls'[u].at \in Positions /\ calls'[u].id \in 0 .. MaxCalls
          /\ overlapped' \subseteq 1 .. MaxCalls
          /\ c.at = "enqueue" /\ c.id = i /\ c.cfg = cfg
        BY <1>5, <1>7, <2>1, <2>3, <2>4
    <2>7. /\ n \in rows' /\ n.id = i /\ n.cfg = c.cfg
          /\ rows' \subseteq [id : 1 .. MaxCalls, cfg : Config]
          /\ \A s \in rows' : (s \in rows /\ s # r) \/ (s.id = i /\ s.cfg = c.cfg)
          /\ \A s, q \in rows' : s.id = q.id \/ s.cfg.key = q.cfg.key => s = q
          /\ \A s \in rows : s.id = i => s = r
        BY <1>3, <2>2, <2>3, <2>4, <2>6, ReplacedTyped
    <2>8. /\ \E m \in rows' : m.id = i /\ m.cfg = c.cfg
          /\ \A s \in rows' : (s \in rows /\ s.id # i) \/ (s.id = i /\ s.cfg = c.cfg)
        BY <2>7
    <2>9. \A q \in rows : q \in rows' \/ (q.id = i /\ q.cfg.dir \in left')
        BY <1>7, <2>3, <2>4 DEF Replaces
    <2>10. Registers(t, i, c)
        BY <1>1, <1>4, <1>7, <2>4, <2>6, <2>7, <2>8, <2>9 DEF Registers
    <2> QED
        BY <2>10
<1> QED
    BY <1>6, <1>7, RegisterFacts

LEMMA RegisterPreserves ==
    ASSUME RegistryInv, NEW t \in Threads, Register(t)
    PROVE  RegistryInv'
<1>1. PICK i, c : Registers(t, i, c)
    BY RegisterCase
<1>2. PICK d : d = calls[t].cfg.dir
    OBVIOUS
<1>3. /\ Registering(t) /\ calls[t].at = "register"
      /\ folders' = folders /\ jobs' = jobs /\ apps' = apps /\ stuck' = stuck /\ used' = used
    BY RegisterFacts DEF Registering
<1>4. c.cfg \in Config /\ c.cfg.dir = d /\ d \in folders /\ FreshOK(t)
    BY <1>1, <1>2, <1>3 DEF Registers, RegistryInv, CallsInv, CallOK, FreshInv
<1>5. /\ c.at = "enqueue" /\ c.id = i /\ GoesOn(t, c) /\ CallsInv' /\ nextId' \in {nextId, nextId + 1}
      /\ i \in 1 .. nextId' - 1 /\ left \subseteq left' /\ left' \subseteq folders
    BY <1>1 DEF Registers
<1>6. /\ calls'[t] = c /\ \A v \in Threads : v # t => calls'[v] = calls[v]
      /\ overlapped \subseteq overlapped'
    BY <1>5, GoesOnFacts
<1>7. /\ \E n \in rows' : n.id = i /\ n.cfg = c.cfg
      /\ \A s \in rows' : (s \in rows /\ s.id # i) \/ (s.id = i /\ s.cfg = c.cfg)
      /\ \A r \in rows : r \in rows' \/ (r.id = i /\ r.cfg.dir \in left')
      /\ \A s, q \in rows' : s.id = q.id \/ s.cfg.key = q.cfg.key => s = q
    BY <1>1 DEF Registers
<1>8. c.id \notin overlapped' => \A u \in Threads : u # t => calls'[u].id # i
    BY <1>5, NowAlone DEF Holding
<1>9. TypeOK'
    BY <1>1, <1>3 DEF Registers, RegistryInv, TypeOK
<1>10. RowsInv' /\ JobsInv'
    <2>1. nextId \in Nat /\ nextId' \in Nat
        BY <1>5 DEF RegistryInv, TypeOK
    <2>2. ASSUME NEW s \in rows' PROVE s.id \in 1 .. nextId' - 1 /\ s.cfg.dir \in folders'
        BY <1>3, <1>4, <1>5, <1>7, <2>1 DEF RegistryInv, RowsInv
    <2> QED
        BY <1>3, <2>2 DEF RegistryInv, RowsInv, JobsInv
<1>11. FoldersInv'
    BY <1>3 DEF RegistryInv, FoldersInv, Names
<1>12. ASSUME NEW e PROVE /\ e # d => Claimed(e)' \subseteq Claimed(e)
                          /\ e = d => Claimed(e)' \subseteq {i}
    <2>1. Claimed(d) = {}
        BY <1>2, <1>4 DEF FreshOK
    <2>2. ASSUME NEW s \in rows', s.cfg.dir = e
          PROVE  s.id \in Claimed(e) \/ (e = d /\ s.id = i)
        BY <1>4, <1>7, <2>2 DEF Claimed
    <2>3. ASSUME NEW u \in Threads, Holds(u)', calls'[u].cfg.dir = e
          PROVE  calls'[u].id \in Claimed(e) \/ (e = d /\ calls'[u].id = i)
        <3>1. CASE u = t
            BY <1>4, <1>5, <1>6, <2>3, <3>1
        <3>2. CASE u # t
            BY <1>6, <2>3, <3>2 DEF Claimed, Holds
        <3> QED
            BY <3>1, <3>2
    <2>4. ASSUME NEW x \in Claimed(e)' PROVE x \in Claimed(e) \/ (e = d /\ x = i)
        BY <2>2, <2>3 DEF Claimed
    <2> QED
        BY <2>1, <2>4
<1>13. OwnerInv'
    <2> SUFFICES ASSUME NEW e \in folders PROVE \A x, y \in Claimed(e)' : x = y
        BY <1>3 DEF OwnerInv
    <2> QED
        BY <1>12 DEF RegistryInv, OwnerInv
<1>14. FreshInv'
    <2> SUFFICES ASSUME NEW u \in Threads, Registering(u)' PROVE FreshOK(u)'
        BY DEF FreshInv
    <2>1. PICK e : e = calls[u].cfg.dir
        OBVIOUS
    <2>2. u # t /\ calls'[u] = calls[u] /\ Registering(u)
        BY <1>5, <1>6 DEF Registering
    <2>3. FreshOK(u) /\ e \in folders
        BY <2>1, <2>2 DEF RegistryInv, FreshInv, CallsInv, CallOK
    <2>4. e # d /\ ~IsPrefix(d, e)
        BY <1>2, <1>3, <1>4, <2>1, <2>2, <2>3 DEF FreshOK
    <2>5. Claimed(e)' = {}
        BY <1>12, <2>1, <2>3, <2>4 DEF FreshOK
    <2>6. Claimed(calls[u].cfg.dir)' = {}
        BY <2>1, <2>2, <2>5
    <2>7. \A s \in rows' : s.id \notin overlapped' => ~IsPrefix(s.cfg.dir, calls'[u].cfg.dir)
        BY <1>4, <1>6, <1>7, <2>1, <2>2, <2>3, <2>4 DEF FreshOK
    <2>8. \A v \in Threads : Registering(v)' /\ v # u => calls'[v].cfg.dir # calls'[u].cfg.dir
        BY <1>5, <1>6, <2>2, <2>3 DEF FreshOK, Registering
    <2>9. \A f \in folders' : IsPrefix(calls'[u].cfg.dir, f) => f = calls'[u].cfg.dir
        BY <1>3, <2>2, <2>3 DEF FreshOK
    <2> QED
        BY <2>6, <2>7, <2>8, <2>9 DEF FreshOK
<1>15. AloneInv'
    <2>1. ASSUME NEW u \in Threads, NEW v \in Threads, u # v, Holds(u)', calls'[u].id = calls'[v].id
          PROVE  calls'[u].id \in overlapped'
        BY <1>5, <2>1, AloneOrNoted
    <2>2. ASSUME NEW u \in Threads, Holds(u)', calls'[u].id \notin overlapped'
          PROVE  \E r \in rows' : r.id = calls'[u].id /\ r.cfg.dir = calls'[u].cfg.dir
        <3>1. CASE u = t
            BY <1>5, <1>6, <1>7, <3>1
        <3>2. CASE u # t
            <4>1. calls'[u] = calls[u] /\ Holds(u) /\ calls[u].id \notin overlapped
                BY <1>6, <2>2, <3>2 DEF Holds
            <4>2. calls[u].id # i
                <5>1. Holds(t)' /\ calls'[t].id = i
                    BY <1>5, <1>6 DEF Holds, Holding
                <5> QED
                    BY <2>1, <2>2, <3>2, <4>1, <5>1
            <4>3. PICK r \in rows : r.id = calls[u].id /\ r.cfg.dir = calls[u].cfg.dir
                BY <4>1 DEF RegistryInv, AloneInv
            <4> QED
                BY <1>7, <4>1, <4>2, <4>3
        <3> QED
            BY <3>1, <3>2
    <2> QED
        BY <2>1, <2>2 DEF AloneInv
<1>16. DirsAreSeparate'
    <2> SUFFICES ASSUME NEW r \in rows', NEW s \in rows', r.id # s.id,
                        r.id \notin overlapped', s.id \notin overlapped'
                 PROVE  ~IsPrefix(r.cfg.dir, s.cfg.dir)
        BY DEF DirsAreSeparate
    <2>0. r.id \notin overlapped /\ s.id \notin overlapped
        BY <1>6
    <2>1. CASE r \in rows /\ s \in rows
        BY <2>0, <2>1 DEF RegistryInv, DirsAreSeparate
    <2>2. CASE r \in rows /\ s.cfg = c.cfg
        BY <1>2, <1>4, <2>0, <2>2 DEF FreshOK
    <2>3. CASE s \in rows /\ r.cfg = c.cfg
        <3>1. s.cfg.dir \in folders /\ s.id \in Claimed(s.cfg.dir)
            BY <2>3 DEF RegistryInv, RowsInv, Claimed
        <3>2. s.cfg.dir # d
            BY <1>2, <1>4, <3>1 DEF FreshOK
        <3> QED
            BY <1>2, <1>4, <2>3, <3>1, <3>2 DEF FreshOK
    <2> QED
        BY <1>7, <2>1, <2>2, <2>3
<1>17. Dirs \subseteq Dirs' \cup left' /\ d \in Dirs'
    BY <1>4, <1>7 DEF Dirs
<1>18. LeftInv'
    <2>1. \A j \in jobs' : j.cfg.dir \in Dirs' \cup left'
        BY <1>3, <1>5, <1>17 DEF RegistryInv, LeftInv
    <2>2. ASSUME NEW u \in Threads, calls'[u].at = "enqueue" PROVE calls'[u].cfg.dir \in Dirs' \cup left'
        <3>1. CASE u = t
            BY <1>4, <1>6, <1>17, <3>1
        <3>2. CASE u # t
            BY <1>5, <1>6, <1>17, <2>2, <3>2 DEF RegistryInv, LeftInv
        <3> QED
            BY <3>1, <3>2
    <2>3. ASSUME NEW u \in Threads, calls'[u].at = "delete",
                 calls'[u].id \notin overlapped', calls'[u].cfg.dir \notin left'
          PROVE  /\ \A j \in jobs' : j.cfg.dir # calls'[u].cfg.dir
                 /\ \A a \in apps' : a.dir # calls'[u].cfg.dir
        <3>1. u # t /\ calls'[u] = calls[u]
            BY <1>5, <1>6, <2>3
        <3> QED
            BY <1>3, <1>5, <1>6, <2>3, <3>1 DEF RegistryInv, LeftInv, Deploying
    <2> QED
        BY <2>1, <2>2, <2>3 DEF LeftInv, Deploying
<1>19. AppsHaveProjects'
    BY <1>3, <1>5, <1>17 DEF RegistryInv, AppsHaveProjects
<1>20. SettledInv'
    <2> SUFFICES ASSUME NEW s \in rows', s.id \notin overlapped' PROVE SettledOK(s)'
        BY DEF SettledInv
    <2>1. CASE s \in rows /\ s.id # i
        <3>1. SettledOK(s)
            BY <1>6, <2>1 DEF RegistryInv, SettledInv
        <3> QED
            BY <1>3, <1>5, <1>6, <2>1, <3>1, SettledStays
    <2>2. CASE s.id = i /\ s.cfg = c.cfg
        <3>1. \A u \in Threads : u # t => calls'[u].id # s.id
            BY <1>5, <1>8, <2>2
        <3>2. Agrees(calls'[t].cfg, s)
            BY <1>6, <2>2 DEF Agrees
        <3> QED
            BY <1>5, <1>6, <2>2, <3>1, <3>2, SettledNew
    <2> QED
        BY <1>7, <2>1, <2>2
<1> QED
    BY <1>5, <1>9, <1>10, <1>11, <1>13, <1>14, <1>15, <1>16, <1>18, <1>19, <1>20 DEF RegistryInv

-----------------------------------------------------------------------------
(* The choice of a directory.                                              *)

\* The number of a new folder is in no path that is known.
LEMMA NamesAreNew ==
    ASSUME RegistryInv, NEW k, k = Cardinality(folders), k < MaxDirs
    PROVE  /\ k \in Nat /\ k + 1 \notin Names(k) /\ Names(k) \subseteq Names(k + 1)
           /\ Names(k + 1) \subseteq 0 .. Codebase /\ 0 \in Names(k) /\ Codebase \in Names(k) /\ k + 1 # Codebase
           /\ k + 1 \in Names(k + 1)
<1>1. k \in Nat /\ MaxDirs \in Nat
    BY FS_CardinalityType, BoundsAssumption DEF RegistryInv, FoldersInv
<1> QED
    BY <1>1 DEF Names, Codebase

\* What a project can be placed under: the top, a folder that is known, a
\* directory inside one, or a protected path.
LEMMA BaseFacts ==
    ASSUME RegistryInv, NEW k, k = Cardinality(folders), NEW base \in Bases
    PROVE  /\ base \in Seq(Names(k))
           /\ \A u \in Threads : Registering(u) => ~IsPrefix(calls[u].cfg.dir, base)
<1>1. k \in Nat /\ 0 \in Names(k) /\ Codebase \in Names(k)
    BY FS_CardinalityType DEF RegistryInv, FoldersInv, Names
<1>2. \A d \in folders : d \in Seq(Names(k)) /\ Len(d) >= 2 /\ d[Len(d)] # Codebase
    BY DEF RegistryInv, FoldersInv
<1>3. ASSUME NEW u \in Threads, Registering(u)
      PROVE  /\ calls[u].cfg.dir \in folders
             /\ \A d \in Known : d \in folders /\ ~IsPrefix(calls[u].cfg.dir, d)
    <2>1. calls[u].cfg.dir \in folders /\ FreshOK(u)
        BY <1>3 DEF RegistryInv, CallsInv, CallOK, FreshInv
    <2>2. \A d \in Known : d \in folders /\ d # calls[u].cfg.dir
        BY <1>3 DEF Known, Registering
    <2> QED
        BY <2>1, <2>2 DEF FreshOK
<1>4. CASE base = Top \/ base \in Protected
    <2>1. base \in Seq(Names(k)) /\ Len(base) < 2
        <3>1. CASE base = <<0>>
            BY <1>1, <3>1
        <3>2. CASE base = <<>>
            BY <1>1, <3>2
        <3> QED
            BY <1>4, <3>1, <3>2 DEF Top, Protected
    <2>2. ASSUME NEW u \in Threads, Registering(u) PROVE ~IsPrefix(calls[u].cfg.dir, base)
        <3>1. calls[u].cfg.dir \in Seq(Names(k)) /\ Len(calls[u].cfg.dir) >= 2
            BY <1>2, <1>3, <2>2
        <3>2. IsPrefix(calls[u].cfg.dir, base) => Len(calls[u].cfg.dir) <= Len(base)
            BY <2>1, <3>1, PrefixMeans
        <3> QED
            BY <2>1, <3>1, <3>2
    <2> QED
        BY <2>1, <2>2
<1>5. CASE base \in Known
    <2>1. base \in folders
        BY <1>5 DEF Known
    <2> QED
        BY <1>2, <1>3, <1>5, <2>1
<1>6. ASSUME NEW d \in Known, base = Append(d, Codebase)
      PROVE  /\ base \in Seq(Names(k))
             /\ \A u \in Threads : Registering(u) => ~IsPrefix(calls[u].cfg.dir, base)
    <2>1. d \in folders /\ d \in Seq(Names(k))
        BY <1>2 DEF Known
    <2>2. base \in Seq(Names(k)) /\ base[Len(base)] = Codebase
        BY <1>1, <1>6, <2>1
    <2>3. ASSUME NEW u \in Threads, Registering(u), IsPrefix(calls[u].cfg.dir, base) PROVE FALSE
        <3>1. PICK e : e = calls[u].cfg.dir
            OBVIOUS
        <3>2. e \in Seq(Names(k)) /\ e[Len(e)] # Codebase /\ ~IsPrefix(e, d)
            BY <1>2, <1>3, <2>3, <3>1
        <3>3. e = base \/ IsPrefix(e, d)
            BY <1>1, <1>6, <2>1, <2>3, <3>1, <3>2, PrefixOfAppend
        <3> QED
            BY <2>2, <3>2, <3>3
    <2> QED
        BY <2>2, <2>3
<1> QED
    BY <1>4, <1>5, <1>6 DEF Bases

\* A new folder is inside no project and around nothing.
LEMMA NewFolder ==
    ASSUME RegistryInv, PlacingInv, NEW t \in Threads, calls[t].at = "place",
           NEW k, k = Cardinality(folders), k < MaxDirs,
           NEW base, base = calls[t].base, NEW nd, nd = Append(base, k + 1)
    PROVE  /\ nd \in Seq(Names(k + 1)) /\ nd \in Seq(0 .. Codebase) /\ Len(nd) >= 2 /\ nd[Len(nd)] # Codebase
           /\ \A d \in folders : d # nd /\ ~IsPrefix(nd, d)
           /\ \A r \in rows : r.id \notin overlapped => ~IsPrefix(r.cfg.dir, nd)
           /\ \A u \in Threads : Registering(u) => ~IsPrefix(calls[u].cfg.dir, nd)
<1>1. /\ k \in Nat /\ k + 1 \notin Names(k) /\ Names(k) \subseteq Names(k + 1)
      /\ Names(k + 1) \subseteq 0 .. Codebase /\ k + 1 # Codebase /\ k + 1 \in Names(k + 1)
    BY NamesAreNew
<1>0. PlacingOK(t)
    BY DEF PlacingInv
<1>2. base \in Seq(Names(k)) /\ Len(base) >= 1
    <2>1. base \in Seq(Names(k)) /\ base # <<>>
        BY <1>0 DEF PlacingOK, Protected
    <2> QED
        BY <2>1
<1>3. base \in Seq(Names(k + 1))
    BY <1>1, <1>2, SeqOfMore
<1>4. /\ nd \in Seq(Names(k + 1)) /\ Len(nd) = Len(base) + 1 /\ nd[Len(nd)] = k + 1
    BY <1>1, <1>3
<1>5. nd \in Seq(0 .. Codebase) /\ Len(nd) >= 2 /\ nd[Len(nd)] # Codebase
    <2>1. nd \in Seq(0 .. Codebase)
        <3>1. PICK S, T : S = Names(k + 1) /\ T = 0 .. Codebase
            OBVIOUS
        <3>2. S \subseteq T /\ nd \in Seq(S)
            BY <1>1, <1>4, <3>1
        <3>3. nd \in Seq(T)
            BY <3>2, SeqOfMore
        <3> QED
            BY <3>1, <3>3
    <2>2. Len(base) \in Nat
        BY <1>2
    <2> QED
        BY <1>1, <1>2, <1>4, <2>1, <2>2
<1>6. ASSUME NEW d \in folders PROVE d \in Seq(Names(k)) /\ d \in Seq(Names(k + 1)) /\ \A i \in 1 .. Len(d) : d[i] # k + 1
    <2>1. d \in Seq(Names(k))
        BY DEF RegistryInv, FoldersInv
    <2>2. d \in Seq(Names(k + 1))
        BY <1>1, <2>1, SeqOfMore
    <2> QED
        BY <1>1, <2>1, <2>2
<1>7. ASSUME NEW d \in folders PROVE d # nd /\ ~IsPrefix(nd, d)
    <2>1. ~IsPrefix(nd, d)
        BY <1>1, <1>3, <1>6, AppendIsPrefix
    <2>2. d # nd
        BY <1>4, <1>5, <1>6
    <2> QED
        BY <2>1, <2>2
<1>8. ASSUME NEW d \in folders, ~IsPrefix(d, base) PROVE ~IsPrefix(d, nd)
    <2>1. d \in Seq(Names(k + 1)) /\ d # nd
        BY <1>6, <1>7
    <2>2. IsPrefix(d, Append(base, k + 1)) => d = Append(base, k + 1) \/ IsPrefix(d, base)
        <3>1. k + 1 \in Names(k + 1)
            BY <1>1
        <3> QED
            BY <1>3, <2>1, <3>1, PrefixOfAppend
    <2> QED
        BY <1>8, <2>1, <2>2
<1>9. ASSUME NEW r \in rows, r.id \notin overlapped PROVE ~IsPrefix(r.cfg.dir, nd)
    <2>1. r.cfg.dir \in folders /\ ~IsPrefix(r.cfg.dir, base)
        BY <1>0, <1>9 DEF RegistryInv, RowsInv, PlacingOK
    <2> QED
        BY <1>8, <2>1
<1>10. ASSUME NEW u \in Threads, Registering(u) PROVE ~IsPrefix(calls[u].cfg.dir, nd)
    <2>1. calls[u].cfg.dir \in folders
        BY <1>10 DEF RegistryInv, CallsInv, CallOK
    <2>2. ~IsPrefix(calls[u].cfg.dir, base)
        BY <1>0, <1>10 DEF PlacingOK
    <2> QED
        BY <1>8, <2>1, <2>2
<1> QED
    BY <1>4, <1>5, <1>7, <1>9, <1>10

\* The configuration of a project that is created.
LEMMA CreatedTyped ==
    ASSUME NEW q \in CreateRequests, NEW nd \in Seq(0 .. Codebase),
           NEW cfg, cfg = [key |-> q.key, dir |-> nd, port |-> Sent(q.port, GatewayPort),
                           shared |-> Sent(q.shared, Settings), own |-> Sent(q.own, Empty)]
    PROVE  cfg \in Config /\ cfg.dir = nd
<1>1. /\ q.key \in Keys /\ q.port \in Ports \cup {Unsent}
      /\ q.shared \in Values \cup {Unsent} /\ q.own \in Values \cup {Unsent}
    BY RequestsAssumption
<1>2. /\ Sent(q.port, GatewayPort) \in Ports \cup {GatewayPort}
      /\ Sent(q.shared, Settings) \in Values \cup {Empty} /\ Sent(q.own, Empty) \in Values \cup {Empty}
    BY <1>1, BoundsAssumption DEF Sent
<1> QED
    BY <1>1, <1>2 DEF Config

LEMMA SetupPreserves ==
    ASSUME RegistryInv, PlacingInv, NEW t \in Threads, SetupFolder(t)
    PROVE  RegistryInv'
<1>1. PICK k : k = Cardinality(folders)
    OBVIOUS
<1>2. /\ calls[t].at = "place" /\ k < MaxDirs
      /\ rows' = rows /\ nextId' = nextId /\ jobs' = jobs /\ apps' = apps /\ stuck' = stuck
      /\ left' = left /\ used' = used
    BY <1>1 DEF SetupFolder
<1>3. PICK base : base = calls[t].base
    OBVIOUS
<1>4. PICK q, nd : q = calls[t].req /\ nd = Append(base, k + 1)
    OBVIOUS
<1>5. PICK cfg : cfg = [key |-> q.key, dir |-> nd, port |-> Sent(q.port, GatewayPort),
                        shared |-> Sent(q.shared, Settings), own |-> Sent(q.own, Empty)]
    OBVIOUS
<1>6. PICK c : c = [at |-> "register", id |-> 0, cfg |-> cfg]
    OBVIOUS
<1>7. folders' = folders \cup {nd} /\ GoesOn(t, c)
    BY <1>1, <1>3, <1>4, <1>5, <1>6 DEF SetupFolder
<1>8. c.at = "register" /\ c.id = 0 /\ c.cfg = cfg
    BY <1>6
<1>9. /\ nd \in Seq(Names(k + 1)) /\ nd \in Seq(0 .. Codebase) /\ Len(nd) >= 2 /\ nd[Len(nd)] # Codebase
      /\ \A d \in folders : d # nd /\ ~IsPrefix(nd, d)
      /\ \A r \in rows : r.id \notin overlapped => ~IsPrefix(r.cfg.dir, nd)
      /\ \A u \in Threads : Registering(u) => ~IsPrefix(calls[u].cfg.dir, nd)
    BY <1>1, <1>2, <1>3, <1>4, NewFolder
<1>10. cfg \in Config /\ cfg.dir = nd
    <2>1. q \in CreateRequests
        BY <1>2, <1>4 DEF RegistryInv, CallsInv, CallOK
    <2> QED
        BY <1>5, <1>9, <2>1, CreatedTyped
<1>11. /\ calls'[t] = c /\ \A v \in Threads : v # t => calls'[v] = calls[v]
       /\ overlapped \subseteq overlapped'
    BY <1>7, GoesOnFacts
<1>12. /\ CallsInv' /\ nextId' \in 1 .. MaxCalls + 1
       /\ \A u \in Threads : calls'[u].at \in Positions /\ calls'[u].id \in 0 .. MaxCalls
       /\ overlapped' \subseteq 1 .. MaxCalls
    <2>1. CallOK(t)'
        BY <1>7, <1>8, <1>10, <1>11 DEF CallOK, Positions, Holds, Holding, Registering
    <2>2. used' \in 0 .. MaxCalls
        BY <1>2 DEF RegistryInv, CallsInv
    <2> QED
        BY <1>2, <1>7, <2>1, <2>2, CallsTyped
<1>13. TypeOK' /\ RowsInv' /\ JobsInv'
    BY <1>2, <1>7, <1>9, <1>12 DEF RegistryInv, TypeOK, RowsInv, JobsInv
<1>14. FoldersInv'
    <2>1. k \in Nat /\ MaxDirs \in Nat /\ Names(k) \subseteq Names(k + 1)
        BY <1>1, <1>2, NamesAreNew, BoundsAssumption
    <2>2. IsFiniteSet(folders') /\ Cardinality(folders') = k + 1
        BY <1>1, <1>7, <1>9, FS_AddElement DEF RegistryInv, FoldersInv
    <2>3. ASSUME NEW d \in folders
          PROVE  d \in Seq(Names(k + 1)) /\ Len(d) >= 2 /\ d[Len(d)] # Codebase
        <3>1. d \in Seq(Names(k)) /\ Len(d) >= 2 /\ d[Len(d)] # Codebase
            BY <1>1 DEF RegistryInv, FoldersInv
        <3> QED
            BY <2>1, <3>1, SeqOfMore
    <2>4. \A d \in folders' : d \in Seq(Names(k + 1)) /\ Len(d) >= 2 /\ d[Len(d)] # Codebase
        BY <1>7, <1>9, <2>3
    <2>5. \A d \in folders' : d \in Seq(Names(Cardinality(folders')))
        BY <2>2, <2>4
    <2> QED
        BY <1>2, <2>1, <2>2, <2>4, <2>5 DEF FoldersInv, Names
<1>15. ASSUME NEW e PROVE Claimed(e)' = Claimed(e)
    BY <1>2, <1>8, <1>11 DEF Claimed, Holds, Holding
<1>16. Claimed(nd) = {}
    <2>1. \A r \in rows : r.cfg.dir # nd
        BY <1>9 DEF RegistryInv, RowsInv
    <2>2. \A u \in Threads : Holds(u) => calls[u].cfg.dir # nd
        BY <1>9 DEF RegistryInv, CallsInv, CallOK
    <2> QED
        BY <2>1, <2>2 DEF Claimed
<1>17. OwnerInv'
    <2> SUFFICES ASSUME NEW e \in folders' PROVE \A x, y \in Claimed(e)' : x = y
        BY DEF OwnerInv
    <2> QED
        BY <1>7, <1>15, <1>16 DEF RegistryInv, OwnerInv
<1>18. ASSUME NEW u \in Threads, u # t, Registering(u) PROVE calls[u].cfg.dir \in folders /\ FreshOK(u)
    BY <1>18 DEF RegistryInv, CallsInv, CallOK, FreshInv
<1>19. FreshInv'
    <2>1. FreshOK(t)'
        <3>1. \A d \in folders' : IsPrefix(nd, d) => d = nd
            BY <1>7, <1>9
        <3>2. Claimed(nd)' = {}
            BY <1>15, <1>16
        <3>3. \A v \in Threads : Registering(v)' /\ v # t => calls'[v].cfg.dir # nd
            BY <1>9, <1>11, <1>18 DEF Registering
        <3>4. calls'[t].cfg.dir = nd
            BY <1>8, <1>10, <1>11
        <3>5. Claimed(calls[t].cfg.dir)' = {}
            BY <3>2, <3>4
        <3> QED
            BY <1>2, <1>9, <1>11, <3>1, <3>3, <3>4, <3>5 DEF FreshOK
    <2>2. ASSUME NEW u \in Threads, u # t, Registering(u)' PROVE FreshOK(u)'
        <3>1. calls'[u] = calls[u] /\ Registering(u)
            BY <1>11, <2>2 DEF Registering
        <3>2. FreshOK(u) /\ calls[u].cfg.dir \in folders
            BY <1>18, <2>2, <3>1
        <3>3. \A d \in folders' : IsPrefix(calls'[u].cfg.dir, d) => d = calls'[u].cfg.dir
            BY <1>7, <1>9, <3>1, <3>2 DEF FreshOK
        <3>4. Claimed(calls[u].cfg.dir)' = {}
            <4>1. PICK e : e = calls[u].cfg.dir
                OBVIOUS
            <4>2. Claimed(e)' = {}
                BY <1>15, <3>2, <4>1 DEF FreshOK
            <4> QED
                BY <3>1, <4>1, <4>2
        <3>5. \A r \in rows' : r.id \notin overlapped' => ~IsPrefix(r.cfg.dir, calls'[u].cfg.dir)
            BY <1>2, <1>11, <3>1, <3>2 DEF FreshOK
        <3>6. \A v \in Threads : Registering(v)' /\ v # u => calls'[v].cfg.dir # calls'[u].cfg.dir
            BY <1>8, <1>9, <1>10, <1>11, <3>1, <3>2 DEF FreshOK, Registering
        <3> QED
            BY <3>3, <3>4, <3>5, <3>6 DEF FreshOK
    <2> QED
        BY <2>1, <2>2 DEF FreshInv
<1>20. AloneInv'
    <2>1. ASSUME NEW u \in Threads, NEW v \in Threads, u # v, Holds(u)', calls'[u].id = calls'[v].id
          PROVE  calls'[u].id \in overlapped'
        BY <1>2, <1>7, <1>12, <2>1, AloneOrNoted
    <2>2. ASSUME NEW u \in Threads, Holds(u)', calls'[u].id \notin overlapped'
          PROVE  \E r \in rows' : r.id = calls'[u].id /\ r.cfg.dir = calls'[u].cfg.dir
        <3>1. u # t /\ calls'[u] = calls[u] /\ Holds(u) /\ calls[u].id \notin overlapped
            BY <1>8, <1>11, <2>2 DEF Holds, Holding
        <3> QED
            BY <1>2, <3>1 DEF RegistryInv, AloneInv
    <2> QED
        BY <2>1, <2>2 DEF AloneInv
<1>21. DirsAreSeparate' /\ AppsHaveProjects'
    BY <1>2, <1>11 DEF RegistryInv, DirsAreSeparate, AppsHaveProjects, Dirs
<1>22. LeftInv'
    <2>1. Dirs' = Dirs
        BY <1>2 DEF Dirs
    <2>2. \A j \in jobs' : j.cfg.dir \in Dirs' \cup left'
        BY <1>2, <2>1 DEF RegistryInv, LeftInv
    <2>3. \A u \in Threads : calls'[u].at = "enqueue" => calls'[u].cfg.dir \in Dirs' \cup left'
        BY <1>2, <1>8, <1>11, <2>1 DEF RegistryInv, LeftInv
    <2>4. ASSUME NEW u \in Threads, calls'[u].at = "delete",
                 calls'[u].id \notin overlapped', calls'[u].cfg.dir \notin left'
          PROVE  /\ \A j \in jobs' : j.cfg.dir # calls'[u].cfg.dir
                 /\ \A a \in apps' : a.dir # calls'[u].cfg.dir
        <3>1. u # t /\ calls'[u] = calls[u]
            BY <1>8, <1>11, <2>4
        <3> QED
            BY <1>2, <1>11, <2>4, <3>1 DEF RegistryInv, LeftInv, Deploying
    <2> QED
        BY <2>2, <2>3, <2>4 DEF LeftInv, Deploying
<1>23. SettledInv'
    <2> SUFFICES ASSUME NEW s \in rows', s.id \notin overlapped' PROVE SettledOK(s)'
        BY DEF SettledInv
    <2>1. SettledOK(s)
        BY <1>2, <1>11 DEF RegistryInv, SettledInv
    <2> QED
        BY <1>2, <1>8, <1>11, <2>1, SettledStays
<1> QED
    BY <1>12, <1>13, <1>14, <1>17, <1>19, <1>20, <1>21, <1>22, <1>23 DEF RegistryInv

-----------------------------------------------------------------------------
(* The list of directories a handler compared its base with gets out of    *)
(* date, the comparison does not.                                          *)

LEMMA PlacingPreserves == RegistryInv /\ PlacingInv /\ [Next]_vars => PlacingInv'
<1> SUFFICES ASSUME RegistryInv, PlacingInv, [Next]_vars PROVE PlacingInv'
    OBVIOUS
<1>1. PICK k : k = Cardinality(folders)
    OBVIOUS
<1>2. ASSUME NEW u \in Threads PROVE PlacingOK(u)
    BY DEF PlacingInv
\* Nobody makes a folder; what is a project's directory was one, or was about
\* to be registered; handlers that are at a place come from where they were.
<1>3. ASSUME folders' = folders, overlapped \subseteq overlapped',
             \A r \in rows' : r.id \notin overlapped' =>
                \/ \E s \in rows : s.id \notin overlapped /\ s.cfg.dir = r.cfg.dir
                \/ \E v \in Threads : Registering(v) /\ calls[v].cfg.dir = r.cfg.dir,
             \A v \in Threads : Registering(v)' => Registering(v) /\ calls'[v] = calls[v],
             \A u \in Threads : calls'[u].at \in {"resolve", "place"} =>
                                   calls'[u] = calls[u] \/ PlacingOK(u)'
      PROVE  PlacingInv'
    <2> SUFFICES ASSUME NEW u \in Threads, calls'[u].at \in {"resolve", "place"}, calls'[u] = calls[u]
                 PROVE  PlacingOK(u)'
        BY <1>3 DEF PlacingInv, PlacingOK
    <2>1. PlacingOK(u) /\ Names(Cardinality(folders'))  = Names(Cardinality(folders))
        BY <1>2, <1>3
    <2>2. \A v \in Threads : Registering(v)' => ~IsPrefix(calls'[v].cfg.dir, calls'[u].base)
        BY <1>3, <2>1 DEF PlacingOK
    <2>3. calls'[u].at = "place" =>
             \A r \in rows' : r.id \notin overlapped' => ~IsPrefix(r.cfg.dir, calls'[u].base)
        BY <1>3, <2>1 DEF PlacingOK
    <2>4. calls'[u].base \in Seq(Names(Cardinality(folders'))) /\ (calls'[u].at = "place" => calls'[u].base \notin Protected)
        BY <2>1 DEF PlacingOK
    <2> QED
        BY <2>2, <2>3, <2>4 DEF PlacingOK, Names
<1>4. ASSUME NEW t \in Threads, NEW c, GoesOn(t, c), folders' = folders,
             c.at \notin {"resolve", "place", "register"},
             \A r \in rows' : r.id \notin overlapped' =>
                \/ \E s \in rows : s.id \notin overlapped /\ s.cfg.dir = r.cfg.dir
                \/ \E v \in Threads : Registering(v) /\ calls[v].cfg.dir = r.cfg.dir
      PROVE  PlacingInv'
    <2>1. /\ overlapped \subseteq overlapped' /\ calls'[t] = c
          /\ \A u \in Threads : u # t => calls'[u] = calls[u]
        BY <1>4, GoesOnFacts
    <2> QED
        BY <1>3, <1>4, <2>1 DEF Registering
<1>5. ASSUME NEW t \in Threads, Create(t) PROVE PlacingInv'
    <2>1. PICK q \in CreateRequests, base \in Bases :
             /\ Starts(t, [at |-> "resolve", id |-> 0, req |-> q, base |-> base])
             /\ UNCHANGED <<rows, nextId, folders, jobs, apps, stuck, left>>
        BY <1>5 DEF Create
    <2>2. PICK c : c = [at |-> "resolve", id |-> 0, req |-> q, base |-> base]
        OBVIOUS
    <2>3. c.at = "resolve" /\ c.base = base /\ GoesOn(t, c)
        BY <2>1, <2>2 DEF Starts
    <2>4. /\ overlapped \subseteq overlapped' /\ calls'[t] = c /\ rows' = rows /\ folders' = folders
          /\ \A u \in Threads : u # t => calls'[u] = calls[u]
        BY <2>1, <2>3, GoesOnFacts
    <2>5. /\ base \in Seq(Names(k))
          /\ \A u \in Threads : Registering(u) => ~IsPrefix(calls[u].cfg.dir, base)
        BY <1>1, BaseFacts
    <2>6. \A v \in Threads : Registering(v)' => Registering(v) /\ calls'[v] = calls[v]
        BY <2>3, <2>4 DEF Registering
    <2>7. PlacingOK(t)'
        <3>1. Names(Cardinality(folders'))  = Names(k)
            BY <1>1, <2>4
        <3>2. \A v \in Threads : Registering(v)' => ~IsPrefix(calls'[v].cfg.dir, calls'[t].base)
            BY <2>3, <2>4, <2>5, <2>6
        <3> QED
            BY <2>3, <2>4, <2>5, <3>1, <3>2 DEF PlacingOK, Names
    <2> QED
        BY <1>3, <2>4, <2>6, <2>7
<1>6. ASSUME NEW t \in Threads, Resolve(t) PROVE PlacingInv'
    <2>1. PICK c : c = [calls[t] EXCEPT !.at = "place"]
        OBVIOUS
    <2>2. /\ calls[t].at = "resolve" /\ calls[t].base \notin Protected /\ GoesOn(t, c)
          /\ \A d \in Dirs : ~IsPrefix(d, calls[t].base)
          /\ rows' = rows /\ folders' = folders
        BY <1>6, <2>1 DEF Resolve, IsSubpath
    <2>3. {"at", "id", "req", "base"} \subseteq DOMAIN calls[t]
        BY <2>2 DEF RegistryInv, CallsInv, CallOK
    <2>4. c.at = "place" /\ c.base = calls[t].base
        BY <2>1, <2>3
    <2>5. /\ overlapped \subseteq overlapped' /\ calls'[t] = c
          /\ \A u \in Threads : u # t => calls'[u] = calls[u]
        BY <2>2, GoesOnFacts
    <2>6. \A v \in Threads : Registering(v)' => Registering(v) /\ calls'[v] = calls[v]
        BY <2>4, <2>5 DEF Registering
    <2>7. PlacingOK(t)'
        <3>1. PlacingOK(t) /\ Names(Cardinality(folders'))  = Names(Cardinality(folders))
            BY <1>2, <2>2
        <3>2. \A v \in Threads : Registering(v)' => ~IsPrefix(calls'[v].cfg.dir, calls'[t].base)
            BY <2>2, <2>4, <2>5, <2>6, <3>1 DEF PlacingOK
        <3>3. \A r \in rows' : ~IsPrefix(r.cfg.dir, calls'[t].base)
            BY <2>2, <2>4, <2>5 DEF Dirs
        <3>4. calls'[t].base \in Seq(Names(Cardinality(folders')))
            BY <2>2, <2>4, <2>5, <3>1 DEF PlacingOK
        <3> QED
            BY <2>2, <2>4, <2>5, <3>2, <3>3, <3>4 DEF PlacingOK, Names
    <2> QED
        BY <1>3, <2>2, <2>5, <2>6, <2>7
\* The folder that is made has a name no base has.
<1>7. ASSUME NEW t \in Threads, SetupFolder(t) PROVE PlacingInv'
    <2>1. PICK q, nd : q = calls[t].req /\ nd = Append(calls[t].base, k + 1)
        OBVIOUS
    <2>2. PICK c : c = [at |-> "register", id |-> 0,
                        cfg |-> [key |-> q.key, dir |-> nd, port |-> Sent(q.port, GatewayPort),
                                 shared |-> Sent(q.shared, Settings), own |-> Sent(q.own, Empty)]]
        OBVIOUS
    <2>3. /\ calls[t].at = "place" /\ k < MaxDirs /\ GoesOn(t, c) /\ rows' = rows
          /\ folders' = folders \cup {nd}
        BY <1>1, <1>7, <2>1, <2>2 DEF SetupFolder
    <2>4. c.at = "register" /\ c.cfg.dir = nd
        BY <2>2
    <2>5. /\ overlapped \subseteq overlapped' /\ calls'[t] = c
          /\ \A u \in Threads : u # t => calls'[u] = calls[u]
        BY <2>3, GoesOnFacts
    <2>6. /\ k \in Nat /\ k + 1 \notin Names(k) /\ Names(k) \subseteq Names(k + 1) /\ k + 1 \in Names(k + 1)
        BY <1>1, <2>3, NamesAreNew
    <2>7. Cardinality(folders') = k + 1
        <3>1. \A d \in folders : d # nd
            BY <1>1, <2>1, <2>3, NewFolder
        <3> QED
            BY <1>1, <2>3, <3>1, FS_AddElement DEF RegistryInv, FoldersInv
    <2> SUFFICES ASSUME NEW u \in Threads, calls'[u].at \in {"resolve", "place"} PROVE PlacingOK(u)'
        BY DEF PlacingInv, PlacingOK
    <2>8. u # t /\ calls'[u] = calls[u] /\ PlacingOK(u)
        BY <1>2, <2>4, <2>5
    <2>9. calls[u].base \in Seq(Names(k)) /\ calls[u].base \in Seq(Names(k + 1))
        <3>1. calls[u].base \in Seq(Names(k))
            BY <1>1, <2>8 DEF PlacingOK
        <3> QED
            BY <2>6, <3>1, SeqOfMore
    <2>10. ~IsPrefix(nd, calls[u].base)
        <3>1. PlacingOK(t) /\ calls[t].base \in Seq(Names(k))
            BY <1>1, <1>2, <2>3 DEF PlacingOK
        <3>2. calls[t].base \in Seq(Names(k + 1))
            BY <2>6, <3>1, SeqOfMore
        <3>3. \A i \in 1 .. Len(calls[u].base) : calls[u].base[i] # k + 1
            BY <2>6, <2>9
        <3> QED
            BY <2>1, <2>6, <2>9, <3>2, <3>3, AppendIsPrefix
    <2>11. \A v \in Threads : Registering(v)' => ~IsPrefix(calls'[v].cfg.dir, calls'[u].base)
        BY <2>4, <2>5, <2>8, <2>10 DEF PlacingOK, Registering
    <2>12. calls'[u].at = "place" =>
             \A r \in rows' : r.id \notin overlapped' => ~IsPrefix(r.cfg.dir, calls'[u].base)
        BY <2>3, <2>5, <2>8 DEF PlacingOK
    <2>13. calls'[u].base \in Seq(Names(Cardinality(folders')))
        BY <2>7, <2>8, <2>9
    <2> QED
        BY <2>8, <2>11, <2>12, <2>13 DEF PlacingOK, Names
\* The directory that is registered is one that no base is in.
<1>8. ASSUME NEW t \in Threads, Register(t) PROVE PlacingInv'
    <2>1. PICK i, c : Registers(t, i, c)
        BY <1>8, RegisterCase
    <2>2. Registering(t) /\ folders' = folders
        BY <1>8, RegisterFacts DEF Registering
    <2>3. /\ c.at = "enqueue" /\ GoesOn(t, c) /\ c.cfg.dir = calls[t].cfg.dir
          /\ \A s \in rows' : (s \in rows /\ s.id # i) \/ (s.id = i /\ s.cfg = c.cfg)
        BY <2>1 DEF Registers
    <2>4. overlapped \subseteq overlapped'
        BY <2>3, GoesOnFacts
    <2>5. \A r \in rows' : r.id \notin overlapped' =>
             \/ \E s \in rows : s.id \notin overlapped /\ s.cfg.dir = r.cfg.dir
             \/ \E v \in Threads : Registering(v) /\ calls[v].cfg.dir = r.cfg.dir
        BY <2>2, <2>3, <2>4
    <2> QED
        BY <1>4, <2>2, <2>3, <2>5
\* A handler that is alone with its project writes the directory it has.
<1>9. ASSUME NEW t \in Threads, Write(t) PROVE PlacingInv'
    <2>1. /\ calls[t].at = "write" /\ folders' = folders
          /\ \E c : /\ GoesOn(t, c) /\ c.at \in {"idle", "enqueue"}
                    /\ \A r \in rows' : r \in rows \/ (r.id = calls[t].id /\ r.cfg = calls[t].cfg)
        BY <1>9 DEF Write, Idle
    <2>2. PICK c : /\ GoesOn(t, c) /\ c.at \in {"idle", "enqueue"}
                   /\ \A r \in rows' : r \in rows \/ (r.id = calls[t].id /\ r.cfg = calls[t].cfg)
        BY <2>1
    <2>3. overlapped \subseteq overlapped'
        BY <2>2, GoesOnFacts
    <2>4. calls[t].id \notin overlapped => \E s \in rows : s.id = calls[t].id /\ s.cfg.dir = calls[t].cfg.dir
        BY <2>1 DEF RegistryInv, AloneInv, Holds, Holding
    <2>5. \A r \in rows' : r.id \notin overlapped' =>
             \E s \in rows : s.id \notin overlapped /\ s.cfg.dir = r.cfg.dir
        BY <2>2, <2>3, <2>4
    <2> QED
        BY <1>4, <2>1, <2>2, <2>5
<1>10. ASSUME NEW t \in Threads,
              \/ ResolveFails(t) \/ Update(t) \/ CheckPort(t) \/ DeployByHand(t) \/ Enqueue(t)
              \/ Delete(t) \/ StopApp(t) \/ DeleteRow(t)
       PROVE  PlacingInv'
    <2>1. folders' = folders /\ rows' \subseteq rows
        BY <1>10 DEF ResolveFails, Update, CheckPort, DeployByHand, Enqueue, Delete, StopApp, DeleteRow
    <2>2. \E c : GoesOn(t, c) /\ c.at \notin {"resolve", "place", "register"}
        <3>1. CASE ResolveFails(t) \/ Enqueue(t) \/ DeleteRow(t)
            BY <3>1 DEF ResolveFails, Enqueue, DeleteRow, Idle
        <3>2. CASE Update(t) \/ DeployByHand(t) \/ Delete(t)
            <4>1. \A c : Starts(t, c) => GoesOn(t, c)
                BY DEF Starts
            <4>2. CASE Update(t)
                <5>1. PICK r, q : Starts(t, [at |-> "check", id |-> r.id, req |-> q,
                                             cfg |-> Changed(ToConfig(r), q)])
                    BY <4>2 DEF Update
                <5>2. GoesOn(t, [at |-> "check", id |-> r.id, req |-> q, cfg |-> Changed(ToConfig(r), q)])
                    BY <4>1, <5>1
                <5> QED
                    BY <5>2
            <4>3. CASE DeployByHand(t)
                <5>1. PICK r : Starts(t, [at |-> "enqueue", id |-> r.id, cfg |-> ToConfig(r)])
                    BY <4>3 DEF DeployByHand
                <5>2. GoesOn(t, [at |-> "enqueue", id |-> r.id, cfg |-> ToConfig(r)])
                    BY <4>1, <5>1
                <5> QED
                    BY <5>2
            <4>4. CASE Delete(t)
                <5>1. PICK r : Starts(t, [at |-> "stop", id |-> r.id, cfg |-> r.cfg])
                    BY <4>4 DEF Delete
                <5>2. GoesOn(t, [at |-> "stop", id |-> r.id, cfg |-> r.cfg])
                    BY <4>1, <5>1
                <5> QED
                    BY <5>2
            <4> QED
                BY <3>2, <4>2, <4>3, <4>4
        <3>3. CASE CheckPort(t) \/ StopApp(t)
            <4>1. Holds(t)
                BY <3>3 DEF CheckPort, StopApp, Holds, Holding
            <4>2. \A p \in {"write", "delete"} : [calls[t] EXCEPT !.at = p].at = p
                BY <4>1, GoesOnWorks DEF Holding
            <4>3. \E c : GoesOn(t, c) /\ c.at \in {"idle", "write", "delete"}
                <5>1. CASE GoesOn(t, Idle)
                    BY <5>1 DEF Idle
                <5>2. ASSUME NEW p \in {"write", "delete"}, GoesOn(t, [calls[t] EXCEPT !.at = p])
                      PROVE  \E c : GoesOn(t, c) /\ c.at \in {"idle", "write", "delete"}
                    BY <4>2, <5>2
                <5> QED
                    BY <3>3, <5>1, <5>2 DEF CheckPort, StopApp
            <4> QED
                BY <4>3
        <3> QED
            BY <1>10, <3>1, <3>2, <3>3
    <2>3. PICK c : GoesOn(t, c) /\ c.at \notin {"resolve", "place", "register"}
        BY <2>2
    <2>4. overlapped \subseteq overlapped'
        BY <2>3, GoesOnFacts
    <2> QED
        BY <1>4, <2>1, <2>3, <2>4
<1>11. ASSUME \/ UNCHANGED vars \/ \E j \in jobs : Deployed(j) \/ DeployFails(j)
       PROVE  PlacingInv'
    <2>1. rows' = rows /\ folders' = folders /\ calls' = calls /\ overlapped' = overlapped
        BY <1>11 DEF vars, Deployed, DeployFails
    <2> QED
        BY <1>3, <2>1 DEF Registering
<1> QED
    BY <1>5, <1>6, <1>7, <1>8, <1>9, <1>10, <1>11 DEF Next

-----------------------------------------------------------------------------
(* The theorems.                                                           *)

LEMMA InitInvariant == Init => RegistryInv /\ PlacingInv
<1> SUFFICES ASSUME Init PROVE RegistryInv /\ PlacingInv
    OBVIOUS
<1>1. /\ rows = {} /\ nextId = 1 /\ folders = {} /\ calls = NoCalls /\ jobs = {} /\ apps = {}
      /\ stuck = {} /\ overlapped = {} /\ left = {} /\ used = 0
    BY DEF Init
<1>2. DOMAIN calls = Threads /\ \A t \in Threads : calls[t] = Idle /\ Idle.at = "idle" /\ Idle.id = 0
    BY <1>1 DEF NoCalls, Idle
<1>3. \A t \in Threads : ~Holds(t) /\ ~Registering(t)
    BY <1>2 DEF Holds, Holding, Registering
<1>4. Creating = {} /\ IsFiniteSet({}) /\ Cardinality({}) = 0
    BY <1>2, FS_EmptySet DEF Creating
<1>5. TypeOK
    BY <1>1, <1>2, BoundsAssumption DEF TypeOK, Positions
<1>6. CallsInv
    <2>1. \A t \in Threads : CallOK(t)
        BY <1>2, <1>3 DEF CallOK, Positions
    <2> QED
        BY <1>1, <1>2, <1>4, <2>1, BoundsAssumption DEF CallsInv
<1>7. RowsInv /\ JobsInv /\ OwnerInv /\ DirsAreSeparate /\ AppsHaveProjects /\ SettledInv
    BY <1>1 DEF RowsInv, JobsInv, OwnerInv, DirsAreSeparate, AppsHaveProjects, SettledInv
<1>8. FoldersInv
    BY <1>1, <1>4, BoundsAssumption DEF FoldersInv
<1>9. FreshInv /\ AloneInv
    BY <1>3 DEF FreshInv, AloneInv
<1>10. LeftInv
    BY <1>1, <1>2 DEF LeftInv
<1>11. PlacingInv
    BY <1>2 DEF PlacingInv, PlacingOK
<1> QED
    BY <1>5, <1>6, <1>7, <1>8, <1>9, <1>10, <1>11 DEF RegistryInv

LEMMA StutterPreserves == RegistryInv /\ UNCHANGED vars => RegistryInv'
<1> SUFFICES ASSUME RegistryInv, UNCHANGED vars PROVE RegistryInv'
    OBVIOUS
<1>1. /\ rows' = rows /\ nextId' = nextId /\ folders' = folders /\ calls' = calls /\ jobs' = jobs /\ apps' = apps
      /\ stuck' = stuck /\ overlapped' = overlapped /\ left' = left /\ used' = used
    BY DEF vars
<1>2. TypeOK' /\ RowsInv' /\ JobsInv' /\ DirsAreSeparate' /\ AppsHaveProjects'
    BY <1>1 DEF RegistryInv, TypeOK, RowsInv, JobsInv, DirsAreSeparate, AppsHaveProjects, Dirs
<1>3. CallsInv'
    BY <1>1 DEF RegistryInv, CallsInv, CallOK, Creating, Holds, Registering
<1>4. FoldersInv'
    BY <1>1 DEF RegistryInv, FoldersInv, Names
<1>5. ASSUME NEW e PROVE Claimed(e)' = Claimed(e)
    BY <1>1 DEF Claimed, Holds
<1>6. OwnerInv'
    BY <1>1, <1>5 DEF RegistryInv, OwnerInv
<1>7. FreshInv'
    <2> SUFFICES ASSUME NEW t \in Threads, Registering(t)' PROVE FreshOK(t)'
        BY DEF FreshInv
    <2>1. FreshOK(t)
        BY <1>1 DEF RegistryInv, FreshInv, Registering
    <2>2. Claimed(calls[t].cfg.dir)' = Claimed(calls[t].cfg.dir)
        BY <1>1 DEF Claimed, Holds
    <2> QED
        BY <1>1, <2>1, <2>2 DEF FreshOK, Registering
<1>8. AloneInv'
    BY <1>1 DEF RegistryInv, AloneInv, Holds
<1>9. LeftInv'
    BY <1>1 DEF RegistryInv, LeftInv, Dirs, Deploying
<1>10. SettledInv'
    <2> SUFFICES ASSUME NEW s \in rows', s.id \notin overlapped' PROVE SettledOK(s)'
        BY DEF SettledInv
    <2> QED
        BY <1>1, SettledStays DEF RegistryInv, SettledInv
<1> QED
    BY <1>2, <1>3, <1>4, <1>6, <1>7, <1>8, <1>9, <1>10 DEF RegistryInv

LEMMA StepInvariant == RegistryInv /\ PlacingInv /\ [Next]_vars => RegistryInv'
<1> SUFFICES ASSUME RegistryInv, PlacingInv, [Next]_vars PROVE RegistryInv'
    OBVIOUS
<1>1. ASSUME NEW t \in Threads,
             \/ Create(t) \/ Resolve(t) \/ ResolveFails(t)
             \/ Update(t) \/ CheckPort(t) \/ Delete(t) \/ StopApp(t)
      PROVE  RegistryInv'
    <2>1. \E c : QuietMove(t, c)
        BY <1>1, QuietSteps
    <2> QED
        BY <2>1, QuietPreserves
<1>2. ASSUME NEW t \in Threads, SetupFolder(t) PROVE RegistryInv'
    BY <1>2, SetupPreserves
<1>3. ASSUME NEW t \in Threads, Register(t) PROVE RegistryInv'
    BY <1>3, RegisterPreserves
<1>4. ASSUME NEW t \in Threads, Write(t) PROVE RegistryInv'
    BY <1>4, WritePreserves
<1>5. ASSUME NEW t \in Threads, DeployByHand(t) PROVE RegistryInv'
    BY <1>5, ByHandPreserves
<1>6. ASSUME NEW t \in Threads, Enqueue(t) PROVE RegistryInv'
    BY <1>6, EnqueuePreserves
<1>7. ASSUME NEW t \in Threads, DeleteRow(t) PROVE RegistryInv'
    BY <1>7, DeletePreserves
<1>8. ASSUME NEW j \in jobs, Deployed(j) \/ DeployFails(j) PROVE RegistryInv'
    BY <1>8, JobPreserves
<1>9. CASE UNCHANGED vars
    BY <1>9, StutterPreserves
<1> QED
    BY <1>1, <1>2, <1>3, <1>4, <1>5, <1>6, <1>7, <1>8, <1>9 DEF Next

\* RegistryInv holds in every reachable state: who has a directory or means
\* to have it (OwnerInv, FreshInv, AloneInv), what was given up (LeftInv) and
\* whose configuration comes last (SettledInv), whatever the interleaving of
\* the handlers of api/server.go and of the deployments; also with a list of
\* directories that is out of date when one is made (PlacingInv).
THEOREM RegistryInvariant == Spec => []RegistryInv
BY InitInvariant, StepInvariant, PlacingPreserves, PTL DEF Spec

\* The types, and that ids and keys stay unique although RegisterProject and
\* UpdateProject look for the key in a statement before the one that writes.
THEOREM TypeCorrect == Spec => []TypeOK
<1>1. RegistryInv => TypeOK
    BY DEF RegistryInv
<1> QED
    BY <1>1, RegistryInvariant, PTL

\* Of two projects no handlers collided on, none has its directory inside the
\* other's (ResolveDeploymentPath, deploypath/path.go:100).
THEOREM DirectoriesAreSeparate == Spec => []DirsAreSeparate
<1>1. RegistryInv => DirsAreSeparate
    BY DEF RegistryInv
<1> QED
    BY <1>1, RegistryInvariant, PTL

\* Every application runs in the directory of a project, or in one that was
\* left while it was in use (handleDeleteProject, server.go:694).
THEOREM ApplicationsHaveProjects == Spec => []AppsHaveProjects
<1>1. RegistryInv => AppsHaveProjects
    BY DEF RegistryInv
<1> QED
    BY <1>1, RegistryInvariant, PTL

\* A project that nobody works on runs with the configuration of its row
\* ("changes take effect immediately", server.go:478).
THEOREM QuietProjectsMatch == Spec => []QuietAppsMatchRows
<1>1. RegistryInv => QuietAppsMatchRows
    <2> SUFFICES ASSUME RegistryInv, NEW r \in rows, r.id \notin overlapped, ~BusyWith(r), r.cfg.dir \notin stuck,
                        NEW a \in apps, a.dir = r.cfg.dir
                 PROVE  a.own = r.cfg.own /\ a.key = r.cfg.key
        BY DEF QuietAppsMatchRows
    <2>1. SettledOK(r)
        BY DEF RegistryInv, SettledInv
    <2>2. ~Announced(r) /\ ~Deploying(r.cfg.dir)
        BY DEF BusyWith, Announced
    <2> QED
        BY <2>1, <2>2 DEF SettledOK, Agrees
<1> QED
    BY <1>1, RegistryInvariant, PTL


=============================================================================
