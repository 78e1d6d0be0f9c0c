------------------------------ MODULE FleetSync ------------------------------
(***************************************************************************)
(* A fleet of nodes that share one MongoDB collection: from a push to the  *)
(* deployment of its commit on every node (database/mongo.go, the webhook  *)
(* of api/server.go, the boot of main.go).                                 *)
(*                                                                         *)
(* The webhook of a push reaches the gateways of its repository.  A        *)
(* gateway writes the commit into the document of (repository, branch);    *)
(* the write becomes an event on the change stream of every node whose     *)
(* filter lets it through, and the node enqueues all its projects of that  *)
(* repository.  The stream has no resume token: what happens while it is   *)
(* closed is never delivered.                                              *)
(*                                                                         *)
(* Commits are numbered in the order in which they appear in the           *)
(* repositories; commit 0 is there from the start.  The deployment queue   *)
(* is the set of projects with a request its next run covers, which is     *)
(* what DeployQueue's EveryRequestCovered promises, and a deployment is    *)
(* the synchronisation with the tip of its branch.  All nodes have a URI   *)
(* of MongoDB; without one a webhook is DeployPipeline's.                  *)
(***************************************************************************)
EXTENDS Naturals, Sequences, SequencesExt, FiniteSets

CONSTANTS
    Nodes,
    Projects,   \* [id, node, repo, branch]: every row of users there can be
    Late,       \* projects that may not be registered yet at the start
    Gateways,   \* [node, repo]: the webhooks configured on the forge
    MaxCommits, \* bound: commits pushed
    MaxFaults,  \* bound: crashes of nodes, breaks of streams, errors of SQLite
    MaxEdits    \* bound: registrations, deletions and pins

NoHash == 0     \* a document whose commit_hash is not set
Unpinned == MaxCommits + 1

Source(p) == [repo |-> p.repo, branch |-> p.branch]
Sources == {Source(p) : p \in Projects}
Repos == {p.repo : p \in Projects}
At(n) == {p \in Projects : p.node = n}

ASSUME LateAssumption == Late \subseteq Projects
ASSUME TopologyAssumption ==
    (\A p \in Projects : p.node \in Nodes) /\ (\A g \in Gateways : g.node \in Nodes)
ASSUME BoundsAssumption == MaxCommits \in Nat /\ MaxFaults \in Nat /\ MaxEdits \in Nat

VARIABLES
    tip,       \* tip[s]: the commit at the head of the branch
    hooks,     \* webhooks on their way to a gateway
    writers,   \* goroutines in UpdateCommitHash
    versions,  \* versions[s]: values commit_hash had in the document of s
    up,        \* nodes whose service runs
    stream,    \* stream[n]: whether the change stream is open, and its filter
    events,    \* events[n]: events the stream of n is still to return
    recent,    \* recent[n]: recentDeploys, [repo, hash] of the last 60 s
    registered,\* rows of users on all the nodes
    creating,  \* projects registered whose handler has not enqueued them yet
    pinnedAt,  \* pinnedAt[p]: the tip when p was pinned, or Unpinned
    requested, \* projects with a deployment waiting
    tried,     \* tried[p]: the commit the last deployment of p was aimed at
    missed,    \* history: projects whose node missed a write or failed to read them
    faults, edits \* used up bounds

vars == <<tip, hooks, writers, versions, up, stream, events, recent, registered,
          creating, pinnedAt, requested, tried, missed, faults, edits>>

fleet == <<up, stream, recent>>
rows == <<registered, creating, pinnedAt, edits>>

Message == [node : Nodes, source : Sources, hash : 1 .. MaxCommits]

\* startWatchLoop builds the filter once, from the repositories registered
\* when the stream is opened; a node without any watches everything.
Stream == [state : {"closed", "filtered", "everything"}, repos : SUBSET Repos]
Closed == [state |-> "closed", repos |-> {}]

\* kind "touch": an update that leaves commit_hash as it was.  at: the
\* version of the document the event announces.
Event == [source : Sources, kind : {"insert", "update", "touch"}, at : Nat]

\* The stream a node with the projects ps opens.
Opened(ps) ==
    [state |-> IF ps = {} THEN "everything" ELSE "filtered", repos |-> {p.repo : p \in ps}]

Hosted(n) == registered \cap At(n)

Hosts(n, repo) == {p \in Hosted(n) : p.repo = repo}

Init ==
    /\ tip = [s \in Sources |-> 0]
    /\ hooks = {}
    /\ writers = {}
    /\ versions = [s \in Sources |-> <<>>]
    /\ up = Nodes
    /\ events = [n \in Nodes |-> <<>>]
    /\ recent = [n \in Nodes |-> {}]
    /\ \E ps \in SUBSET Late : registered = Projects \ ps
    /\ stream = [n \in Nodes |-> Opened(Hosted(n))]
    /\ creating = {}
    /\ pinnedAt = [p \in Projects |-> Unpinned]
    /\ requested = {}
    /\ tried = [p \in Projects |-> 0]
    /\ missed = {}
    /\ faults = 0
    /\ edits = 0

-----------------------------------------------------------------------------
(* The forge.                                                              *)

Pushed == {tip[s] : s \in Sources}

\* The head of a branch moves to a new commit or to one that another branch
\* of the repository already has (a merge without a merge commit).
NewTips(s) ==
    LET newest == CHOOSE c \in Pushed : \A d \in Pushed : d <= c
        others == {tip[t] : t \in {t \in Sources : t.repo = s.repo}}
    IN  {c \in others \cup {newest + 1} : tip[s] < c /\ c <= MaxCommits}

Push(s) ==
    \E c \in NewTips(s) :
        /\ tip' = [tip EXCEPT ![s] = c]
        /\ hooks' = hooks \cup
              {[node |-> g.node, source |-> s, hash |-> c] :
                  g \in {g \in Gateways : g.repo = s.repo}}
        /\ UNCHANGED <<writers, versions, fleet, events, rows, requested, tried, missed, faults>>

\* A gateway that is down, or over its limit of 20 requests a minute; the
\* forge does not send a webhook twice.
LoseWebhook(h) ==
    /\ hooks' = hooks \ {h}
    /\ UNCHANGED <<tip, writers, versions, fleet, events, rows, requested, tried, missed, faults>>

-----------------------------------------------------------------------------
(* The gateway.                                                            *)

\* POST /: GetProjectByRepoURL returns one of the projects of the repository,
\* and the branch and the pin of that one decide for the whole fleet.
Webhook(h) ==
    /\ h.node \in up
    /\ hooks' = hooks \ {h}
    /\ \/ /\ Hosts(h.node, h.source.repo) = {}
          /\ UNCHANGED writers
       \/ \E p \in Hosts(h.node, h.source.repo) :
             IF p.branch = h.source.branch /\ pinnedAt[p] = Unpinned
                THEN writers' = writers \cup {h}
                ELSE UNCHANGED writers
    /\ UNCHANGED <<tip, versions, fleet, events, rows, requested, tried, missed, faults>>

Delivers(n, s, kind) ==
    CASE stream[n].state = "closed" -> FALSE
      [] stream[n].state = "everything" -> TRUE
      [] OTHER -> s.repo \in stream[n].repos /\ kind # "touch"

\* MongoDB: an upsert of the document of s, and its event on the streams.
Upsert(s, hash) ==
    LET v    == versions[s]
        kind == IF v = <<>> THEN "insert"
                ELSE IF hash \in {NoHash, Last(v)} THEN "touch" ELSE "update"
        w    == IF kind = "touch" THEN v ELSE Append(v, hash)
    IN  /\ versions' = [versions EXCEPT ![s] = w]
        /\ events' = [n \in Nodes |->
              IF Delivers(n, s, kind)
                 THEN Append(events[n], [source |-> s, kind |-> kind, at |-> Len(w)])
                 ELSE events[n]]
        /\ missed' = IF kind = "touch" \/ hash = NoHash THEN missed ELSE missed \cup
              {p \in registered : Source(p) = s /\ p.node \in up /\ ~Delivers(p.node, s, kind)}

\* UpdateCommitHash, a goroutine of its own for every webhook.
UpdateCommitHash(w) ==
    /\ writers' = writers \ {w}
    /\ Upsert(w.source, w.hash)
    /\ UNCHANGED <<tip, hooks, fleet, rows, requested, tried, faults>>

\* MongoDB cannot be reached; the error is logged and the commit dropped.
UpdateFails(w) ==
    /\ writers' = writers \ {w}
    /\ UNCHANGED <<tip, hooks, versions, fleet, events, rows, requested, tried, missed, faults>>

-----------------------------------------------------------------------------
(* A node of the fleet.                                                    *)

OpenStream(n) ==
    /\ n \in up /\ stream[n] = Closed
    /\ stream' = [stream EXCEPT ![n] = Opened(Hosted(n))]
    /\ UNCHANGED <<tip, hooks, writers, versions, up, events, recent, rows, requested, tried,
                   missed, faults>>

\* stream.Next fails; WatchChanges opens a new stream after its backoff.
StreamBreaks(n) ==
    /\ stream[n] # Closed
    /\ faults < MaxFaults
    /\ faults' = faults + 1
    /\ stream' = [stream EXCEPT ![n] = Closed]
    /\ events' = [events EXCEPT ![n] = <<>>]
    /\ missed' = missed \cup
          {p \in Hosted(n) : \E i \in DOMAIN events[n] : events[n][i].source = Source(p)}
    /\ UNCHANGED <<tip, hooks, writers, versions, up, recent, rows, requested, tried>>

\* UpdateLookup: an update comes with the document as it is when the server
\* reads it, an insert with the document inserted.
Lookup(e) ==
    LET v == versions[e.source]
    IN  IF e.kind = "insert" THEN {v[e.at]} ELSE {v[i] : i \in e.at .. Len(v)}

\* A guard that ignores the commit: one deployment a minute per repository.
DedupByRepo(key, keys) == \E k \in keys : k.repo = key.repo

\* A guard that is never passed by a commit seen in the last 60 s.
IsRecent(key, keys) == key \in keys

\* A variant that remembers documents without a commit, too.
RememberAlways(key, keys) == keys \cup {key}

Remember(key, keys) == IF key.hash = NoHash THEN keys ELSE keys \cup {key}

\* The loop of startWatchLoop: every project of the repository, of whatever
\* branch and pinned or not, is handed to the callback, which enqueues it.
\* lost: those whose rows SQLite or ToConfig gives an error for; the guard
\* remembers the commit all the same.
Receive(n) ==
    /\ events[n] # <<>>
    /\ events' = [events EXCEPT ![n] = Tail(@)]
    /\ LET e == Head(events[n])
       IN  \E hash \in Lookup(e), lost \in SUBSET Hosts(n, e.source.repo) :
              LET key == [repo |-> e.source.repo, hash |-> hash]
              IN  IF hash # NoHash /\ IsRecent(key, recent[n])
                     THEN UNCHANGED <<recent, requested, missed, faults>>
                     ELSE /\ lost = {} \/ faults < MaxFaults
                          /\ recent' = [recent EXCEPT ![n] = Remember(key, @)]
                          /\ requested' = requested \cup (Hosts(n, e.source.repo) \ lost)
                          /\ missed' = missed \cup lost
                          /\ faults' = IF lost = {} THEN faults ELSE faults + 1
    /\ UNCHANGED <<tip, hooks, writers, versions, up, stream, rows, tried>>

\* 60 seconds have passed: the entry no longer counts.
Forget(n) ==
    /\ \E key \in recent[n] : recent' = [recent EXCEPT ![n] = @ \ {key}]
    /\ UNCHANGED <<tip, hooks, writers, versions, up, stream, events, rows, requested, tried,
                   missed, faults>>

\* A deployment of the queue, as far as SyncRepo.
Deploy(p) ==
    /\ p \in requested
    /\ requested' = requested \ {p}
    /\ tried' = [tried EXCEPT ![p] = tip[Source(p)]]
    /\ missed' = missed \ {p}
    /\ UNCHANGED <<tip, hooks, writers, versions, fleet, events, rows, faults>>

\* Everything in memory is lost: the queue, the stream, the guard, the
\* goroutines that write and the handlers.
Crash(n) ==
    /\ n \in up
    /\ faults < MaxFaults
    /\ faults' = faults + 1
    /\ up' = up \ {n}
    /\ stream' = [stream EXCEPT ![n] = Closed]
    /\ events' = [events EXCEPT ![n] = <<>>]
    /\ recent' = [recent EXCEPT ![n] = {}]
    /\ requested' = requested \ At(n)
    /\ creating' = creating \ At(n)
    /\ writers' = {w \in writers : w.node # n}
    /\ missed' = missed \ At(n)
    /\ UNCHANGED <<tip, hooks, versions, registered, pinnedAt, tried, edits>>

\* A variant without the fleet resurrection.
BootWithoutFleet(n) ==
    /\ n \notin up
    /\ up' = up \cup {n}
    /\ UNCHANGED <<tip, hooks, writers, versions, stream, events, recent, rows, requested, tried,
                   missed, faults>>

\* main: the fleet resurrection enqueues every project of the node, pinned
\* ones too; the change stream is opened afterwards, by another goroutine.
Boot(n) ==
    /\ n \notin up
    /\ up' = up \cup {n}
    /\ requested' = requested \cup Hosted(n)
    /\ UNCHANGED <<tip, hooks, writers, versions, stream, events, recent, rows, tried, missed, faults>>

-----------------------------------------------------------------------------
(* The operators of the nodes.                                             *)

\* POST /projects: RegisterProject.
Register(p) ==
    /\ p \notin registered /\ p.node \in up
    /\ edits < MaxEdits
    /\ edits' = edits + 1
    /\ registered' = registered \cup {p}
    /\ creating' = creating \cup {p}
    /\ UNCHANGED <<tip, hooks, writers, versions, fleet, events, pinnedAt, requested, tried,
                   missed, faults>>

\* ... then RegisterToMongo, whose failure changes nothing, and the queue.
FinishCreate(p) ==
    /\ p \in creating
    /\ creating' = creating \ {p}
    /\ requested' = requested \cup {p}
    /\ \/ Upsert(Source(p), NoHash)
       \/ UNCHANGED <<versions, events, missed>>
    /\ UNCHANGED <<tip, hooks, writers, fleet, registered, pinnedAt, tried, faults,
                   edits>>

\* DELETE /projects/:id.  The document stays, and so does a request.
Delete(p) ==
    /\ p \in registered /\ p.node \in up
    /\ edits < MaxEdits
    /\ edits' = edits + 1
    /\ registered' = registered \ {p}
    /\ pinnedAt' = [pinnedAt EXCEPT ![p] = Unpinned]
    /\ missed' = missed \ {p}
    /\ UNCHANGED <<tip, hooks, writers, versions, fleet, events, creating, requested, tried,
                   faults>>

Pin(p) ==
    /\ p \in registered
    /\ edits < MaxEdits
    /\ edits' = edits + 1
    /\ pinnedAt' = [pinnedAt EXCEPT ![p] = IF @ = Unpinned THEN tip[Source(p)] ELSE @]
    /\ UNCHANGED <<tip, hooks, writers, versions, fleet, events, registered, creating, requested,
                   tried, missed, faults>>

Unpin(p) ==
    /\ p \in registered
    /\ pinnedAt[p] # Unpinned
    /\ pinnedAt' = [pinnedAt EXCEPT ![p] = Unpinned]
    /\ UNCHANGED <<tip, hooks, writers, versions, fleet, events, registered, creating, requested,
                   tried, missed, faults, edits>>

-----------------------------------------------------------------------------

Next ==
    \/ \E s \in Sources : Push(s)
    \/ \E h \in hooks : LoseWebhook(h) \/ Webhook(h)
    \/ \E w \in writers : UpdateCommitHash(w) \/ UpdateFails(w)
    \/ \E n \in Nodes :
          OpenStream(n) \/ StreamBreaks(n) \/ Receive(n) \/ Forget(n) \/ Crash(n) \/ Boot(n)
    \/ \E p \in Projects :
          Deploy(p) \/ Register(p) \/ FinishCreate(p) \/ Delete(p) \/ Pin(p) \/ Unpin(p)

Spec == Init /\ [][Next]_vars

\* systemd restarts the service (Restart=always), the driver returns what the
\* stream has, and a deployment waiting in the queue is run in the end.
\* Nothing is assumed of webhooks, of MongoDB or of a stream that is closed.
Fairness ==
    /\ \A n \in Nodes : WF_vars(Boot(n)) /\ WF_vars(Receive(n))
    /\ \A p \in Projects : WF_vars(Deploy(p)) /\ WF_vars(FinishCreate(p))

FairSpec == Spec /\ Fairness

-----------------------------------------------------------------------------

\* Types.  An event is of a version the document had.  recentDeploys never
\* holds an entry for a document without a commit: "if commitHash != """
\* (mongo.go:250); otherwise the insert of a new document would silence the
\* next one of the repository.
TypeOK ==
    /\ tip \in [Sources -> 0 .. MaxCommits]
    /\ hooks \subseteq Message
    /\ writers \subseteq Message
    /\ versions \in [Sources -> Seq(0 .. MaxCommits)]
    /\ up \subseteq Nodes
    /\ stream \in [Nodes -> Stream]
    /\ events \in [Nodes -> Seq(Event)]
    /\ \A n \in Nodes : \A i \in DOMAIN events[n] :
          events[n][i].at \in DOMAIN versions[events[n][i].source]
    /\ recent \in [Nodes -> SUBSET [repo : Repos, hash : 1 .. MaxCommits]]
    /\ registered \subseteq Projects /\ creating \subseteq Projects
    /\ pinnedAt \in [Projects -> 0 .. Unpinned]
    /\ requested \subseteq Projects /\ missed \subseteq Projects
    /\ tried \in [Projects -> 0 .. MaxCommits]
    /\ faults \in 0 .. MaxFaults /\ edits \in 0 .. MaxEdits

Written(s) == {c \in ToSet(versions[s]) : c # NoHash}

Announced(p) == \E i \in DOMAIN events[p.node] : events[p.node][i].source = Source(p)

\* A project that is behind a commit written into its document has a
\* deployment coming: it is enqueued, being created, or an event of its
\* document is on its way, and the guard against duplicates will not swallow
\* it; unless the stream of its node was closed, or opened before the node
\* hosted that repository, when the commit was written, or the node could not
\* read the project when the event came.
LagIsScheduled ==
    \A p \in registered :
        p.node \in up /\ (\E c \in Written(Source(p)) : tried[p] < c) =>
            p \in requested \cup creating \cup missed \/ Announced(p)

\* Every commit written into MongoDB is tried, or overtaken by a newer one,
\* on every node that hosts its branch, whatever streams break and nodes
\* crash; unless the node was not told of it, or could not read the project.
WrittenCommitsReachNodes ==
    \A p \in Projects, c \in 1 .. MaxCommits :
        p \in registered /\ c \in Written(Source(p)) ~>
            tried[p] >= c \/ p \in missed \/ p \notin registered

=============================================================================
