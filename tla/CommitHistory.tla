---------------------------- MODULE CommitHistory ----------------------------
(***************************************************************************)
(* The table commit_history of one project, database/registry.go.          *)
(*                                                                         *)
(* A row is a commit and a status; its position is the order of the row    *)
(* ids (AUTOINCREMENT, rows are never deleted while the project exists).   *)
(* The operators are what the statements do to the table; each of them is  *)
(* one transaction on the only connection of the pool (registry.go:81), so *)
(* the actions below are atomic, whichever goroutines call them.           *)
(***************************************************************************)
EXTENDS Naturals, Sequences

CONSTANTS
    Commits,  \* commit hashes; the empty one is recorded if git did not answer
    MaxRows,  \* bound: rows of the table
    NoCommit  \* the empty hash, also returned when no row is current

ASSUME MaxRowsAssumption == MaxRows \in Nat

VARIABLE history

Status == {"current", "intermediate", "rolled_back"}

Row == [hash : Commits, status : Status]

RowsOf(h, c) == {i \in DOMAIN h : h[i].hash = c}

RowsWith(h, st) == {i \in DOMAIN h : h[i].status = st}

\* ORDER BY id DESC LIMIT 1
Newest(ids) == CHOOSE i \in ids : \A j \in ids : j <= i

\* AddCommitToHistory inserts an "intermediate" row.
Added(h, c) == Append(h, [hash |-> c, status |-> "intermediate"])

\* The first UPDATE of SetCurrentCommit.
Demoted(h) ==
    [i \in DOMAIN h |->
        IF h[i].status = "current" THEN [h[i] EXCEPT !.status = "intermediate"] ELSE h[i]]

\* A variant without the first UPDATE.
PromotedOnly(h, c) ==
    LET fresh == RowsOf(h, c) \cap RowsWith(h, "intermediate")
        pick  == Newest(IF fresh # {} THEN fresh ELSE RowsOf(h, c))
    IN  [i \in DOMAIN h |->
            IF RowsOf(h, c) # {} /\ i = pick THEN [h[i] EXCEPT !.status = "current"] ELSE h[i]]

\* SetCurrentCommit: demote every current row, then promote the newest
\* intermediate row of the commit or, if it has none, its newest row.  A
\* commit without rows is promoted nowhere.
Promoted(h, c) ==
    LET d     == Demoted(h)
        fresh == RowsOf(d, c) \cap RowsWith(d, "intermediate")
        pick  == Newest(IF fresh # {} THEN fresh ELSE RowsOf(d, c))
    IN  [i \in DOMAIN d |->
            IF RowsOf(d, c) # {} /\ i = pick THEN [d[i] EXCEPT !.status = "current"] ELSE d[i]]

\* A variant that writes a status nobody reads.
RolledBackMisspelt(h, c) ==
    [i \in DOMAIN h |->
        IF h[i].hash = c THEN [h[i] EXCEPT !.status = "rolledback"] ELSE h[i]]

\* MarkCommitRolledBack marks every row of the commit.
RolledBack(h, c) ==
    [i \in DOMAIN h |->
        IF h[i].hash = c THEN [h[i] EXCEPT !.status = "rolled_back"] ELSE h[i]]

\* GetPreviousCurrentCommit; NoCommit stands for sql.ErrNoRows.
PreviousCurrent(h) ==
    IF RowsWith(h, "current") = {} THEN NoCommit ELSE h[Newest(RowsWith(h, "current"))].hash

-----------------------------------------------------------------------------

HistoryInit == history = <<>>

AddCommitToHistory(c) ==
    /\ Len(history) < MaxRows
    /\ history' = Added(history, c)

\* A variant that only promotes intermediate rows, without the fallback.
SetCurrentNoFallback(c) ==
    LET d == Demoted(history)
    IN  history' = IF RowsOf(d, c) \cap RowsWith(d, "intermediate") = {}
                   THEN d
                   ELSE Promoted(history, c)

SetCurrentCommit(c) == history' = Promoted(history, c)

\* A variant that deletes the rows.
DeleteRolledBack(c) ==
    history' = SelectSeq(history, LAMBDA r : r.hash # c)

MarkCommitRolledBack(c) == history' = RolledBack(history, c)

HistoryNext ==
    \E c \in Commits :
        AddCommitToHistory(c) \/ SetCurrentCommit(c) \/ MarkCommitRolledBack(c)

HistorySpec == HistoryInit /\ [][HistoryNext]_history

-----------------------------------------------------------------------------
(* Properties                                                              *)

\* The columns commit_hash and status (registry.go:45-54).
HistoryTypeOK == history \in Seq(Row) /\ Len(history) <= MaxRows

\* "marks the given hash as current and all others ... as intermediate"
\* (registry.go:710): whatever the callers interleave, the table never has
\* two current rows, so the target of an automatic rollback is unambiguous.
AtMostOneCurrent ==
    \A i, j \in DOMAIN history :
        history[i].status = "current" /\ history[j].status = "current" => i = j

\* A recorded deployment keeps its place and its commit: later steps only
\* append rows and change statuses (registry.go:698-752).
HistoryOnlyGrows ==
    [][/\ Len(history) <= Len(history')
       /\ \A i \in DOMAIN history : history'[i].hash = history[i].hash]_history

\* Once a commit that has rows is made current, it is the one an automatic
\* rollback would go to, also when all its rows are rolled back, which is the
\* order RollbackToCommit uses (executor.go:561-562).
CurrentIsFound ==
    [][\A c \in Commits :
          RowsOf(history, c) # {} /\ SetCurrentCommit(c)
             => PreviousCurrent(history') = c]_history

=============================================================================
