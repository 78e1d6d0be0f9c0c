\* Two commits and four rows: a commit can have several rows with every mix
\* of statuses, and the fallback of SetCurrentCommit is taken.
CONSTANTS
    Commits = {c1, c2}
    MaxRows = 4
    NoCommit = NoCommit
SPECIFICATION HistorySpec
INVARIANTS
    HistoryTypeOK
    AtMostOneCurrent
PROPERTIES
    CurrentIsFound
