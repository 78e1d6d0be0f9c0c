------------------------------- MODULE DeployLog -------------------------------
(***************************************************************************)
(* deploy.log of one project: its rotation (logger/log.go), everybody who  *)
(* appends to it, and a browser that follows it (api/server.go:966-1027;   *)
(* the stream of the system log, 526-581, takes the same steps).           *)
(*                                                                         *)
(* Files are numbered as they are created, and a name is a number: 0 for   *)
(* deploy.log, i for deploy.log.i.  A file is a sequence of what single    *)
(* writes have put there, each with or without the end of a line.          *)
(*                                                                         *)
(* Left out: the text, times, the system log itself, which is one file     *)
(* that is never rotated, and errors of the file system.                   *)
(***************************************************************************)
EXTENDS Integers, Sequences, FiniteSets

CONSTANTS
    MaxRotation,  \* files that are kept beside deploy.log: 5 in the code
    MaxLogSize,   \* writes that make a file big: 50 MB in the code
    MaxWrites,    \* bound: writes
    MaxCalls,     \* bound: calls of RunDeployment
    MaxStarts     \* bound: starts by the watchdog and connections, together

ASSUME DeployLogAssumption ==
    /\ MaxRotation \in Nat \ {0} /\ MaxLogSize \in Nat \ {0}
    /\ MaxWrites \in Nat /\ MaxCalls \in Nat /\ MaxStarts \in Nat

VARIABLES
    name,     \* name[i]: the file called deploy.log or deploy.log.i, or 0
    content,  \* content[n]: what is in file n
    calls,    \* goroutines inside RunDeployment
    app,      \* the file that the application writes to, or 0
    browser,  \* the connection of a browser
    started, restarts, connections, writes, \* used up bounds
    overlapped, \* history: two calls have rotated at once
    cut         \* history: files that were emptied after somebody wrote to them

files == <<name, content, cut>>
bounds == <<started, restarts, connections, writes>>
vars == <<files, calls, app, browser, bounds, overlapped>>

-----------------------------------------------------------------------------

Names == 0 .. MaxRotation
Files == DOMAIN content
Piece == [id : 1 .. MaxWrites, ends : BOOLEAN]

Call == [id : {1, 2}, at : {"stat", "shift", "move", "create", "open", "write"},
         i : 0 .. MaxRotation, file : Nat]

\* pos: what has been read; shown: the lines shown as a whole, by the write
\* that ends them, and those before the tail.
Browser == [at : {"off", "scan", "tail"}, file : Nat, pos : Nat, shown : SUBSET (1 .. MaxWrites)]

NoBrowser == [at |-> "off", file |-> 0, pos |-> 0, shown |-> {}]

Init ==
    /\ name = [i \in Names |-> 0]
    /\ content = <<>>
    /\ calls = {} /\ app = 0
    /\ browser = NoBrowser
    /\ started = 0 /\ restarts = 0 /\ connections = 0 /\ writes = 0
    /\ overlapped = FALSE /\ cut = {}

Becomes(c, d) == calls' = (calls \ {c}) \cup {d}
Rotating == {c \in calls : c.at \in {"shift", "move", "create"}}

-----------------------------------------------------------------------------
(* Opening and writing                                                     *)

\* What O_APPEND|O_CREATE opens.
Opened == IF name[0] = 0 THEN Len(content) + 1 ELSE name[0]

Created == IF name[0] = 0 THEN [name EXCEPT ![0] = Opened] ELSE name
Contents == IF name[0] = 0 THEN Append(content, <<>>) ELSE content

\* One write at the end of file n, where the files are as in all.
Writes(all, n, ends) ==
    /\ writes < MaxWrites
    /\ writes' = writes + 1
    /\ content' = [all EXCEPT ![n] = Append(@, [id |-> writes + 1, ends |-> ends])]

\* A line from anywhere in the program: the file is opened by its name.  The
\* separator of a rollback is written in the same way (executor.go:508-513).
emit ==
    /\ Writes(Contents, Opened, TRUE)
    /\ name' = Created
    /\ UNCHANGED <<cut, calls, app, browser, started, restarts, connections, overlapped>>

-----------------------------------------------------------------------------
(* RunDeployment                                                           *)

\* From the queue, or from a rollback beside it.
RunDeployment ==
    /\ started < MaxCalls /\ Cardinality(calls) < 2
    /\ started' = started + 1
    /\ LET id == IF \E c \in calls : c.id = 1 THEN 2 ELSE 1 IN
       calls' = calls \cup {[id |-> id, at |-> "stat", i |-> 0, file |-> 0]}
    /\ UNCHANGED <<files, app, browser, restarts, connections, writes, overlapped>>

\* A variant that starts one name too high.
StatTooHigh(c) ==
    /\ c.at = "stat"
    /\ Becomes(c, [c EXCEPT !.at = "shift", !.i = MaxRotation + 1])
    /\ UNCHANGED <<files, app, browser, bounds, overlapped>>

\* RotateLogIfNeeded begins.
Stat(c) ==
    /\ c.at = "stat"
    /\ IF name[0] = 0 \/ Len(content[Opened]) < MaxLogSize
       THEN Becomes(c, [c EXCEPT !.at = "open"]) /\ UNCHANGED overlapped
       ELSE /\ Becomes(c, [c EXCEPT !.at = "shift", !.i = MaxRotation])
            /\ overlapped' = (overlapped \/ Rotating # {})
    /\ UNCHANGED <<files, app, browser, bounds>>

Rename(i, j) == [name EXCEPT ![j] = IF name[i] = 0 THEN @ ELSE name[i], ![i] = 0]

Shifts(c) ==
    /\ Becomes(c, [c EXCEPT !.i = @ - 1, !.at = IF c.i = 1 THEN "move" ELSE "shift"])
    /\ UNCHANGED <<content, cut, app, browser, bounds, overlapped>>

\* A variant that takes the names in the other order.
ShiftUpwards(c) ==
    LET i == MaxRotation + 1 - c.i IN
    /\ c.at = "shift"
    /\ name' = IF i = MaxRotation THEN [name EXCEPT ![i] = 0] ELSE Rename(i, i + 1)
    /\ Shifts(c)

\* One turn of the loop: os.Remove of the oldest, os.Rename of the others.
Shift(c) ==
    /\ c.at = "shift"
    /\ name' = IF c.i = MaxRotation THEN [name EXCEPT ![c.i] = 0] ELSE Rename(c.i, c.i + 1)
    /\ Shifts(c)

Move(c) ==
    /\ c.at = "move"
    /\ name' = Rename(0, 1)
    /\ Becomes(c, [c EXCEPT !.at = "create"])
    /\ UNCHANGED <<content, cut, app, browser, bounds, overlapped>>

\* os.Create empties the file if somebody has created it meanwhile.
Create(c) ==
    /\ c.at = "create"
    /\ name' = Created
    /\ content' = [Contents EXCEPT ![Opened] = <<>>]
    /\ cut' = IF name[0] # 0 /\ content[Opened] # <<>> THEN cut \cup {Opened} ELSE cut
    /\ Becomes(c, [c EXCEPT !.at = "open"])
    /\ UNCHANGED <<app, browser, bounds, overlapped>>

Open(c) ==
    /\ c.at = "open"
    /\ name' = Created /\ content' = Contents
    /\ Becomes(c, [c EXCEPT !.at = "write", !.file = Opened])
    /\ UNCHANGED <<cut, app, browser, bounds, overlapped>>

\* A separator, or a line of install.sh.
WriteLog(c) ==
    /\ c.at = "write"
    /\ Writes(content, c.file, TRUE)
    /\ UNCHANGED <<name, cut, calls, app, browser, started, restarts, connections, overlapped>>

\* install.sh or run.sh fails to start; the old application goes on writing.
DeploymentFails(c) ==
    /\ c.at = "write"
    /\ calls' = calls \ {c}
    /\ UNCHANGED <<files, app, browser, bounds, overlapped>>

\* StartAppProcess: the new application has a descriptor of its own.
StartApp(c) ==
    /\ c.at = "write"
    /\ app' = Opened
    /\ name' = Created /\ content' = Contents
    /\ calls' = calls \ {c}
    /\ UNCHANGED <<cut, browser, bounds, overlapped>>

\* The watchdog starts the application again, which rotates nothing.
RestartApp ==
    /\ app # 0 /\ restarts + connections < MaxStarts
    /\ restarts' = restarts + 1
    /\ app' = Opened
    /\ name' = Created /\ content' = Contents
    /\ UNCHANGED <<cut, calls, browser, started, connections, writes, overlapped>>

AppWrites ==
    /\ app # 0
    /\ \E ends \in BOOLEAN : Writes(content, app, ends)
    /\ UNCHANGED <<name, cut, calls, app, browser, started, restarts, connections, overlapped>>

-----------------------------------------------------------------------------
(* GET /projects/:id/logs/stream                                           *)

\* The tail begins somewhere, after what is left of a line.
Connect ==
    /\ browser.at = "off" /\ name[0] # 0 /\ restarts + connections < MaxStarts
    /\ connections' = connections + 1
    /\ LET file == content[name[0]] IN
       \E k \in {0, Len(file)} \cup {l \in 1 .. Len(file) : file[l].ends} :
          browser' = [at |-> "scan", file |-> name[0], pos |-> k,
                      shown |-> {file[l].id : l \in 1 .. k}]
    /\ UNCHANGED <<files, calls, app, started, restarts, writes, overlapped>>

Size == Len(content[browser.file])
Ends(k) == content[browser.file][k].ends

\* Pieces from .. to are read, and what was read before is gone: the lines that
\* end there are shown, the first one without its beginning if that was read
\* before.
Whole(from, to) ==
    {content[browser.file][k].id : k \in {l \in from .. to :
        Ends(l) /\ (from = 1 \/ Ends(from - 1) \/ \E m \in from .. (l - 1) : Ends(m))}}

Passes(next, shown) ==
    browser' = [browser EXCEPT !.at = "tail", !.pos = next, !.shown = @ \cup shown]

\* A variant that goes on at the end of the file.
ScanNothing ==
    /\ browser.at = "scan"
    /\ Passes(IF Size > browser.pos THEN Size ELSE browser.pos, {})
    /\ UNCHANGED <<files, calls, app, bounds, overlapped>>

\* The scanner reads to the end; the beginning of a line counts as one.
Scan ==
    /\ browser.at = "scan"
    /\ Passes(IF Size > browser.pos THEN Size ELSE browser.pos, Whole(browser.pos + 1, Size))
    /\ UNCHANGED <<files, calls, app, bounds, overlapped>>

\* ReadString, to the end of a line or of the file.  What it returns with
\* io.EOF, the beginning of a line, is dropped.
ReadLine ==
    /\ browser.at = "tail" /\ Size > browser.pos
    /\ \E next \in (browser.pos + 1) .. Size :
          /\ next = Size \/ Ends(next)
          /\ \A k \in (browser.pos + 1) .. (next - 1) : ~Ends(k)
          /\ Passes(next, Whole(browser.pos + 1, next))
    /\ UNCHANGED <<files, calls, app, bounds, overlapped>>

Disconnect ==
    /\ browser.at # "off"
    /\ browser' = NoBrowser
    /\ UNCHANGED <<files, calls, app, bounds, overlapped>>

-----------------------------------------------------------------------------

CallStep(c) ==
    \/ Stat(c) \/ Shift(c) \/ Move(c) \/ Create(c) \/ Open(c)
    \/ WriteLog(c) \/ DeploymentFails(c) \/ StartApp(c)

Next ==
    \/ emit \/ RunDeployment
    \/ \E c \in calls : CallStep(c)
    \/ RestartApp \/ AppWrites
    \/ Connect \/ Scan \/ ReadLine \/ Disconnect

Spec == Init /\ [][Next]_vars

\* The goroutine of the stream goes on.
FairSpec == Spec /\ WF_vars(Scan \/ ReadLine)

-----------------------------------------------------------------------------
(* Properties                                                              *)

\* Names, files, calls and the connection are as declared.
TypeOK ==
    /\ name \in [Names -> 0 .. Len(content)]
    /\ content \in Seq(Seq(Piece))
    /\ calls \subseteq Call
    /\ app \in 0 .. Len(content)
    /\ browser \in Browser
    /\ started \in 0 .. MaxCalls /\ writes \in 0 .. MaxWrites
    /\ restarts \in 0 .. MaxStarts /\ connections \in 0 .. MaxStarts
    /\ overlapped \in BOOLEAN /\ cut \subseteq Files

Named == {name[i] : i \in Names} \ {0}

\* Rotation keeps the newest files, the newer one under the lower name
\* (log.go:89-116): at every moment of it, and whoever opens the log meanwhile,
\* no file is gone that has less than MaxRotation newer ones, as long as
\* rotations do not overlap.
RotationKeepsTheNewest ==
    overlapped \/
    /\ \A i, j \in Names : i < j /\ name[i] # 0 /\ name[j] # 0 => name[i] > name[j]
    /\ \A n \in Files \ Named : n + MaxRotation <= Len(content)

\* Piece k of the browser's file is by write w and ends a line.
EndsLine(w, k) == content[browser.file][k].id = w /\ Ends(k)

\* The browser is to show that line.
Follows(w) == browser.at # "off" /\ \E k \in 1 .. Size : EndsLine(w, k)

\* It has come to the end of it, and shown it as a whole if it is one write.
Followed(w) ==
    /\ browser.at # "off"
    /\ \E k \in 1 .. Size :
          /\ EndsLine(w, k) /\ k <= browser.pos
          /\ (k = 1 \/ Ends(k - 1)) => w \in browser.shown

\* A browser that stays connected comes to the end of every line of the file it
\* opened (server.go:995-1024), and a line that one write has put there is
\* shown as a whole, whatever is renamed or removed meanwhile, unless the file
\* was emptied.  Of a line that took several writes the beginning may be
\* missing: what ReadString returns at the end of the file is dropped.
FollowersCatchUp ==
    \A w \in 1 .. MaxWrites :
        Follows(w) ~> (Followed(w) \/ browser.at = "off" \/ browser.file \in cut)

=============================================================================
