---------------------------- MODULE DeployLogProofs ----------------------------
(***************************************************************************)
(* Theorems about DeployLog for every number of files that are kept (TLC   *)
(* checks two, the code keeps five), every size and all bounds.            *)
(***************************************************************************)
EXTENDS DeployLog, TLAPS

-----------------------------------------------------------------------------
(* Types                                                                   *)

TypeInv ==
    /\ TypeOK
    /\ browser.at # "off" => browser.file \in Files
    /\ \A c \in calls : c.at = "shift" => c.i # 0

\* What opening the log by its name does.
LEMMA Opening ==
    ASSUME TypeOK
    PROVE  /\ Len(content) \in Nat /\ Files = 1 .. Len(content)
           /\ Contents \in Seq(Seq(Piece))
           /\ Len(Contents) \in Nat /\ DOMAIN Contents = 1 .. Len(Contents)
           /\ Opened \in 1 .. Len(Contents)
           /\ Created \in [Names -> 0 .. Len(Contents)]
           /\ name[0] = 0 => Len(Contents) = Len(content) + 1 /\ Opened = Len(Contents)
           /\ name[0] # 0 => Contents = content /\ Created = name /\ Opened = name[0]
           /\ \A n \in Files : n \in DOMAIN Contents /\ Contents[n] = content[n]
<1>1. content \in Seq(Seq(Piece))
    BY DEF TypeOK, Files
<1>2. Len(content) \in Nat /\ DOMAIN content = 1 .. Len(content)
    BY <1>1
<1>3. /\ name \in [Names -> 0 .. Len(content)] /\ Files = DOMAIN content
      /\ name[0] \in 0 .. Len(content)
    BY DeployLogAssumption DEF TypeOK, Names, Files
<1>4. CASE name[0] = 0
    <2>1. Contents = Append(content, <<>>) /\ <<>> \in Seq(Piece) /\ Opened = Len(content) + 1
        BY <1>4 DEF Contents, Opened
    <2>2. /\ Contents \in Seq(Seq(Piece)) /\ Len(Contents) = Len(content) + 1
          /\ DOMAIN Contents = 1 .. Len(Contents)
          /\ \A n \in 1 .. Len(content) : Contents[n] = content[n]
        BY <1>1, <1>2, <2>1
    <2>3. Created = [name EXCEPT ![0] = Opened]
        BY <1>4 DEF Created
    <2>4. Created \in [Names -> 0 .. Len(Contents)]
        <3>1. ASSUME NEW i \in Names PROVE Created[i] \in 0 .. Len(Contents)
            BY <1>2, <1>3, <2>1, <2>2, <2>3
        <3> QED
            BY <1>3, <2>3, <3>1
    <2>5. Opened \in 1 .. Len(Contents)
        BY <1>2, <2>1, <2>2
    <2> QED
        BY <1>2, <1>3, <1>4, <2>1, <2>2, <2>4, <2>5
<1>5. CASE name[0] # 0
    <2>1. Contents = content /\ Created = name /\ Opened = name[0]
        BY <1>5 DEF Contents, Created, Opened
    <2>2. name[0] \in 1 .. Len(content)
        BY <1>2, <1>3, <1>5
    <2> QED
        BY <1>1, <1>2, <1>3, <1>5, <2>1, <2>2
<1> QED
    BY <1>4, <1>5

\* A write changes what a file contains, and no more than that.
LEMMA Writing ==
    ASSUME TypeOK, NEW all \in Seq(Seq(Piece)), NEW n, NEW ends \in BOOLEAN,
           Writes(all, n, ends)
    PROVE  /\ content' \in Seq(Seq(Piece)) /\ Len(content') = Len(all)
           /\ writes' \in 0 .. MaxWrites
<1>1. [id |-> writes + 1, ends |-> ends] \in Piece /\ writes' \in 0 .. MaxWrites
    BY DeployLogAssumption DEF Writes, TypeOK, Piece
<1>2. Len(all) \in Nat /\ DOMAIN all = 1 .. Len(all)
    OBVIOUS
<1>3. \A k \in 1 .. Len(all) : Append(all[k], [id |-> writes + 1, ends |-> ends]) \in Seq(Piece)
    BY <1>1
<1>4. content' = [k \in 1 .. Len(all) |->
          IF k = n THEN Append(all[k], [id |-> writes + 1, ends |-> ends]) ELSE all[k]]
    BY <1>2 DEF Writes
<1>5. \A k \in 1 .. Len(all) : content'[k] \in Seq(Piece)
    BY <1>3, <1>4
<1>6. content' \in Seq(Seq(Piece)) /\ Len(content') = Len(all)
    BY <1>2, <1>4, <1>5
<1> QED
    BY <1>1, <1>6

\* No file is lost from the list of files when the log is opened.
LEMMA Growing ==
    ASSUME TypeInv
    PROVE  /\ Len(content) \in Nat /\ Len(Contents) \in Nat /\ Files = 1 .. Len(content)
           /\ Contents \in Seq(Seq(Piece))
           /\ Created \in [Names -> 0 .. Len(Contents)] /\ Opened \in 1 .. Len(Contents)
           /\ Len(content) <= Len(Contents)
<1>1. TypeOK
    BY DEF TypeInv
<1>2. /\ Len(content) \in Nat /\ Len(Contents) \in Nat /\ Files = 1 .. Len(content)
      /\ Contents \in Seq(Seq(Piece))
      /\ Created \in [Names -> 0 .. Len(Contents)] /\ Opened \in 1 .. Len(Contents)
    BY <1>1, Opening
<1>3. \/ Len(Contents) = Len(content) + 1
      \/ Contents = content
    BY <1>1, Opening
<1> QED
    BY <1>2, <1>3

LEMMA InitTypeInv == Init => TypeInv
<1> SUFFICES ASSUME Init PROVE TypeInv
    OBVIOUS
<1>1. content \in Seq(Seq(Piece)) /\ Len(content) = 0
    BY DEF Init
<1>2. browser \in Browser /\ browser.at = "off"
    BY DEF Init, NoBrowser, Browser
<1> QED
    BY <1>1, <1>2, DeployLogAssumption DEF Init, TypeInv, TypeOK, Names

\* Renaming and removing keep the types of the names.
LEMMA Renaming ==
    ASSUME TypeOK, NEW i \in Names, NEW j \in Names
    PROVE  /\ Rename(i, j) \in [Names -> 0 .. Len(content)]
           /\ [name EXCEPT ![i] = 0] \in [Names -> 0 .. Len(content)]
<1>1. Len(content) \in Nat /\ name \in [Names -> 0 .. Len(content)]
    BY Opening DEF TypeOK
<1> QED
    BY <1>1 DEF Rename

\* The steps that leave the files, the counters and the browser alone.
LEMMA CallsKeepTypeInv ==
    ASSUME TypeInv, NEW c \in calls, Stat(c) \/ DeploymentFails(c)
    PROVE  TypeInv'
<1>1. CASE Stat(c)
    <2>1. c \in Call
        BY DEF TypeInv, TypeOK
    <2>2. /\ [c EXCEPT !.at = "open"] \in Call /\ [c EXCEPT !.at = "open"].at = "open"
          /\ [c EXCEPT !.at = "shift", !.i = MaxRotation] \in Call
          /\ [c EXCEPT !.at = "shift", !.i = MaxRotation].i = MaxRotation
        <3>1. MaxRotation \in 0 .. MaxRotation
            BY DeployLogAssumption
        <3> QED
            BY <2>1, <3>1 DEF Call
    <2>3. PICK d \in Call : Becomes(c, d) /\ (d.at = "shift" => d.i # 0)
        BY <1>1, <2>2, DeployLogAssumption DEF Stat
    <2>4. calls' \subseteq Call /\ \A b \in calls' : b.at = "shift" => b.i # 0
        BY <2>3 DEF Becomes, TypeInv, TypeOK
    <2>5. overlapped' \in BOOLEAN
        BY <1>1 DEF Stat, TypeInv, TypeOK
    <2> QED
        BY <1>1, <2>4, <2>5 DEF Stat, files, bounds, TypeInv, TypeOK, Files
<1>2. CASE DeploymentFails(c)
    BY <1>2 DEF DeploymentFails, files, bounds, TypeInv, TypeOK, Files
<1> QED
    BY <1>1, <1>2

LEMMA RotationKeepsTypeInv ==
    ASSUME TypeInv, NEW c \in calls, Shift(c) \/ Move(c) \/ Create(c)
    PROVE  TypeInv'
<1>1. c \in Call /\ (c.at = "shift" => c.i # 0)
    BY DEF TypeInv, TypeOK
<1>2. CASE Shift(c)
    <2> DEFINE d == [c EXCEPT !.i = @ - 1, !.at = IF c.i = 1 THEN "move" ELSE "shift"]
    <2>1. c.i \in 1 .. MaxRotation
        BY <1>1, <1>2, DeployLogAssumption DEF Call, Shift
    <2>2. d \in Call /\ (d.at = "shift" => d.i # 0)
        <3>1. c.i - 1 \in 0 .. MaxRotation /\ (c.i # 1 => c.i - 1 # 0)
            BY <2>1, DeployLogAssumption
        <3> QED
            BY <1>1, <3>1 DEF Call
    <2>3. calls' = (calls \ {c}) \cup {d}
        BY <1>2 DEF Shift, Shifts, Becomes
    <2>4. calls' \subseteq Call /\ \A b \in calls' : b.at = "shift" => b.i # 0
        BY <2>2, <2>3 DEF TypeInv, TypeOK
    <2>5. name' \in [Names -> 0 .. Len(content)]
        <3>1. c.i \in Names /\ (c.i # MaxRotation => c.i + 1 \in Names)
            BY <2>1, DeployLogAssumption DEF Names
        <3> QED
            BY <1>2, <3>1, Renaming DEF Shift, TypeInv
    <2> QED
        BY <1>2, <2>4, <2>5 DEF Shift, Shifts, bounds, TypeInv, TypeOK, Files
<1>3. CASE Move(c)
    <2> DEFINE d == [c EXCEPT !.at = "create"]
    <2>1. d \in Call /\ d.at = "create"
        BY <1>1 DEF Call
    <2>2. calls' = (calls \ {c}) \cup {d}
        BY <1>3 DEF Move, Becomes
    <2>3. calls' \subseteq Call /\ \A b \in calls' : b.at = "shift" => b.i # 0
        BY <2>1, <2>2 DEF TypeInv, TypeOK
    <2>4. name' \in [Names -> 0 .. Len(content)]
        <3>1. 0 \in Names /\ 1 \in Names
            BY DeployLogAssumption DEF Names
        <3> QED
            BY <1>3, <3>1, Renaming DEF Move, TypeInv
    <2> QED
        BY <1>3, <2>3, <2>4 DEF Move, bounds, TypeInv, TypeOK, Files
<1>4. CASE Create(c)
    <2> DEFINE d == [c EXCEPT !.at = "open"]
    <2>1. d \in Call /\ d.at = "open"
        BY <1>1 DEF Call
    <2>2. calls' = (calls \ {c}) \cup {d}
        BY <1>4 DEF Create, Becomes
    <2>3. calls' \subseteq Call /\ \A b \in calls' : b.at = "shift" => b.i # 0
        BY <2>1, <2>2 DEF TypeInv, TypeOK
    <2>4. content' \in Seq(Seq(Piece)) /\ Len(content') = Len(Contents)
        <3>1. /\ Contents \in Seq(Seq(Piece)) /\ Len(Contents) \in Nat
              /\ DOMAIN Contents = 1 .. Len(Contents)
            BY Opening DEF TypeInv
        <3>2. content' = [n \in 1 .. Len(Contents) |-> IF n = Opened THEN <<>> ELSE Contents[n]]
            BY <1>4, <3>1 DEF Create
        <3>3. \A n \in 1 .. Len(Contents) : content'[n] \in Seq(Piece)
            BY <3>1, <3>2
        <3> QED
            BY <3>1, <3>2, <3>3
    <2>5. /\ name' \in [Names -> 0 .. Len(content')]
          /\ Len(content) \in Nat /\ Len(content') \in Nat /\ Len(content) <= Len(content')
          /\ Opened \in 1 .. Len(content')
          /\ Files = 1 .. Len(content) /\ Files' = 1 .. Len(content')
        <3>1. /\ Len(content) \in Nat /\ Len(Contents) \in Nat /\ Files = 1 .. Len(content)
              /\ Created \in [Names -> 0 .. Len(Contents)] /\ Opened \in 1 .. Len(Contents)
              /\ Len(content) <= Len(Contents)
            BY Growing
        <3>2. name' = Created /\ DOMAIN content' = 1 .. Len(content')
            BY <1>4, <2>4 DEF Create
        <3> QED
            BY <2>4, <3>1, <3>2 DEF Files
    <2>6. cut' \subseteq Files'
        BY <1>4, <2>5 DEF Create, TypeInv, TypeOK
    <2>7. app' \in 0 .. Len(content') /\ (browser'.at # "off" => browser'.file \in Files')
        BY <1>4, <2>5 DEF Create, TypeInv, TypeOK
    <2>8. UNCHANGED <<browser, started, restarts, connections, writes, overlapped>>
        BY <1>4 DEF Create, bounds
    <2> QED
        BY <2>3, <2>4, <2>5, <2>6, <2>7, <2>8 DEF TypeInv, TypeOK
<1> QED
    BY <1>2, <1>3, <1>4

\* What a step has to show that changes the files: they may only become more.
LEMMA TypeInvFromParts ==
    ASSUME TypeInv,
           content' \in Seq(Seq(Piece)), Len(content) <= Len(content'),
           name' \in [Names -> 0 .. Len(content')],
           calls' \subseteq Call, \A c \in calls' : c.at = "shift" => c.i # 0,
           app' = app \/ app' \in 1 .. Len(content'),
           UNCHANGED browser \/ (browser' \in Browser /\ (browser'.at # "off" => browser'.file \in Files)),
           started' \in 0 .. MaxCalls, writes' \in 0 .. MaxWrites,
           restarts' \in 0 .. MaxStarts, connections' \in 0 .. MaxStarts,
           UNCHANGED <<overlapped, cut>>
    PROVE  TypeInv'
<1>1. /\ Len(content) \in Nat /\ Len(content') \in Nat
      /\ Files = 1 .. Len(content) /\ Files' = 1 .. Len(content')
    BY Growing DEF Files
<1>2. Files \subseteq Files'
    BY <1>1
<1>3. app' \in 0 .. Len(content')
    BY <1>1 DEF TypeInv, TypeOK
<1>4. browser' \in Browser /\ (browser'.at # "off" => browser'.file \in Files')
    BY <1>2 DEF TypeInv, TypeOK
<1>5. cut' \subseteq Files' /\ overlapped' \in BOOLEAN
    BY <1>2 DEF TypeInv, TypeOK
<1> QED
    BY <1>3, <1>4, <1>5 DEF TypeInv, TypeOK

LEMMA CallsOpenTypeInv ==
    ASSUME TypeInv, NEW c \in calls, Open(c) \/ WriteLog(c) \/ StartApp(c)
    PROVE  TypeInv'
<1>1. c \in Call /\ calls \subseteq Call /\ \A b \in calls : b.at = "shift" => b.i # 0
    BY DEF TypeInv, TypeOK
<1>2. /\ started \in 0 .. MaxCalls /\ writes \in 0 .. MaxWrites
      /\ restarts \in 0 .. MaxStarts /\ connections \in 0 .. MaxStarts
    BY DEF TypeInv, TypeOK
<1>3. CASE Open(c)
    <2> DEFINE d == [c EXCEPT !.at = "write", !.file = Opened]
    <2>1. Opened \in Nat
        BY Growing
    <2>2. d \in Call /\ d.at = "write"
        BY <1>1, <2>1 DEF Call
    <2>3. calls' = (calls \ {c}) \cup {d}
        BY <1>3 DEF Open, Becomes
    <2>4. calls' \subseteq Call /\ \A b \in calls' : b.at = "shift" => b.i # 0
        BY <1>1, <2>2, <2>3
    <2>5. name' = Created /\ content' = Contents
        BY <1>3 DEF Open
    <2>6. UNCHANGED <<cut, app, browser, started, restarts, connections, writes, overlapped>>
        BY <1>3 DEF Open, bounds
    <2> QED
        BY <1>2, <2>4, <2>5, <2>6, Growing, TypeInvFromParts
<1>4. CASE WriteLog(c)
    <2>1. TypeOK /\ content \in Seq(Seq(Piece)) /\ name \in [Names -> 0 .. Len(content)]
        BY DEF TypeInv, TypeOK
    <2>2. content' \in Seq(Seq(Piece)) /\ Len(content') = Len(content) /\ writes' \in 0 .. MaxWrites
        BY <1>4, <2>1, Writing DEF WriteLog
    <2>3. UNCHANGED <<name, cut, calls, app, browser, started, restarts, connections, overlapped>>
        BY <1>4 DEF WriteLog
    <2> QED
        BY <1>1, <1>2, <2>1, <2>2, <2>3, Growing, TypeInvFromParts
<1>5. CASE StartApp(c)
    <2>1. name' = Created /\ content' = Contents /\ app' = Opened /\ calls' = calls \ {c}
        BY <1>5 DEF StartApp
    <2>2. UNCHANGED <<cut, browser, started, restarts, connections, writes, overlapped>>
        BY <1>5 DEF StartApp, bounds
    <2> QED
        BY <1>1, <1>2, <2>1, <2>2, Growing, TypeInvFromParts
<1> QED
    BY <1>3, <1>4, <1>5

LEMMA ProgramKeepsTypeInv ==
    ASSUME TypeInv, emit \/ RunDeployment \/ RestartApp \/ AppWrites
    PROVE  TypeInv'
<1>1. calls \subseteq Call /\ \A b \in calls : b.at = "shift" => b.i # 0
    BY DEF TypeInv, TypeOK
<1>2. /\ started \in 0 .. MaxCalls /\ writes \in 0 .. MaxWrites
      /\ restarts \in 0 .. MaxStarts /\ connections \in 0 .. MaxStarts
    BY DEF TypeInv, TypeOK
<1>3. TypeOK /\ content \in Seq(Seq(Piece)) /\ name \in [Names -> 0 .. Len(content)]
    BY DEF TypeInv, TypeOK
<1>4. CASE emit
    <2>1. Contents \in Seq(Seq(Piece))
        BY Growing
    <2>2. content' \in Seq(Seq(Piece)) /\ Len(content') = Len(Contents) /\ writes' \in 0 .. MaxWrites
        BY <1>3, <1>4, <2>1, Writing DEF emit
    <2>3. name' = Created
          /\ UNCHANGED <<cut, calls, app, browser, started, restarts, connections, overlapped>>
        BY <1>4 DEF emit
    <2> QED
        BY <1>1, <1>2, <2>2, <2>3, Growing, TypeInvFromParts
<1>5. CASE RunDeployment
    <2>1. PICK id \in {1, 2} : calls' = calls \cup {[id |-> id, at |-> "stat", i |-> 0, file |-> 0]}
        BY <1>5 DEF RunDeployment
    <2>2. 0 \in 0 .. MaxRotation /\ 0 \in Nat
        BY DeployLogAssumption
    <2>3. [id |-> id, at |-> "stat", i |-> 0, file |-> 0] \in Call
        BY <2>2 DEF Call
    <2>4. calls' \subseteq Call /\ \A b \in calls' : b.at = "shift" => b.i # 0
        BY <1>1, <2>1, <2>3
    <2>5. started' \in 0 .. MaxCalls
        BY <1>2, <1>5, DeployLogAssumption DEF RunDeployment
    <2>6. UNCHANGED <<name, content, cut, app, browser, restarts, connections, writes, overlapped>>
        BY <1>5 DEF RunDeployment, files
    <2> QED
        BY <1>2, <1>3, <2>4, <2>5, <2>6, Growing, TypeInvFromParts
<1>6. CASE RestartApp
    <2>1. restarts' \in 0 .. MaxStarts
        BY <1>2, <1>6, DeployLogAssumption DEF RestartApp
    <2>2. /\ name' = Created /\ content' = Contents /\ app' = Opened
          /\ UNCHANGED <<cut, calls, browser, started, connections, writes, overlapped>>
        BY <1>6 DEF RestartApp
    <2> QED
        BY <1>1, <1>2, <2>1, <2>2, Growing, TypeInvFromParts
<1>7. CASE AppWrites
    <2>1. PICK ends \in BOOLEAN : Writes(content, app, ends)
        BY <1>7 DEF AppWrites
    <2>2. content' \in Seq(Seq(Piece)) /\ Len(content') = Len(content) /\ writes' \in 0 .. MaxWrites
        BY <1>3, <2>1, Writing
    <2>3. UNCHANGED <<name, cut, calls, app, browser, started, restarts, connections, overlapped>>
        BY <1>7 DEF AppWrites
    <2> QED
        BY <1>1, <1>2, <1>3, <2>2, <2>3, Growing, TypeInvFromParts
<1> QED
    BY <1>4, <1>5, <1>6, <1>7

\* Lines shown are lines written.
LEMMA Shown ==
    ASSUME TypeInv, NEW n \in Files, NEW k \in 1 .. Len(content[n])
    PROVE  content[n][k].id \in 1 .. MaxWrites
<1>1. content[n] \in Seq(Piece)
    BY DEF TypeInv, TypeOK, Files
<1>2. content[n][k] \in Piece
    BY <1>1
<1> QED
    BY <1>2 DEF Piece

LEMMA BrowsersKeepTypeInv ==
    ASSUME TypeInv, Connect \/ Scan \/ ReadLine \/ Disconnect
    PROVE  TypeInv'
<1>1. calls \subseteq Call /\ \A b \in calls : b.at = "shift" => b.i # 0
    BY DEF TypeInv, TypeOK
<1>2. /\ started \in 0 .. MaxCalls /\ writes \in 0 .. MaxWrites
      /\ restarts \in 0 .. MaxStarts /\ connections \in 0 .. MaxStarts
    BY DEF TypeInv, TypeOK
<1>3. /\ content \in Seq(Seq(Piece)) /\ name \in [Names -> 0 .. Len(content)]
      /\ browser \in Browser /\ (browser.at # "off" => browser.file \in Files)
    BY DEF TypeInv, TypeOK
<1>4. /\ UNCHANGED <<name, content, cut, calls, app, started, restarts, writes, overlapped>>
      /\ connections' \in 0 .. MaxStarts
    BY <1>2, DeployLogAssumption DEF Connect, Scan, ReadLine, Disconnect, files, bounds
<1>5. browser' \in Browser /\ (browser'.at # "off" => browser'.file \in Files)
    <2>1. CASE Connect
        <3>1. name[0] \in Files /\ name[0] \in Nat
            <4>1. name[0] # 0 /\ 0 \in Names
                BY <2>1, DeployLogAssumption DEF Connect, Names
            <4>2. name[0] \in 0 .. Len(content) /\ Len(content) \in Nat /\ Files = 1 .. Len(content)
                BY <1>3, <4>1, Growing
            <4> QED
                BY <4>1, <4>2
        <3>2. PICK k \in 0 .. Len(content[name[0]]) :
                browser' = [at |-> "scan", file |-> name[0], pos |-> k,
                            shown |-> {content[name[0]][l].id : l \in 1 .. k}]
            <4>1. PICK k \in {0, Len(content[name[0]])} \cup
                           {l \in 1 .. Len(content[name[0]]) : content[name[0]][l].ends} :
                    browser' = [at |-> "scan", file |-> name[0], pos |-> k,
                                shown |-> {content[name[0]][l].id : l \in 1 .. k}]
                BY <2>1 DEF Connect
            <4>2. content[name[0]] \in Seq(Piece)
                BY <1>3, <3>1 DEF Files
            <4>3. k \in 0 .. Len(content[name[0]])
                BY <4>2
            <4> QED
                BY <4>1, <4>3
        <3>3. content[name[0]] \in Seq(Piece)
            BY <1>3, <3>1 DEF Files
        <3>4. k \in Nat /\ \A l \in 1 .. k : l \in 1 .. Len(content[name[0]])
            BY <3>2, <3>3
        <3>5. {content[name[0]][l].id : l \in 1 .. k} \subseteq 1 .. MaxWrites
            BY <3>1, <3>4, Shown
        <3> QED
            BY <3>1, <3>2, <3>4, <3>5 DEF Browser
    <2>2. ASSUME NEW next \in Nat, NEW from, NEW to \in Nat, browser.at # "off",
                 \A k \in from .. to : k \in 1 .. Size,
                 Passes(next, Whole(from, to)) \/ Passes(next, {})
          PROVE  browser' \in Browser /\ browser'.file \in Files
        <3>1. browser.file \in Files
            BY <1>3, <2>2
        <3>2. Whole(from, to) \subseteq 1 .. MaxWrites
            BY <2>2, <3>1, Shown DEF Whole, Size
        <3>3. PICK shown \in SUBSET (1 .. MaxWrites) : Passes(next, shown)
            BY <2>2, <3>2
        <3>4. (browser.shown \cup shown) \in SUBSET (1 .. MaxWrites)
            BY <1>3, <3>3 DEF Browser
        <3> QED
            BY <1>3, <2>2, <3>1, <3>3, <3>4 DEF Passes, Browser
    <2>3. browser.at # "off" => Size \in Nat /\ browser.pos \in Nat
        <3>1. ASSUME browser.at # "off" PROVE content[browser.file] \in Seq(Piece)
            BY <1>3, <3>1 DEF Files
        <3> QED
            BY <1>3, <3>1 DEF Size, Browser
    <2>4. CASE Scan
        <3>1. browser.at # "off"
            BY <2>4 DEF Scan
        <3> DEFINE next == IF Size > browser.pos THEN Size ELSE browser.pos
        <3>2. next \in Nat /\ \A k \in (browser.pos + 1) .. Size : k \in 1 .. Size
            BY <2>3, <3>1
        <3>3. Passes(next, Whole(browser.pos + 1, Size))
            BY <2>4 DEF Scan
        <3> QED
            BY <2>2, <2>3, <3>1, <3>2, <3>3
    <2>5. CASE ReadLine
        <3>1. browser.at # "off"
            BY <2>5 DEF ReadLine
        <3>2. PICK next \in (browser.pos + 1) .. Size : Passes(next, Whole(browser.pos + 1, next))
            BY <2>5 DEF ReadLine
        <3>3. next \in Nat /\ \A k \in (browser.pos + 1) .. next : k \in 1 .. Size
            BY <2>3, <3>1, <3>2
        <3> QED
            BY <2>2, <3>1, <3>2, <3>3
    <2>6. CASE Disconnect
        BY <2>6 DEF Disconnect, NoBrowser, Browser
    <2> QED
        BY <2>1, <2>4, <2>5, <2>6
<1> QED
    BY <1>1, <1>2, <1>3, <1>4, <1>5, Growing, TypeInvFromParts

LEMMA NextTypeInv == TypeInv /\ [Next]_vars => TypeInv'
<1> SUFFICES ASSUME TypeInv, [Next]_vars PROVE TypeInv'
    OBVIOUS
<1>1. CASE UNCHANGED vars
    BY <1>1 DEF vars, files, bounds, TypeInv, TypeOK, Files
<1>2. CASE emit \/ RunDeployment \/ RestartApp \/ AppWrites
    BY <1>2, ProgramKeepsTypeInv
<1>3. ASSUME NEW c \in calls, CallStep(c) PROVE TypeInv'
    BY <1>3, CallsKeepTypeInv, RotationKeepsTypeInv, CallsOpenTypeInv DEF CallStep
<1>4. CASE Connect \/ Scan \/ ReadLine \/ Disconnect
    BY <1>4, BrowsersKeepTypeInv
<1> QED
    BY <1>1, <1>2, <1>3, <1>4 DEF Next

\* Names, files, calls and the connection stay as declared, for every number
\* of kept files (logger/log.go:73-125, api/server.go:966-1027).
THEOREM TypeCorrect == Spec => []TypeOK
<1>1. Spec => []TypeInv
    BY InitTypeInv, NextTypeInv, PTL DEF Spec
<1> QED
    BY <1>1, PTL DEF TypeInv

-----------------------------------------------------------------------------
(* What rotation keeps                                                     *)

\* Calls that have begun a rotation and have not renamed deploy.log yet.
Moving == {c \in calls : c.at \in {"shift", "move"}}

\* Names above the hole that a rotation carries down are one number late.
Late(j) == name[0] = 0 \/ \E c \in Moving : c.i < j

\* While rotations do not overlap: one call rotates; the name above the one it
\* takes next is free; a lower name is of a newer file; a file is at least as
\* old as its name says; and no file is gone that has too few newer ones.
OneRotates == \A c, d \in Rotating : c = d
HoleAbove == \A c \in Moving :
    /\ name[0] # 0
    /\ c.i < MaxRotation => name[c.i + 1] = 0
    /\ c.at = "move" => c.i = 0
Ordered == \A i, j \in Names : i < j /\ name[i] # 0 /\ name[j] # 0 => name[i] > name[j]
AgeBound == \A j \in Names :
    name[j] # 0 => name[j] + j <= Len(content) + (IF Late(j) THEN 1 ELSE 0)
Kept == \A n \in Files \ Named : n + MaxRotation <= Len(content)

RotationInv == overlapped \/ (OneRotates /\ HoleAbove /\ Ordered /\ AgeBound /\ Kept)

LEMMA InitRotationInv == Init => RotationInv
    BY DEF Init, RotationInv, OneRotates, HoleAbove, Ordered, AgeBound, Kept, Rotating, Moving,
       Names, Files, Named

\* Steps that neither rename nor create.
LEMMA SameNames ==
    ASSUME RotationInv, name' = name, Len(content') = Len(content), Files' = Files,
           Rotating' \subseteq Rotating, Moving' = Moving, overlapped' = overlapped
    PROVE  RotationInv'
<1>1. \A j : Late(j)' <=> Late(j)
    BY DEF Late
<1>2. Named' = Named
    BY DEF Named
<1> QED
    BY <1>1, <1>2 DEF RotationInv, OneRotates, HoleAbove, Ordered, AgeBound, Kept

\* Steps that open the log by its name and create it if there is none.
LEMMA OpenedLog ==
    ASSUME TypeInv, RotationInv, name' = Created, Len(content') = Len(Contents),
           Rotating' \subseteq Rotating, Moving' = Moving, overlapped' = overlapped,
           Files' = 1 .. Len(content')
    PROVE  RotationInv'
<1>1. /\ Len(content) \in Nat /\ Files = 1 .. Len(content)
      /\ name \in [Names -> 0 .. Len(content)]
    BY Growing DEF TypeInv, TypeOK
<1>2. CASE name[0] # 0
    <2>1. name' = name /\ Len(content') = Len(content) /\ Files' = Files
        BY <1>1, <1>2 DEF Created, Contents
    <2> QED
        BY <2>1, SameNames
<1>3. CASE name[0] = 0
    <2>1. Len(content') = Len(content) + 1 /\ name' = [name EXCEPT ![0] = Len(content) + 1]
        BY <1>3, Opening DEF TypeInv, Created
    <2>2. /\ 0 \in Names /\ name'[0] = Len(content) + 1
          /\ \A j \in Names : j # 0 => name'[j] = name[j]
          /\ \A j \in Names : j \in Nat /\ name[j] \in 0 .. Len(content)
        BY <1>1, <2>1, DeployLogAssumption DEF Names
    <2>3. SUFFICES ASSUME ~overlapped
                   PROVE  RotationInv'
        BY DEF RotationInv
    <2>4. OneRotates /\ HoleAbove /\ Ordered /\ AgeBound /\ Kept
        BY <2>3 DEF RotationInv
    <2>5. Moving = {} /\ Moving' = {}
        BY <1>3, <2>4 DEF HoleAbove
    <2>6. OneRotates' /\ HoleAbove'
        BY <2>4, <2>5 DEF OneRotates, HoleAbove
    <2>7. Ordered'
        BY <1>1, <2>2, <2>4 DEF Ordered, Names
    <2>8. AgeBound'
        <3>1. ASSUME NEW j \in Names, name'[j] # 0
              PROVE  name'[j] + j <= Len(content')
            <4>1. CASE j = 0
                BY <1>1, <2>1, <2>2, <4>1
            <4>2. CASE j # 0
                <5>1. name[j] + j <= Len(content) + 1
                    BY <1>3, <2>2, <2>4, <3>1, <4>2 DEF AgeBound, Late
                <5> QED
                    BY <2>1, <2>2, <4>2, <5>1
            <4> QED
                BY <4>1, <4>2
        <3>2. ~Late(0)' /\ \A j : ~Late(j)'
            BY <1>1, <2>2, <2>5 DEF Late
        <3> QED
            BY <1>1, <2>1, <3>1, <3>2 DEF AgeBound, Names
    <2>9. Kept'
        <3>1. ASSUME NEW n \in Files', n \notin Named' PROVE n \in Files /\ n \notin Named
            <4>1. n # Len(content) + 1
                BY <1>1, <2>2, <3>1 DEF Named
            <4>2. n \in Files
                BY <1>1, <2>1, <3>1, <4>1
            <4>3. n \notin Named
                <5>1. ASSUME NEW j \in Names, n = name[j] PROVE FALSE
                    <6>1. j # 0
                        BY <1>1, <1>3, <4>2, <5>1
                    <6> QED
                        BY <1>1, <2>2, <3>1, <4>2, <5>1, <6>1 DEF Named
                <5> QED
                    BY <5>1 DEF Named
            <4> QED
                BY <4>2, <4>3
        <3> QED
            BY <1>1, <2>1, <2>4, <3>1, DeployLogAssumption DEF Kept
    <2> QED
        BY <2>6, <2>7, <2>8, <2>9 DEF RotationInv
<1> QED
    BY <1>2, <1>3

LEMMA StatKeepsRotationInv ==
    ASSUME TypeInv, RotationInv, NEW c \in calls, Stat(c)
    PROVE  RotationInv'
<1>1. c \in Call /\ c.at = "stat" /\ c \notin Rotating /\ c \notin Moving
    BY DEF TypeInv, TypeOK, Stat, Rotating, Moving
<1>2. name' = name /\ content' = content
    BY DEF Stat, files
<1>3. CASE name[0] = 0 \/ Len(content[Opened]) < MaxLogSize
    <2>1. calls' = (calls \ {c}) \cup {[c EXCEPT !.at = "open"]} /\ overlapped' = overlapped
        BY <1>3 DEF Stat, Becomes
    <2>2. [c EXCEPT !.at = "open"].at = "open"
        BY <1>1 DEF Call
    <2>3. Rotating' = Rotating /\ Moving' = Moving
        BY <1>1, <2>1, <2>2 DEF Rotating, Moving
    <2> QED
        BY <1>2, <2>1, <2>3, SameNames DEF Files
<1>4. CASE ~(name[0] = 0 \/ Len(content[Opened]) < MaxLogSize)
    <2> DEFINE d == [c EXCEPT !.at = "shift", !.i = MaxRotation]
    <2>1. calls' = (calls \ {c}) \cup {d} /\ overlapped' = (overlapped \/ Rotating # {})
          /\ name[0] # 0
        BY <1>4 DEF Stat, Becomes
    <2>2. d.at = "shift" /\ d.i = MaxRotation
        BY <1>1 DEF Call
    <2>3. Rotating' = Rotating \cup {d} /\ Moving' = Moving \cup {d}
        BY <1>1, <2>1, <2>2 DEF Rotating, Moving
    <2>4. CASE overlapped \/ Rotating # {}
        BY <2>1, <2>4 DEF RotationInv
    <2>5. CASE ~overlapped /\ Rotating = {}
        <3>1. Rotating' = {d} /\ Moving = {} /\ Moving' = {d}
            BY <2>3, <2>5 DEF Rotating, Moving
        <3>2. Ordered /\ AgeBound /\ Kept
            BY <2>5 DEF RotationInv
        <3>3. OneRotates'
            BY <3>1 DEF OneRotates
        <3>4. HoleAbove'
            <4>1. ~(d.i < MaxRotation) /\ d.at # "move" /\ name'[0] # 0
                BY <1>2, <2>1, <2>2, DeployLogAssumption
            <4> HIDE DEF d
            <4> QED
                BY <3>1, <4>1 DEF HoleAbove
        <3>5. \A j \in Names : ~Late(j) /\ ~Late(j)'
            BY <1>2, <2>1, <2>2, <3>1, DeployLogAssumption DEF Late, Names
        <3>6. Ordered' /\ AgeBound' /\ Kept'
            BY <1>2, <3>2, <3>5 DEF Ordered, AgeBound, Kept, Named, Files
        <3> QED
            BY <3>3, <3>4, <3>6 DEF RotationInv
    <2> QED
        BY <2>4, <2>5
<1> QED
    BY <1>3, <1>4

LEMMA ShiftKeepsRotationInv ==
    ASSUME TypeInv, RotationInv, NEW c \in calls, Shift(c)
    PROVE  RotationInv'
<1> DEFINE d == [c EXCEPT !.i = @ - 1, !.at = IF c.i = 1 THEN "move" ELSE "shift"]
           R == MaxRotation
<1>1. c \in Call /\ c.at = "shift" /\ c.i \in 1 .. R /\ c \in Rotating /\ c \in Moving
    BY DeployLogAssumption DEF TypeInv, TypeOK, Shift, Call, Rotating, Moving
<1>2. d.i = c.i - 1 /\ d.at \in {"shift", "move"} /\ (d.at = "move" => d.i = 0)
    BY <1>1 DEF Call
<1>3. calls' = (calls \ {c}) \cup {d} /\ content' = content /\ overlapped' = overlapped
    BY DEF Shift, Shifts, Becomes
<1>4. SUFFICES ASSUME ~overlapped PROVE RotationInv'
    BY <1>3 DEF RotationInv
<1>5. OneRotates /\ HoleAbove /\ Ordered /\ AgeBound /\ Kept
    BY <1>4 DEF RotationInv
<1>6. Rotating = {c} /\ Moving = {c}
    BY <1>1, <1>5 DEF OneRotates, Rotating, Moving
<1>7. Rotating' = {d} /\ Moving' = {d}
    BY <1>2, <1>3, <1>6 DEF Rotating, Moving
<1>8. /\ Len(content) \in Nat /\ name \in [Names -> 0 .. Len(content)]
      /\ Files = 1 .. Len(content) /\ Files' = Files
      /\ R \in Nat /\ \A j \in Names : j \in Nat /\ j <= R /\ name[j] \in 0 .. Len(content)
    BY <1>3, Growing, DeployLogAssumption DEF TypeInv, TypeOK, Files, Names
<1>9. name[0] # 0 /\ (c.i < R => name[c.i + 1] = 0)
    BY <1>5, <1>6 DEF HoleAbove
\* Whatever i is, its file has moved up by one, or it was the oldest.
<1>10. /\ name'[c.i] = 0
       /\ c.i < R => c.i + 1 \in Names /\ name'[c.i + 1] = name[c.i]
       /\ \A j \in Names : j # c.i /\ j # c.i + 1 => name'[j] = name[j]
       /\ c.i \in Names /\ name'[0] = name[0] /\ 0 \in Names
    <2>1. c.i \in Names /\ 0 \in Names /\ c.i # 0 /\ c.i + 1 # 0 /\ c.i + 1 # c.i
          /\ (c.i < R <=> c.i # R) /\ (c.i < R <=> c.i + 1 \in Names)
        BY <1>1, <1>8 DEF Names
    <2>2. CASE c.i = R
        <3>1. name' = [name EXCEPT ![c.i] = 0]
            BY <2>2 DEF Shift
        <3> QED
            BY <1>8, <2>1, <2>2, <3>1
    <2>3. CASE c.i # R
        <3>1. name' = [name EXCEPT ![c.i + 1] = IF name[c.i] = 0 THEN @ ELSE name[c.i], ![c.i] = 0]
            BY <2>3 DEF Shift, Rename
        <3> QED
            BY <1>8, <1>9, <2>1, <2>3, <3>1
    <2> QED
        BY <2>2, <2>3
<1>11. OneRotates'
    BY <1>7 DEF OneRotates
<1>12. HoleAbove'
    <2>1. d.i + 1 = c.i /\ name'[d.i + 1] = 0 /\ name'[0] # 0
        BY <1>1, <1>2, <1>9, <1>10
    <2> HIDE DEF d
    <2> QED
        BY <1>2, <1>7, <2>1 DEF HoleAbove
<1>13. Ordered'
    <2> SUFFICES ASSUME NEW i \in Names, NEW j \in Names, i < j, name'[i] # 0, name'[j] # 0
                 PROVE  name'[i] > name'[j]
        BY DEF Ordered
    <2>1. i # c.i /\ j # c.i
        BY <1>10
    <2>2. CASE i = c.i + 1
        <3>1. j # c.i + 1 /\ c.i < j /\ c.i < R /\ name'[i] = name[c.i] /\ name'[j] = name[j]
            BY <1>1, <1>8, <1>10, <2>1, <2>2
        <3> QED
            BY <1>5, <1>10, <3>1 DEF Ordered
    <2>3. CASE j = c.i + 1
        <3>1. i # c.i + 1 /\ i < c.i /\ c.i < R /\ name'[j] = name[c.i] /\ name'[i] = name[i]
            BY <1>1, <1>8, <1>10, <2>1, <2>3
        <3> QED
            BY <1>5, <1>10, <3>1 DEF Ordered
    <2>4. CASE i # c.i + 1 /\ j # c.i + 1
        <3>1. name'[i] = name[i] /\ name'[j] = name[j]
            BY <1>10, <2>1, <2>4
        <3> QED
            BY <1>5, <3>1 DEF Ordered
    <2> QED
        BY <2>2, <2>3, <2>4
<1>14. AgeBound'
    <2> SUFFICES ASSUME NEW j \in Names, name'[j] # 0
                 PROVE  name'[j] + j <= Len(content') + (IF Late(j)' THEN 1 ELSE 0)
        BY DEF AgeBound
    <2>1. (Late(j)' <=> c.i - 1 < j) /\ (Late(j) <=> c.i < j)
        BY <1>2, <1>6, <1>7, <1>9, <1>10 DEF Late
    <2>2. j # c.i
        BY <1>10
    <2>3. CASE j = c.i + 1
        <3>1. c.i < R /\ c.i \in Names /\ name'[j] = name[c.i]
            BY <1>1, <1>8, <1>10, <2>3
        <3>2. ~Late(c.i)
            BY <1>1, <1>6, <1>9 DEF Late
        <3>3. name[c.i] + c.i <= Len(content)
            BY <1>5, <1>8, <3>1, <3>2 DEF AgeBound
        <3>4. Late(j)'
            BY <1>1, <2>1, <2>3
        <3> QED
            BY <1>1, <1>3, <1>8, <2>3, <3>1, <3>3, <3>4
    <2>4. CASE j # c.i + 1
        <3>1. name'[j] = name[j]
            BY <1>10, <2>2, <2>4
        <3>2. Late(j)' <=> Late(j)
            BY <1>1, <1>8, <2>1, <2>2
        <3>3. name[j] + j <= Len(content) + (IF Late(j) THEN 1 ELSE 0)
            BY <1>5, <3>1 DEF AgeBound
        <3> QED
            BY <1>3, <3>1, <3>2, <3>3
    <2> QED
        BY <2>3, <2>4
<1>15. Kept'
    <2> SUFFICES ASSUME NEW n \in Files, n \notin Named' PROVE n + R <= Len(content)
        BY <1>3, <1>8 DEF Kept
    <2>1. CASE n \notin Named
        BY <1>5, <2>1 DEF Kept
    <2>2. CASE n \in Named
        <3>1. PICK j \in Names : n = name[j]
            BY <2>2 DEF Named
        <3>2. n # 0 /\ n \in Nat
            BY <1>8
        <3>3. \A k \in Names : name'[k] # n
            BY <3>2 DEF Named
        <3>4. j \in {c.i, c.i + 1}
            BY <1>10, <3>1, <3>3
        <3>5. j # c.i + 1
            BY <1>1, <1>8, <1>9, <3>1, <3>2
        <3>6. j = c.i /\ c.i = R
            BY <1>1, <1>8, <1>10, <3>1, <3>3, <3>4, <3>5
        <3>7. ~Late(R)
            BY <1>6, <1>8, <1>9, <3>6 DEF Late
        <3>8. name[R] + R <= Len(content)
            BY <1>5, <1>8, <3>1, <3>2, <3>6, <3>7 DEF AgeBound
        <3> QED
            BY <3>1, <3>6, <3>8
    <2> QED
        BY <2>1, <2>2
<1> QED
    BY <1>11, <1>12, <1>13, <1>14, <1>15 DEF RotationInv

LEMMA MoveKeepsRotationInv ==
    ASSUME TypeInv, RotationInv, NEW c \in calls, Move(c)
    PROVE  RotationInv'
<1> DEFINE d == [c EXCEPT !.at = "create"]
<1>1. c \in Call /\ c.at = "move" /\ c \in Rotating /\ c \in Moving
    BY DEF TypeInv, TypeOK, Move, Rotating, Moving
<1>2. d.at = "create"
    BY <1>1 DEF Call
<1>3. calls' = (calls \ {c}) \cup {d} /\ content' = content /\ overlapped' = overlapped
    BY DEF Move, Becomes
<1>4. SUFFICES ASSUME ~overlapped PROVE RotationInv'
    BY <1>3 DEF RotationInv
<1>5. OneRotates /\ HoleAbove /\ Ordered /\ AgeBound /\ Kept
    BY <1>4 DEF RotationInv
<1>6. Rotating = {c} /\ Moving = {c}
    BY <1>1, <1>5 DEF OneRotates, Rotating, Moving
<1>7. Rotating' = {d} /\ Moving' = {}
    BY <1>2, <1>3, <1>6 DEF Rotating, Moving
<1>8. /\ Len(content) \in Nat /\ name \in [Names -> 0 .. Len(content)]
      /\ Files = 1 .. Len(content) /\ Files' = Files
      /\ MaxRotation \in Nat /\ MaxRotation >= 1 /\ 0 \in Names /\ 1 \in Names
      /\ \A j \in Names : j \in Nat /\ name[j] \in 0 .. Len(content)
    BY <1>3, Growing, DeployLogAssumption DEF TypeInv, TypeOK, Files, Names
<1>9. name[0] # 0 /\ c.i = 0 /\ name[1] = 0
    BY <1>1, <1>5, <1>6, <1>8 DEF HoleAbove
<1>10. name'[0] = 0 /\ name'[1] = name[0] /\ \A j \in Names : j # 0 /\ j # 1 => name'[j] = name[j]
    BY <1>8, <1>9 DEF Move, Rename
<1>11. OneRotates' /\ HoleAbove'
    BY <1>7 DEF OneRotates, HoleAbove
<1>12. Ordered'
    <2> SUFFICES ASSUME NEW i \in Names, NEW j \in Names, i < j, name'[i] # 0, name'[j] # 0
                 PROVE  name'[i] > name'[j]
        BY DEF Ordered
    <2>1. i # 0 /\ j # 0 /\ j # 1 /\ 0 < j
        BY <1>8, <1>10
    <2>2. name'[j] = name[j]
        BY <1>10, <2>1
    <2>3. CASE i = 1
        BY <1>5, <1>8, <1>9, <1>10, <2>1, <2>2, <2>3 DEF Ordered
    <2>4. CASE i # 1
        BY <1>5, <1>10, <2>1, <2>2, <2>4 DEF Ordered
    <2> QED
        BY <2>3, <2>4
<1>13. AgeBound'
    <2> SUFFICES ASSUME NEW j \in Names, name'[j] # 0 PROVE name'[j] + j <= Len(content) + 1
        BY <1>3, <1>10 DEF AgeBound, Late
    <2>1. CASE j = 1
        <3>1. ~Late(0)
            BY <1>6, <1>9 DEF Late
        <3>2. name[0] + 0 <= Len(content)
            BY <1>8
        <3> QED
            BY <1>8, <1>10, <2>1, <3>2
    <2>2. CASE j # 1
        <3>1. j # 0 /\ name'[j] = name[j]
            BY <1>10, <2>2
        <3>2. name[j] + j <= Len(content) + (IF Late(j) THEN 1 ELSE 0)
            BY <1>5, <3>1 DEF AgeBound
        <3> QED
            BY <1>8, <3>1, <3>2
    <2> QED
        BY <2>1, <2>2
<1>14. Kept'
    <2> SUFFICES ASSUME NEW n \in Files, n \in Named PROVE n \in Named'
        BY <1>3, <1>5, <1>8 DEF Kept
    <2>1. PICK j \in Names : n = name[j] /\ n # 0
        BY DEF Named
    <2>2. \E k \in Names : name'[k] = n
        BY <1>8, <1>9, <1>10, <2>1
    <2> QED
        BY <2>1, <2>2 DEF Named
<1> QED
    BY <1>11, <1>12, <1>13, <1>14 DEF RotationInv

\* The other steps of a call leave the rotation, or have no part in it.
LEMMA CallKeepsRotationInv ==
    ASSUME TypeInv, RotationInv, NEW c \in calls, TypeInv',
           Create(c) \/ Open(c) \/ WriteLog(c) \/ DeploymentFails(c) \/ StartApp(c)
    PROVE  RotationInv'
<1>1. c \in Call /\ overlapped' = overlapped
    BY DEF TypeInv, TypeOK, Create, Open, WriteLog, DeploymentFails, StartApp
<1>2. content \in Seq(Seq(Piece)) /\ content' \in Seq(Seq(Piece)) /\ Files' = 1 .. Len(content')
    BY DEF TypeInv, TypeOK, Files
<1>3. [c EXCEPT !.at = "open"].at = "open" /\ [c EXCEPT !.at = "write", !.file = Opened].at = "write"
    BY <1>1 DEF Call
<1>4. CASE Create(c)
    <2>1. calls' = (calls \ {c}) \cup {[c EXCEPT !.at = "open"]} /\ c.at = "create"
        BY <1>4 DEF Create, Becomes
    <2>2. Rotating' \subseteq Rotating /\ Moving' = Moving
        BY <1>3, <2>1 DEF Rotating, Moving
    <2>3. name' = Created /\ Len(content') = Len(Contents)
        <3>1. Contents \in Seq(Seq(Piece))
            BY Growing
        <3> QED
            BY <1>4, <3>1 DEF Create
    <2> QED
        BY <1>1, <1>2, <2>2, <2>3, OpenedLog
<1>5. CASE Open(c)
    <2>1. calls' = (calls \ {c}) \cup {[c EXCEPT !.at = "write", !.file = Opened]} /\ c.at = "open"
        BY <1>5 DEF Open, Becomes
    <2>2. Rotating' \subseteq Rotating /\ Moving' = Moving
        BY <1>3, <2>1 DEF Rotating, Moving
    <2> QED
        BY <1>1, <1>2, <1>5, <2>2, OpenedLog DEF Open
<1>6. CASE WriteLog(c)
    <2>1. calls' = calls /\ name' = name
        BY <1>6 DEF WriteLog
    <2>2. Len(content') = Len(content)
        BY <1>2, <1>6, Writing DEF WriteLog, TypeInv
    <2> QED
        BY <1>1, <1>2, <2>1, <2>2, SameNames, Growing DEF Rotating, Moving
<1>7. CASE DeploymentFails(c)
    <2>1. calls' = calls \ {c} /\ c.at = "write" /\ name' = name /\ content' = content
        BY <1>7 DEF DeploymentFails, files
    <2>2. Rotating' \subseteq Rotating /\ Moving' = Moving
        BY <2>1 DEF Rotating, Moving
    <2> QED
        BY <1>1, <2>1, <2>2, SameNames DEF Files
<1>8. CASE StartApp(c)
    <2>1. calls' = calls \ {c} /\ c.at = "write" /\ name' = Created /\ content' = Contents
        BY <1>8 DEF StartApp
    <2>2. Rotating' \subseteq Rotating /\ Moving' = Moving
        BY <2>1 DEF Rotating, Moving
    <2> QED
        BY <1>1, <1>2, <2>1, <2>2, OpenedLog
<1> QED
    BY <1>4, <1>5, <1>6, <1>7, <1>8

LEMMA ProgramKeepsRotationInv ==
    ASSUME TypeInv, RotationInv, TypeInv',
           emit \/ RunDeployment \/ RestartApp \/ AppWrites
           \/ Connect \/ Scan \/ ReadLine \/ Disconnect
    PROVE  RotationInv'
<1>1. content \in Seq(Seq(Piece)) /\ content' \in Seq(Seq(Piece)) /\ Files' = 1 .. Len(content')
    BY DEF TypeInv, TypeOK, Files
<1>2. CASE emit
    <2>1. Contents \in Seq(Seq(Piece))
        BY Growing
    <2>2. Len(content') = Len(Contents)
        BY <1>2, <2>1, Writing DEF emit, TypeInv
    <2>3. name' = Created /\ calls' = calls /\ overlapped' = overlapped
        BY <1>2 DEF emit
    <2> QED
        BY <1>1, <2>2, <2>3, OpenedLog DEF Rotating, Moving
<1>3. CASE RunDeployment
    <2>1. PICK id : calls' = calls \cup {[id |-> id, at |-> "stat", i |-> 0, file |-> 0]}
        BY <1>3 DEF RunDeployment
    <2>2. Rotating' = Rotating /\ Moving' = Moving
        BY <2>1 DEF Rotating, Moving
    <2> QED
        BY <1>3, <2>2, SameNames DEF RunDeployment, files, Files
<1>4. CASE RestartApp
    BY <1>1, <1>4, OpenedLog DEF RestartApp, Rotating, Moving
<1>5. CASE AppWrites
    <2>1. Len(content') = Len(content)
        BY <1>1, <1>5, Writing DEF AppWrites, TypeInv
    <2> QED
        BY <1>1, <1>5, <2>1, SameNames, Growing DEF AppWrites, Rotating, Moving
<1>6. CASE Connect \/ Scan \/ ReadLine \/ Disconnect
    <2>1. name' = name /\ content' = content /\ calls' = calls /\ overlapped' = overlapped
        BY <1>6 DEF Connect, Scan, ReadLine, Disconnect, files
    <2> QED
        BY <2>1, SameNames DEF Rotating, Moving, Files
<1> QED
    BY <1>2, <1>3, <1>4, <1>5, <1>6

LEMMA NextRotationInv == TypeInv /\ RotationInv /\ [Next]_vars => RotationInv'
<1> SUFFICES ASSUME TypeInv, RotationInv, [Next]_vars PROVE RotationInv'
    OBVIOUS
<1>1. TypeInv'
    BY NextTypeInv
<1>2. CASE UNCHANGED vars
    <2>1. name' = name /\ content' = content /\ calls' = calls /\ overlapped' = overlapped
        BY <1>2 DEF vars, files
    <2> QED
        BY <2>1, SameNames DEF Rotating, Moving, Files
<1>3. ASSUME NEW c \in calls, CallStep(c) PROVE RotationInv'
    BY <1>1, <1>3, StatKeepsRotationInv, ShiftKeepsRotationInv, MoveKeepsRotationInv,
       CallKeepsRotationInv DEF CallStep
<1> QED
    BY <1>1, <1>2, <1>3, ProgramKeepsRotationInv DEF Next

\* For every number of files that are kept: as long as rotations do not
\* overlap, a lower name is of a newer file, and no file is gone that has less
\* than MaxRotation newer ones (log.go:89-116).
THEOREM KeepsTheNewest == Spec => []RotationKeepsTheNewest
<1>1. Init => TypeInv /\ RotationInv
    BY InitTypeInv, InitRotationInv
<1>2. TypeInv /\ RotationInv /\ [Next]_vars => (TypeInv /\ RotationInv)'
    BY NextTypeInv, NextRotationInv
<1>3. RotationInv => RotationKeepsTheNewest
    BY DEF RotationInv, RotationKeepsTheNewest, Ordered, Kept
<1> QED
    BY <1>1, <1>2, <1>3, PTL DEF Spec

=============================================================================
