-------------------------------- MODULE Gateway --------------------------------
(***************************************************************************)
(* The settings row of one machine and everybody who reads and writes it:  *)
(* the setup command, cicd token and cicd info, the boot of the service,   *)
(* and the handlers for logins and settings (main.go:47-130,               *)
(* database/registry.go:171-352, api/server.go, cli/handler.go).           *)
(*                                                                         *)
(* Commands are processes of their own, handlers are goroutines of the     *)
(* service, and each SQL statement is a step.  Of the settings there is    *)
(* the admin email, which may be empty, and the port, which may not.       *)
(*                                                                         *)
(* Left out: projects (ProjectRegistry has them), environment variables    *)
(* for the secret, time (a token may expire at any moment), the SMTP host: *)
(* there is none, so that Notify loads the settings again, and a second    *)
(* gateway: nothing in the code keeps one in debug mode from running       *)
(* beside the service, but here systemctl restart waits for its end.       *)
(***************************************************************************)
EXTENDS Naturals, FiniteSets

CONSTANTS
    Emails,      \* admin emails
    NoEmail,     \* the empty string
    Ports,       \* webhook ports
    DefaultPort, \* 9641
    Unusable,    \* ports that other programs hold or that are out of range
    Inputs,      \* what flags and requests may give
    MaxJobs,     \* bound: commands, requests and kills together
    MaxAtOnce,   \* bound: those under way at the same time
    MaxTokens,   \* bound: setup tokens generated before one expires
    MaxKills     \* bound: ends of the service that nobody asked for

ASSUME GatewayAssumption ==
    /\ NoEmail \notin Emails
    /\ Ports \subseteq Nat \ {0} /\ DefaultPort \in Ports /\ Unusable \subseteq Ports
    /\ Inputs \subseteq [email : Emails \cup {NoEmail}, port : Ports \cup {0}]
    /\ MaxJobs \in Nat /\ MaxAtOnce \in Nat /\ MaxTokens \in Nat /\ MaxKills \in Nat

VARIABLES
    row,       \* the settings row
    svc,       \* the service and its configuration cfg
    jobs,      \* commands and handlers under way
    sessions,  \* JWTs handed out
    tokens, secrets, started, kills, \* counters
    promise,   \* history: the port of the last request answered "Settings saved", or 0
    unsaved    \* history: JWT secrets that were used and never stored

bounds == <<tokens, secrets, started, kills>>
vars == <<row, svc, jobs, sessions, bounds, promise, unsaved>>

-----------------------------------------------------------------------------

\* What flags or a request can give; NoEmail and 0 are not given.
Given == [email : Emails \cup {NoEmail}, port : Ports \cup {0}]
NoFlags == [email |-> NoEmail, port |-> 0]

Row == [exists : BOOLEAN, email : Emails \cup {NoEmail}, port : Ports,
        token : Nat, live : BOOLEAN, jwt : Nat]

\* Columns have defaults; the values are meaningless where exists is FALSE.
NewRow == [exists |-> FALSE, email |-> NoEmail, port |-> DefaultPort,
           token |-> 0, live |-> FALSE, jwt |-> 0]

\* "off": not installed; "down": systemd will start it; alone: it boots, and
\* no command has been under way since it was started.
Service == [at     : {"off", "down", "load", "token", "generate", "jwt", "update", "insert", "up"},
            mode   : {"systemd", "debug"},
            flags  : Given,
            email  : Emails \cup {NoEmail}, port : Ports, listen : Ports \cup {0},
            secret : Nat, alone : BOOLEAN]

Booting(mode, flags, alone) ==
    [at |-> "load", mode |-> mode, flags |-> flags, email |-> NoEmail, port |-> DefaultPort,
     listen |-> 0, secret |-> 0, alone |-> alone]

IsBooting == svc.at \notin {"off", "down", "up"}

Handlers == {"login", "link", "put"}

Job == [id : 1 .. MaxJobs, fn : {"setup", "token", "info"} \cup Handlers,
        at : {"save", "restart", "show", "generate", "delete", "notify", "exit"},
        email : Emails \cup {NoEmail}, port : Ports \cup {0}, tok : Nat,
        alone : BOOLEAN]

\* LoadGlobalSettings: explicit flags win, then what is not empty in the row.
LoadGlobalSettings(flags, cfg) ==
    [email |-> IF flags.email = NoEmail /\ row.exists /\ row.email # NoEmail
               THEN row.email ELSE cfg.email,
     port  |-> IF flags.port = 0 /\ row.exists THEN row.port ELSE cfg.port]

\* A variant whose port has no default.
ParsedAsGiven(flags) == flags

\* Config.Parse
Parsed(flags) ==
    [email |-> flags.email, port |-> IF flags.port = 0 THEN DefaultPort ELSE flags.port]

SaveGlobalSettings(cfg) ==
    row' = [row EXCEPT !.exists = TRUE, !.email = cfg.email, !.port = cfg.port]

Starts(f, at, cfg, tok) ==
    /\ started + kills < MaxJobs /\ Cardinality(jobs) < MaxAtOnce
    /\ started' = started + 1
    /\ jobs' = {[j EXCEPT !.alone = FALSE] : j \in jobs} \cup
          {[id |-> started + 1, fn |-> f, at |-> at, email |-> cfg.email, port |-> cfg.port,
            tok |-> tok, alone |-> jobs = {} /\ ~IsBooting]}

Goes(j, at) == jobs' = (jobs \ {j}) \cup {[j EXCEPT !.at = at]}
Ends(j) == jobs' = jobs \ {j}

\* The handlers end with the service.
WithoutHandlers == {j \in jobs : j.fn \notin Handlers}

Init ==
    /\ row = NewRow
    /\ svc = [Booting("debug", NoFlags, TRUE) EXCEPT !.at = "off"]
    /\ jobs = {} /\ sessions = {}
    /\ tokens = 0 /\ secrets = 0 /\ started = 0 /\ kills = 0
    /\ promise = 0 /\ unsaved = {}

-----------------------------------------------------------------------------
(* Setup tokens                                                            *)

Active == row.exists /\ row.token # 0 /\ row.live

\* GenerateSetupToken: the UPDATE of a row that is missing is no error, so
\* that the INSERT meant for this case is not reached.
GenerateSetupToken ==
    /\ tokens' = tokens + 1
    /\ row' = IF row.exists THEN [row EXCEPT !.token = tokens + 1, !.live = TRUE] ELSE row

Expire ==
    /\ row.live /\ tokens < MaxTokens
    /\ row' = [row EXCEPT !.live = FALSE]
    /\ UNCHANGED <<svc, jobs, sessions, bounds, promise, unsaved>>

-----------------------------------------------------------------------------
(* Commands                                                                *)

\* cicd [flags], up to LoadGlobalSettings.
Setup(flags) ==
    /\ Starts("setup", "save", LoadGlobalSettings(flags, Parsed(flags)), 0)
    /\ svc' = [svc EXCEPT !.alone = FALSE]
    /\ UNCHANGED <<row, sessions, tokens, secrets, kills, promise, unsaved>>

SetupSaves(j) ==
    /\ j.fn = "setup" /\ j.at = "save"
    /\ SaveGlobalSettings(j)
    /\ promise' = 0
    /\ Goes(j, "restart")
    /\ UNCHANGED <<svc, sessions, bounds, unsaved>>

\* Setup exits at the first error after its save: the binary, the project
\* folder, the service file or systemctl.
SetupFails(j) ==
    /\ j.at = "restart"
    /\ Ends(j)
    /\ UNCHANGED <<row, svc, sessions, bounds, promise, unsaved>>

\* The service file has no flags; systemctl restart.
SetupRestarts(j) ==
    /\ j.at = "restart"
    /\ svc.at = "off" \/ svc.mode = "systemd"
    /\ svc' = Booting("systemd", NoFlags, FALSE)
    /\ jobs' = {[k EXCEPT !.alone = FALSE] : k \in WithoutHandlers \ {j}} \cup
          IF j.email = NoEmail THEN {[j EXCEPT !.at = "show", !.alone = FALSE]} ELSE {}
    /\ UNCHANGED <<row, sessions, bounds, promise, unsaved>>

\* cicd token, or cicd token --force, up to its decision.
Token(force) ==
    /\ force \/ ~row.exists \/ row.email = NoEmail
    /\ Starts("token", "generate", NoFlags, 0)
    /\ svc' = [svc EXCEPT !.alone = FALSE]
    /\ UNCHANGED <<row, sessions, tokens, secrets, kills, promise, unsaved>>

\* cicd info, which needs a token only if there is no admin email.
Info ==
    /\ ~row.exists \/ row.email = NoEmail
    /\ Starts("info", "show", NoFlags, 0)
    /\ svc' = [svc EXCEPT !.alone = FALSE]
    /\ UNCHANGED <<row, sessions, tokens, secrets, kills, promise, unsaved>>

\* A variant of the next action that does not look for an active token.
ShowNew(j) ==
    /\ j.at = "show"
    /\ Goes(j, "generate")
    /\ UNCHANGED <<row, svc, sessions, bounds, promise, unsaved>>

\* GetOrGenerateSetupToken in PrintGatewayInfo, its first statement.
Show(j) ==
    /\ j.at = "show"
    /\ IF Active THEN Ends(j) ELSE Goes(j, "generate")
    /\ UNCHANGED <<row, svc, sessions, bounds, promise, unsaved>>

Generate(j) ==
    /\ j.at = "generate"
    /\ GenerateSetupToken
    /\ Ends(j)
    /\ UNCHANGED <<svc, sessions, secrets, started, kills, promise, unsaved>>

-----------------------------------------------------------------------------
(* The boot of the service                                                 *)

\* cicd --setup run [flags]
Debug(flags) ==
    /\ svc.at = "off"
    /\ svc' = Booting("debug", flags, jobs = {})
    /\ jobs' = {[j EXCEPT !.alone = FALSE] : j \in jobs}
    /\ UNCHANGED <<row, sessions, bounds, promise, unsaved>>

\* Restart=always
SystemdRestarts ==
    /\ svc.at = "down"
    /\ svc' = Booting("systemd", NoFlags, jobs = {})
    /\ jobs' = {[j EXCEPT !.alone = FALSE] : j \in jobs}
    /\ UNCHANGED <<row, sessions, bounds, promise, unsaved>>

Load ==
    /\ svc.at = "load"
    /\ LET cfg == LoadGlobalSettings(svc.flags, Parsed(svc.flags)) IN
       svc' = [svc EXCEPT !.email = cfg.email, !.port = cfg.port,
                          !.at = IF cfg.email = NoEmail THEN "token" ELSE "jwt"]
    /\ UNCHANGED <<row, jobs, sessions, bounds, promise, unsaved>>

BootToken ==
    /\ svc.at = "token"
    /\ svc' = [svc EXCEPT !.at = IF Active THEN "jwt" ELSE "generate"]
    /\ UNCHANGED <<row, jobs, sessions, bounds, promise, unsaved>>

BootGenerate ==
    /\ svc.at = "generate"
    /\ GenerateSetupToken
    /\ svc' = [svc EXCEPT !.at = "jwt"]
    /\ UNCHANGED <<jobs, sessions, secrets, started, kills, promise, unsaved>>

Stopped == [Booting(svc.mode, NoFlags, FALSE) EXCEPT
               !.at = IF svc.mode = "systemd" THEN "down" ELSE "off"]

\* Listen, or the panic that ends the process.
Listens(secret) ==
    svc' = IF svc.port \in Unusable THEN Stopped
           ELSE [svc EXCEPT !.secret = secret, !.listen = svc.port, !.at = "up", !.alone = FALSE]

\* GetJWTSecret, its first statement.  The handlers are registered with the
\* secret, and the server listens.
ReadSecret ==
    /\ svc.at = "jwt"
    /\ \/ /\ row.exists /\ row.jwt # 0
          /\ Listens(row.jwt)
          /\ UNCHANGED secrets
       \/ /\ ~row.exists \/ row.jwt = 0
          /\ secrets' = secrets + 1
          /\ svc' = [svc EXCEPT !.secret = secrets + 1, !.at = "update"]
    /\ UNCHANGED <<row, jobs, sessions, tokens, started, kills, promise, unsaved>>

UpdateSecret ==
    /\ svc.at = "update"
    /\ row' = IF row.exists THEN [row EXCEPT !.jwt = svc.secret] ELSE row
    /\ svc' = [svc EXCEPT !.at = "insert"]
    /\ UNCHANGED <<jobs, sessions, bounds, promise, unsaved>>

\* A variant that takes it for granted that the row exists.
SkipInsert ==
    /\ svc.at = "insert"
    /\ Listens(svc.secret)
    /\ UNCHANGED <<row, jobs, sessions, bounds, promise, unsaved>>

\* INSERT OR IGNORE, and the server listens.  A row that setup has inserted
\* since the UPDATE stays without the secret.
InsertSecret ==
    /\ svc.at = "insert"
    /\ row' = IF row.exists THEN row ELSE [NewRow EXCEPT !.exists = TRUE, !.jwt = svc.secret]
    /\ unsaved' = IF row'.jwt = svc.secret THEN unsaved ELSE unsaved \cup {svc.secret}
    /\ Listens(svc.secret)
    /\ UNCHANGED <<jobs, sessions, bounds, promise>>

\* A crash, a reboot, or Ctrl-C in debug mode.
Kill ==
    /\ svc.at \notin {"off", "down"} /\ kills < MaxKills /\ started + kills < MaxJobs
    /\ kills' = kills + 1
    /\ svc' = Stopped
    /\ jobs' = WithoutHandlers
    /\ UNCHANGED <<row, sessions, tokens, secrets, started, promise, unsaved>>

-----------------------------------------------------------------------------
(* Handlers                                                                *)

\* Notify without an SMTP host: cfg is loaded again, and shared by handlers.
Notifies(j) ==
    /\ j.at = "notify"
    /\ LET cfg == LoadGlobalSettings(svc.flags, svc) IN
       svc' = [svc EXCEPT !.port = cfg.port,
                          !.email = IF svc.email # NoEmail THEN svc.email ELSE cfg.email]
    /\ IF j.fn = "put" THEN Goes(j, "exit") ELSE Ends(j)
    /\ UNCHANGED <<row, sessions, bounds, promise, unsaved>>

\* POST /auth/token-login with a token that ValidateSetupToken accepts, up to
\* the last statement of it.
Login ==
    /\ svc.at = "up"
    /\ Active
    /\ Starts("login", "delete", NoFlags, row.token)
    /\ UNCHANGED <<row, svc, sessions, tokens, secrets, kills, promise, unsaved>>

Session(j) == [id |-> j.id, tok |-> j.tok, secret |-> svc.secret, alone |-> j.alone]

\* A variant that leaves the token in place.
LoginKeepsToken(j) ==
    /\ j.at = "delete"
    /\ sessions' = sessions \cup {Session(j)}
    /\ Goes(j, "notify")
    /\ UNCHANGED <<row, svc, bounds, promise, unsaved>>

\* The token in the row is deleted, whichever it is by now.
LoginDeletes(j) ==
    /\ j.at = "delete"
    /\ row' = [row EXCEPT !.token = 0, !.live = FALSE]
    /\ sessions' = sessions \cup {Session(j)}
    /\ Goes(j, "notify")
    /\ UNCHANGED <<svc, bounds, promise, unsaved>>

\* POST /auth/magic-link by the admin, who opens the link.
MagicLink ==
    /\ svc.at = "up" /\ svc.email # NoEmail
    /\ Starts("link", "notify", NoFlags, 0)
    /\ sessions' = sessions \cup
          {[id |-> 0, tok |-> 0, secret |-> svc.secret, alone |-> TRUE]}
    /\ UNCHANGED <<row, svc, tokens, secrets, kills, promise, unsaved>>

\* PUT /settings: what is not empty goes into the shared cfg.
Put(r) ==
    /\ svc.at = "up" /\ sessions # {}
    /\ Starts("put", "save", r, 0)
    /\ svc' = [svc EXCEPT !.email = IF r.email = NoEmail THEN @ ELSE r.email,
                          !.port = IF r.port = 0 THEN @ ELSE r.port]
    /\ UNCHANGED <<row, sessions, tokens, secrets, kills, promise, unsaved>>

\* All columns of cfg are saved.
PutSaves(j) ==
    /\ j.fn = "put" /\ j.at = "save"
    /\ SaveGlobalSettings(svc)
    /\ promise' = IF j.alone /\ svc.mode = "systemd" THEN j.port ELSE 0
    /\ Goes(j, "notify")
    /\ UNCHANGED <<svc, sessions, bounds, unsaved>>

\* SaveGlobalSettings logs its error, and its callers go on.
SaveFails(j) ==
    /\ j.at = "save"
    /\ promise' = 0
    /\ \/ j.fn = "setup" /\ Goes(j, "restart")
       \/ j.fn = "put" /\ Goes(j, "notify")
    /\ UNCHANGED <<row, svc, sessions, bounds, unsaved>>

\* A variant that does not restart the service.
PutStays(j) ==
    /\ j.at = "exit"
    /\ Ends(j)
    /\ UNCHANGED <<row, svc, sessions, bounds, promise, unsaved>>

\* os.Exit, a second later.
PutExits(j) ==
    /\ j.at = "exit"
    /\ svc' = Stopped
    /\ jobs' = WithoutHandlers
    /\ UNCHANGED <<row, sessions, bounds, promise, unsaved>>

-----------------------------------------------------------------------------

JobStep(j) ==
    \/ SetupSaves(j) \/ SetupFails(j) \/ SetupRestarts(j) \/ Show(j) \/ Generate(j)
    \/ Notifies(j) \/ LoginDeletes(j) \/ PutSaves(j) \/ SaveFails(j) \/ PutExits(j)

BootStep ==
    \/ SystemdRestarts \/ Load \/ BootToken \/ BootGenerate
    \/ ReadSecret \/ UpdateSecret \/ InsertSecret

Next ==
    \/ \E flags \in Inputs : Setup(flags) \/ Debug(flags)
    \/ \E force \in BOOLEAN : Token(force)
    \/ Info \/ Login \/ MagicLink
    \/ \E r \in Inputs : Put(r)
    \/ \E j \in jobs : JobStep(j)
    \/ BootStep \/ Kill \/ Expire

Spec == Init /\ [][Next]_vars

\* Processes and handlers go on, and systemd restarts the service.
FairSpec ==
    /\ Spec
    /\ WF_vars(BootStep)
    /\ WF_vars(\E j \in jobs : JobStep(j))

-----------------------------------------------------------------------------
(* Properties                                                              *)

\* Every variable is as declared: the columns, the configuration, the jobs.
TypeOK ==
    /\ row \in Row
    /\ svc \in Service
    /\ jobs \subseteq Job
    /\ sessions \subseteq [id : 0 .. MaxJobs, tok : Nat, secret : Nat,
                           alone : BOOLEAN]
    /\ tokens \in Nat /\ secrets \in Nat
    /\ started \in 0 .. MaxJobs /\ kills \in 0 .. MaxKills
    /\ promise \in Ports \cup {0} /\ unsaved \subseteq Nat

\* A session outlives restarts of the gateway (registry.go:330-352,
\* server.go:59): whatever boots, settings and setup do to the row in between,
\* the secret in memory is the one every session is signed with, except for
\* sessions under a secret that was never stored: setup has inserted the row
\* between the UPDATE and the INSERT OR IGNORE that were to store it.
SessionsSurvive ==
    svc.at = "up" => \A s \in sessions : s.secret = svc.secret \/ s.secret \in unsaved

\* A setup token opens one session, "one-time use" (registry.go:323-325),
\* unless two requests were handled side by side.
TokenIsUsedOnce ==
    \A s, r \in sessions : s.tok = r.tok /\ s.tok # 0 /\ s # r => ~s.alone \/ ~r.alone

\* A token that is still good stays (registry.go:251-272): only cicd token
\* replaces it and only its own login deletes it, as long as commands,
\* handlers and the boot of the service do not overlap.
ActiveTokensStay ==
    [][ Active /\ row'.token # row.token =>
          \/ jobs' = jobs /\ ~svc.alone
          \/ \E j \in jobs \ jobs' :
                j.fn = "token" \/ (j.fn = "login" /\ j.tok = row.token) \/ ~j.alone ]_vars

\* After "Settings saved. Orchestrator is restarting..." (server.go:1098-1105)
\* the gateway comes to listen on the port that was saved, if it can, unless
\* somebody saves again.  Requests beside other handlers are excepted, since
\* Notify loads the old row into the configuration they share, and so are
\* requests whose save failed.
SettingsTakeEffect ==
    \A p \in Ports \ Unusable :
        promise = p ~> ((svc.at = "up" /\ svc.listen = p) \/ promise # p)

=============================================================================
