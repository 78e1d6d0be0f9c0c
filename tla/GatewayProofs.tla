---------------------------- MODULE GatewayProofs ----------------------------
(***************************************************************************)
(* Theorems about Gateway for any emails and ports and all bounds (TLC     *)
(* checks three commands, requests and kills).                             *)
(***************************************************************************)
EXTENDS Gateway, TLAPS

-----------------------------------------------------------------------------
(* Types                                                                   *)

\* Setup has settings to save, and every kind of job is where it can be.
WellFormed(j) ==
    /\ j.fn = "setup" => j.port \in Ports
    /\ j.at = "restart" => j.fn = "setup"
    /\ j.at = "delete" => j.fn = "login"
    /\ j.at \in {"delete", "notify", "exit"} => j.fn \in Handlers
    /\ j.at \in {"restart", "show", "generate"} => j.fn \notin Handlers

TypeInv == TypeOK /\ \A j \in jobs : WellFormed(j)

\* A job beside which another one starts, or the service.
NotAlone(j) == [j EXCEPT !.alone = FALSE]

LEMMA NotAloneType ==
    ASSUME NEW j \in Job
    PROVE  /\ NotAlone(j) \in Job
           /\ NotAlone(j).fn = j.fn /\ NotAlone(j).at = j.at /\ NotAlone(j).port = j.port
           /\ NotAlone(j).email = j.email /\ NotAlone(j).tok = j.tok
           /\ NotAlone(j).alone = FALSE
           /\ WellFormed(j) => WellFormed(NotAlone(j))
    BY DEF Job, NotAlone, WellFormed

\* What Starts adds.
NewJob(f, at, cfg, tok) ==
    [id |-> started + 1, fn |-> f, at |-> at, email |-> cfg.email, port |-> cfg.port,
     tok |-> tok, alone |-> jobs = {} /\ ~IsBooting]

LEMMA Starting ==
    ASSUME TypeInv, NEW f \in {"setup", "token", "info"} \cup Handlers,
           NEW at \in {"save", "show", "generate", "delete", "notify"},
           NEW cfg, cfg.email \in Emails \cup {NoEmail}, cfg.port \in Ports \cup {0},
           NEW tok \in Nat, Starts(f, at, cfg, tok)
    PROVE  /\ jobs' = {NotAlone(h) : h \in jobs} \cup {NewJob(f, at, cfg, tok)}
           /\ NewJob(f, at, cfg, tok) \in Job
           /\ NewJob(f, at, cfg, tok).fn = f /\ NewJob(f, at, cfg, tok).at = at
           /\ NewJob(f, at, cfg, tok).port = cfg.port /\ NewJob(f, at, cfg, tok).tok = tok
           /\ NewJob(f, at, cfg, tok).alone <=> (jobs = {} /\ ~IsBooting)
           /\ WellFormed(NewJob(f, at, cfg, tok)) => \A j \in jobs' : j \in Job /\ WellFormed(j)
           /\ started' \in 0 .. MaxJobs
<1> DEFINE b == jobs = {} /\ ~IsBooting
           w == NewJob(f, at, cfg, tok)
<1>1. b \in BOOLEAN
    OBVIOUS
<1>2. w = [id |-> started + 1, fn |-> f, at |-> at, email |-> cfg.email, port |-> cfg.port,
           tok |-> tok, alone |-> b]
    BY DEF NewJob
<1>3. started + 1 \in 1 .. MaxJobs /\ started' = started + 1
    BY GatewayAssumption DEF Starts, TypeInv, TypeOK
<1>4. jobs' = {NotAlone(h) : h \in jobs} \cup {w}
    BY DEF Starts, NotAlone, NewJob
<1> HIDE DEF b, w
<1>5. /\ w \in Job /\ w.fn = f /\ w.at = at /\ w.port = cfg.port /\ w.tok = tok /\ w.alone = b
    BY <1>1, <1>2, <1>3 DEF Job
<1>6. WellFormed(w) => \A j \in jobs' : j \in Job /\ WellFormed(j)
    <2> SUFFICES ASSUME WellFormed(w), NEW j \in jobs' PROVE j \in Job /\ WellFormed(j)
        OBVIOUS
    <2>1. CASE j = w
        BY <1>5, <2>1
    <2>2. CASE \E h \in jobs : j = NotAlone(h)
        BY <2>2, NotAloneType DEF TypeInv, TypeOK
    <2> QED
        BY <1>4, <2>1, <2>2
<1>7. started' \in 0 .. MaxJobs
    BY <1>3
<1> QED
    BY <1>4, <1>5, <1>6, <1>7 DEF b, w

\* Where a job may go.
MayGo(j, at) ==
    \/ at \in {"notify", "exit"} /\ j.fn \in Handlers
    \/ at = "restart" /\ j.fn = "setup"
    \/ at = "generate" /\ j.fn \notin Handlers

LEMMA Going ==
    ASSUME TypeInv, NEW j \in jobs, NEW at, Goes(j, at), MayGo(j, at)
    PROVE  \E w \in Job : /\ jobs' = (jobs \ {j}) \cup {w} /\ WellFormed(w)
                          /\ w.at = at /\ w.fn = j.fn /\ w.port = j.port /\ w.tok = j.tok
                          /\ w.alone = j.alone
<1> DEFINE w == [j EXCEPT !.at = at]
<1>1. j \in Job /\ WellFormed(j)
    BY DEF TypeInv, TypeOK
<1>2. /\ w \in Job /\ w.at = at /\ w.fn = j.fn /\ w.port = j.port /\ w.tok = j.tok
      /\ w.alone = j.alone
    BY <1>1 DEF Job, MayGo
<1>3. jobs' = (jobs \ {j}) \cup {w}
    BY DEF Goes
<1> HIDE DEF w
<1>4. WellFormed(w)
    BY <1>1, <1>2 DEF WellFormed, Handlers, MayGo
<1> QED
    BY <1>2, <1>3, <1>4

\* The settings that are loaded.
LEMMA Loading ==
    ASSUME TypeInv, NEW flags, NEW cfg, cfg.email \in Emails \cup {NoEmail}, cfg.port \in Ports
    PROVE  /\ LoadGlobalSettings(flags, cfg).email \in Emails \cup {NoEmail}
           /\ LoadGlobalSettings(flags, cfg).port \in Ports
    BY DEF LoadGlobalSettings, TypeInv, TypeOK, Row

LEMMA Parsing ==
    ASSUME NEW flags \in Given
    PROVE  Parsed(flags).email \in Emails \cup {NoEmail} /\ Parsed(flags).port \in Ports
    BY GatewayAssumption DEF Parsed, Given

LEMMA BootingType ==
    ASSUME NEW mode \in {"systemd", "debug"}, NEW flags \in Given, NEW b \in BOOLEAN
    PROVE  /\ Booting(mode, flags, b) \in Service
           /\ Booting(mode, flags, b).at = "load" /\ Booting(mode, flags, b).mode = mode
           /\ Booting(mode, flags, b).alone = b
    BY GatewayAssumption DEF Booting, Service

LEMMA NoFlagsType == NoFlags \in Given
    BY DEF NoFlags, Given

LEMMA InputsType == Inputs \subseteq Given
    BY GatewayAssumption DEF Given

\* The service without its process.
LEMMA StoppedType ==
    ASSUME svc \in Service
    PROVE  /\ Stopped \in Service /\ Stopped.mode = svc.mode /\ ~Stopped.alone
           /\ Stopped.at = IF svc.mode = "systemd" THEN "down" ELSE "off"
<1> DEFINE b == Booting(svc.mode, NoFlags, FALSE)
           a == IF svc.mode = "systemd" THEN "down" ELSE "off"
<1>1. svc.mode \in {"systemd", "debug"}
    BY DEF Service
<1>2. b \in Service /\ b.mode = svc.mode /\ b.alone = FALSE
    BY <1>1, BootingType, NoFlagsType
<1>3. Stopped = [b EXCEPT !.at = a] /\ a \in {"down", "off"}
    BY DEF Stopped
<1> HIDE DEF a, b
<1>4. Stopped \in Service /\ Stopped.mode = svc.mode /\ Stopped.alone = FALSE /\ Stopped.at = a
    BY <1>2, <1>3 DEF Service
<1> QED
    BY <1>4 DEF a

\* A step of the service alone.
LEMMA ServiceType ==
    ASSUME TypeInv, svc' \in Service, UNCHANGED <<row, jobs, sessions, bounds, promise, unsaved>>
    PROVE  TypeInv'
    BY DEF TypeInv, TypeOK, bounds, WellFormed

LEMMA InitTypeInv == Init => TypeInv
<1> SUFFICES ASSUME Init PROVE TypeInv
    OBVIOUS
<1> DEFINE s == Booting("debug", NoFlags, TRUE)
<1>1. svc \in Service
    <2>1. s \in Service /\ svc = [s EXCEPT !.at = "off"]
        BY BootingType, NoFlagsType DEF Init
    <2> HIDE DEF s
    <2> QED
        BY <2>1 DEF Service
<1>2. row \in Row
    BY GatewayAssumption DEF Init, Row, NewRow
<1> QED
    BY <1>1, <1>2, GatewayAssumption DEF Init, TypeInv, TypeOK

\* The configuration of the service changes.
LEMMA ConfigType ==
    ASSUME TypeInv, NEW s, NEW e \in Emails \cup {NoEmail}, NEW p \in Ports,
           s = [svc EXCEPT !.email = e, !.port = p]
    PROVE  s \in Service
    BY DEF TypeInv, TypeOK, Service

LEMMA GenerateType == TypeInv /\ GenerateSetupToken => row' \in Row /\ tokens' \in Nat
<1> SUFFICES ASSUME TypeInv, GenerateSetupToken PROVE row' \in Row /\ tokens' \in Nat
    OBVIOUS
<1> DEFINE n == tokens + 1
<1>1. n \in Nat /\ row \in Row
    BY DEF TypeInv, TypeOK
<1>2. /\ tokens' = n
      /\ row' = IF row.exists THEN [row EXCEPT !.token = n, !.live = TRUE] ELSE row
    BY DEF GenerateSetupToken
<1> HIDE DEF n
<1> QED
    BY <1>1, <1>2 DEF Row

\* A boot ends: the service listens, or the process has panicked.
LEMMA Listening ==
    ASSUME TypeInv, NEW n \in Nat, Listens(n)
    PROVE  /\ svc' \in Service /\ svc'.mode = svc.mode /\ ~svc'.alone
           /\ \/ svc'.at = "up" /\ svc'.secret = n
              \/ svc'.at = IF svc.mode = "systemd" THEN "down" ELSE "off"
<1>1. svc \in Service
    BY DEF TypeInv, TypeOK
<1>2. CASE svc.port \in Unusable
    BY <1>1, <1>2, StoppedType DEF Listens
<1>3. CASE svc.port \notin Unusable
    <2>1. svc' = [svc EXCEPT !.secret = n, !.listen = svc.port, !.at = "up", !.alone = FALSE]
        BY <1>3 DEF Listens
    <2> QED
        BY <1>1, <2>1 DEF Service
<1> QED
    BY <1>2, <1>3

LEMMA CommandType ==
    ASSUME TypeInv, \/ \E flags \in Given : Setup(flags)
                    \/ \E force \in BOOLEAN : Token(force)
                    \/ Info
    PROVE  TypeInv'
<1>1. PICK f \in {"setup", "token", "info"}, at \in {"save", "generate", "show"},
           cfg \in [email : Emails \cup {NoEmail}, port : Ports \cup {0}] :
        Starts(f, at, cfg, 0) /\ (f = "setup" => cfg.port \in Ports)
    <2>1. ASSUME NEW flags \in Given, Setup(flags)
          PROVE  \E cfg \in [email : Emails \cup {NoEmail}, port : Ports] : Starts("setup", "save", cfg, 0)
        <3> DEFINE cfg == LoadGlobalSettings(flags, Parsed(flags))
        <3>1. cfg.email \in Emails \cup {NoEmail} /\ cfg.port \in Ports
            BY Loading, Parsing
        <3>2. cfg \in [email : Emails \cup {NoEmail}, port : Ports]
            BY <3>1 DEF LoadGlobalSettings
        <3> QED
            BY <2>1, <3>2 DEF Setup
    <2>2. NoFlags \in [email : Emails \cup {NoEmail}, port : Ports \cup {0}]
        BY DEF NoFlags
    <2> QED
        BY <2>1, <2>2 DEF Token, Info
<1>2. WellFormed(NewJob(f, at, cfg, 0)) /\ \A j \in jobs' : j \in Job /\ WellFormed(j)
    BY <1>1, Starting DEF WellFormed, Handlers
<1>3. started' \in 0 .. MaxJobs
    BY <1>1, Starting
<1>4. svc' \in Service /\ UNCHANGED <<row, sessions, tokens, secrets, kills, promise, unsaved>>
    <2>1. svc' = [svc EXCEPT !.alone = FALSE] /\ UNCHANGED <<row, sessions, tokens, secrets, kills, promise, unsaved>>
        BY DEF Setup, Token, Info
    <2> QED
        BY <2>1 DEF TypeInv, TypeOK, Service
<1> QED
    BY <1>2, <1>3, <1>4 DEF TypeInv, TypeOK

LEMMA RequestType ==
    ASSUME TypeInv, Login \/ MagicLink \/ \E r \in Given : Put(r)
    PROVE  TypeInv'
<1>1. PICK f \in Handlers, at \in {"delete", "notify", "save"}, cfg \in Given, tok \in Nat :
        Starts(f, at, cfg, tok) /\ (at = "delete" => f = "login")
    BY NoFlagsType DEF Login, MagicLink, Put, TypeInv, TypeOK, Row, Handlers
<1>2. cfg.email \in Emails \cup {NoEmail} /\ cfg.port \in Ports \cup {0}
    BY DEF Given
<1>3. started' \in 0 .. MaxJobs /\ \A j \in jobs' : j \in Job /\ WellFormed(j)
    BY <1>1, <1>2, Starting DEF WellFormed, Handlers
<1>4. svc' \in Service
    <2>1. CASE Login \/ MagicLink
        BY <2>1 DEF Login, MagicLink, TypeInv, TypeOK
    <2>2. CASE \E r \in Given : Put(r)
        <3>1. PICK r \in Given : Put(r)
            BY <2>2
        <3> DEFINE e == IF r.email = NoEmail THEN svc.email ELSE r.email
                   p == IF r.port = 0 THEN svc.port ELSE r.port
        <3>2. svc' = [svc EXCEPT !.email = e, !.port = p]
            BY <3>1 DEF Put
        <3>3. e \in Emails \cup {NoEmail} /\ p \in Ports
            BY DEF Given, TypeInv, TypeOK, Service
        <3> HIDE DEF e, p
        <3> QED
            BY <3>2, <3>3, ConfigType
    <2> QED
        BY <2>1, <2>2
<1>5. /\ UNCHANGED <<row, tokens, secrets, kills, promise, unsaved>>
      /\ sessions' \subseteq [id : 0 .. MaxJobs, tok : Nat, secret : Nat, alone : BOOLEAN]
    <2>1. [id |-> 0, tok |-> 0, secret |-> svc.secret, alone |-> TRUE]
            \in [id : 0 .. MaxJobs, tok : Nat, secret : Nat, alone : BOOLEAN]
        BY GatewayAssumption DEF TypeInv, TypeOK, Service
    <2> QED
        BY <2>1 DEF Login, MagicLink, Put, TypeInv, TypeOK
<1> QED
    BY <1>3, <1>4, <1>5 DEF TypeInv, TypeOK

LEMMA BootStepType ==
    ASSUME TypeInv, BootStep \/ Kill \/ Expire \/ \E flags \in Given : Debug(flags)
    PROVE  TypeInv'
<1>1. row \in Row /\ svc \in Service /\ tokens \in Nat /\ secrets \in Nat
    BY DEF TypeInv, TypeOK
<1>2. ASSUME NEW mode \in {"systemd", "debug"}, NEW flags \in Given,
             svc' = Booting(mode, flags, jobs = {}), jobs' = {NotAlone(j) : j \in jobs},
             UNCHANGED <<row, sessions, bounds, promise, unsaved>>
      PROVE  TypeInv'
    <2>1. svc' \in Service
        BY <1>2, BootingType
    <2>2. \A j \in jobs' : j \in Job /\ WellFormed(j)
        BY <1>2, NotAloneType DEF TypeInv, TypeOK
    <2> QED
        BY <1>2, <2>1, <2>2 DEF TypeInv, TypeOK, bounds
<1>3. CASE SystemdRestarts
    BY <1>2, <1>3, NoFlagsType DEF SystemdRestarts, NotAlone
<1>4. ASSUME NEW flags \in Given, Debug(flags) PROVE TypeInv'
    BY <1>2, <1>4 DEF Debug, NotAlone
<1>5. CASE Load
    <2> DEFINE cfg == LoadGlobalSettings(svc.flags, Parsed(svc.flags))
    <2>1. cfg.email \in Emails \cup {NoEmail} /\ cfg.port \in Ports
        BY <1>1, Loading, Parsing DEF Service
    <2>2. svc' = [svc EXCEPT !.email = cfg.email, !.port = cfg.port,
                             !.at = IF cfg.email = NoEmail THEN "token" ELSE "jwt"]
        BY <1>5 DEF Load
    <2> HIDE DEF cfg
    <2>3. svc' \in Service
        BY <1>1, <2>1, <2>2 DEF Service
    <2> QED
        BY <1>5, <2>3, ServiceType DEF Load
<1>6. CASE BootToken
    <2>1. svc' \in Service
        BY <1>1, <1>6 DEF BootToken, Service
    <2> QED
        BY <1>6, <2>1, ServiceType DEF BootToken
<1>7. CASE BootGenerate
    <2>1. svc' \in Service
        BY <1>1, <1>7 DEF BootGenerate, Service
    <2>2. row' \in Row /\ tokens' \in Nat
        BY <1>7, GenerateType DEF BootGenerate
    <2> QED
        BY <1>7, <2>1, <2>2 DEF BootGenerate, TypeInv, TypeOK
<1>8. CASE ReadSecret
    <2>1. CASE row.exists /\ row.jwt # 0 /\ Listens(row.jwt) /\ UNCHANGED secrets
        <3>1. svc' \in Service
            BY <1>1, <2>1, Listening DEF Row
        <3> QED
            BY <1>8, <2>1, <3>1 DEF ReadSecret, TypeInv, TypeOK
    <2>2. CASE secrets' = secrets + 1 /\ svc' = [svc EXCEPT !.secret = secrets + 1, !.at = "update"]
        <3> DEFINE n == secrets + 1
        <3>1. n \in Nat /\ secrets' = n /\ svc' = [svc EXCEPT !.secret = n, !.at = "update"]
            BY <1>1, <2>2
        <3> HIDE DEF n
        <3>2. svc' \in Service
            BY <1>1, <3>1 DEF Service
        <3> QED
            BY <1>8, <3>1, <3>2 DEF ReadSecret, TypeInv, TypeOK
    <2> QED
        BY <1>8, <2>1, <2>2 DEF ReadSecret
<1>9. CASE UpdateSecret
    <2>1. svc' \in Service /\ row' \in Row
        BY <1>1, <1>9 DEF UpdateSecret, Service, Row
    <2> QED
        BY <1>9, <2>1 DEF UpdateSecret, TypeInv, TypeOK, bounds
<1>10. CASE InsertSecret
    <2>1. svc.secret \in Nat
        BY <1>1 DEF Service
    <2>2. svc' \in Service
        BY <1>10, <2>1, Listening DEF InsertSecret
    <2>3. row' \in Row
        BY <1>1, <1>10, <2>1, GatewayAssumption DEF InsertSecret, Row, NewRow
    <2>4. unsaved' \subseteq Nat
        BY <1>10, <2>1 DEF InsertSecret, TypeInv, TypeOK
    <2> QED
        BY <1>10, <2>2, <2>3, <2>4 DEF InsertSecret, TypeInv, TypeOK, bounds
<1>11. CASE Kill
    <2>1. svc' \in Service
        BY <1>1, <1>11, StoppedType DEF Kill
    <2>2. kills' \in 0 .. MaxKills
        BY <1>11, GatewayAssumption DEF Kill, TypeInv, TypeOK
    <2> QED
        BY <1>11, <2>1, <2>2 DEF Kill, WithoutHandlers, TypeInv, TypeOK
<1>12. CASE Expire
    <2>1. row' \in Row
        BY <1>1, <1>12 DEF Expire, Row
    <2> QED
        BY <1>12, <2>1 DEF Expire, TypeInv, TypeOK, bounds
<1> QED
    BY <1>3, <1>4, <1>5, <1>6, <1>7, <1>8, <1>9, <1>10, <1>11, <1>12 DEF BootStep

LEMMA JobStepType == ASSUME TypeInv, NEW j \in jobs, JobStep(j) PROVE TypeInv'
<1>1. row \in Row /\ svc \in Service /\ j \in Job /\ WellFormed(j)
    BY DEF TypeInv, TypeOK
<1>2. ASSUME NEW at, Goes(j, at), MayGo(j, at) PROVE \A h \in jobs' : h \in Job /\ WellFormed(h)
    BY <1>2, Going DEF TypeInv, TypeOK
<1>3. /\ j.fn \in Handlers => MayGo(j, "notify") /\ MayGo(j, "exit")
      /\ j.fn = "setup" => MayGo(j, "restart")
      /\ j.fn \notin Handlers => MayGo(j, "generate")
    BY DEF MayGo
<1>4. CASE SetupSaves(j)
    <2>1. row' \in Row
        BY <1>1, <1>4 DEF SetupSaves, SaveGlobalSettings, Row, Job, WellFormed
    <2>2. \A h \in jobs' : h \in Job /\ WellFormed(h)
        BY <1>2, <1>3, <1>4 DEF SetupSaves
    <2> QED
        BY <1>4, <2>1, <2>2 DEF SetupSaves, TypeInv, TypeOK, bounds
<1>5. CASE SetupRestarts(j)
    <2> DEFINE w == [j EXCEPT !.at = "show", !.alone = FALSE]
    <2>1. w \in Job
        BY <1>1 DEF Job
    <2>2. w.port = j.port /\ w.fn = j.fn /\ w.at = "show" /\ j.fn = "setup"
        BY <1>1, <1>5 DEF Job, SetupRestarts, WellFormed
    <2>3. \A h \in jobs' : h = w \/ \E k \in jobs : h = NotAlone(k)
        BY <1>5 DEF SetupRestarts, NotAlone, WithoutHandlers
    <2> HIDE DEF w
    <2>4. WellFormed(w)
        BY <1>1, <2>2 DEF WellFormed, Handlers
    <2>5. \A h \in jobs' : h \in Job /\ WellFormed(h)
        BY <2>1, <2>3, <2>4, NotAloneType DEF TypeInv, TypeOK
    <2>6. svc' \in Service
        BY <1>5, BootingType, NoFlagsType DEF SetupRestarts
    <2> QED
        BY <1>5, <2>5, <2>6 DEF SetupRestarts, TypeInv, TypeOK, bounds
<1>6. CASE Show(j)
    <2>1. \A h \in jobs' : h \in Job /\ WellFormed(h)
        BY <1>1, <1>2, <1>3, <1>6 DEF Show, Ends, TypeInv, TypeOK, WellFormed
    <2> QED
        BY <1>6, <2>1 DEF Show, TypeInv, TypeOK, bounds
<1>7. CASE Generate(j)
    <2>1. row' \in Row /\ tokens' \in Nat
        BY <1>7, GenerateType DEF Generate
    <2> QED
        BY <1>7, <2>1 DEF Generate, Ends, TypeInv, TypeOK
<1>8. CASE Notifies(j)
    <2>1. \A h \in jobs' : h \in Job /\ WellFormed(h)
        BY <1>1, <1>2, <1>3, <1>8 DEF Notifies, Ends, TypeInv, TypeOK, WellFormed, Handlers
    <2> DEFINE cfg == LoadGlobalSettings(svc.flags, svc)
               e == IF svc.email # NoEmail THEN svc.email ELSE cfg.email
    <2>2. e \in Emails \cup {NoEmail} /\ cfg.port \in Ports
        BY <1>1, Loading DEF Service
    <2>3. svc' = [svc EXCEPT !.port = cfg.port, !.email = e]
        BY <1>8 DEF Notifies
    <2> HIDE DEF cfg, e
    <2>4. svc' \in Service
        BY <1>1, <2>2, <2>3 DEF Service
    <2> QED
        BY <1>8, <2>1, <2>4 DEF Notifies, TypeInv, TypeOK, bounds
<1>9. CASE LoginDeletes(j)
    <2>1. row' \in Row
        BY <1>1, <1>9 DEF LoginDeletes, Row
    <2>2. Session(j) \in [id : 0 .. MaxJobs, tok : Nat, secret : Nat, alone : BOOLEAN]
        BY <1>1 DEF Session, Job, Service
    <2>3. \A h \in jobs' : h \in Job /\ WellFormed(h)
        BY <1>1, <1>2, <1>3, <1>9 DEF LoginDeletes, WellFormed
    <2> QED
        BY <1>9, <2>1, <2>2, <2>3 DEF LoginDeletes, TypeInv, TypeOK, bounds
<1>10. CASE PutSaves(j)
    <2>1. row' \in Row
        BY <1>1, <1>10 DEF PutSaves, SaveGlobalSettings, Row, Service
    <2>2. promise' \in Ports \cup {0}
        BY <1>1, <1>10 DEF PutSaves, Job
    <2>3. \A h \in jobs' : h \in Job /\ WellFormed(h)
        BY <1>2, <1>3, <1>10 DEF PutSaves, Handlers
    <2> QED
        BY <1>10, <2>1, <2>2, <2>3 DEF PutSaves, TypeInv, TypeOK, bounds
<1>11. CASE PutExits(j)
    <2>1. svc' \in Service
        BY <1>1, <1>11, StoppedType DEF PutExits
    <2> QED
        BY <1>11, <2>1 DEF PutExits, WithoutHandlers, TypeInv, TypeOK, bounds
<1>12. CASE SetupFails(j)
    BY <1>12 DEF SetupFails, Ends, TypeInv, TypeOK, bounds
<1>13. CASE SaveFails(j)
    <2>1. \A h \in jobs' : h \in Job /\ WellFormed(h)
        BY <1>2, <1>3, <1>13 DEF SaveFails, Handlers
    <2> QED
        BY <1>13, <2>1 DEF SaveFails, TypeInv, TypeOK, bounds
<1> QED
    BY <1>4, <1>5, <1>6, <1>7, <1>8, <1>9, <1>10, <1>11, <1>12, <1>13 DEF JobStep

LEMMA NextTypeInv == TypeInv /\ [Next]_vars => TypeInv'
<1>1. ASSUME TypeInv, UNCHANGED vars PROVE TypeInv'
    BY <1>1 DEF vars, bounds, TypeInv, TypeOK
<1> QED
    BY <1>1, CommandType, RequestType, BootStepType, JobStepType, InputsType
       DEF Next

\* Every variable stays as declared.
THEOREM TypeCorrect == Spec => []TypeOK
<1>1. Init => TypeInv
    BY InitTypeInv
<1>2. TypeInv /\ [Next]_vars => TypeInv'
    BY NextTypeInv
<1>3. TypeInv => TypeOK
    BY DEF TypeInv
<1> QED
    BY <1>1, <1>2, <1>3, PTL DEF Spec

-----------------------------------------------------------------------------
(* Sessions and their secret                                               *)

\* A row that does not exist has nothing in it, and handlers need a service.
RowInv ==
    /\ ~row.exists => row.jwt = 0 /\ row.token = 0 /\ ~row.live
    /\ svc.at = "down" => svc.mode = "systemd"
    /\ \A j \in jobs : j.fn \in Handlers => svc.at = "up"

\* A secret is generated only while none is stored, and a secret in use that
\* is not in the row never will be.
SecretInv ==
    /\ svc.at = "update" => row.jwt = 0 /\ svc.secret # 0
    /\ svc.at = "insert" => svc.secret # 0 /\ row.jwt \in {0, svc.secret}
    /\ svc.at = "up" =>
          /\ svc.secret # 0
          /\ row.jwt = svc.secret \/ (row.jwt = 0 /\ svc.secret \in unsaved)
    /\ \A s \in sessions : s.secret \in unsaved \/ (s.secret = row.jwt /\ row.jwt # 0)

LEMMA InitSecretInv == Init => RowInv /\ SecretInv
<1> SUFFICES ASSUME Init PROVE RowInv /\ SecretInv
    OBVIOUS
<1>1. svc.at = "off" /\ svc.mode = "debug"
    BY DEF Init, Booting
<1>2. row.exists = FALSE /\ row.jwt = 0 /\ row.token = 0 /\ row.live = FALSE
    BY DEF Init, NewRow
<1> QED
    BY <1>1, <1>2 DEF Init, RowInv, SecretInv

\* What a step does to the row and the service, as far as it matters here.
KeepsRow == row'.exists = row.exists /\ row'.jwt = row.jwt /\ row'.token = row.token /\ row'.live = row.live
KeepsService == svc'.at = svc.at /\ svc'.mode = svc.mode /\ svc'.secret = svc.secret

\* Jobs go on, end, or are no longer alone.
JobsGoOn ==
    \A h \in jobs' : \E k \in jobs :
        h.fn = k.fn /\ h.tok = k.tok /\ (k.fn = "setup" /\ k.at # "save" => h.at # "save")

LEMMA GoingOn == ASSUME TypeInv, NEW j \in jobs, NEW at, Goes(j, at), MayGo(j, at)
                 PROVE  \A h \in jobs' : \/ h \in jobs
                                         \/ h.fn = j.fn /\ h.tok = j.tok /\ h.at = at
    BY Going

LEMMA StartingBeside ==
    ASSUME TypeInv, NEW f \in {"setup", "token", "info"} \cup Handlers,
           NEW at \in {"save", "show", "generate", "delete", "notify"},
           NEW cfg, cfg.email \in Emails \cup {NoEmail}, cfg.port \in Ports \cup {0},
           NEW tok \in Nat, Starts(f, at, cfg, tok), NEW h \in jobs'
    PROVE  \/ h.fn = f /\ h.at = at /\ h.tok = tok /\ (h.alone => jobs' = {h} /\ ~IsBooting)
           \/ \E k \in jobs : h.fn = k.fn /\ h.at = k.at /\ h.tok = k.tok /\ ~h.alone
<1>1. jobs' = {NotAlone(k) : k \in jobs} \cup {NewJob(f, at, cfg, tok)}
    BY Starting
<1>2. CASE h = NewJob(f, at, cfg, tok)
    BY <1>2, Starting
<1>3. CASE \E k \in jobs : h = NotAlone(k)
    BY <1>3, NotAloneType DEF TypeInv, TypeOK
<1> QED
    BY <1>1, <1>2, <1>3

LEMMA CommandSecretInv ==
    ASSUME TypeInv, RowInv, SecretInv,
           \/ \E flags \in Given : Setup(flags)
           \/ \E force \in BOOLEAN : Token(force)
           \/ Info
    PROVE  RowInv' /\ SecretInv'
<1>1. UNCHANGED <<row, sessions, unsaved>> /\ svc' = [svc EXCEPT !.alone = FALSE]
    BY DEF Setup, Token, Info
<1>2. KeepsService
    BY <1>1 DEF KeepsService, TypeInv, TypeOK, Service
<1>3. SecretInv'
    BY <1>1, <1>2 DEF SecretInv, KeepsService
<1>4. ASSUME NEW h \in jobs'
      PROVE  \/ \E k \in jobs : h.fn = k.fn /\ h.at = k.at
             \/ h.fn = "setup" /\ h.at = "save"
             \/ h.fn \in {"token", "info"}
    <2>1. CASE \E flags \in Given : Setup(flags)
        <3>1. PICK flags \in Given : Setup(flags)
            BY <2>1
        <3> DEFINE cfg == LoadGlobalSettings(flags, Parsed(flags))
        <3>2. cfg.email \in Emails \cup {NoEmail} /\ cfg.port \in Ports
            BY Loading, Parsing
        <3>3. Starts("setup", "save", cfg, 0)
            BY <3>1 DEF Setup
        <3> HIDE DEF cfg
        <3> QED
            BY <3>2, <3>3, StartingBeside
    <2>2. CASE Info \/ \E force \in BOOLEAN : Token(force)
        <3>1. NoFlags.email \in Emails \cup {NoEmail} /\ NoFlags.port \in Ports \cup {0}
            BY DEF NoFlags
        <3>2. PICK f \in {"token", "info"}, at \in {"generate", "show"} : Starts(f, at, NoFlags, 0)
            BY <2>2 DEF Info, Token
        <3> QED
            BY <3>1, <3>2, StartingBeside
    <2> QED
        BY <2>1, <2>2
<1>5. RowInv'
    BY <1>1, <1>2, <1>4 DEF RowInv, KeepsService, Handlers
<1> QED
    BY <1>3, <1>5

LEMMA RequestSecretInv ==
    ASSUME TypeInv, RowInv, SecretInv, Login \/ MagicLink \/ \E r \in Given : Put(r)
    PROVE  RowInv' /\ SecretInv'
<1>1. UNCHANGED <<row, unsaved>> /\ svc.at = "up"
    BY DEF Login, MagicLink, Put
<1>2. KeepsService
    <2>1. CASE Login \/ MagicLink
        BY <2>1 DEF Login, MagicLink, KeepsService
    <2>2. CASE \E r \in Given : Put(r)
        BY <2>2 DEF Put, KeepsService, TypeInv, TypeOK, Service
    <2> QED
        BY <2>1, <2>2
<1>3. \A s \in sessions' : s \in sessions \/ s.secret = svc.secret
    <2>1. CASE Login \/ \E r \in Given : Put(r)
        BY <2>1 DEF Login, Put
    <2>2. CASE MagicLink
        BY <2>2 DEF MagicLink
    <2> QED
        BY <2>1, <2>2
<1>4. SecretInv'
    BY <1>1, <1>2, <1>3 DEF SecretInv, KeepsService
<1>5. PICK f \in Handlers, at \in {"delete", "notify", "save"}, cfg \in Given, tok \in Nat :
        Starts(f, at, cfg, tok)
    BY NoFlagsType DEF Login, MagicLink, Put, TypeInv, TypeOK, Row, Handlers
<1>6. cfg.email \in Emails \cup {NoEmail} /\ cfg.port \in Ports \cup {0}
    BY DEF Given
<1>7. \A h \in jobs' : h.fn \in Handlers \/ \E k \in jobs : h.fn = k.fn /\ h.at = k.at
    <2> SUFFICES ASSUME NEW h \in jobs'
                 PROVE  h.fn \in Handlers \/ \E k \in jobs : h.fn = k.fn /\ h.at = k.at
        OBVIOUS
    <2>1. f \in {"setup", "token", "info"} \cup Handlers
        OBVIOUS
    <2>2. at \in {"save", "show", "generate", "delete", "notify"}
        OBVIOUS
    <2>3. Starts(f, at, cfg, tok)
        BY <1>5
    <2> HIDE <1>5
    <2>4. \/ h.fn = f
          \/ \E k \in jobs : h.fn = k.fn /\ h.at = k.at
        BY <1>6, <2>1, <2>2, <2>3, StartingBeside
    <2> QED
        BY <2>4
<1>8. RowInv'
    BY <1>1, <1>2, <1>7 DEF RowInv, KeepsService, Handlers
<1> QED
    BY <1>4, <1>8

LEMMA BootStepSecretInv ==
    ASSUME TypeInv, RowInv, SecretInv,
           BootStep \/ Kill \/ Expire \/ \E flags \in Given : Debug(flags)
    PROVE  RowInv' /\ SecretInv'
<1>1. row \in Row /\ svc \in Service
    BY DEF TypeInv, TypeOK
<1>2. ASSUME NEW mode \in {"systemd", "debug"}, NEW flags \in Given,
             svc' = Booting(mode, flags, jobs = {}), jobs' = {NotAlone(j) : j \in jobs},
             UNCHANGED <<row, sessions, unsaved>>, svc.at \in {"down", "off"},
             mode = "systemd" => svc.at = "down"
      PROVE  RowInv' /\ SecretInv'
    <2>1. svc'.at = "load" /\ svc'.mode = mode
        BY <1>2, BootingType
    <2>2. ASSUME NEW h \in jobs' PROVE \E j \in jobs : h.fn = j.fn /\ h.at = j.at
        <3>1. PICK j \in jobs : h = NotAlone(j)
            BY <1>2, <2>2
        <3> QED
            BY <3>1, NotAloneType DEF TypeInv, TypeOK
    <2> QED
        BY <1>2, <2>1, <2>2 DEF RowInv, SecretInv
<1>3. CASE SystemdRestarts
    BY <1>2, <1>3, NoFlagsType DEF SystemdRestarts, NotAlone
<1>4. ASSUME NEW flags \in Given, Debug(flags) PROVE RowInv' /\ SecretInv'
    BY <1>2, <1>4 DEF Debug, NotAlone
<1>5. CASE Load
    <2> DEFINE cfg == LoadGlobalSettings(svc.flags, Parsed(svc.flags))
               e == cfg.email
               p == cfg.port
               a == IF e = NoEmail THEN "token" ELSE "jwt"
    <2>2. svc' = [svc EXCEPT !.email = e, !.port = p, !.at = a] /\ a \in {"token", "jwt"}
        BY <1>5 DEF Load
    <2> HIDE DEF cfg, e, p, a
    <2>1. svc'.at \in {"token", "jwt"} /\ svc'.mode = svc.mode
        BY <1>1, <2>2 DEF Service
    <2> QED
        BY <1>5, <2>1 DEF Load, RowInv, SecretInv
<1>6. CASE BootToken
    <2>1. svc'.at \in {"jwt", "generate"} /\ svc'.mode = svc.mode
        BY <1>1, <1>6 DEF BootToken, Service
    <2> QED
        BY <1>6, <2>1 DEF BootToken, RowInv, SecretInv
<1>7. CASE BootGenerate
    <2>1. svc'.at = "jwt" /\ svc'.mode = svc.mode
        BY <1>1, <1>7 DEF BootGenerate, Service
    <2>2. row'.exists = row.exists /\ row'.jwt = row.jwt /\ (~row.exists => row' = row)
        BY <1>1, <1>7 DEF BootGenerate, GenerateSetupToken, Row
    <2> QED
        BY <1>7, <2>1, <2>2 DEF BootGenerate, RowInv, SecretInv
<1>8. CASE ReadSecret
    <2>1. CASE row.exists /\ row.jwt # 0
        <3>1. Listens(row.jwt) /\ row.jwt \in Nat
            BY <1>1, <1>8, <2>1 DEF ReadSecret, Row
        <3>2. /\ svc'.mode = svc.mode
              /\ \/ svc'.at = "up" /\ svc'.secret = row.jwt
                 \/ svc'.at = IF svc.mode = "systemd" THEN "down" ELSE "off"
            BY <3>1, Listening
        <3> QED
            BY <1>8, <2>1, <3>2 DEF ReadSecret, RowInv, SecretInv
    <2>2. CASE ~(row.exists /\ row.jwt # 0)
        <3> DEFINE n == secrets + 1
        <3>1. n # 0
            BY DEF TypeInv, TypeOK
        <3>2. svc' = [svc EXCEPT !.secret = n, !.at = "update"]
            BY <1>8, <2>2 DEF ReadSecret
        <3> HIDE DEF n
        <3>3. svc'.at = "update" /\ svc'.mode = svc.mode /\ svc'.secret # 0
            BY <1>1, <3>1, <3>2 DEF Service
        <3> QED
            BY <1>8, <2>2, <3>3 DEF ReadSecret, RowInv, SecretInv
    <2> QED
        BY <2>1, <2>2
<1>9. CASE UpdateSecret
    <2>1. svc'.at = "insert" /\ svc'.mode = svc.mode /\ svc'.secret = svc.secret
        BY <1>1, <1>9 DEF UpdateSecret, Service
    <2>2. /\ row'.exists = row.exists /\ row'.live = row.live /\ row'.token = row.token
          /\ row'.jwt = IF row.exists THEN svc.secret ELSE row.jwt
        BY <1>1, <1>9 DEF UpdateSecret, Row
    <2> QED
        BY <1>9, <2>1, <2>2 DEF UpdateSecret, RowInv, SecretInv
<1>10. CASE InsertSecret
    <2>1. svc.secret \in Nat
        BY <1>1 DEF Service
    <2>2. /\ svc'.mode = svc.mode
          /\ \/ svc'.at = "up" /\ svc'.secret = svc.secret
             \/ svc'.at = IF svc.mode = "systemd" THEN "down" ELSE "off"
        BY <1>10, <2>1, Listening DEF InsertSecret
    <2>3. row'.exists /\ (row.exists => row' = row) /\ (~row.exists => row'.jwt = svc.secret)
        BY <1>10 DEF InsertSecret, NewRow
    <2>4. unsaved \subseteq unsaved' /\ (row'.jwt # svc.secret => svc.secret \in unsaved')
        BY <1>10 DEF InsertSecret
    <2>5. svc.secret # 0 /\ row'.jwt \in {0, svc.secret} /\ UNCHANGED <<jobs, sessions>>
        BY <1>10, <2>3 DEF InsertSecret, SecretInv
    <2>6. \A s \in sessions : s.secret \in unsaved' \/ (s.secret = row'.jwt /\ row'.jwt # 0)
        BY <2>3, <2>4 DEF SecretInv, RowInv
    <2>7. SecretInv'
        BY <2>2, <2>4, <2>5, <2>6 DEF SecretInv
    <2>8. RowInv'
        <3>1. svc.at = "insert"
            BY <1>10 DEF InsertSecret
        <3>2. \A j \in jobs' : j.fn \notin Handlers
            BY <2>5, <3>1 DEF RowInv
        <3> QED
            BY <2>2, <2>3, <2>5, <3>2 DEF RowInv
    <2> QED
        BY <2>7, <2>8
<1>11. CASE Kill
    <2>1. svc'.at = (IF svc.mode = "systemd" THEN "down" ELSE "off") /\ svc'.mode = svc.mode
        BY <1>1, <1>11, StoppedType DEF Kill
    <2>2. jobs' = {j \in jobs : j.fn \notin Handlers} /\ UNCHANGED <<row, sessions, unsaved>>
        BY <1>11 DEF Kill, WithoutHandlers
    <2> QED
        BY <1>1, <2>1, <2>2 DEF RowInv, SecretInv, Service
<1>12. CASE Expire
    <2>1. /\ row'.exists = row.exists /\ row'.jwt = row.jwt /\ row'.token = row.token
          /\ row'.live = FALSE
        BY <1>1, <1>12 DEF Expire, Row
    <2> QED
        BY <1>12, <2>1 DEF Expire, RowInv, SecretInv
<1> QED
    BY <1>3, <1>4, <1>5, <1>6, <1>7, <1>8, <1>9, <1>10, <1>11, <1>12 DEF BootStep

LEMMA JobStepSecretInv ==
    ASSUME TypeInv, RowInv, SecretInv, NEW j \in jobs, JobStep(j)
    PROVE  RowInv' /\ SecretInv'
<1>1. row \in Row /\ svc \in Service /\ j \in Job /\ WellFormed(j)
    BY DEF TypeInv, TypeOK
<1>2. ASSUME NEW at, Goes(j, at), MayGo(j, at)
      PROVE  \A h \in jobs' : h \in jobs \/ (h.fn = j.fn /\ h.at = at)
    BY <1>2, GoingOn
<1>3. /\ j.fn \in Handlers => MayGo(j, "notify") /\ MayGo(j, "exit")
      /\ j.fn = "setup" => MayGo(j, "restart")
      /\ j.fn \notin Handlers => MayGo(j, "generate")
    BY DEF MayGo
<1>4. ASSUME NEW cfg, SaveGlobalSettings(cfg)
      PROVE  /\ row'.exists = TRUE /\ row'.jwt = row.jwt /\ row'.token = row.token
             /\ row'.live = row.live
    <2> DEFINE e == cfg.email
               p == cfg.port
    <2>1. row' = [row EXCEPT !.exists = TRUE, !.email = e, !.port = p]
        BY <1>4 DEF SaveGlobalSettings
    <2> HIDE DEF e, p
    <2>2. row'.exists = TRUE /\ row'.jwt = row.jwt /\ row'.token = row.token
        BY <1>1, <2>1 DEF Row
    <2>3. row'.live = row.live
        BY <1>1, <2>1 DEF Row
    <2> QED
        BY <2>2, <2>3
\* Setup is where the row may be created, with no secret.
<1>5. CASE SetupSaves(j)
    <2>1. /\ row'.exists = TRUE /\ row'.jwt = row.jwt
          /\ UNCHANGED <<svc, sessions, unsaved>> /\ j.fn = "setup"
        BY <1>4, <1>5 DEF SetupSaves
    <2>2. \A h \in jobs' : h \in jobs \/ h.fn = "setup"
        BY <1>2, <1>3, <1>5 DEF SetupSaves
    <2>4. RowInv'
        BY <2>1, <2>2 DEF RowInv, Handlers
    <2>5. SecretInv'
        BY <2>1 DEF SecretInv
    <2> QED
        BY <2>4, <2>5
<1>6. CASE SetupRestarts(j)
    <2> DEFINE w == [j EXCEPT !.at = "show", !.alone = FALSE]
    <2>1. w.fn = "setup" /\ j.fn = "setup"
        BY <1>1, <1>6 DEF Job, SetupRestarts, WellFormed, RowInv
    <2>2. \A h \in jobs' : h = w \/ \E k \in jobs : h = NotAlone(k) /\ k.fn \notin Handlers
        BY <1>6 DEF SetupRestarts, NotAlone, WithoutHandlers
    <2> HIDE DEF w
    <2>3. \A h \in jobs' : h.fn \notin Handlers
        BY <2>1, <2>2, NotAloneType DEF TypeInv, TypeOK, Handlers
    <2>4. svc'.at = "load" /\ svc'.mode = "systemd" /\ UNCHANGED <<row, sessions, unsaved>>
        BY <1>6, BootingType, NoFlagsType DEF SetupRestarts
    <2> QED
        BY <2>1, <2>3, <2>4 DEF RowInv, SecretInv
<1>7. CASE Show(j)
    <2>1. \A h \in jobs' : h \in jobs \/ (h.fn = j.fn /\ j.at # "save")
        BY <1>1, <1>2, <1>3, <1>7 DEF Show, Ends, WellFormed
    <2>2. UNCHANGED <<row, svc, sessions, unsaved>>
        BY <1>7 DEF Show
    <2> QED
        BY <2>1, <2>2 DEF RowInv, SecretInv
<1>8. CASE Generate(j)
    <2>1. row'.exists = row.exists /\ row'.jwt = row.jwt /\ (~row.exists => row' = row)
        BY <1>1, <1>8 DEF Generate, GenerateSetupToken, Row
    <2> QED
        BY <1>8, <2>1 DEF Generate, Ends, RowInv, SecretInv
<1>9. CASE Notifies(j)
    <2>1. \A h \in jobs' : h \in jobs \/ h.fn = j.fn
        BY <1>1, <1>2, <1>3, <1>9 DEF Notifies, Ends, WellFormed
    <2>2. j.fn \in Handlers /\ UNCHANGED <<row, sessions, unsaved>>
        BY <1>1, <1>9 DEF Notifies, WellFormed
    <2>3. KeepsService
        BY <1>1, <1>9 DEF Notifies, KeepsService, Service
    <2> QED
        BY <2>1, <2>2, <2>3 DEF KeepsService, RowInv, SecretInv, Handlers
<1>10. CASE LoginDeletes(j)
    <2>1. j.fn \in Handlers /\ UNCHANGED <<svc, unsaved>>
        BY <1>1, <1>10 DEF LoginDeletes, WellFormed
    <2>2. \A h \in jobs' : h \in jobs \/ h.fn = j.fn
        BY <1>2, <1>3, <1>10, <2>1 DEF LoginDeletes
    <2>3. row'.exists = row.exists /\ row'.jwt = row.jwt /\ row'.token = 0 /\ row'.live = FALSE
        BY <1>1, <1>10 DEF LoginDeletes, Row
    <2>4. \A s \in sessions' : s \in sessions \/ s.secret = svc.secret
        BY <1>10 DEF LoginDeletes, Session
    <2>5. svc.at = "up"
        BY <2>1 DEF RowInv
    <2>6. RowInv'
        BY <2>1, <2>2, <2>3, <2>5 DEF RowInv, Handlers
    <2>7. SecretInv'
        BY <2>1, <2>3, <2>4, <2>5 DEF SecretInv
    <2> QED
        BY <2>6, <2>7
<1>11. CASE PutSaves(j)
    <2>1. /\ row'.exists = TRUE /\ row'.jwt = row.jwt
          /\ UNCHANGED <<svc, sessions, unsaved>> /\ j.fn = "put"
        BY <1>4, <1>11 DEF PutSaves
    <2>2. \A h \in jobs' : h \in jobs \/ h.fn = "put"
        BY <1>2, <1>3, <1>11 DEF PutSaves, Handlers
    <2>3. svc.at = "up"
        BY <2>1 DEF RowInv, Handlers
    <2>4. RowInv'
        BY <2>1, <2>2, <2>3 DEF RowInv, Handlers
    <2>5. SecretInv'
        BY <2>1, <2>3 DEF SecretInv
    <2> QED
        BY <2>4, <2>5
<1>12. CASE PutExits(j)
    <2>1. svc'.at = (IF svc.mode = "systemd" THEN "down" ELSE "off") /\ svc'.mode = svc.mode
        BY <1>1, <1>12, StoppedType DEF PutExits
    <2>2. jobs' = {k \in jobs : k.fn \notin Handlers} /\ UNCHANGED <<row, sessions, unsaved>>
        BY <1>12 DEF PutExits, WithoutHandlers
    <2> QED
        BY <1>1, <2>1, <2>2 DEF RowInv, SecretInv, Service
<1>13. CASE SetupFails(j)
    BY <1>13 DEF SetupFails, Ends, RowInv, SecretInv
<1>14. CASE SaveFails(j)
    <2>1. UNCHANGED <<row, svc, sessions, unsaved>>
        BY <1>14 DEF SaveFails
    <2>2. \A h \in jobs' : h \in jobs \/ h.fn = j.fn
        BY <1>2, <1>3, <1>14 DEF SaveFails, Handlers
    <2> QED
        BY <2>1, <2>2 DEF RowInv, SecretInv, Handlers
<1> QED
    BY <1>5, <1>6, <1>7, <1>8, <1>9, <1>10, <1>11, <1>12, <1>13, <1>14 DEF JobStep

LEMMA NextSecretInv == TypeInv /\ RowInv /\ SecretInv /\ [Next]_vars => RowInv' /\ SecretInv'
<1>1. ASSUME RowInv, SecretInv, UNCHANGED vars PROVE RowInv' /\ SecretInv'
    BY <1>1 DEF vars, RowInv, SecretInv
<1> QED
    BY <1>1, CommandSecretInv, RequestSecretInv, BootStepSecretInv, JobStepSecretInv, InputsType
       DEF Next

\* A session outlives every restart, save and reinstallation of the gateway,
\* unless its secret was never stored: GetJWTSecret makes a secret only where
\* none is stored.
THEOREM SessionsAreKept == Spec => []SessionsSurvive
<1>1. Init => TypeInv /\ RowInv /\ SecretInv
    BY InitTypeInv, InitSecretInv
<1>2. TypeInv /\ RowInv /\ SecretInv /\ [Next]_vars => (TypeInv /\ RowInv /\ SecretInv)'
    BY NextTypeInv, NextSecretInv
<1>3. SecretInv => SessionsSurvive
    BY DEF SecretInv, SessionsSurvive
<1> QED
    BY <1>1, <1>2, <1>3, PTL DEF Spec

-----------------------------------------------------------------------------
(* Tokens                                                                  *)

\* Tokens are numbered.
TokenBound ==
    /\ row.token <= tokens
    /\ \A j \in jobs : j.tok <= tokens
    /\ \A s \in sessions : s.tok <= tokens

\* Who is alone is the only one to read and write the row.
AloneInv ==
    /\ \A j \in jobs : j.alone => jobs = {j} /\ ~IsBooting
    /\ IsBooting /\ svc.alone => jobs = {}
    /\ \A j \in jobs : j.at = "delete" /\ j.alone => row.token = j.tok
    /\ \A j \in jobs : j.at = "generate" /\ j.fn # "token" /\ j.alone => ~Active
    /\ svc.at = "generate" /\ svc.alone => ~Active

\* The token of such a login is gone for good.
UsedInv ==
    /\ \A j \in jobs : j.at = "delete" => j.tok # 0
    /\ \A s \in sessions : s.alone /\ s.tok # 0 =>
          row.token # s.tok /\ \A j \in jobs : j.at = "delete" => j.tok # s.tok
    /\ TokenIsUsedOnce

TokenInv == TokenBound /\ AloneInv /\ UsedInv

LEMMA InitTokenInv == Init => TokenInv
<1> SUFFICES ASSUME Init PROVE TokenInv
    OBVIOUS
<1>1. svc.at = "off" /\ row.token = 0 /\ jobs = {} /\ sessions = {} /\ tokens = 0
    BY DEF Init, Booting, NewRow
<1> QED
    BY <1>1 DEF TokenInv, TokenBound, AloneInv, UsedInv, TokenIsUsedOnce, IsBooting

LEMMA CommandTokenInv ==
    ASSUME TypeInv, TokenInv,
           \/ \E flags \in Given : Setup(flags)
           \/ \E force \in BOOLEAN : Token(force)
           \/ Info
    PROVE  TokenInv'
<1>1. /\ UNCHANGED <<row, sessions, tokens>> /\ svc' = [svc EXCEPT !.alone = FALSE]
    BY DEF Setup, Token, Info
<1>2. svc'.at = svc.at /\ svc'.alone = FALSE
    BY <1>1 DEF TypeInv, TypeOK, Service
<1>3. PICK f \in {"setup", "token", "info"}, at \in {"save", "generate", "show"},
           cfg \in [email : Emails \cup {NoEmail}, port : Ports \cup {0}] :
        Starts(f, at, cfg, 0) /\ (at = "generate" => f = "token")
    <2>1. ASSUME NEW flags \in Given, Setup(flags)
          PROVE  \E cfg \in [email : Emails \cup {NoEmail}, port : Ports] : Starts("setup", "save", cfg, 0)
        <3> DEFINE cfg == LoadGlobalSettings(flags, Parsed(flags))
        <3>1. cfg.email \in Emails \cup {NoEmail} /\ cfg.port \in Ports
            BY Loading, Parsing
        <3>2. cfg \in [email : Emails \cup {NoEmail}, port : Ports]
            BY <3>1 DEF LoadGlobalSettings
        <3> QED
            BY <2>1, <3>2 DEF Setup
    <2>2. NoFlags \in [email : Emails \cup {NoEmail}, port : Ports \cup {0}]
        BY DEF NoFlags
    <2> QED
        BY <2>1, <2>2 DEF Token, Info
<1>4. ASSUME NEW h \in jobs'
      PROVE  \/ /\ h.fn = f /\ h.at = at /\ h.tok = 0
                /\ h.alone => jobs' = {h} /\ ~IsBooting
             \/ \E k \in jobs : h.fn = k.fn /\ h.at = k.at /\ h.tok = k.tok /\ ~h.alone
    BY <1>3, StartingBeside
<1>5. 0 <= tokens
    BY DEF TypeInv, TypeOK
<1>6. TokenBound'
    BY <1>1, <1>4, <1>5 DEF TokenInv, TokenBound
<1>7. AloneInv'
    BY <1>1, <1>2, <1>3, <1>4 DEF TokenInv, AloneInv, IsBooting
<1>8. UsedInv'
    BY <1>1, <1>3, <1>4 DEF TokenInv, UsedInv, TokenIsUsedOnce
<1> QED
    BY <1>6, <1>7, <1>8 DEF TokenInv

LEMMA RequestTokenInv ==
    ASSUME TypeInv, TokenInv, Login \/ MagicLink \/ \E r \in Given : Put(r)
    PROVE  TokenInv'
<1>1. UNCHANGED <<row, tokens>> /\ svc.at = "up"
    BY DEF Login, MagicLink, Put
<1>2. svc'.at = "up"
    <2>1. CASE Login \/ MagicLink
        BY <1>1, <2>1 DEF Login, MagicLink
    <2>2. CASE \E r \in Given : Put(r)
        BY <1>1, <2>2 DEF Put, TypeInv, TypeOK, Service
    <2> QED
        BY <2>1, <2>2
<1>3. \A s \in sessions' : s \in sessions \/ s.tok = 0
    <2>1. CASE Login \/ \E r \in Given : Put(r)
        BY <2>1 DEF Login, Put
    <2>2. CASE MagicLink
        BY <2>2 DEF MagicLink
    <2> QED
        BY <2>1, <2>2
<1>4. PICK f \in Handlers, at \in {"delete", "notify", "save"}, cfg \in Given, tok \in Nat :
        Starts(f, at, cfg, tok) /\ tok \in {0, row.token} /\ (at = "delete" => tok = row.token /\ tok # 0)
    BY NoFlagsType DEF Login, MagicLink, Put, TypeInv, TypeOK, Row, Handlers, Active
<1>5. cfg.email \in Emails \cup {NoEmail} /\ cfg.port \in Ports \cup {0}
    BY DEF Given
<1>6. ASSUME NEW h \in jobs'
      PROVE  \/ h.at = at /\ h.tok = tok /\ (h.alone => jobs' = {h})
             \/ \E k \in jobs : h.fn = k.fn /\ h.at = k.at /\ h.tok = k.tok /\ ~h.alone
    <2>1. f \in {"setup", "token", "info"} \cup Handlers /\ Starts(f, at, cfg, tok)
          /\ at \in {"save", "show", "generate", "delete", "notify"}
        BY <1>4
    <2> HIDE <1>4
    <2> QED
        BY <1>5, <1>6, <2>1, StartingBeside
<1>7. row.token \in Nat /\ tokens \in Nat
    BY DEF TypeInv, TypeOK, Row
<1>8. TokenBound'
    BY <1>1, <1>3, <1>4, <1>6, <1>7 DEF TokenInv, TokenBound
<1>9. AloneInv'
    BY <1>1, <1>2, <1>4, <1>6 DEF TokenInv, AloneInv, IsBooting
<1>10. UsedInv'
    BY <1>1, <1>3, <1>4, <1>6 DEF TokenInv, UsedInv, TokenIsUsedOnce
<1> QED
    BY <1>8, <1>9, <1>10 DEF TokenInv

\* A token that is generated is a new one.
LEMMA NewToken ==
    ASSUME TypeInv, GenerateSetupToken
    PROVE  /\ row'.token \in {row.token, tokens'} /\ tokens' = tokens + 1
           /\ ~row.exists => row' = row
<1> DEFINE n == tokens + 1
<1>1. /\ tokens' = n
      /\ row' = IF row.exists THEN [row EXCEPT !.token = n, !.live = TRUE] ELSE row
    BY DEF GenerateSetupToken
<1> HIDE DEF n
<1>2. row'.token \in {row.token, n} /\ (~row.exists => row' = row)
    BY <1>1 DEF TypeInv, TypeOK, Row
<1> QED
    BY <1>1, <1>2 DEF n

LEMMA NewTokenIsUnused ==
    ASSUME TypeInv, TokenInv, GenerateSetupToken, jobs' \subseteq jobs, sessions' = sessions
    PROVE  TokenBound' /\ UsedInv'
<1>1. /\ tokens \in Nat /\ tokens' = tokens + 1 /\ row'.token \in {row.token, tokens'}
      /\ row.token \in Nat
    BY NewToken DEF TypeInv, TypeOK, Row
<1>2. \A j \in jobs : j.tok \in Nat /\ j.tok <= tokens
    BY DEF TypeInv, TypeOK, Job, TokenInv, TokenBound
<1>3. \A s \in sessions : s.tok \in Nat /\ s.tok <= tokens
    BY DEF TypeInv, TypeOK, TokenInv, TokenBound
<1>4. TokenBound'
    BY <1>1, <1>2, <1>3 DEF TokenInv, TokenBound
<1>5. \A s \in sessions : row.token # s.tok => row'.token # s.tok
    BY <1>1, <1>3
<1>6. UsedInv'
    BY <1>5 DEF TokenInv, UsedInv, TokenIsUsedOnce
<1> QED
    BY <1>4, <1>6

\* A step that leaves tokens alone, and starts nothing.
LEMMA SameTokens ==
    ASSUME TokenInv, row'.token = row.token, UNCHANGED <<tokens, sessions>>,
           \A h \in jobs' : \E k \in jobs : h.tok = k.tok /\ (h.at = "delete" => k.at = "delete")
    PROVE  TokenBound' /\ UsedInv'
    BY DEF TokenInv, TokenBound, UsedInv, TokenIsUsedOnce

LEMMA BootStepTokenInv ==
    ASSUME TypeInv, RowInv, TokenInv,
           BootStep \/ Kill \/ Expire \/ \E flags \in Given : Debug(flags)
    PROVE  TokenInv'
<1>1. row \in Row /\ svc \in Service
    BY DEF TypeInv, TypeOK
\* A boot begins.
<1>2. ASSUME NEW mode \in {"systemd", "debug"}, NEW flags \in Given,
             svc' = Booting(mode, flags, jobs = {}), jobs' = {NotAlone(j) : j \in jobs},
             UNCHANGED <<row, sessions, tokens>>
      PROVE  TokenInv'
    <2>1. svc'.at = "load" /\ svc'.alone = (jobs = {})
        BY <1>2, BootingType
    <2>2. ASSUME NEW h \in jobs' PROVE ~h.alone /\ \E j \in jobs : h.tok = j.tok /\ h.at = j.at
        <3>1. PICK j \in jobs : h = NotAlone(j)
            BY <1>2, <2>2
        <3> QED
            BY <3>1, NotAloneType DEF TypeInv, TypeOK
    <2>3. TokenBound' /\ UsedInv'
        BY <1>2, <2>2, SameTokens
    <2>4. AloneInv'
        BY <1>2, <2>1, <2>2 DEF AloneInv, IsBooting
    <2> QED
        BY <2>3, <2>4 DEF TokenInv
<1>3. CASE SystemdRestarts
    BY <1>2, <1>3, NoFlagsType DEF SystemdRestarts, NotAlone, bounds
<1>4. ASSUME NEW flags \in Given, Debug(flags) PROVE TokenInv'
    BY <1>2, <1>4 DEF Debug, NotAlone, bounds
\* A boot goes on; nobody is alone meanwhile.
<1>5. ASSUME IsBooting, svc'.alone => svc.alone, jobs' = jobs,
             svc'.at = "generate" => row' = row /\ ~Active
      PROVE  AloneInv'
    BY <1>5 DEF TokenInv, AloneInv, IsBooting, Active
<1>6. ASSUME row'.token = row.token, UNCHANGED <<tokens, sessions, jobs>>
      PROVE  TokenBound' /\ UsedInv'
    BY <1>6, SameTokens
<1>7. CASE Load
    <2> DEFINE cfg == LoadGlobalSettings(svc.flags, Parsed(svc.flags))
               e == cfg.email
               p == cfg.port
               a == IF e = NoEmail THEN "token" ELSE "jwt"
    <2>1. svc' = [svc EXCEPT !.email = e, !.port = p, !.at = a] /\ a \in {"token", "jwt"}
        BY <1>7 DEF Load
    <2> HIDE DEF cfg, e, p, a
    <2>2. svc'.at \in {"token", "jwt"} /\ svc'.alone = svc.alone
        BY <1>1, <2>1 DEF Service
    <2> QED
        BY <1>5, <1>6, <1>7, <2>2 DEF Load, TokenInv, IsBooting, bounds
<1>8. CASE BootToken
    <2>1. svc'.at \in {"jwt", "generate"} /\ svc'.alone = svc.alone /\ (Active => svc'.at = "jwt")
        BY <1>1, <1>8 DEF BootToken, Service
    <2> QED
        BY <1>5, <1>6, <1>8, <2>1 DEF BootToken, TokenInv, IsBooting, bounds
<1>9. CASE BootGenerate
    <2>1. svc'.at = "jwt" /\ svc'.alone = svc.alone
        BY <1>1, <1>9 DEF BootGenerate, Service
    <2>2. TokenBound' /\ UsedInv'
        BY <1>9, NewTokenIsUnused DEF BootGenerate
    <2> QED
        BY <1>5, <1>9, <2>1, <2>2 DEF BootGenerate, TokenInv, IsBooting
<1>10. CASE ReadSecret
    <2>1. CASE Listens(row.jwt)
        <3>1. ~svc'.alone /\ svc'.at # "generate"
            BY <1>1, <2>1, Listening DEF Row
        <3> QED
            BY <1>5, <1>6, <1>10, <3>1 DEF ReadSecret, TokenInv, IsBooting
    <2>2. CASE svc' = [svc EXCEPT !.secret = secrets + 1, !.at = "update"]
        <3> DEFINE n == secrets + 1
        <3>1. svc' = [svc EXCEPT !.secret = n, !.at = "update"]
            BY <2>2
        <3> HIDE DEF n
        <3>2. svc'.alone = svc.alone /\ svc'.at = "update"
            BY <1>1, <3>1 DEF Service
        <3> QED
            BY <1>5, <1>6, <1>10, <3>2 DEF ReadSecret, TokenInv, IsBooting
    <2> QED
        BY <1>10, <2>1, <2>2 DEF ReadSecret
<1>11. CASE UpdateSecret
    <2>1. svc'.at = "insert" /\ svc'.alone = svc.alone
        BY <1>1, <1>11 DEF UpdateSecret, Service
    <2>2. row'.token = row.token
        BY <1>1, <1>11 DEF UpdateSecret, Row
    <2> QED
        BY <1>5, <1>6, <1>11, <2>1, <2>2 DEF UpdateSecret, TokenInv, IsBooting, bounds
<1>12. CASE InsertSecret
    <2>1. svc'.at # "generate" /\ ~svc'.alone
        <3>1. svc.secret \in Nat
            BY <1>1 DEF Service
        <3> QED
            BY <1>12, <3>1, Listening DEF InsertSecret
    <2>2. row'.token = row.token
        BY <1>1, <1>12 DEF InsertSecret, NewRow, RowInv
    <2> QED
        BY <1>5, <1>6, <1>12, <2>1, <2>2 DEF InsertSecret, TokenInv, IsBooting, bounds
<1>13. CASE Kill
    <2>1. svc'.at \in {"down", "off"}
        BY <1>1, <1>13, StoppedType DEF Kill
    <2>2. jobs' \subseteq jobs /\ UNCHANGED <<row, sessions, tokens>>
        BY <1>13 DEF Kill, WithoutHandlers
    <2>3. TokenBound' /\ UsedInv'
        BY <2>2, SameTokens
    <2>4. AloneInv'
        BY <2>1, <2>2 DEF TokenInv, AloneInv, IsBooting, Active
    <2> QED
        BY <2>3, <2>4 DEF TokenInv
<1>14. CASE Expire
    <2>1. row'.token = row.token /\ row'.live = FALSE
        BY <1>1, <1>14 DEF Expire, Row
    <2>2. AloneInv'
        BY <1>14, <2>1 DEF Expire, TokenInv, AloneInv, IsBooting, Active
    <2> QED
        BY <1>6, <1>14, <2>1, <2>2 DEF Expire, TokenInv, bounds
<1> QED
    BY <1>3, <1>4, <1>7, <1>8, <1>9, <1>10, <1>11, <1>12, <1>13, <1>14 DEF BootStep

LEMMA JobStepTokenInv ==
    ASSUME TypeInv, RowInv, TokenInv, NEW j \in jobs, JobStep(j)
    PROVE  TokenInv'
<1>1. row \in Row /\ svc \in Service /\ j \in Job /\ WellFormed(j)
    BY DEF TypeInv, TypeOK
<1>2. /\ j.fn \in Handlers => MayGo(j, "notify") /\ MayGo(j, "exit")
      /\ j.fn = "setup" => MayGo(j, "restart")
      /\ j.fn \notin Handlers => MayGo(j, "generate")
    BY DEF MayGo
\* While a job moves, at most this job is alone, and the service is not.
<1>3. ASSUME svc'.at = svc.at, svc'.alone = svc.alone,
             \/ jobs' = jobs \ {j}
             \/ \E w \in Job : /\ jobs' = (jobs \ {j}) \cup {w} /\ w.alone = j.alone
                               /\ w.at # "delete"
                               /\ w.at = "generate" /\ w.fn # "token" => ~Active /\ row' = row
      PROVE  AloneInv'
    <2>1. \A h \in jobs : h.alone => h = j
        BY DEF TokenInv, AloneInv
    <2>2. ~(IsBooting /\ svc.alone) /\ ~(svc.at = "generate" /\ svc.alone)
        BY DEF TokenInv, AloneInv, IsBooting
    <2>3. j.alone => jobs = {j} /\ ~IsBooting
        BY DEF TokenInv, AloneInv
    <2> QED
        <3>1. CASE jobs' = jobs \ {j}
            BY <1>3, <2>1, <2>2, <3>1 DEF AloneInv, IsBooting
        <3>2. CASE jobs' # jobs \ {j}
            <4>1. PICK w \in Job : /\ jobs' = (jobs \ {j}) \cup {w} /\ w.alone = j.alone
                                   /\ w.at # "delete"
                                   /\ w.at = "generate" /\ w.fn # "token" => ~Active /\ row' = row
                BY <1>3, <3>2
            <4>2. ASSUME NEW h \in jobs', h.alone PROVE h = w /\ jobs' = {w} /\ ~IsBooting
                <5>1. jobs' = (jobs \ {j}) \cup {w}
                    BY <4>1
                <5>2. w.alone <=> j.alone
                    BY <4>1
                <5>3. h = w
                    BY <2>1, <4>2, <5>1
                <5>4. jobs = {j} /\ ~IsBooting
                    BY <2>3, <4>2, <5>2, <5>3
                <5>5. jobs' = {w}
                    BY <5>1, <5>4
                <5> QED
                    BY <5>3, <5>4, <5>5
            <4>3. ~IsBooting => ~IsBooting'
                BY <1>3 DEF IsBooting
            <4>4. ~Active /\ row' = row => ~Active'
                BY DEF Active
            <4>5. ~(IsBooting' /\ svc'.alone) /\ ~(svc'.at = "generate" /\ svc'.alone)
                BY <1>3, <2>2 DEF IsBooting
            <4> QED
                BY <4>1, <4>2, <4>3, <4>4, <4>5 DEF AloneInv
        <3> QED
            BY <3>1, <3>2
<1>4. ASSUME NEW at \in {"notify", "exit", "restart", "generate"}, Goes(j, at), MayGo(j, at),
             at = "generate" => ~Active /\ row' = row
      PROVE  /\ \E w \in Job : /\ jobs' = (jobs \ {j}) \cup {w} /\ w.alone = j.alone
                               /\ w.at # "delete"
                               /\ w.at = "generate" /\ w.fn # "token" => ~Active /\ row' = row
             /\ \A h \in jobs' : \E k \in jobs : h.tok = k.tok /\ (h.at = "delete" => k.at = "delete")
    <2>1. PICK w \in Job : /\ jobs' = (jobs \ {j}) \cup {w} /\ w.alone = j.alone
                           /\ w.at = at /\ w.tok = j.tok
        BY <1>4, Going
    <2> QED
        BY <1>4, <2>1
<1>5. ASSUME NEW cfg, SaveGlobalSettings(cfg) PROVE row'.token = row.token
    <2> DEFINE e == cfg.email
               p == cfg.port
    <2>1. row' = [row EXCEPT !.exists = TRUE, !.email = e, !.port = p]
        BY <1>5 DEF SaveGlobalSettings
    <2> HIDE DEF e, p
    <2> QED
        BY <1>1, <2>1 DEF Row
<1>6. CASE SetupSaves(j)
    <2>1. /\ row'.token = row.token /\ UNCHANGED <<svc, sessions, tokens>>
          /\ Goes(j, "restart") /\ MayGo(j, "restart")
        BY <1>2, <1>5, <1>6 DEF SetupSaves, bounds
    <2> QED
        BY <1>3, <1>4, <2>1, SameTokens DEF TokenInv
<1>7. CASE SetupRestarts(j)
    <2> DEFINE w == [j EXCEPT !.at = "show", !.alone = FALSE]
    <2>1. w.at = "show" /\ w.alone = FALSE /\ w.tok = j.tok
        BY <1>1 DEF Job
    <2>2. \A h \in jobs' : h = w \/ \E k \in jobs : h = NotAlone(k)
        BY <1>7 DEF SetupRestarts, NotAlone, WithoutHandlers
    <2> HIDE DEF w
    <2>3. ASSUME NEW h \in jobs'
          PROVE  ~h.alone /\ \E k \in jobs : h.tok = k.tok /\ (h.at = "delete" => k.at = "delete")
        <3>1. CASE h = w
            BY <2>1, <3>1
        <3>2. CASE h # w
            <4>1. PICK k \in jobs : h = NotAlone(k)
                BY <2>2, <3>2
            <4> QED
                BY <4>1, NotAloneType DEF TypeInv, TypeOK
        <3> QED
            BY <3>1, <3>2
    <2>4. svc'.at = "load" /\ ~svc'.alone /\ UNCHANGED <<row, sessions, tokens>>
        BY <1>7, BootingType, NoFlagsType DEF SetupRestarts, bounds
    <2>5. AloneInv'
        BY <2>3, <2>4 DEF AloneInv
    <2> QED
        BY <2>3, <2>4, <2>5, SameTokens DEF TokenInv
<1>8. CASE Show(j)
    <2>1. UNCHANGED <<row, svc, sessions, tokens>>
        BY <1>8 DEF Show, bounds
    <2>2. CASE Active
        <3>1. jobs' = jobs \ {j}
            BY <1>8, <2>2 DEF Show, Ends
        <3> QED
            BY <1>3, <2>1, <3>1, SameTokens DEF TokenInv
    <2>3. CASE ~Active
        <3>1. Goes(j, "generate") /\ MayGo(j, "generate")
            BY <1>1, <1>2, <1>8, <2>3 DEF Show, WellFormed
        <3> QED
            BY <1>3, <1>4, <2>1, <2>3, <3>1, SameTokens DEF TokenInv
    <2> QED
        BY <2>2, <2>3
<1>9. CASE Generate(j)
    <2>1. jobs' = jobs \ {j} /\ UNCHANGED <<svc, sessions>> /\ GenerateSetupToken
        BY <1>9 DEF Generate, Ends
    <2>2. TokenBound' /\ UsedInv'
        BY <2>1, NewTokenIsUnused
    <2> QED
        BY <1>3, <2>1, <2>2 DEF TokenInv
<1>10. CASE Notifies(j)
    <2>1. svc'.at = svc.at /\ svc'.alone = svc.alone
        BY <1>1, <1>10 DEF Notifies, Service
    <2>2. UNCHANGED <<row, sessions, tokens>>
        BY <1>10 DEF Notifies, bounds
    <2>3. CASE j.fn = "put"
        <3>1. Goes(j, "exit") /\ MayGo(j, "exit")
            BY <1>2, <1>10, <2>3 DEF Notifies, Handlers
        <3> QED
            BY <1>3, <1>4, <2>1, <2>2, <3>1, SameTokens DEF TokenInv
    <2>4. CASE j.fn # "put"
        <3>1. jobs' = jobs \ {j}
            BY <1>10, <2>4 DEF Notifies, Ends
        <3> QED
            BY <1>3, <2>1, <2>2, <3>1, SameTokens DEF TokenInv
    <2> QED
        BY <2>3, <2>4
\* The token leaves the row and opens a session; no other login has it, if
\* this one is alone.
<1>11. CASE LoginDeletes(j)
    <2>1. /\ Goes(j, "notify") /\ MayGo(j, "notify") /\ UNCHANGED <<svc, tokens>>
          /\ j.at = "delete" /\ sessions' = sessions \cup {Session(j)}
        BY <1>1, <1>2, <1>11 DEF LoginDeletes, WellFormed, bounds
    <2>2. row'.token = 0 /\ 0 <= tokens
        BY <1>1, <1>11 DEF LoginDeletes, Row, TypeInv, TypeOK
    <2>3. Session(j).tok = j.tok /\ Session(j).alone = j.alone
        BY DEF Session
    <2>4. /\ \E w \in Job : jobs' = (jobs \ {j}) \cup {w} /\ w.at # "delete"
          /\ \A h \in jobs' : \E k \in jobs : h.tok = k.tok /\ (h.at = "delete" => k.at = "delete")
        BY <1>4, <2>1
    <2>5. AloneInv'
        BY <1>3, <1>4, <2>1
    <2>6. TokenBound'
        BY <2>1, <2>2, <2>3, <2>4 DEF TokenInv, TokenBound
    <2>7. j.alone => \A h \in jobs' : h.at # "delete"
        BY <2>4 DEF TokenInv, AloneInv
    <2>8. ASSUME NEW s \in sessions, s.alone, s.tok # 0 PROVE s.tok # j.tok
        BY <2>1, <2>8 DEF TokenInv, UsedInv
    <2>9. UsedInv'
        <3>1. \A h \in jobs' : h.at = "delete" => h.tok # 0
            BY <2>4 DEF TokenInv, UsedInv
        <3>2. ASSUME NEW s \in sessions', s.alone, s.tok # 0
              PROVE  row'.token # s.tok /\ \A h \in jobs' : h.at = "delete" => h.tok # s.tok
            <4>1. CASE s \in sessions
                BY <2>2, <2>4, <3>2, <4>1 DEF TokenInv, UsedInv
            <4>2. CASE s = Session(j)
                BY <2>2, <2>3, <2>7, <3>2, <4>2
            <4> QED
                BY <2>1, <4>1, <4>2
        <3>3. TokenIsUsedOnce'
            BY <2>1, <2>3, <2>8 DEF TokenInv, UsedInv, TokenIsUsedOnce
        <3> QED
            BY <3>1, <3>2, <3>3 DEF UsedInv
    <2> QED
        BY <2>5, <2>6, <2>9 DEF TokenInv
<1>12. CASE PutSaves(j)
    <2>1. /\ row'.token = row.token /\ UNCHANGED <<svc, sessions, tokens>>
          /\ Goes(j, "notify") /\ MayGo(j, "notify")
        BY <1>2, <1>5, <1>12 DEF PutSaves, bounds, Handlers
    <2> QED
        BY <1>3, <1>4, <2>1, SameTokens DEF TokenInv
<1>13. CASE PutExits(j)
    <2>1. svc'.at \in {"down", "off"}
        BY <1>1, <1>13, StoppedType DEF PutExits
    <2>2. jobs' \subseteq jobs /\ UNCHANGED <<row, sessions, tokens>>
        BY <1>13 DEF PutExits, WithoutHandlers, bounds
    <2>3. TokenBound' /\ UsedInv'
        BY <2>2, SameTokens
    <2>4. AloneInv'
        BY <2>1, <2>2 DEF TokenInv, AloneInv, IsBooting, Active
    <2> QED
        BY <2>3, <2>4 DEF TokenInv
<1>14. CASE SetupFails(j)
    <2>1. jobs' = jobs \ {j} /\ UNCHANGED <<row, svc, sessions, tokens>>
        BY <1>14 DEF SetupFails, Ends, bounds
    <2> QED
        BY <1>3, <2>1, SameTokens DEF TokenInv
<1>15. CASE SaveFails(j)
    <2>1. UNCHANGED <<row, svc, sessions, tokens>>
        BY <1>15 DEF SaveFails, bounds
    <2>2. CASE j.fn = "setup" /\ Goes(j, "restart")
        BY <1>2, <1>3, <1>4, <2>1, <2>2, SameTokens DEF TokenInv, MayGo, Handlers
    <2>3. CASE j.fn = "put" /\ Goes(j, "notify")
        BY <1>2, <1>3, <1>4, <2>1, <2>3, SameTokens DEF TokenInv, MayGo, Handlers
    <2> QED
        BY <1>15, <2>2, <2>3 DEF SaveFails
<1> QED
    BY <1>6, <1>7, <1>8, <1>9, <1>10, <1>11, <1>12, <1>13, <1>14, <1>15 DEF JobStep

LEMMA NextTokenInv == TypeInv /\ RowInv /\ SecretInv /\ TokenInv /\ [Next]_vars => TokenInv'
<1>1. ASSUME TokenInv, UNCHANGED vars PROVE TokenInv'
    BY <1>1 DEF vars, bounds, TokenInv, TokenBound, AloneInv, UsedInv, TokenIsUsedOnce, IsBooting,
       Active
<1> QED
    BY <1>1, CommandTokenInv, RequestTokenInv, BootStepTokenInv, JobStepTokenInv, InputsType
       DEF Next

LEMMA AllInv == Spec => [](TypeInv /\ RowInv /\ TokenInv)
<1>1. Init => TypeInv /\ RowInv /\ SecretInv /\ TokenInv
    BY InitTypeInv, InitSecretInv, InitTokenInv
<1>2. TypeInv /\ RowInv /\ SecretInv /\ TokenInv /\ [Next]_vars
          => (TypeInv /\ RowInv /\ SecretInv /\ TokenInv)'
    BY NextTypeInv, NextSecretInv, NextTokenInv
<1> QED
    BY <1>1, <1>2, PTL DEF Spec

\* A setup token opens one session, unless requests overlap.
THEOREM TokensAreUsedOnce == Spec => []TokenIsUsedOnce
<1>1. TypeInv /\ RowInv /\ TokenInv => TokenIsUsedOnce
    BY DEF TokenInv, UsedInv
<1> QED
    BY <1>1, AllInv, PTL

\* As long as commands, requests and boots do not overlap, a token that is
\* still good is replaced by cicd token only and deleted by its login only;
\* where they do overlap, nothing is claimed.
THEOREM GoodTokensStay == Spec => ActiveTokensStay
<1> DEFINE Stays == Active /\ row'.token # row.token =>
               \/ jobs' = jobs /\ ~svc.alone
               \/ \E j \in jobs \ jobs' :
                     j.fn = "token" \/ (j.fn = "login" /\ j.tok = row.token) \/ ~j.alone
<1>1. ASSUME TypeInv, RowInv, TokenInv, [Next]_vars PROVE [Stays]_vars
    <2>1. ASSUME NEW cfg, SaveGlobalSettings(cfg), Active PROVE row'.token = row.token
        <3> DEFINE e == cfg.email
                   p == cfg.port
        <3>1. row' = [row EXCEPT !.exists = TRUE, !.email = e, !.port = p]
            BY <2>1 DEF SaveGlobalSettings
        <3> HIDE DEF e, p
        <3> QED
            BY <1>1, <3>1 DEF TypeInv, TypeOK, Row
    <2>2. ASSUME UpdateSecret \/ InsertSecret, Active PROVE row'.token = row.token
        BY <1>1, <2>2 DEF UpdateSecret, InsertSecret, Active, TypeInv, TypeOK, Row
    <2>3. CASE Expire
        BY <1>1, <2>3 DEF Expire, TypeInv, TypeOK, Row
    <2>4. ASSUME BootGenerate, Active PROVE jobs' = jobs /\ ~svc.alone
        BY <1>1, <2>4 DEF BootGenerate, TokenInv, AloneInv
    <2>5. ASSUME NEW j \in jobs, Generate(j), Active
          PROVE  j \in jobs \ jobs' /\ (j.fn = "token" \/ ~j.alone)
        BY <1>1, <2>5 DEF Generate, Ends, TokenInv, AloneInv
    <2>6. ASSUME NEW j \in jobs, LoginDeletes(j)
          PROVE  j \in jobs \ jobs' /\ ((j.fn = "login" /\ j.tok = row.token) \/ ~j.alone)
        <3>1. j.at = "delete" /\ j.fn = "login" /\ j.fn \in Handlers /\ Goes(j, "notify")
            BY <1>1, <2>6 DEF LoginDeletes, TypeInv, WellFormed, Handlers
        <3>2. \E w \in Job : jobs' = (jobs \ {j}) \cup {w} /\ w.at = "notify"
            BY <1>1, <3>1, Going DEF MayGo
        <3> QED
            BY <1>1, <3>1, <3>2 DEF TokenInv, AloneInv
    <2>7. ASSUME NEW j \in jobs, JobStep(j) PROVE Stays
        <3>1. CASE SetupSaves(j) \/ PutSaves(j)
            BY <2>1, <3>1 DEF SetupSaves, PutSaves
        <3>2. CASE Generate(j)
            BY <2>5, <3>2
        <3>3. CASE LoginDeletes(j)
            BY <2>6, <3>3
        <3>4. CASE \/ SetupFails(j) \/ SetupRestarts(j) \/ Show(j) \/ Notifies(j)
                   \/ SaveFails(j) \/ PutExits(j)
            <4>1. row' = row
                BY <3>4 DEF SetupFails, SetupRestarts, Show, Notifies, SaveFails, PutExits
            <4> QED
                BY <4>1
        <3> QED
            BY <2>7, <3>1, <3>2, <3>3, <3>4 DEF JobStep
    <2>8. ASSUME BootStep PROVE Stays
        <3>1. CASE UpdateSecret \/ InsertSecret
            BY <2>2, <3>1
        <3>2. CASE BootGenerate
            BY <2>4, <3>2
        <3>3. CASE SystemdRestarts \/ Load \/ BootToken \/ ReadSecret
            <4>1. row' = row
                BY <3>3 DEF SystemdRestarts, Load, BootToken, ReadSecret
            <4> QED
                BY <4>1
        <3> QED
            BY <2>8, <3>1, <3>2, <3>3 DEF BootStep
    <2>9. ASSUME \/ \E flags \in Given : Setup(flags) \/ Debug(flags)
                 \/ \E force \in BOOLEAN : Token(force)
                 \/ Info \/ Login \/ MagicLink \/ \E r \in Given : Put(r)
                 \/ Kill \/ UNCHANGED vars
          PROVE  row' = row
        BY <2>9 DEF Setup, Debug, Token, Info, Login, MagicLink, Put, Kill, vars
    <2> QED
        BY <1>1, <2>3, <2>7, <2>8, <2>9, InputsType DEF Next
<1>2. TypeInv /\ RowInv /\ TokenInv /\ [Next]_vars => [Stays]_vars
    BY <1>1
<1>3. Spec => [][Stays]_vars
    BY <1>2, AllInv, PTL DEF Spec
<1> QED
    BY <1>3 DEF ActiveTokensStay

=============================================================================
