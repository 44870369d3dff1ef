-------------------------------- MODULE Nfdc --------------------------------
(***************************************************************************)
(* The nfdc command line tool (tools/nfdc): it parses a command line or a  *)
(* batch file, runs the commands, each a chain of management requests to   *)
(* the daemon, and reports by its exit code.  Requests and answers may be  *)
(* lost (the controller then reports a timeout), the daemon may refuse,    *)
(* and between two requests of one command faces come and go.  The loop of *)
(* cs erase is a part of ContentStore.                                     *)
(***************************************************************************)
EXTENDS NfdcCommandLine

CONSTANTS
    Launches,       \* how nfdc may be started: its arguments, and the lines of the batch file
    Canon,          \* what each FaceUri the user types resolves to, or Unresolved
    SchemeOf,       \* the scheme of every FaceUri
    Unresolved, NoArg,
    DefaultEndpoint,    \* local FaceUri of the channel new faces are made on
    Sections,       \* the sections of a full status report
    Strategies,     \* the strategies the daemon knows
    Peers,          \* <<remote, local>> FaceUris of faces other hosts open
    MaxFaces        \* bound: faces created in one behaviour

VARIABLES
    faces,      \* the daemon: FaceId |-> its properties
    routes,     \* ... the routes of the RIB
    updates,    \* ... the updates of the RIB accepted and not applied yet
    choices,    \* ... the strategy choices made, <<name, strategy>>
    csConfig,   \* ... the capacity and the flags of its content store
    named,      \* ... history: the FaceUris of every face ever created
    launch,     \* how nfdc is started, or NoArg once main has read it
    todo,       \* the commands not started yet
    cmd,        \* the command being executed, or NoArg
    found,      \* m_results of its FindFace
    calls,      \* its requests under way
    exitCode,
    executed    \* history: its requests the daemon has carried out

nfdcRib == <<routes, updates>>
nfdcDaemon == <<faces, nfdcRib, choices, csConfig, named>>
nfdcTool == <<launch, todo, cmd, found, exitCode>>
nfdcVars == <<nfdcDaemon, nfdcTool, calls, executed>>

\* FindFace::Code
OK == 0
ERROR == 1
NOT_FOUND == 3
CANONIZE_ERROR == 4
AMBIGUOUS == 5

Rank == [none |-> 0, ondemand |-> 1, persistent |-> 2, permanent |-> 3]

persistencyLessThan(x, y) == Rank[x] < Rank[y]

Call(op, arg) == [op |-> op, arg |-> arg, st |-> "sent", code |-> 0, body |-> NoArg]

---------------------------------------------------------------------------
(* The daemon's side: one management request (src/daemon/mgmt) *)

matchFilter(filter, face, id) ==
    /\ filter.id # NoArg => filter.id = id
    /\ filter.remote # NoArg => filter.remote = face.remote
    /\ filter.local # NoArg => filter.local = face.local
    /\ filter.scheme # NoArg => filter.scheme \in {SchemeOf[face.remote], SchemeOf[face.local]}

\* queryFaces, listFaces
QueryFaces(filter) == {id \in DOMAIN faces : matchFilter(filter, faces[id], id)}

\* What a face has besides its addresses and persistency, under nfdc's names; congestion
\* marking is on in the default configuration.
DefaultSettings ==
    "mtu" :> "" @@ "reliability" :> FALSE @@ "congestion-marking" :> TRUE
    @@ "congestion-marking-interval" :> 100 @@ "default-congestion-threshold" :> 65536

NewFace(remote, local, persistency, settings) ==
    [remote |-> remote, local |-> local, persistency |-> persistency,
     settings |-> settings @@ DefaultSettings]

FaceFor(remote, local) ==
    {id \in DOMAIN faces : faces[id].remote = remote /\ faces[id].local = local}

AddFace(face) ==
    LET id == Cardinality(DOMAIN named) + 1 IN
    /\ id <= MaxFaces
    /\ faces' = faces @@ (id :> face)
    /\ named' = named @@ (id :> [remote |-> face.remote, local |-> face.local])

DropFace(id) ==
    /\ faces' = [f \in DOMAIN faces \ {id} |-> faces[f]]
    /\ routes' = {r \in routes : r.id # id} /\ UNCHANGED updates

Answered(c, code, body, after) ==
    /\ calls' = (calls \ {c}) \cup {[c EXCEPT !.st = "answered", !.code = code, !.body = body]}
    /\ executed' = executed \cup {[op |-> c.op, arg |-> c.arg, code |-> code, after |-> after]}

ServeCreateFace(c) ==
    LET local == IF c.arg.local = NoArg THEN DefaultEndpoint ELSE c.arg.local
        same == FaceFor(c.arg.remote, local)
        face == NewFace(c.arg.remote, local, c.arg.persistency, c.arg.settings)
    IN /\ c.op = "faces/create"
       /\ IF same # {}
          THEN LET id == CHOOSE i \in same : TRUE IN
               Answered(c, 409, faces[id] @@ [id |-> id], faces[id]) /\ UNCHANGED <<faces, named>>
          ELSE AddFace(face) /\ Answered(c, 200, [id |-> Cardinality(DOMAIN named) + 1], face)
       /\ UNCHANGED <<nfdcRib, choices, csConfig>>

ServeUpdateFace(c) ==
    LET id == c.arg.id
        new == [faces[id] EXCEPT
                  !.persistency = IF c.arg.persistency = NoArg THEN @ ELSE c.arg.persistency,
                  !.settings = c.arg.settings @@ @]
    IN /\ c.op = "faces/update"
       /\ IF id \notin DOMAIN faces
          THEN Answered(c, 404, NoArg, NoArg) /\ UNCHANGED faces
          ELSE faces' = [faces EXCEPT ![id] = new] /\ Answered(c, 200, NoArg, new)
       /\ UNCHANGED <<nfdcRib, choices, csConfig, named>>

ServeDestroyFace(c) ==
    /\ c.op = "faces/destroy"
    /\ DropFace(c.arg.id)
    /\ Answered(c, 200, NoArg, NoArg) /\ UNCHANGED <<choices, csConfig, named>>

\* registerEntry, unregisterEntry: answered before the update begins.
ServeRib(c) ==
    /\ c.op \in {"rib/register", "rib/unregister"}
    /\ updates' = Append(updates, [op |-> c.op, route |-> c.arg])
    /\ Answered(c, 200, NoArg, NoArg) /\ UNCHANGED <<faces, routes, choices, csConfig, named>>

\* What an update makes of the routes.  That of a route on a face that is gone fails.
AfterUpdate(rs, u) ==
    LET others == {r \in rs : <<r.name, r.id, r.origin>> # <<u.route.name, u.route.id, u.route.origin>>}
    IN  IF u.op = "rib/unregister" THEN others
        ELSE IF u.route.id \in DOMAIN faces THEN others \cup {u.route} ELSE rs

\* The RIB applies one update after the other.
ApplyRibUpdate ==
    /\ updates # <<>>
    /\ routes' = AfterUpdate(routes, Head(updates)) /\ updates' = Tail(updates)
    /\ UNCHANGED <<faces, choices, csConfig, named, nfdcTool, calls, executed>>

\* onRouteExpiration
RouteExpires == \E r \in routes :
    LET expired == [op |-> "rib/unregister", route |-> r] IN
    /\ r.expires # NoArg /\ expired \notin ToSet(updates)
    /\ updates' = Append(updates, expired)
    /\ UNCHANGED <<faces, routes, choices, csConfig, named, nfdcTool, calls, executed>>

\* setStrategy, unsetStrategy
ServeStrategy(c) ==
    /\ c.op \in {"strategy/set", "strategy/unset"}
    /\ LET others == {x \in choices : x[1] # c.arg.name}
           known == c.op = "strategy/unset" \/ c.arg.strategy \in Strategies
       IN /\ choices' = IF c.op = "strategy/unset" THEN others
                        ELSE IF known THEN others \cup {<<c.arg.name, c.arg.strategy>>}
                        ELSE choices
          /\ Answered(c, IF known THEN 200 ELSE 404, NoArg, NoArg)
    /\ UNCHANGED <<faces, nfdcRib, csConfig, named>>

\* changeConfig
ServeCsConfig(c) ==
    /\ c.op = "cs/config"
    /\ csConfig' = c.arg @@ csConfig
    /\ Answered(c, 200, NoArg, csConfig') /\ UNCHANGED <<faces, nfdcRib, choices, named>>

ServeDataset(c) ==
    /\ c.op \in {"faces/query", "dataset"}
    /\ Answered(c, 200, IF c.op = "faces/query" THEN QueryFaces(c.arg) ELSE routes, NoArg)
    /\ UNCHANGED nfdcDaemon

Serve == \E c \in calls :
    /\ c.st = "sent"
    /\ \/ ServeCreateFace(c) \/ ServeUpdateFace(c) \/ ServeDestroyFace(c)
       \/ ServeRib(c) \/ ServeStrategy(c) \/ ServeCsConfig(c) \/ ServeDataset(c)
    /\ UNCHANGED nfdcTool

\* The daemon answers with an error: not authorized, a face that cannot be created, ...
Refuse == \E c \in calls :
    /\ c.st = "sent"
    /\ calls' = (calls \ {c}) \cup {[c EXCEPT !.st = "answered", !.code = 403]}
    /\ UNCHANGED <<nfdcDaemon, nfdcTool, executed>>

\* A request or an answer is lost; the controller reports error 10060 after 4 seconds.
Lose == \E c \in calls :
    /\ c.code < 10060
    /\ calls' = (calls \ {c}) \cup {[c EXCEPT !.st = "answered", !.code = 10060, !.body = NoArg]}
    /\ UNCHANGED <<nfdcDaemon, nfdcTool, executed>>

\* A peer connects, and a face closes, on their own.
PeerConnects == \E p \in Peers :
    /\ FaceFor(p[1], p[2]) = {}
    /\ AddFace(NewFace(p[1], p[2], "ondemand", <<>>))
    /\ UNCHANGED <<nfdcRib, choices, csConfig, nfdcTool, calls, executed>>

FaceCloses == \E id \in DOMAIN faces :
    /\ DropFace(id)
    /\ UNCHANGED <<choices, csConfig, named, nfdcTool, calls, executed>>

---------------------------------------------------------------------------
(* The tool's side.  A step leaves the exit code and the requests to send. *)

IsBatch(args) == args[1] \in {"-f", "--batch"}

\* Empty lines and lines that start with # are skipped.
Ignored(line) == line = <<>> \/ line[1] = "#"

Return(code) == exitCode' = code /\ todo' = <<>>

\* main with lines to parse: the first that is not understood ends a batch before anything
\* runs, and is executed as an empty command when it is the whole command line; unless
\* it asks for help and man takes the place of nfdc.
RunLines(lines, isBatch) ==
    LET parsed == [i \in DOMAIN lines |-> Parse(lines[i])]
        bad    == {i \in DOMAIN lines : parsed[i] = NoCommand}
    IN  \/ bad # {} /\ AsksForManPage(lines[Min(bad)]) /\ Return(0)
        \/ bad # {} /\ isBatch /\ Return(2)
        \/ (bad = {} \/ ~isBatch) /\ todo' = parsed /\ UNCHANGED exitCode

Main ==
    /\ launch # NoArg /\ launch' = NoArg
    /\ LET args == launch.args IN
       IF args = <<>> \/ Token(args, 1) \in {"-V", "--version"} THEN Return(0)
       ELSE IF ~IsBatch(args) THEN RunLines(<<args>>, FALSE)
       ELSE IF Len(args) # 2 \/ launch.file = NoArg THEN Return(2)
       ELSE RunLines(SelectSeq(launch.file, LAMBDA line : ~Ignored(line)), TRUE)
    /\ UNCHANGED <<nfdcDaemon, cmd, found, calls, executed>>

Then(code, requests) ==
    /\ exitCode' = code
    /\ calls' = requests

\* CommandArguments: an argument given, or its default
Has(c, name) == name \in DOMAIN c.ca
Get(c, name, default) == IF Has(c, name) THEN c.ca[name] ELSE default
Given(c, names) == [n \in names \cap DOMAIN c.ca |-> c.ca[n]]

\* canonize, for face create and the implicit creation of a face; resolving may fail.
Canonize(u, resolves) == IF resolves THEN Canon[u] ELSE Unresolved

canCanonize(u) == SchemeOf[u] \in {"udp", "tcp", "ether"}

\* FindFace::canonize lets a FaceUri without canonical form through.
FindFaceCanonize(u, resolves) ==
    IF u = NoArg \/ ~canCanonize(u) THEN u ELSE Canonize(u, resolves)

NoFilter == [id |-> NoArg, remote |-> NoArg, local |-> NoArg, scheme |-> NoArg]

\* The nexthop or face of a command, which may be a FaceId or a FaceUri
Nexthop(c) == IF Has(c, "face") THEN c.ca["face"] ELSE c.ca["nexthop"]
NexthopFilter(n) == IF n.kind = "id" THEN [NoFilter EXCEPT !.id = n.v] ELSE [NoFilter EXCEPT !.remote = n.v]

ListFilter(c) == [NoFilter EXCEPT !.remote = Get(c, "remote", NoArg), !.local = Get(c, "local", NoArg),
                                  !.scheme = Get(c, "scheme", NoArg)]
ShowFilter(c) == [NoFilter EXCEPT !.id = c.ca["id"]]

\* Whether several faces may match (allowMulti)
AllowMulti(c) == c.verb \in {<<"face", "list">>, <<"route", "remove">>, <<"route", "list">>}

ExecuteFindFace(filter, resolves) ==
    LET remote == FindFaceCanonize(filter.remote, resolves)
        local == FindFaceCanonize(filter.local, resolves)
    IN  IF Unresolved \in {remote, local} THEN Then(CANONIZE_ERROR, {})
        ELSE Then(OK, {Call("faces/query", [filter EXCEPT !.remote = remote, !.local = local])})

ValidMtu(mtu) == mtu = "auto" \/ parseValue("UNSIGNED", mtu) # {}

CreateParams(remote, local, c) ==
    [remote |-> remote, local |-> local, persistency |-> Get(c, "persistency", "persistent"),
     settings |-> Given(c, DOMAIN DefaultSettings)]

ExecuteFaceCreate(c, resolves) ==
    LET remote == Canonize(c.ca["remote"], resolves)
        local == IF Has(c, "local") THEN Canonize(c.ca["local"], resolves) ELSE NoArg
    IN  IF Has(c, "mtu") /\ ~ValidMtu(c.ca["mtu"]) THEN Then(2, {})
        ELSE IF Unresolved \in {remote, local} THEN Then(CANONIZE_ERROR, {})
        ELSE Then(OK, {Call("faces/create", CreateParams(remote, local, c))})

\* list and show of the strategy choices, set and unset
ExecuteStrategy(c) ==
    CASE c.verb[2] \in {"list", "show"} -> Then(OK, {Call("dataset", "strategy")})
      [] c.verb[2] = "set" ->
           Then(OK, {Call("strategy/set", [name |-> c.ca["prefix"], strategy |-> c.ca["strategy"]])})
      [] c.verb[2] = "unset" ->
           IF c.ca["prefix"] = <<>> THEN Then(2, {})
           ELSE Then(OK, {Call("strategy/unset", [name |-> c.ca["prefix"]])})

\* CsModule::config
ExecuteCsConfig(c) == Then(OK, {Call("cs/config", Given(c, {"capacity", "admit", "serve"}))})

ListRoutes == {Call("dataset", "rib")}

\* RibModule::list and show, which ask for the faces of a nexthop first
ExecuteRouteList(c, resolves) ==
    IF Has(c, "nexthop") THEN ExecuteFindFace(NexthopFilter(Nexthop(c)), resolves) ELSE Then(OK, ListRoutes)

\* The sections of a report, and of the commands that report a single one
ReportSections(c) ==
    CASE c.verb = <<"status", "report">> -> Sections
      [] c.verb = <<"status", "show">> -> {"general"}
      [] OTHER -> {c.verb[1]}

\* StatusReport::collect asks for every section at once.
ExecuteReport(c) == Then(OK, {Call("dataset", s) : s \in ReportSections(c)})

\* main runs the next command while none has failed; an empty one throws.
Execute == \E resolves \in BOOLEAN :
    LET c == Head(todo)
        Is(noun, verbs) == c.verb \in {<<noun, v>> : v \in verbs}
    IN
    /\ cmd = NoArg /\ todo # <<>> /\ exitCode = 0
    /\ cmd' = c /\ todo' = Tail(todo) /\ found' = {} /\ executed' = {}
    /\ \/ c = NoCommand /\ Then(1, {})
       \/ Is("face", {"create"}) /\ ExecuteFaceCreate(c, resolves)
       \/ Is("face", {"list"}) /\ ExecuteFindFace(ListFilter(c), resolves)
       \/ Is("face", {"show"}) /\ ExecuteFindFace(ShowFilter(c), resolves)
       \/ (Is("face", {"destroy"}) \/ Is("route", {"add", "remove"}))
          /\ ExecuteFindFace(NexthopFilter(Nexthop(c)), resolves)
       \/ Is("route", {"list", "show"}) /\ ExecuteRouteList(c, resolves)
       \/ Is("strategy", {"list", "show", "set", "unset"}) /\ ExecuteStrategy(c)
       \/ Is("cs", {"config"}) /\ ExecuteCsConfig(c)
       \/ (Is("status", {"report", "show"}) \/ Is("channel", {"list"}) \/ Is("fib", {"list"}) \/ Is("cs", {"info"}))
          /\ ExecuteReport(c)
    /\ UNCHANGED <<nfdcDaemon, launch>>

\* The connection to the daemon fails or breaks: processEvents throws, and main returns 1.
Disconnect ==
    /\ calls # {}
    /\ Then(1, {})
    /\ UNCHANGED <<nfdcDaemon, launch, todo, cmd, found, executed>>

Rest(c) == calls \ {c}

\* handle409 of face create: ask for what the existing face does not provide yet.  The
\* congestion settings are asked for whatever they are.
Handle409(c) ==
    LET given == Given(cmd, DOMAIN DefaultSettings)
        always == {"congestion-marking-interval", "default-congestion-threshold"}
        changed == {s \in DOMAIN given : s \in always \/ c.body.settings[s] # given[s]}
        persistency == IF persistencyLessThan(c.body.persistency, c.arg.persistency)
                       THEN c.arg.persistency ELSE NoArg
    IN IF c.body.remote # c.arg.remote THEN Then(ERROR, Rest(c))
       ELSE IF changed = {} /\ persistency = NoArg THEN Then(exitCode, Rest(c))
       ELSE Then(exitCode, Rest(c) \cup {Call("faces/update",
                    [id |-> c.body.id, settings |-> Given(cmd, changed), persistency |-> persistency])})

\* registerRoute of route add
Register(id) == Call("rib/register",
    [name |-> cmd.ca["prefix"], id |-> id, origin |-> Get(cmd, "origin", "static"), cost |-> Get(cmd, "cost", 0),
     childInherit |-> ~Has(cmd, "no-inherit"), capture |-> Has(cmd, "capture"),
     expires |-> Get(cmd, "expires", NoArg)])

\* handleFaceNotFound of route add
HandleFaceNotFound(c, resolves) ==
    LET u == Nexthop(cmd).v
        remote == Canonize(u, resolves)
    IN IF Nexthop(cmd).kind = "id" THEN Then(NOT_FOUND, Rest(c))
       ELSE IF SchemeOf[u] = "ether" THEN Then(NOT_FOUND, Rest(c))
       ELSE IF remote = Unresolved THEN Then(CANONIZE_ERROR, Rest(c))
       ELSE Then(NOT_FOUND, Rest(c) \cup {Call("faces/create",
                    [remote |-> remote, local |-> NoArg, persistency |-> "persistent", settings |-> <<>>])})

FindFaceCode(c) ==
    IF c.code # 200 THEN ERROR
    ELSE IF c.body = {} THEN NOT_FOUND
    ELSE IF Cardinality(c.body) > 1 /\ ~AllowMulti(cmd) THEN AMBIGUOUS
    ELSE OK

\* What face destroy, route remove and route list ask for once the faces are known.
DestroyFaces(ids) == {Call("faces/destroy", [id |-> i]) : i \in ids}
Unregister(ids) ==
    {Call("rib/unregister", [name |-> cmd.ca["prefix"], id |-> i, origin |-> Get(cmd, "origin", "static")]) :
        i \in ids}

\* The routes listRoutesImpl prints for route list and route show
IsListed(r) ==
    IF cmd.verb[2] = "show" THEN r.name = cmd.ca["prefix"]
    ELSE (found = {} \/ r.id \in found) /\ (Has(cmd, "origin") => r.origin = cmd.ca["origin"])

\* Its exit code: 6 if there is none.
ListedCode(c) == IF \E r \in c.body : IsListed(r) THEN exitCode ELSE 6

\* What a command does with the faces it asked for.
AfterFindFace(c, resolves) ==
    LET res == FindFaceCode(c) IN
    /\ found' = IF c.code = 200 THEN c.body ELSE {}
    /\ IF res = NOT_FOUND /\ cmd.verb = <<"route", "add">> THEN HandleFaceNotFound(c, resolves)
       ELSE IF res # OK THEN Then(res, Rest(c))
       ELSE Then(OK, Rest(c) \cup
              CASE cmd.verb \in {<<"face", "list">>, <<"face", "show">>} -> {}
                [] cmd.verb = <<"face", "destroy">> -> DestroyFaces(c.body)
                [] cmd.verb = <<"route", "add">> -> {Register(i) : i \in c.body}
                [] cmd.verb = <<"route", "remove">> -> Unregister(c.body)
                [] cmd.verb = <<"route", "list">> -> ListRoutes)

\* Mutation: a route removed clears the failure of another one.
AfterSuccessClears(c) ==
    Then(OK, Rest(c) \cup IF c.op = "faces/create" /\ cmd.verb = <<"route", "add">>
                          THEN {Register(c.body.id)} ELSE {})

\* The success handlers: only those of route add, list and show touch the exit code.
AfterSuccess(c) ==
    Then(IF c.op = "rib/register" THEN OK
         ELSE IF c.op = "dataset" /\ cmd.verb[1] = "route" THEN ListedCode(c) ELSE exitCode,
         Rest(c) \cup IF c.op = "faces/create" /\ cmd.verb = <<"route", "add">>
                      THEN {Register(c.body.id)} ELSE {})

\* The failure handlers: makeCommandFailureHandler and makeDatasetFailureHandler, but for
\* a 409 to face create and a 404 to strategy set.
AfterFailure(c) ==
    IF c.op = "faces/create" /\ c.code = 409 /\ cmd.verb = <<"face", "create">> THEN Handle409(c)
    ELSE Then(IF c.op = "strategy/set" /\ c.code = 404 THEN 7 ELSE ERROR, Rest(c))

HandleAnswer == \E c \in calls, resolves \in BOOLEAN :
    /\ c.st = "answered"
    /\ IF c.op = "faces/query" THEN AfterFindFace(c, resolves)
       ELSE /\ IF c.code = 200 THEN AfterSuccess(c) ELSE AfterFailure(c)
            /\ UNCHANGED found
    /\ UNCHANGED <<nfdcDaemon, launch, todo, cmd, executed>>

\* processEvents returns once nothing is under way, and the command is over.
Finished == cmd # NoArg /\ calls = {}

FinishCommand ==
    /\ Finished
    /\ cmd' = NoArg
    /\ UNCHANGED <<nfdcDaemon, launch, todo, found, calls, exitCode, executed>>

NfdcInit ==
    /\ faces = <<>> /\ routes = {} /\ updates = <<>> /\ choices = {} /\ named = <<>>
    /\ csConfig = [capacity |-> 9, admit |-> TRUE, serve |-> TRUE]
    /\ launch \in Launches /\ todo = <<>>
    /\ cmd = NoArg /\ found = {} /\ calls = {} /\ exitCode = 0 /\ executed = {}

NfdcNext ==
    \/ Main \/ Execute \/ HandleAnswer \/ FinishCommand \/ Disconnect
    \/ Serve \/ Refuse \/ Lose \/ ApplyRibUpdate \/ RouteExpires \/ PeerConnects \/ FaceCloses

NfdcSpec == NfdcInit /\ [][NfdcNext]_nfdcVars

---------------------------------------------------------------------------
(* Properties *)

\* The face the user named: by its id, or by a FaceUri it was created with.
IsUri(u, typed) == u \in {typed, Canon[typed]}
IsNexthop(id) == LET n == Nexthop(cmd) IN
                 id \in DOMAIN named /\ IF n.kind = "id" THEN id = n.v ELSE IsUri(named[id].remote, n.v)

\* The faces face list and face show are asked for
IsAskedFor(id) ==
    /\ Has(cmd, "id") => id = cmd.ca["id"]
    /\ Has(cmd, "remote") => IsUri(named[id].remote, cmd.ca["remote"])
    /\ Has(cmd, "local") => IsUri(named[id].local, cmd.ca["local"])
    /\ Has(cmd, "scheme") => cmd.ca["scheme"] \in {SchemeOf[named[id].remote], SchemeOf[named[id].local]}

\* The route of route add and route remove
IsTypedKey(r) == r.name = cmd.ca["prefix"] /\ r.origin = Get(cmd, "origin", "static")
IsTypedRoute(r) ==
    /\ IsTypedKey(r) /\ r.cost = Get(cmd, "cost", 0) /\ r.expires = Get(cmd, "expires", NoArg)
    /\ r.childInherit # Has(cmd, "no-inherit") /\ r.capture = Has(cmd, "capture")

\* The routes once the updates accepted are applied
Settled == FoldLeft(AfterUpdate, routes, updates)

\* Some request of the command with these operations was carried out as told.
Carried(ops, Told(_)) == \E x \in executed : x.op \in ops /\ Told(x)

\* The command is the one typed: a token is the name of an argument, the value after one,
\* or, before any name, the value of an argument that may be positional; every argument
\* the command has was typed in one of these ways, and none it needs is missing.
Understood ==
    LET line  == cmd.line
        args  == Commands[<<Token(line, 1), Token(line, 2)>>].args
        isKey[i \in 2 .. Len(line)] ==
            i > 2 /\ line[i] \in ArgNames(args) /\ (isKey[i - 1] => ArgNamed(args, line[i - 1]).type = "NONE")
        keys  == {i \in 3 .. Len(line) : isKey[i]}
        Reads(a, i) == i <= Len(line) /\ a.name \in DOMAIN cmd.ca /\ cmd.ca[a.name] \in parseValue(a.type, line[i])
        Named(a) == \E i \in keys : line[i] = a.name /\ (a.type = "NONE" \/ Reads(a, i + 1))
        Placed(a, i) == a.positional /\ (\A k \in keys : i < k) /\ Reads(a, i)
    IN  /\ \A a \in ToSet(args) : a.required \/ a.name \in DOMAIN cmd.ca =>
              Named(a) \/ \E i \in 3 .. Len(line) : Placed(a, i)
        /\ \A i \in 3 .. Len(line) : i \in keys \/ i - 1 \in keys \/ \E a \in ToSet(args) : Placed(a, i)

\* What the commands that only show something show
Shown == CASE cmd.verb[1] = "route" -> {"rib"}
           [] cmd.verb[1] = "strategy" -> {"strategy"}
           [] OTHER -> ReportSections(cmd)

Goal ==
    CASE cmd.verb = <<"face", "create">> ->
           Carried({"faces/create", "faces/update"}, LAMBDA x:
              /\ x.after # NoArg /\ x.after.remote = Canon[cmd.ca["remote"]]
              /\ Has(cmd, "local") => x.after.local = Canon[cmd.ca["local"]]
              /\ Rank[x.after.persistency] >= Rank[Get(cmd, "persistency", "persistent")]
              /\ \A s \in DOMAIN DefaultSettings : Has(cmd, s) => x.after.settings[s] = cmd.ca[s])
      [] cmd.verb = <<"face", "destroy">> ->
           Carried({"faces/destroy"}, LAMBDA x: IsNexthop(x.arg.id) /\ x.arg.id \notin DOMAIN faces)
      [] cmd.verb = <<"route", "add">> ->
           Carried({"rib/register"}, LAMBDA x:
              /\ IsNexthop(x.arg.id) /\ IsTypedRoute(x.arg)
              /\ x.arg \in Settled \/ x.arg.id \notin DOMAIN faces \/ x.arg.expires # NoArg)
      [] cmd.verb = <<"route", "remove">> ->
           found # {} /\ \A id \in found : IsNexthop(id) /\ ~\E r \in Settled : r.id = id /\ IsTypedKey(r)
      [] cmd.verb = <<"strategy", "set">> -> <<cmd.ca["prefix"], cmd.ca["strategy"]>> \in choices
      [] cmd.verb = <<"strategy", "unset">> -> \A x \in choices : x[1] # cmd.ca["prefix"]
      [] cmd.verb = <<"cs", "config">> -> \A s \in DOMAIN cmd.ca : csConfig[s] = cmd.ca[s]
      [] cmd.verb[1] = "face" -> found # {} /\ \A id \in found : IsAskedFor(id)
      [] OTHER -> \A s \in Shown : Carried({"dataset"}, LAMBDA x: x.arg = s)

\* nfdc exits with 0 only if the line typed was understood and the daemon is as it says,
\* whichever requests failed, were lost or met a face that came or went in between (the
\* handlers of face-module.cpp and rib-module.cpp): the face had what was asked for, or is
\* gone; the strategy is chosen, or is not; the capacity is set; no route of that
\* origin is left on any of the faces; the route on the face named has the origin, cost,
\* flags and lifetime typed, and is in the RIB once the updates it has accepted are
\* applied, unless it has expired or its face has closed: nfdc calls a route accepted, not
\* added, because the RIB answers before it asks the FIB.
ExitZeroMeansDone == Finished /\ exitCode = 0 => Understood /\ Goal

===========================================================================
