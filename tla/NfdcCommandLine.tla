--------------------------- MODULE NfdcCommandLine ---------------------------
(***************************************************************************)
(* What nfdc makes of a command line or of a line of a batch file: the     *)
(* commands its modules register, and how CommandDefinition::parse turns   *)
(* the tokens after noun and verb into arguments, named ones anywhere and  *)
(* positional ones before them.                                            *)
(*                                                                         *)
(* A line is the sequence of its tokens.  Which tokens read as a FaceUri,  *)
(* a name or a number is given by constants.                               *)
(***************************************************************************)
EXTENDS Integers, Sequences, FiniteSets, TLC, SequencesExt

CONSTANTS
    FaceUris,       \* tokens ndn::FaceUri accepts
    NameOf,         \* the name of each token ndn::Name accepts
    NumberOf,       \* the number of each token lexical_cast<int64_t> accepts
    RouteOrigins    \* tokens that are route origins

-----------------------------------------------------------------------------
(* Values *)

parseBoolean(s) ==
    IF s \in {"on", "true", "enabled", "yes", "1"} THEN {TRUE}
    ELSE IF s \in {"off", "false", "disabled", "no", "0"} THEN {FALSE} ELSE {}

parseReportFormat(s) == {s} \cap {"xml", "text"}
parseFacePersistency(s) == {s} \cap {"persistent", "permanent"}

\* The value a token has as a value of the type: one, or none where the code throws.  A
\* face id may be negative, which stands for the id it wraps to.
parseValue(type, s) ==
    CASE type = "BOOLEAN" -> parseBoolean(s)
      [] type = "UNSIGNED" -> {NumberOf[t] : t \in {t \in {s} \cap DOMAIN NumberOf : NumberOf[t] >= 0}}
      [] type = "STRING" -> {s}
      [] type = "REPORT_FORMAT" -> parseReportFormat(s)
      [] type = "NAME" -> {NameOf[t] : t \in {s} \cap DOMAIN NameOf}
      [] type = "FACE_URI" -> {s} \cap FaceUris
      [] type = "FACE_ID_OR_URI" -> IF s \in DOMAIN NumberOf THEN {[kind |-> "id", v |-> NumberOf[s]]}
                                    ELSE {[kind |-> "uri", v |-> t] : t \in {s} \cap FaceUris}
      [] type = "FACE_PERSISTENCY" -> parseFacePersistency(s)
      [] type = "ROUTE_ORIGIN" -> {s} \cap RouteOrigins

-----------------------------------------------------------------------------
(* Commands: addArg in the forms the modules use, addCommand and addAlias  *)

Arg(name, type, isRequired, allowPositional) ==
    [name |-> name, type |-> type, required |-> isRequired, positional |-> allowPositional]

Must(name, type) == Arg(name, type, TRUE, TRUE)
May(name, type) == Arg(name, type, FALSE, TRUE)
Option(name, type) == Arg(name, type, FALSE, FALSE)

Command(noun, verb, args) == <<noun, verb>> :> [verb |-> <<noun, verb>>, args |-> args]

\* Each noun's command that runs when no verb is given.
WithAlias(commands, noun, verb) == commands @@ (<<noun, "">> :> commands[<<noun, verb>>])

StatusCommands ==
    Command("status", "report", <<May("format", "REPORT_FORMAT")>>)
    @@ WithAlias(Command("status", "show", <<>>), "status", "show")
    @@ WithAlias(Command("channel", "list", <<>>), "channel", "list")
    @@ WithAlias(Command("fib", "list", <<>>), "fib", "list")
    @@ WithAlias(Command("cs", "info", <<>>), "cs", "info")

FaceCommands ==
    WithAlias(Command("face", "list", <<May("remote", "FACE_URI"), Option("local", "FACE_URI"),
                                        Option("scheme", "STRING")>>), "face", "list")
    @@ Command("face", "show", <<Must("id", "UNSIGNED")>>)
    @@ Command("face", "create",
          <<Must("remote", "FACE_URI"), May("persistency", "FACE_PERSISTENCY"), Option("local", "FACE_URI"),
            Option("reliability", "BOOLEAN"), Option("congestion-marking", "BOOLEAN"),
            Option("congestion-marking-interval", "UNSIGNED"),
            Option("default-congestion-threshold", "UNSIGNED"), Option("mtu", "STRING")>>)
    @@ Command("face", "destroy", <<Must("face", "FACE_ID_OR_URI")>>)

RouteCommands ==
    LET route == <<Must("prefix", "NAME"), Must("nexthop", "FACE_ID_OR_URI"), Option("origin", "ROUTE_ORIGIN")>>
    IN  WithAlias(Command("route", "list", <<May("nexthop", "FACE_ID_OR_URI"),
                                             Option("origin", "ROUTE_ORIGIN")>>), "route", "list")
        @@ Command("route", "show", <<Must("prefix", "NAME")>>)
        @@ Command("route", "add", route \o <<Option("cost", "UNSIGNED"), Option("no-inherit", "NONE"),
                                              Option("capture", "NONE"), Option("expires", "UNSIGNED")>>)
        @@ Command("route", "remove", route)

CsCommands ==
    Command("cs", "config", <<Option("capacity", "UNSIGNED"), Option("admit", "BOOLEAN"),
                              Option("serve", "BOOLEAN")>>)
    @@ Command("cs", "erase", <<Must("prefix", "NAME"), Option("count", "UNSIGNED")>>)

StrategyCommands ==
    WithAlias(Command("strategy", "list", <<>>), "strategy", "list")
    @@ Command("strategy", "show", <<Must("prefix", "NAME")>>)
    @@ Command("strategy", "set", <<Must("prefix", "NAME"), Must("strategy", "NAME")>>)
    @@ Command("strategy", "unset", <<Must("prefix", "NAME")>>)

Commands == StatusCommands @@ FaceCommands @@ RouteCommands @@ CsCommands @@ StrategyCommands

-----------------------------------------------------------------------------
(* Parsing *)

ArgNames(args) == {args[i].name : i \in DOMAIN args}
ArgNamed(args, name) == args[CHOOSE i \in DOMAIN args : args[i].name = name]
PositionalArgs(args) == SelectSeq(args, LAMBDA a : a.positional)

\* pos: the positional argument that is next; expects: the named argument whose value is.
Unparsed == [ca |-> <<>>, pos |-> 1, expects |-> "", ok |-> TRUE]

Accept(acc, arg, token, next) ==
    LET v == parseValue(arg.type, token) IN
    IF v = {} THEN [acc EXCEPT !.ok = FALSE]
    ELSE [acc EXCEPT !.ca = (arg.name :> CHOOSE x \in v : TRUE) @@ @, !.pos = next, !.expects = ""]

\* A token is the value of the argument before it, or an argument's name, or is given to
\* the first positional argument left that accepts it; one that is required must.
ParseToken(args, acc, token) ==
    LET ps    == PositionalArgs(args)
        stops == {k \in acc.pos .. Len(ps) : ps[k].required \/ parseValue(ps[k].type, token) # {}}
    IN  IF ~acc.ok THEN acc
        ELSE IF acc.expects # "" THEN Accept(acc, ArgNamed(args, acc.expects), token, acc.pos)
        ELSE IF token \in ArgNames(args)
        THEN IF ArgNamed(args, token).type = "NONE"
             THEN [acc EXCEPT !.ca = (token :> TRUE) @@ @, !.pos = Len(ps) + 1]
             ELSE [acc EXCEPT !.expects = token, !.pos = Len(ps) + 1]
        ELSE IF stops = {} THEN [acc EXCEPT !.ok = FALSE]
        ELSE Accept(acc, ps[Min(stops)], token, Min(stops) + 1)

\* A command that was not understood has no verb.
NoCommand == [verb |-> <<>>, ca |-> <<>>, line |-> <<>>]

ParseArgs(def, line) ==
    LET acc == FoldLeft(LAMBDA a, token : ParseToken(def.args, a, token), Unparsed, SubSeq(line, 3, Len(line)))
        missing == {a \in ToSet(def.args) : a.required /\ a.name \notin DOMAIN acc.ca}
    IN  IF acc.ok /\ acc.expects = "" /\ missing = {}
        THEN [verb |-> def.verb, ca |-> acc.ca, line |-> line] ELSE NoCommand

Token(line, i) == IF i <= Len(line) THEN line[i] ELSE ""

Parse(line) ==
    LET key == <<Token(line, 1), Token(line, 2)>>
    IN  IF key \in DOMAIN Commands THEN ParseArgs(Commands[key], line) ELSE NoCommand

HelpOptions == {"help", "--help", "-h"}

\* A line that is not understood and asks for help about a noun: man takes over.
AsksForManPage(line) ==
    LET asks == {i \in DOMAIN line : line[i] \in HelpOptions}
    IN  asks # {} /\ Len(line) > 1
=============================================================================
