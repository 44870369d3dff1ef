------------------------------- MODULE Daemon -------------------------------
(***************************************************************************)
(* The nfd process: main(), NfdRunner's two threads with the mutex and the *)
(* condition variable between them, Nfd's start-up and reload, the         *)
(* sections of the configuration file, the privilege helper, the command   *)
(* authenticator, and the RIB service's own start-up.                      *)
(*                                                                         *)
(* A configuration file is a sequence of sections (records with a name),   *)
(* processed in file order.  A section holds only what its handler tells   *)
(* apart; whatever the face system does with face_system beyond raising    *)
(* privileges and offering a local transport is module FaceSystem's.       *)
(***************************************************************************)
EXTENDS Naturals, Sequences, FiniteSets, SequencesExt

CONSTANTS Contents,         \* the configuration files: a function to sequences of sections
          Unreadable,       \* those that cannot be opened or are not well-formed
          StartFiles,       \* those the daemon may start with
          MgmtModules,      \* modules with an authorization entry
          Users,            \* user names getpwnam_r knows
          RibCert,          \* the certificate the RIB's commands carry
          DefaultCsLimit,   \* DEFAULT_CS_MAX_PACKETS
          MaxEvents         \* bound: file edits, signals, commands, failures

ASSUME DaemonAssumption == /\ StartFiles \cup Unreadable \subseteq DOMAIN Contents
                           /\ {"fib", "cs"} \subseteq MgmtModules

VARIABLES main,     \* the main thread: pc, its return value, pending events
          rib,      \* the RIB thread: pc, the service's configuration
          ribIo,    \* the shared pointer is not null
          stopped,  \* io_contexts whose stop() was called
          retval,   \* the atomic return value
          d,        \* what the configuration and the commands have set
          file,     \* which of them is on disk
          events    \* events used so far

daemonVars == <<main, rib, ribIo, stopped, retval, d, file, events>>

NoAuth == [kind |-> "null", certs |-> {}]

\* The daemon before its configuration is read: constructors of Forwarder,
\* TablesConfigSection, CommandAuthenticator and the helper's statics.
\* A user stands for the user and the group, "root" for the one who starts the
\* daemon.  rules and startUser are history: the authorize blocks applied last,
\* the user first dropped to.
NewDaemon == [csLimit |-> 0, csPolicy |-> "lru", csEmpty |-> TRUE, unsolicited |-> "default",
              choices |-> <<>>, regions |-> {}, hopLimit |-> 0, configured |-> FALSE,
              auth |-> [m \in MgmtModules |-> NoAuth], normal |-> "root", euid |-> "root",
              logLevel |-> "INFO", rules |-> <<>>, startUser |-> "root"]

\* The loop over the items of a section or over the sections of a file; an
\* exception (err) ends it.
ForEach(body(_, _), acc, items) ==
  LET upTo[i \in 0 .. Len(items)] ==
        IF i = 0 THEN acc
        ELSE LET before == upTo[i - 1]
             IN IF before.err # "" THEN before ELSE body(before, items[i])
  IN upTo[Len(items)]

Ok(x) == [d |-> x, err |-> ""]
Fails(x, e) == [d |-> x, err |-> e]

-----------------------------------------------------------------------------
(* The privilege helper. *)

\* PrivilegeHelper::initialize runs in the dry run as well.
InitializePrivileges(user, x) ==
  IF user = "" THEN Ok(x)
  ELSE IF user \in Users THEN Ok([x EXCEPT !.normal = user])
  ELSE Fails(x, "privilege")

\* drop() and raise(): seteuid succeeds when the real user is root.
Drop(x) == [x EXCEPT !.euid = x.normal]
Raise(x) == [x EXCEPT !.euid = "root"]

\* Mutation: an exception of the elevated function skips the drop.
RunElevatedThrows(x, throws) == IF throws THEN Raise(x) ELSE Drop(Raise(x))

\* runElevated drops again whether or not the function throws.
RunElevated(x, throws) == Drop(Raise(x))

-----------------------------------------------------------------------------
(* The handlers of the sections; dry is isDryRun. *)

GeneralSection(s, dry, x) == InitializePrivileges(s.user, x)

LogSection(s, dry, x) ==
  IF s.level = "bad" THEN Fails(x, "error")
  ELSE Ok(IF dry THEN x ELSE [x EXCEPT !.logLevel = s.level])

\* Options left out of the section go back to the defaults of Config.
ForwarderSection(s, dry, x) ==
  IF s.hopLimit > 255 THEN Fails(x, "error")
  ELSE Ok(IF dry THEN x ELSE [x EXCEPT !.hopLimit = s.hopLimit])

\* StrategyChoice::insert alone finds out that the parameters are wrong; the
\* choices inserted before stay.
InsertChoice(acc, c) ==
  IF c.strategy = "badParameters" THEN Fails(acc.d, "error")
  ELSE Ok([acc.d EXCEPT !.choices = (c.prefix :> c.strategy) @@ @])

\* processStrategyChoiceSection: unknown strategies and prefixes that occur twice
\* are found first; then the choices are applied in the order of the prefixes
\* (a std::map), which are numbered here.
StrategyChoiceSection(s, dry, x) ==
  LET twice == \E i, j \in DOMAIN s : i # j /\ s[i].prefix = s[j].prefix
      ordered == SetToSortSeq(Range(s), LAMBDA a, b : a.prefix < b.prefix)
  IN IF twice \/ \E c \in Range(s) : c.strategy = "unknown" THEN Fails(x, "error")
     ELSE IF dry THEN Ok(x)
     ELSE ForEach(InsertChoice, Ok(x), ordered)

\* The strategies and the regions are applied before the content store's
\* options; the policy only to an empty content store.
TablesSection(s, dry, x) ==
  LET chosen == StrategyChoiceSection(s.choices, dry, x)
      y == chosen.d
  IN IF s.policy = "unknown" \/ s.unsolicited = "unknown" THEN Fails(x, "error")
     ELSE IF chosen.err # "" THEN chosen
     ELSE IF dry THEN Ok(y)
     ELSE Ok([y EXCEPT !.regions = IF s.regions = {} THEN @ ELSE s.regions,
                       !.csLimit = IF s.csMax = 0 THEN DefaultCsLimit ELSE s.csMax,
                       !.csPolicy = IF s.policy # "" /\ x.csEmpty THEN s.policy ELSE @,
                       !.unsolicited = IF s.unsolicited = "" THEN "default" ELSE s.unsolicited,
                       !.configured = TRUE])

EnsureConfigured(x) ==
  IF x.configured THEN x
  ELSE [x EXCEPT !.csLimit = DefaultCsLimit, !.unsolicited = "default", !.configured = TRUE]

\* "any" replaces the validator; a certificate becomes an anchor of whichever
\* validator is there, an accept-all one included.
Grant(a, cert) == IF cert = "any" THEN [kind |-> "any", certs |-> {}]
                  ELSE [a EXCEPT !.certs = @ \cup {cert}]

AuthorizeBlock(acc, rule) ==
  IF rule.cert = "missing" \/ ~(rule.grants \subseteq MgmtModules) THEN [acc EXCEPT !.err = "error"]
  ELSE [acc EXCEPT !.auth = [m \in MgmtModules |->
                               IF m \in rule.grants THEN Grant(@[m], rule.cert) ELSE @[m]]]

\* All validators are reset before the blocks are looked at.
AuthorizationsSection(s, dry, x) ==
  LET reset == [m \in MgmtModules |-> [kind |-> "certs", certs |-> {}]]
      acc == ForEach(AuthorizeBlock, [auth |-> reset, err |-> IF s.rules = <<>> THEN "error" ELSE ""], s.rules)
  IN [d |-> IF dry THEN x ELSE [x EXCEPT !.auth = acc.auth, !.rules = s.rules], err |-> acc.err]

\* PcapHelper::activate for an Ethernet face, bindToDevice for a multicast UDP
\* face: the step that needs privileges is not taken, succeeds or throws.
PcapActivate(how, x) == IF how = "none" THEN x ELSE RunElevated(x, how = "throws")
BindToDevice(how, x) == IF how = "none" THEN x ELSE RunElevated(x, how = "throws")

\* The factories in the order of their names: Ethernet before UDP.  They survive
\* the exception of a multicast face they cannot make, not that of a channel
\* they may not listen on.
FaceSystemSection(s, dry, x) ==
  IF s.bad THEN Fails(x, "error")
  ELSE IF dry THEN Ok(x)
  ELSE LET y == BindToDevice(s.udp, PcapActivate(s.ether, x))
       IN IF s.denied THEN Fails(y, "permission") ELSE Ok(y)

\* The subscriptions of Nfd: rib and log sections are skipped
\* (ignoreRibAndLogSections), any other unknown section is an error.
NfdSection(dry, x, s) ==
  CASE s.name = "general" -> GeneralSection(s, dry, x)
    [] s.name = "forwarder" -> ForwarderSection(s, dry, x)
    [] s.name = "tables" -> TablesSection(s, dry, x)
    [] s.name = "authorizations" -> AuthorizationsSection(s, dry, x)
    [] s.name = "face_system" -> FaceSystemSection(s, dry, x)
    [] s.name \in {"rib", "log"} -> Ok(x)
    [] OTHER -> Fails(x, "error")

\* Those of configureLogging and of reloadConfigFileFaceSection, with
\* ignoreUnknownSection for the others.
LogSectionOnly(dry, x, s) == IF s.name = "log" THEN LogSection(s, dry, x) ELSE Ok(x)
FaceSectionOnly(dry, x, s) == IF s.name = "face_system" THEN FaceSystemSection(s, dry, x) ELSE Ok(x)

\* The subscriber a ConfigFile calls for a section; config says whose it is.
Subscriber(config, dry, x, s) ==
  CASE config = "nfd" -> NfdSection(dry, x, s)
    [] config = "log" -> LogSectionOnly(dry, x, s)
    [] config = "face_system" -> FaceSectionOnly(dry, x, s)

Process(config, dry, x) ==
  ForEach(LAMBDA acc, s : Subscriber(config, dry, acc.d, s), Ok(x), Contents[file])

\* ConfigFile::parse reads the file that is there now.
ParseFile(config, dry, x) ==
  IF file \in Unreadable THEN Fails(x, "error") ELSE Process(config, dry, x)

\* configureLogging parses the file twice with the log handler alone.
ConfigureLogging(x) ==
  LET first == ParseFile("log", TRUE, x)
  IN IF first.err # "" THEN first ELSE ParseFile("log", FALSE, first.d)

-----------------------------------------------------------------------------
(* The threads. *)

DaemonInit ==
  /\ main = [pc |-> "dry", term |-> FALSE, hup |-> FALSE, netChange |-> FALSE]
  /\ rib = [pc |-> "none", localhop |-> FALSE, propagate |-> FALSE, nlsr |-> FALSE, registered |-> FALSE, failed |-> FALSE]
  /\ ribIo = FALSE
  /\ stopped = {}
  /\ retval = 0
  /\ d = NewDaemon
  /\ file \in StartFiles
  /\ events = 0

MainGoes(pc) == main' = [main EXCEPT !.pc = pc]

\* main() after initialize() has thrown: 4 for a PrivilegeHelper::Error and for
\* a system_error that says EPERM or EACCES.
ExitCode(err) == IF err \in {"privilege", "permission"} THEN 4 ELSE 1

\* Nfd::initialize up to the dry run: logging, the dry run of the other
\* sections.  main() turns an exception into the exit code.
InitializeDry ==
  LET logged == ConfigureLogging(d)
      r == IF logged.err # "" THEN logged ELSE ParseFile("nfd", TRUE, logged.d)
  IN /\ main.pc = "dry"
     /\ d' = r.d
     /\ IF r.err = "" THEN MainGoes("apply") /\ UNCHANGED retval
        ELSE MainGoes("exit") /\ retval' = ExitCode(r.err)
     /\ UNCHANGED <<rib, ribIo, stopped, file, events>>

\* The file is read again and applied; privileges are dropped at the end.
\* Then NfdRunner::run starts the RIB thread.
InitializeApply ==
  LET r == ParseFile("nfd", FALSE, d)
  IN /\ main.pc = "apply"
     /\ IF r.err = ""
        THEN /\ d' = [Drop(EnsureConfigured(r.d)) EXCEPT !.startUser = r.d.normal]
             /\ MainGoes("wait")
             /\ rib' = [rib EXCEPT !.pc = "assign"]
             /\ UNCHANGED retval
        ELSE /\ d' = r.d /\ MainGoes("exit") /\ retval' = ExitCode(r.err) /\ UNCHANGED rib
     /\ UNCHANGED <<ribIo, stopped, file, events>>

\* cv.wait: the predicate is looked at on entry and after each notification
\* (or spuriously); while it is false the thread is blocked.
WaitForRib ==
  /\ main.pc \in {"wait", "woken"}
  /\ MainGoes(IF ribIo THEN "serve" ELSE "blocked")
  /\ UNCHANGED <<rib, ribIo, stopped, retval, d, file, events>>

\* Nfd::reloadConfigFile: logging, then one real pass with no dry run, and no
\* ensureConfigured.
ReloadConfigFile(x) ==
  LET logged == ConfigureLogging(x)
  IN IF logged.err # "" THEN logged ELSE ParseFile("nfd", FALSE, logged.d)

\* The exception of a handler leaves io_context::run; run() tells only a
\* PrivilegeHelper::Error from the others.
HandlerEnds(r, m) ==
  /\ d' = r.d
  /\ main' = [m EXCEPT !.pc = IF r.err = "" THEN "serve" ELSE "stop"]
  /\ retval' = IF r.err = "" THEN retval ELSE IF r.err = "privilege" THEN 4 ELSE 1
  /\ UNCHANGED <<rib, ribIo, stopped, file, events>>

Serving == main.pc = "serve" /\ "main" \notin stopped

\* SIGHUP.
Reload ==
  /\ Serving /\ main.hup
  /\ HandlerEnds(ReloadConfigFile(d), [main EXCEPT !.hup = FALSE])

\* Five seconds after the last network change: the face_system section alone.
ReloadConfigFileFaceSection ==
  /\ Serving /\ main.netChange
  /\ HandlerEnds(ParseFile("face_system", FALSE, d), [main EXCEPT !.netChange = FALSE])

\* SIGINT or SIGTERM.
Terminate ==
  /\ Serving /\ main.term
  /\ stopped' = stopped \cup {"main"}
  /\ main' = [main EXCEPT !.term = FALSE]
  /\ UNCHANGED <<rib, ribIo, retval, d, file, events>>

\* io_context::run returns once stopped.
RunReturns ==
  /\ main.pc = "serve" /\ "main" \in stopped
  /\ MainGoes("stop")
  /\ UNCHANGED <<rib, ribIo, stopped, retval, d, file, events>>

\* Under the lock: stop the RIB's io_context if its pointer is still there.
StopRib ==
  /\ main.pc = "stop"
  /\ stopped' = IF ribIo THEN stopped \cup {"rib"} ELSE stopped
  /\ ribIo' = FALSE
  /\ MainGoes("join")
  /\ UNCHANGED <<rib, retval, d, file, events>>

Join ==
  /\ main.pc = "join" /\ rib.pc = "done"
  /\ MainGoes("exit")
  /\ UNCHANGED <<rib, ribIo, stopped, retval, d, file, events>>

-----------------------------------------------------------------------------
(* The RIB thread. *)

RibGoes(pc) == rib' = [rib EXCEPT !.pc = pc]

\* An exception leaves the try block; failed is history.
RibThrows == rib' = [rib EXCEPT !.pc = "caught", !.failed = TRUE]

AssignRibIo ==
  /\ rib.pc = "assign"
  /\ ribIo' = TRUE
  /\ RibGoes("notify")
  /\ UNCHANGED <<main, stopped, retval, d, file, events>>

NotifyAll ==
  /\ rib.pc = "notify"
  /\ RibGoes("construct")
  /\ main' = IF main.pc = "blocked" THEN [main EXCEPT !.pc = "woken"] ELSE main
  /\ UNCHANGED <<ribIo, stopped, retval, d, file, events>>

Named(sections, name) == SelectSeq(sections, LAMBDA s : s.name = name)

\* loadConfigSectionFromFile reads the file once more.
LoadsConfigSection == file \notin Unreadable

\* makeLocalNfdTransport looks into the file for a way to reach NFD.
HasLocalTransport(sections) ==
  LET fs == Named(sections, "face_system") IN fs # <<>> /\ fs[1].local

\* Service::checkConfig.
RibConfigIsValid(sections) ==
  \A s \in Range(Named(sections, "rib")) : ~s.bad /\ ~(s.localhop /\ s.propagate)

\* Service::applyConfig: localhop stays enabled once it is, the readvertisers
\* come and go with their options.
ApplyRibConfig(acc, s) ==
  [acc EXCEPT !.r.localhop = @ \/ s.localhop, !.r.propagate = s.propagate, !.r.nlsr = s.nlsr]

\* The Service's constructor: the file again, its rib sections checked and
\* applied, the top prefix and local fields asked of NFD.  A KeyChain that
\* cannot be opened, or a section in error, throws.
ConstructService ==
  /\ rib.pc = "construct"
  /\ \/ /\ LoadsConfigSection /\ HasLocalTransport(Contents[file]) /\ RibConfigIsValid(Contents[file])
        /\ rib' = [ForEach(ApplyRibConfig, [r |-> rib, err |-> ""], Named(Contents[file], "rib")).r
                   EXCEPT !.pc = "run"]
     \/ RibThrows
  /\ UNCHANGED <<main, ribIo, stopped, retval, d, file, events>>

\* CommandAuthenticator: a null validator rejects, "any" accepts.
Authorized(module, cert) ==
  \/ d.auth[module].kind = "any"
  \/ d.auth[module].kind = "certs" /\ cert \in d.auth[module].certs

\* registerTopPrefix and enableLocalFields: the answer to the commands; a
\* refusal throws in the RIB thread.
RibCommandAnswered ==
  /\ rib.pc = "run" /\ "rib" \notin stopped /\ ~rib.registered
  /\ Serving
  /\ IF Authorized("fib", RibCert) THEN rib' = [rib EXCEPT !.registered = TRUE] ELSE RibThrows
  /\ UNCHANGED <<main, ribIo, stopped, retval, d, file, events>>

\* Mutation: the exception is only logged and counted.
StopMainNever ==
  /\ rib.pc = "caught"
  /\ retval' = 1
  /\ RibGoes("clear")
  /\ UNCHANGED <<main, ribIo, stopped, d, file, events>>

\* The catch clause.
StopMain ==
  /\ rib.pc = "caught"
  /\ retval' = 1
  /\ stopped' = stopped \cup {"main"}
  /\ RibGoes("clear")
  /\ UNCHANGED <<main, ribIo, d, file, events>>

RibRunReturns ==
  /\ rib.pc = "run" /\ "rib" \in stopped
  /\ RibGoes("clear")
  /\ UNCHANGED <<main, ribIo, stopped, retval, d, file, events>>

\* Mutation: the pointer outlives the thread's io_context.
KeepRibIo ==
  /\ rib.pc = "clear"
  /\ RibGoes("done")
  /\ UNCHANGED <<main, ribIo, stopped, retval, d, file, events>>

\* The last block of the thread; its io_context, a thread_local, goes with it.
ClearRibIo ==
  /\ rib.pc = "clear"
  /\ ribIo' = FALSE
  /\ RibGoes("done")
  /\ UNCHANGED <<main, stopped, retval, d, file, events>>

-----------------------------------------------------------------------------
(* What happens around the process, MaxEvents times. *)

Event == events < MaxEvents /\ events' = events + 1

\* The connection to NFD breaks or a handler throws.
RibFails ==
  /\ Event /\ rib.pc = "run"
  /\ RibThrows
  /\ UNCHANGED <<main, ribIo, stopped, retval, d, file>>

EditFile ==
  /\ Event
  /\ file' \in DOMAIN Contents \ {file}
  /\ UNCHANGED <<main, rib, ribIo, stopped, retval, d>>

Signal ==
  /\ Event /\ main.pc # "exit"
  /\ \/ main' = [main EXCEPT !.term = TRUE]
     \/ main' = [main EXCEPT !.hup = TRUE]
     \/ main.pc \notin {"dry", "apply"} /\ main' = [main EXCEPT !.netChange = TRUE]
  /\ UNCHANGED <<rib, ribIo, stopped, retval, d, file>>

SpuriousWakeup ==
  /\ main.pc = "blocked"
  /\ MainGoes("woken")
  /\ UNCHANGED <<rib, ribIo, stopped, retval, d, file, events>>

\* CsManager::changeConfig with a capacity, from an authorized signer.
ChangeCsConfig ==
  /\ Event /\ Serving /\ Authorized("cs", RibCert)
  /\ \E n \in {0, 1} : d' = [d EXCEPT !.csLimit = n]
  /\ UNCHANGED <<main, rib, ribIo, stopped, retval, file>>

\* A Data packet is admitted, or the content store is emptied by commands.
ContentStoreChanges ==
  /\ Event /\ Serving
  /\ d' = [d EXCEPT !.csEmpty = ~@]
  /\ (d.csEmpty => d.csLimit > 0)
  /\ UNCHANGED <<main, rib, ribIo, stopped, retval, file>>

MainSteps == WaitForRib \/ RunReturns \/ StopRib \/ Join

Handlers == InitializeDry \/ InitializeApply \/ Reload \/ ReloadConfigFileFaceSection \/ Terminate

RibSteps == AssignRibIo \/ NotifyAll \/ ConstructService \/ RibCommandAnswered \/ StopMain
            \/ RibRunReturns \/ ClearRibIo

DaemonNext == MainSteps \/ Handlers \/ RibSteps \/ RibFails \/ EditFile \/ Signal \/ SpuriousWakeup
              \/ ChangeCsConfig \/ ContentStoreChanges

\* The operating system runs both threads; nothing makes files change, signals
\* come or services fail.  Once its io_context is stopped the main thread starts
\* no handler, so no property needs fairness of the handlers.
DaemonSpec == DaemonInit /\ [][DaemonNext]_daemonVars /\ WF_daemonVars(MainSteps) /\ WF_daemonVars(RibSteps)

-----------------------------------------------------------------------------
(* Properties. *)

\* Whenever the main thread may call ribIo->stop(), the RIB thread that owns
\* the io_context has not ended: the pointer is cleared, under the lock, before
\* the thread_local is destroyed (main.cpp, "ribIo is guaranteed to be alive at
\* this point"), however the failure of one thread meets the shutdown of the
\* other.
StopsLiveContext == ribIo => rib.pc \notin {"none", "assign", "done"}

\* Who may use a management module is what the authorizations section applied
\* last says, in whatever order its blocks come: everybody when some block
\* grants it to "any", else the certificates its blocks name, else nobody.
AuthorizesAsConfigured ==
  \A m \in MgmtModules :
    LET rules == {r \in Range(d.rules) : m \in r.grants}
        named == {r.cert : r \in rules} \ {"any"}
    IN \A c \in named \cup {RibCert} :
         Authorized(m, c) <=> (c \in named \/ \E r \in rules : r.cert = "any")

\* A forwarder that serves authorizes whom its configuration file says, through
\* reloads that succeed and ones that fail; and when it dropped root's privileges
\* at the start it never serves with them again: the end of every elevated
\* function drops them, also when the function throws and the factory goes on.
ServesAsConfigured ==
  main.pc = "serve" => AuthorizesAsConfigured /\ (d.euid = "root" => d.startUser = "root")

\* When the RIB manager fails after the main thread has seen it start, or the
\* main thread is told to stop, the whole process ends (main.cpp: "when RIB
\* manager fails, NFD will be terminated"), with an exit code that tells of the
\* failure, even when the main thread was shutting down for another reason.
FailureEndsBoth ==
  /\ (rib.pc = "caught" /\ main.pc \in {"serve", "stop", "join"})
       ~> (main.pc = "exit" /\ retval # 0)
  /\ (main.pc = "serve" /\ "main" \in stopped) ~> (main.pc = "exit" /\ rib.pc = "done")

\* The same without the condition on the main thread: "When either of the
\* daemons fails, execution of non-failed daemon will be terminated as well."
EitherFailureEndsBoth == (rib.pc = "caught") ~> (main.pc = "exit")

=============================================================================
