------------------------------ MODULE Autoconf ------------------------------
(***************************************************************************)
(* ndn-autoconfig (tools/ndn-autoconfig): finds a hub by four stages tried *)
(* in order, connects to it and registers prefixes there; once, or as a    *)
(* daemon that starts over after network changes and every hour.           *)
(***************************************************************************)
EXTENDS Integers, Sequences, FiniteSets

CONSTANTS
    HubPrefixes,        \* HUB_PREFIXES: a sequence of names
    MaxMcastFaces,      \* bound: multi-access faces of the daemon
    MaxRuns             \* bound: times the procedure is started

MulticastDiscovery == 1
GuessFromIdentityName == 4
Stages == MulticastDiscovery .. GuessFromIdentityName

VARIABLES
    isDaemon, running, exitStatus,
    inProgress,     \* m_isInProgress of each stage
    disc,           \* MulticastDiscovery: what it waits for, and its counters
    hubs,           \* run |-> where connect and registerPrefixes of that run are
    runEvt,         \* the event scheduled by the daemon, "none" if there is none
    nRuns           \* runs started so far

autoconfVars == <<isDaemon, running, exitStatus, inProgress, disc, hubs, runEvt, nRuns>>

Idle == [at |-> "idle", nRegs |-> 0, ok |-> 0, failed |-> 0]

\* What the stages that answer at once may come to.  provideHubFaceUri: a FaceUri that
\* parses is a hub, another a failure.
ProvideHubFaceUri == {"hub", "fails"}

\* Without an answer, or without a host in the answer, an HttpException is a failure.
FchOutcomes == {"fails"} \cup ProvideHubFaceUri

\* The last stage throws when there is no default identity.
IdentityOutcomes == {"throws", "fails"} \cup ProvideHubFaceUri

Outcomes == {o \in [Stages -> {"hub", "fails", "throws"}] :
                /\ o[MulticastDiscovery] = "fails" /\ o[2] \in {"fails"} \cup ProvideHubFaceUri
                /\ o[3] \in FchOutcomes /\ o[GuessFromIdentityName] \in IdentityOutcomes}

\* onFailure of each stage starts the next one.
NextOutcome(o) ==
    LET rest == {s \in Stages : o[s] # "fails"} IN
    IF rest = {} THEN "fails" ELSE o[CHOOSE s \in rest : \A r \in rest : s <= r]

AutoconfInit ==
    /\ isDaemon \in BOOLEAN /\ running = TRUE /\ exitStatus = 0
    /\ inProgress = [s \in Stages |-> FALSE] /\ disc = Idle /\ hubs = <<>>
    /\ runEvt = "initial" /\ nRuns = 0

\* An exception leaves main with exit code 1.
Throw == /\ running' = FALSE /\ exitStatus' = 1
         /\ UNCHANGED <<isDaemon, inProgress, disc, hubs, runEvt>>

\* Mutation: a procedure that fails is not scheduled again.
OnCompleteIfSuccess(isSuccess) ==
    IF isDaemon THEN runEvt' = (IF isSuccess THEN "hour" ELSE runEvt) /\ UNCHANGED exitStatus
    ELSE exitStatus' = (IF isSuccess THEN 0 ELSE 1) /\ UNCHANGED runEvt

\* onComplete: the daemon schedules the next run, in place of any that was scheduled.
OnComplete(isSuccess) ==
    IF isDaemon THEN runEvt' = "hour" /\ UNCHANGED exitStatus
    ELSE exitStatus' = (IF isSuccess THEN 0 ELSE 1) /\ UNCHANGED runEvt

\* Procedure::runOnce starts the first stage.
RunOnce ==
    /\ running /\ runEvt # "none" /\ nRuns < MaxRuns
    /\ runEvt = "hour" => ~inProgress[MulticastDiscovery]
    /\ nRuns' = nRuns + 1
    /\ IF inProgress[MulticastDiscovery] THEN Throw
       ELSE /\ inProgress' = [inProgress EXCEPT ![MulticastDiscovery] = TRUE]
            /\ disc' = [Idle EXCEPT !.at = "query"]
            /\ runEvt' = "none"
            /\ UNCHANGED <<isDaemon, running, exitStatus, hubs>>

Unmoved == UNCHANGED <<isDaemon, nRuns>>

Ended == disc' = Idle /\ inProgress' = [inProgress EXCEPT ![MulticastDiscovery] = FALSE]

Connect == hubs' = Append(hubs, [at |-> "canonize", registered |-> 0])

\* fail of the first stage: the others run inside its onFailure, one in the other.
Fail(o) ==
    /\ nRuns' = nRuns
    /\ \/ NextOutcome(o) = "throws" /\ Throw
       \/ /\ NextOutcome(o) = "hub" /\ Connect /\ Ended
          /\ UNCHANGED <<isDaemon, running, exitStatus, runEvt>>
       \/ /\ NextOutcome(o) = "fails" /\ OnComplete(FALSE) /\ Ended
          /\ UNCHANGED <<isDaemon, running, hubs>>

Wait(d) == disc' = d /\ Unmoved /\ UNCHANGED <<running, exitStatus, inProgress, hubs, runEvt>>

\* doStart, registerHubDiscoveryPrefix
QueryAnswered == \E n \in 0 .. MaxMcastFaces :
    /\ running /\ disc.at = "query"
    /\ IF n = 0 THEN \E o \in Outcomes : Fail(o)
       ELSE Wait([disc EXCEPT !.at = "register", !.nRegs = n])

\* afterReg
RegAnswered == \E good \in BOOLEAN :
    LET d == [disc EXCEPT !.ok = @ + IF good THEN 1 ELSE 0, !.failed = @ + IF good THEN 0 ELSE 1]
    IN /\ running /\ disc.at = "register"
       /\ IF d.ok + d.failed < d.nRegs THEN Wait(d)
          ELSE IF d.ok > 0 THEN Wait([d EXCEPT !.at = "strategy"])
          ELSE \E o \in Outcomes : Fail(o)

\* setStrategy
StrategyAnswered == /\ running /\ disc.at = "strategy"
                    /\ \/ Wait([disc EXCEPT !.at = "hub"])
                       \/ \E o \in Outcomes : Fail(o)

\* requestHubData: Data with a FaceUri; Data without one, a Nack or a timeout.
HubDataAnswered ==
    /\ running /\ disc.at = "hub"
    /\ \/ Connect /\ Ended /\ Unmoved /\ UNCHANGED <<running, exitStatus, runEvt>>
       \/ \E o \in Outcomes : Fail(o)

\* Procedure::connect and registerPrefixes: one answer after the other.
HubStep(r, isGood) ==
    LET h == hubs[r]
        next == IF h.at = "canonize" THEN [h EXCEPT !.at = "create"]
                ELSE IF h.at = "create" THEN [h EXCEPT !.at = "register"]
                ELSE [h EXCEPT !.registered = @ + 1]
    IN /\ running /\ h.at # "done"
       /\ IF ~isGood
          THEN hubs' = [hubs EXCEPT ![r].at = "done"] /\ OnComplete(FALSE)
          ELSE IF next.registered = Len(HubPrefixes)
          THEN hubs' = [hubs EXCEPT ![r] = [next EXCEPT !.at = "done"]] /\ OnComplete(TRUE)
          ELSE hubs' = [hubs EXCEPT ![r] = next] /\ UNCHANGED <<exitStatus, runEvt>>
       /\ Unmoved /\ UNCHANGED <<running, inProgress, disc>>

\* runDaemon: a network change schedules a run after a dampening period.
NetworkStateChanged ==
    /\ isDaemon /\ running
    /\ runEvt' = "netmon"
    /\ UNCHANGED <<isDaemon, running, exitStatus, inProgress, disc, hubs, nRuns>>

TerminateSignal ==
    /\ isDaemon /\ running
    /\ running' = FALSE
    /\ UNCHANGED <<isDaemon, exitStatus, inProgress, disc, hubs, runEvt, nRuns>>

HubsDone == \A r \in DOMAIN hubs : hubs[r].at = "done"

\* Without --daemon, processEvents returns when nothing is pending.
OneShotReturns ==
    /\ ~isDaemon /\ running /\ runEvt = "none" /\ disc.at = "idle" /\ HubsDone
    /\ running' = FALSE
    /\ UNCHANGED <<isDaemon, exitStatus, inProgress, disc, hubs, runEvt, nRuns>>

AutoconfNext ==
    \/ RunOnce \/ QueryAnswered \/ RegAnswered \/ StrategyAnswered \/ HubDataAnswered
    \/ \E r \in DOMAIN hubs, isGood \in BOOLEAN : HubStep(r, isGood)
    \/ NetworkStateChanged \/ TerminateSignal \/ OneShotReturns

AutoconfSpec == AutoconfInit /\ [][AutoconfNext]_autoconfVars

\* As long as the daemon runs, it is looking for a hub or will look again: no sequence of
\* failing stages, failing commands and network changes leaves it with nothing to do
\* (onComplete is reached on every path of procedure.cpp and stage.cpp).
DaemonKeepsTrying ==
    isDaemon /\ running => runEvt # "none" \/ disc.at # "idle" \/ ~HubsDone
===========================================================================
