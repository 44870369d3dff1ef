------------------------------ MODULE Autoreg ------------------------------
(***************************************************************************)
(* nfd-autoreg (tools/nfd-autoreg.cpp): a process beside the daemon that   *)
(* registers prefixes on the faces other hosts open.  It asks once for the *)
(* faces there are and follows face event notifications from then on.      *)
(***************************************************************************)
EXTENDS Integers, Sequences, FiniteSets

CONSTANTS
    FaceKinds,          \* what a face may be: [ip, multicast, local, ondemand, net]
    AutoregPrefixes, AllFacesPrefixes,
    Blacklist, Whitelist,               \* sets of networks
    MaxAutoregFaces     \* bound: faces created in one behaviour

VARIABLES
    table,      \* the daemon's face table: FaceId |-> [kind, alive, seen]
    dataset,    \* the request for the face dataset: "no", "sent", "served" or "done"
    listed,     \* the faces in it
    subscribed, \* the monitor's first Interest has reached the daemon
    notices,    \* notifications on their way: FaceId and kind
    requests    \* the rib/register requests sent, <<FaceId, prefix>>

autoregVars == <<table, dataset, listed, subscribed, notices, requests>>

hasAllowedSchema(k) == k.ip
isBlacklisted(k) == k.net \in Blacklist
isWhitelisted(k) == k.net \in Whitelist

\* Mutation: the lists decide about all prefixes.
PrefixesIfListed(k) ==
    IF hasAllowedSchema(k) /\ ~k.multicast /\ ~isBlacklisted(k) /\ isWhitelisted(k)
    THEN AllFacesPrefixes \cup IF k.ondemand THEN AutoregPrefixes ELSE {} ELSE {}

\* registerPrefixesIfNeeded: which prefixes a face gets.
PrefixesIfNeeded(k) ==
    IF hasAllowedSchema(k) /\ ~k.multicast
    THEN AllFacesPrefixes \cup
            IF k.ondemand /\ ~isBlacklisted(k) /\ isWhitelisted(k) THEN AutoregPrefixes ELSE {}
    ELSE {}

registerPrefixesForFace(id) == {id} \X PrefixesIfNeeded(table[id].kind)

AutoregInit == /\ table = <<>> /\ dataset = "no" /\ listed = {} /\ subscribed = FALSE
               /\ notices = <<>> /\ requests = {}

\* main: the dataset is asked for first, then the monitor starts.
StartAutoreg == /\ dataset = "no" /\ dataset' = "sent"
                /\ UNCHANGED <<table, listed, subscribed, notices, requests>>

\* The daemon makes the dataset, or the request fails, which is ignored.
ServeFaceDataset ==
    /\ dataset = "sent"
    /\ \/ /\ dataset' = "served"
          /\ listed' = {id \in DOMAIN table : table[id].alive}
          /\ table' = [id \in DOMAIN table |-> [table[id] EXCEPT !.seen = @ \/ table[id].alive]]
       \/ dataset' = "done" /\ UNCHANGED <<table, listed>>
    /\ UNCHANGED <<subscribed, notices, requests>>

Subscribe == /\ dataset \in {"served", "done"} /\ ~subscribed /\ subscribed' = TRUE
             /\ UNCHANGED <<table, dataset, listed, notices, requests>>

\* notifyFaceEvent: the daemon posts a notification, which a subscriber gets.
NotifyFaceEvent(id, kind) ==
    notices' = IF subscribed THEN Append(notices, [id |-> id, kind |-> kind]) ELSE notices

\* The daemon adds a face to its table.
FaceCreated == \E k \in FaceKinds :
    /\ Len(table) < MaxAutoregFaces
    /\ table' = Append(table, [kind |-> k, alive |-> TRUE, seen |-> subscribed])
    /\ NotifyFaceEvent(Len(table) + 1, "CREATED")
    /\ UNCHANGED <<dataset, listed, subscribed, requests>>

FaceDestroyed == \E id \in DOMAIN table :
    /\ table[id].alive
    /\ table' = [table EXCEPT ![id].alive = FALSE]
    /\ NotifyFaceEvent(id, "DESTROYED")
    /\ UNCHANGED <<dataset, listed, subscribed, requests>>

\* A face goes down or comes up again, while no other notification is on its way.
FaceStateChanges == \E id \in DOMAIN table, kind \in {"UP", "DOWN"} :
    /\ table[id].alive /\ subscribed /\ notices = <<>>
    /\ NotifyFaceEvent(id, kind)
    /\ UNCHANGED <<table, dataset, listed, subscribed, requests>>

\* startFetchingFaceStatusDataset: every face of the dataset, of whatever scope.
OnFaceDataset ==
    /\ dataset = "served"
    /\ dataset' = "done"
    /\ requests' = requests \cup UNION {registerPrefixesForFace(id) : id \in listed}
    /\ UNCHANGED <<table, listed, subscribed, notices>>

\* onNotification: other events, and local faces, are ignored.
OnFaceNotification ==
    /\ notices # <<>>
    /\ notices' = Tail(notices)
    /\ LET n == Head(notices) IN
       requests' = IF n.kind = "CREATED" /\ ~table[n.id].kind.local
                   THEN requests \cup registerPrefixesForFace(n.id) ELSE requests
    /\ UNCHANGED <<table, dataset, listed, subscribed>>

AutoregNext == \/ StartAutoreg \/ ServeFaceDataset \/ Subscribe \/ FaceCreated
               \/ FaceDestroyed \/ FaceStateChanges \/ OnFaceDataset \/ OnFaceNotification

AutoregSpec == AutoregInit /\ [][AutoregNext]_autoregVars

\* Once nfd-autoreg has caught up, every face opened by another host that was in the
\* dataset or announced has been given the prefixes meant for it: all-faces prefixes on
\* any unicast TCP or UDP face, and the others if it is on-demand and the lists let it
\* (registerPrefixesIfNeeded, onNotification and the dataset handler together).
AutoregCoversFaces ==
    dataset = "done" /\ notices = <<>> =>
        \A id \in DOMAIN table :
            LET k == table[id].kind IN
            table[id].seen /\ k.ip /\ ~k.multicast /\ ~k.local =>
                /\ \A p \in AllFacesPrefixes : <<id, p>> \in requests
                /\ \A p \in AutoregPrefixes \ AllFacesPrefixes : <<id, p>> \in requests <=>
                       k.ondemand /\ k.net \in Whitelist \ Blacklist

===========================================================================
