----------------------------- MODULE MCForwarder -----------------------------
(***************************************************************************)
(* Interests: "any" is for the empty name with CanBePrefix, "fresh" for    *)
(* /localhost/x with MustBeFresh, "pub" for /x with MustBeFresh.  Data:    *)
(* "lx" is /localhost/x and "x" is /x.                                     *)
(*                                                                         *)
(* A behaviour is of one of two scenarios: "pub" alone, asked for by an    *)
(* application and a remote node with several Nonces and lifetimes, with   *)
(* an upstream that may go away; or "any" and "fresh", which one packet    *)
(* satisfies, asked for by an application and over an ad hoc link.         *)
(***************************************************************************)
EXTENDS Forwarder, TLC

MCNameOf == [i \in Interests |->
    CASE i = "any" -> "/" [] i = "fresh" -> "/localhost/x" [] i = "pub" -> "/x"]

MCScope == [i \in Interests |-> IF i = "fresh" THEN "localhost" ELSE "global"]

MCMatches == [d \in Data |-> Interests \cap {"any", IF d = "lx" THEN "fresh" ELSE "pub"}]

VARIABLE scenario

mcVars == <<fwVars, scenario>>

(* The Interests that come in a scenario: Interest, Nonce, face, lifetime. *)
(* The remote node of the first one does not wait as long as the others.   *)
Arrivals == [one |-> ({"pub"} \X Nonces \X {"app"} \X (1 .. MaxLifetime))
                       \cup ({"pub"} \X Nonces \X {"remote"} \X {1}),
             two |-> {"any", "fresh"} \X {"n1"} \X {"app", "adhoc"} \X {1}]

MCInit == FwInit /\ scenario \in {"one", "two"}

MCNext ==
    /\ \/ \E a \in Arrivals[scenario] : ReceiveInterest(a[1], a[2], a[3], a[4])
       \/ FwEvent
    /\ scenario = "two" => faces' = Faces /\ cs' = {}
    /\ UNCHANGED scenario

(* Time passes, and the scheduler runs a timer that is due.                *)
MCSpec ==
    /\ MCInit
    /\ [][MCNext]_mcVars
    /\ WF_mcVars(Tick /\ UNCHANGED scenario)
    /\ \A i \in Interests : WF_mcVars(Finalize(i) /\ UNCHANGED scenario)
=============================================================================
