---------------------------- MODULE MCStrategies ----------------------------
(* Small scenarios for module Strategies, one per strategy: downstreams A and B,  *)
(* upstreams U and V, one or two names.                                           *)
EXTENDS Strategies

CONSTANTS A, B, U, V,   \* faces
          n1, n2        \* names

Plain == [hop0 |-> FALSE, nd |-> FALSE, to |-> Nil]

Base == [kind |-> "best-route", names |-> {n1}, faces |-> {A, B, U, V}, local |-> {}, adHoc |-> {},
         scope |-> "global", fibUnder |-> TRUE, fib |-> <<U, V>>, downstreams |-> {A, B},
         tags |-> {Plain}, routable |-> {}, mortal |-> {}]

ScenariosValue ==
    {[Base EXCEPT !.kind = "best-route", !.fib = <<U, V, A>>],
     [Base EXCEPT !.kind = "multicast", !.fib = <<U>>, !.routable = {U, V}],
     [Base EXCEPT !.kind = "random", !.local = {A}, !.scope = "localhop",
                  !.tags = {Plain, [Plain EXCEPT !.hop0 = TRUE], [Plain EXCEPT !.to = V]}],
     [Base EXCEPT !.kind = "random", !.local = {A, V}, !.scope = "localhost"],
     [Base EXCEPT !.kind = "access", !.names = {n1, n2}, !.mortal = {A}],
     [Base EXCEPT !.kind = "asf", !.names = {n1, n2}, !.downstreams = {A}],
     [Base EXCEPT !.kind = "self-learning", !.local = {A}, !.fib = <<>>, !.adHoc = {V},
                  !.tags = {Plain, [Plain EXCEPT !.nd = TRUE]}]}

=============================================================================
