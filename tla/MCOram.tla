------------------------------- MODULE MCOram -------------------------------
(* Small instances of Oram for TLC, and the arithmetic of P at full size.  *)
EXTENDS Oram

\* The geometry facts of OramGeometry for the trees the daemon builds: 11
\* levels for the 1024 blocks of the PIT, 13 for the 4096 of the CS, and 14
\* should the floating-point logarithm round up.  The buckets of a level are
\* the interval 2^l - 1 .. 2^(l+1) - 2, so levels do not overlap.
ASSUME DeployedGeometry ==
  \A n \in {11, 13, 14} : \A l \in 0 .. n - 1 : \A leaf \in 0 .. 2^(n - 1) - 1 :
    BucketAt(n, leaf, l) \in 2^l - 1 .. 2^(l + 1) - 2
=============================================================================
