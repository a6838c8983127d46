---------------------------- MODULE MCSafeFetcher ----------------------------
(* A small instance of SafeFetcher: two fetches of up to two connections each, *)
(* one slot per host and two in all.                                          *)
EXTENDS SafeFetcher

CONSTANTS f1, f2, hostX, hostY, s1, s2, s3

MCTwoFetches == {f1, f2}
MCHosts == {hostX, hostY}
MCResponsive == {hostY}
MCTargets == {[host |-> hostX, scheme |-> "https", allowed |-> TRUE],
              [host |-> hostY, scheme |-> "https", allowed |-> TRUE],
              [host |-> hostY, scheme |-> "http", allowed |-> TRUE],
              [host |-> hostY, scheme |-> "http", allowed |-> FALSE]}
MCSemaphores == {s1, s2, s3}
=============================================================================
