--------------------------- MODULE MCNetworkInfra ---------------------------
(* Instances of NetworkInfra for TLC.                                      *)
EXTENDS NetworkInfra

MCVersions == {[kind |-> "unset", major |-> 0], [kind |-> "ga", major |-> 4],
               [kind |-> "ga", major |-> 5], [kind |-> "prerelease", major |-> 5]}
(* One before the hand-over, one the version does not tell.                *)
TwoVersions == {[kind |-> "ga", major |-> 4], [kind |-> "prerelease", major |-> 5]}

AnythingThere == [Resources -> {"none", "live"}]

EitherMark == BOOLEAN
=============================================================================
