------------------------------ MODULE MCRelay ------------------------------
(* The configurations of relay.tasks that Relay is checked with.           *)
EXTENDS Relay

AllConfigs == {{"static", "pull"}, {"static", "push"}, {"pull"}}
PullOnly == {{"pull"}}

=============================================================================
