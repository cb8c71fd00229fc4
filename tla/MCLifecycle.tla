---------------------------- MODULE MCLifecycle ----------------------------
(* Instances of Lifecycle for TLC. *)
EXTENDS Lifecycle

CONSTANTS dht, gns, cadet, cadet2

\* One service of each kind, and two whose disconnection calls the user.
AllKinds == {dht, gns, cadet, cadet2}
Queueing == {gns}
WithChannels == {cadet, cadet2}
=============================================================================
