---------------------------- MODULE MCVPNServer ----------------------------
\* Instances of VPNServer for TLC: one server, and two clients that pin its
\* key, another one or none.
EXTENDS VPNServer, TLC

CONSTANTS c1, c2, ipA

MCClientKeys == {1}
MCServerKeys == {2}
MCClock      == {0, 2}
SharedIP     == (c1 :> ipA) @@ (c2 :> ipA)
=============================================================================
