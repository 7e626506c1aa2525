---------------------------- MODULE MCServerList ----------------------------
\* The instance of ServerList for TLC: three servers, two of them on one host.
EXTENDS ServerList

CONSTANTS s1, s2, s3, h1, h2

MCHost == (s1 :> h1) @@ (s2 :> h1) @@ (s3 :> h2)
=============================================================================
