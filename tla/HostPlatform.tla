---------------------------- MODULE HostPlatform ----------------------------
\* What the two classes of server/nat.py have in common: each looks once at
\* platform.system(), and takes all but "Windows" for Linux.
VARIABLE platform
=============================================================================
