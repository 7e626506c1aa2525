---------------------------- MODULE TUNInterface ----------------------------
(***************************************************************************)
(* TUNInterface of client/wintun.py, as its callers see it: the descriptor *)
(* that it opens on Linux, and the adapter and the session of the driver   *)
(* that WintunAdapter holds on Windows.  Interfaces are numbered; each     *)
(* call below either does what it is for or raises.                        *)
(*                                                                         *)
(* stop() is left out: the program does not call it.                       *)
(***************************************************************************)
VARIABLES
  platform,  \* os.name: "nt" or another
  fds,       \* the interfaces whose descriptor is open (Linux)
  adapters,  \* the interfaces with an adapter (Windows)
  sessions   \* the interfaces with a session (Windows)

tunVars == <<platform, fds, adapters, sessions>>

TUNInit ==
  /\ platform \in {"nt", "posix"}
  /\ fds = {} /\ adapters = {} /\ sessions = {}

\* The interface i can be read and written.
Usable(i) == IF platform = "nt" THEN i \in sessions ELSE i \in fds

\* What the interface i holds.
Holds(i) == i \in fds \cup adapters \cup sessions

\* The constructor: the DLL is loaded, or the device is opened and named.
Construct(i) ==
  /\ fds' = IF platform = "nt" THEN fds ELSE fds \cup {i}
  /\ UNCHANGED <<platform, adapters, sessions>>

\* It raises without a DLL or a device; and when the device cannot be named,
\* with its descriptor open.
ConstructFails(i) ==
  /\ fds' \in {fds} \cup (IF platform = "nt" THEN {} ELSE {fds \cup {i}})
  /\ UNCHANGED <<platform, adapters, sessions>>

\* create(), start() and configure(): an adapter and a session on Windows; the
\* device on Linux needs its address only.
Prepare(i) ==
  /\ adapters' = IF platform = "nt" THEN adapters \cup {i} ELSE adapters
  /\ sessions' = IF platform = "nt" THEN sessions \cup {i} ELSE sessions
  /\ UNCHANGED <<platform, fds>>

\* One of them raises, and the later ones are not reached.
PrepareFails(i) ==
  \/ UNCHANGED tunVars
  \/ platform = "nt" /\ adapters' = adapters \cup {i} /\ UNCHANGED <<platform, fds, sessions>>
  \/ platform = "nt" /\ Prepare(i)

\* close(), of an interface that exists as far as it has come; its lock may be
\* taken twice by one thread, as close_adapter() does through stop_session().
Close(i) ==
  /\ fds' = fds \ {i} /\ adapters' = adapters \ {i} /\ sessions' = sessions \ {i}
  /\ UNCHANGED platform
=============================================================================
