------------------------------- MODULE VPNApp -------------------------------
(***************************************************************************)
(* The connection logic of the user interface, class VPNApp of ui/main.py: *)
(* the Tk thread with its queue of callbacks, the background thread that   *)
(* connects, and what they share: the TunnelClient with its lock, the      *)
(* routes of WindowsRouteManager, and the fields of the application.       *)
(*                                                                         *)
(* root.after called from another thread hands the call to the Tk thread   *)
(* and waits until that thread is back in its event loop; called from the  *)
(* Tk thread itself it only queues the callback.  The worker threads of    *)
(* the tunnel are the subject of module TunnelClient.                      *)
(***************************************************************************)
EXTENDS Naturals, Sequences

CONSTANTS MaxAttempts  \* bound: how many times the user connects

ASSUME AttemptsAssumption == MaxAttempts \in Nat \ {0}

VARIABLES
  system,         \* the operating system, and if it is another, whether it has
                  \* the command `route`
  ui,             \* the Tk thread: its event loop, or what it executes
  op,             \* the callback the Tk thread executes
  events,         \* callbacks queued with root.after
  ct,             \* the connecting thread
  attempt,        \* how many connecting threads were started; their tunnels
                  \* are named by these numbers
  full,           \* full_vpn_requested
  is_connecting,  \* is_connecting
  button,         \* control_frame.is_connected: the button disconnects
  status,         \* the status line
  tunnel,         \* self.tunnel; 0 is None
  tstate,         \* tstate[a]: state of the tunnel a
  lock,           \* the thread that holds the _lock of the tunnel
  open,           \* the tunnels with an open TUN interface and UDP socket
  routes          \* the routes of the full VPN mode that are installed

vars == <<system, ui, op, events, ct, attempt, full, is_connecting, button, status,
          tunnel, tstate, lock, open, routes>>

Attempts == 1..MaxAttempts

States == {"Disconnected", "Connecting...", "Connected", "Disconnecting...", "Error"}

Routes == {"server", "0.0.0.0/1", "128.0.0.0/1"}

\* Mutated form: the table of names lacks an entry.
StateEvent_Unknown(s) ==
  [kind |-> "state", state |-> IF s = "Disconnecting..." THEN "Unknown" ELSE s]

\* A queued callback: a status update, or the end of an attempt.
StateEvent(s) == [kind |-> "state", state |-> s]
ConnectedEvent == [kind |-> "connected"]
FailedEvent    == [kind |-> "failed"]
\* The lambda of the except clause, which refers to the exception variable.
ExceptionEvent == [kind |-> "exception"]

Callbacks == {StateEvent(s) : s \in States} \cup {ConnectedEvent, FailedEvent, ExceptionEvent}

TypeOK ==
  /\ system \in {"Windows", "route", "no route"}
  /\ ui \in {"loop", "teardown", "closed"}
  /\ op \in {"none", "disconnect", "failed", "close"}
  /\ events \in Seq(Callbacks)
  /\ ct \in {"none", "handshake", "lock", "post_connecting", "build", "post_state", "routes",
             "add_server", "add_low", "add_high", "post_connected", "post_failed", "post_exception"}
  /\ attempt \in 0..MaxAttempts
  /\ full \in BOOLEAN /\ is_connecting \in BOOLEAN /\ button \in BOOLEAN
  /\ status \in States \cup {"Connection Failed"}
  /\ tunnel \in 0..MaxAttempts
  /\ tstate \in [Attempts -> States]
  /\ lock \in {"free", "connect"}
  /\ open \subseteq Attempts
  /\ routes \subseteq Routes

Init ==
  /\ system \in {"Windows", "route", "no route"}
  /\ ui = "loop" /\ op = "none" /\ events = <<>> /\ ct = "none"
  /\ attempt = 0 /\ full = FALSE /\ is_connecting = FALSE /\ button = FALSE
  /\ status = "Disconnected"
  /\ tunnel = 0 /\ tstate = [a \in Attempts |-> "Disconnected"] /\ lock = "free"
  /\ open = {} /\ routes = {}

-----------------------------------------------------------------------------
(* The Tk thread. *)

\* _on_connect, once a server is selected and its key or the insecure mode
\* is settled; a click while an attempt is under way is ignored.
ClickConnect ==
  /\ ui = "loop" /\ ~button /\ ~is_connecting
  /\ attempt < MaxAttempts
  /\ attempt' = attempt + 1
  /\ full' \in BOOLEAN
  /\ is_connecting' = TRUE
  /\ status' = "Connecting..."
  /\ ct' = "handshake"
  /\ UNCHANGED <<system, ui, op, events, button, tunnel, tstate, lock, open, routes>>

\* Mutated form: the routes are not withdrawn.
Begin_KeepRoutes(callback) ==
  /\ IF system = "no route" THEN UNCHANGED <<ui, op>> ELSE ui' = "teardown" /\ op' = callback
  /\ UNCHANGED routes

\* _on_disconnect, _on_connect_failed and _on_close begin alike: the routes
\* are deleted, and then the tunnel is disconnected; but without the command
\* `route` the callback raises at once, and Tk goes on with its loop.
Begin(callback) ==
  IF system = "no route" THEN UNCHANGED <<ui, op, routes>>
                         ELSE ui' = "teardown" /\ op' = callback /\ routes' = {}

ClickDisconnect ==
  /\ ui = "loop" /\ button
  /\ Begin("disconnect")
  /\ UNCHANGED <<system, events, ct, attempt, full, is_connecting, button, status, tunnel, tstate, lock, open>>

CloseWindow ==
  /\ ui = "loop"
  /\ Begin("close")
  /\ UNCHANGED <<system, events, ct, attempt, full, is_connecting, button, status, tunnel, tstate, lock, open>>

NextIs(kind) == ui = "loop" /\ events # <<>> /\ Head(events).kind = kind

\* The update queued by _on_state_change.
RunStateEvent ==
  /\ NextIs("state")
  /\ status' = Head(events).state
  /\ events' = Tail(events)
  /\ UNCHANGED <<system, ui, op, ct, attempt, full, is_connecting, button, tunnel, tstate, lock, open, routes>>

\* _on_connected.
RunConnected ==
  /\ NextIs("connected")
  /\ is_connecting' = FALSE
  /\ button' = TRUE
  /\ status' = "Connected"
  /\ events' = Tail(events)
  /\ UNCHANGED <<system, ui, op, ct, attempt, full, tunnel, tstate, lock, open, routes>>

\* _on_connect_failed begins.
RunFailed ==
  /\ NextIs("failed") \/ NextIs("exception")
  /\ events' = Tail(events)
  /\ Begin("failed")
  /\ UNCHANGED <<system, ct, attempt, full, is_connecting, button, status, tunnel, tstate, lock, open>>

\* Unless it runs before the connecting thread leaves the except clause, the
\* lambda finds that Python has deleted the exception variable: a NameError,
\* which Tk reports, and _on_connect_failed is not called.
RunNameError ==
  /\ NextIs("exception")
  /\ events' = Tail(events)
  /\ UNCHANGED <<system, ui, op, ct, attempt, full, is_connecting, button, status, tunnel, tstate, lock, open, routes>>

\* Mutated form: disconnect() tells the callback before it closes anything,
\* and a tunnel in the state Error is taken for a closed one.
Disconnected_NotClosed(t) ==
  /\ tstate' = [tstate EXCEPT ![t] = "Disconnected"]
  /\ events' = events \o <<StateEvent("Disconnecting..."), StateEvent("Disconnected")>>
  /\ UNCHANGED open

\* Mutated form: the callback is told in the wrong order.
Disconnected_Reversed(t) ==
  /\ tstate' = [tstate EXCEPT ![t] = "Disconnected"]
  /\ open' = open \ {t}
  /\ events' = events \o <<StateEvent("Disconnected"), StateEvent("Disconnecting...")>>

\* TunnelClient.disconnect of a tunnel that is not disconnected already, with
\* the two state changes it reports.
Disconnected(t) ==
  /\ tstate' = [tstate EXCEPT ![t] = "Disconnected"]
  /\ open' = open \ {t}
  /\ events' = events \o <<StateEvent("Disconnecting..."), StateEvent("Disconnected")>>

\* What follows in each callback: the end of the process after root.destroy,
\* or back to the event loop (an error box runs the event loop as well).
Finish ==
  /\ op' = "none"
  /\ ui' = IF op = "close" THEN "closed" ELSE "loop"
  /\ is_connecting' = IF op = "failed" THEN FALSE ELSE is_connecting
  /\ button' = IF op = "close" THEN button ELSE FALSE
  /\ status' = CASE op = "failed" -> "Connection Failed"
                 [] op = "disconnect" -> "Disconnected"
                 [] op = "close" -> status

\* The tunnel is disconnected under its lock, if there is one to disconnect.
Teardown ==
  /\ ui = "teardown"
  /\ tunnel # 0 => lock = "free"
  /\ IF tunnel # 0 /\ tstate[tunnel] # "Disconnected"
       THEN Disconnected(tunnel)
       ELSE UNCHANGED <<tstate, open, events>>
  /\ tunnel' = 0
  /\ Finish
  /\ UNCHANGED <<system, ct, attempt, full, lock, routes>>

-----------------------------------------------------------------------------
(* The connecting thread: _connect_thread and the TunnelClient.connect that  *)
(* it calls.  The thread is a daemon: it ends with the process.              *)

At(point) == ct = point /\ ui # "closed"

\* root.after from this thread: done once the Tk thread is in its loop.
Post(event) == ui = "loop" /\ events' = Append(events, event)

tkVars == <<system, ui, op, is_connecting, button, status, attempt, full>>

\* No server is selected any more when the thread gets to it, which is reported
\* as a failure; or perform_handshake raises, or returns keys for a new tunnel.
HandshakeReturns ==
  /\ At("handshake")
  /\ \/ ct' \in {"post_failed", "post_exception"} /\ UNCHANGED tunnel
     \/ ct' = "lock" /\ tunnel' = attempt
  /\ UNCHANGED <<tkVars, events, tstate, lock, open, routes>>

\* connect() takes the tunnel's lock and sets the first state.
TakeLock ==
  /\ At("lock") /\ lock = "free"
  /\ lock' = "connect"
  /\ tstate' = [tstate EXCEPT ![attempt] = "Connecting..."]
  /\ ct' = "post_connecting"
  /\ UNCHANGED <<tkVars, events, tunnel, open, routes>>

PostConnecting ==
  /\ At("post_connecting")
  /\ Post(StateEvent("Connecting..."))
  /\ ct' = "build"
  /\ UNCHANGED <<tkVars, tunnel, tstate, lock, open, routes>>

\* The interface, the socket and the threads are there, or something failed
\* and what was there is closed.
Build ==
  /\ At("build")
  /\ \/ /\ tstate' = [tstate EXCEPT ![attempt] = "Connected"]
        /\ open' = open \cup {attempt}
     \/ /\ tstate' = [tstate EXCEPT ![attempt] = "Error"]
        /\ UNCHANGED open
  /\ ct' = "post_state"
  /\ UNCHANGED <<tkVars, events, tunnel, lock, routes>>

\* Mutated form: a failed connect() does not release the lock.
PostState_KeepLock ==
  /\ At("post_state")
  /\ Post(StateEvent(tstate[attempt]))
  /\ lock' = IF tstate[attempt] = "Error" THEN lock ELSE "free"
  /\ ct' = IF tstate[attempt] = "Error" THEN "post_failed"
           ELSE IF full THEN "routes" ELSE "post_connected"
  /\ UNCHANGED <<tkVars, tunnel, tstate, open, routes>>

\* The callback for the outcome, still under the lock, and the return from
\* connect().
PostState ==
  /\ At("post_state")
  /\ Post(StateEvent(tstate[attempt]))
  /\ lock' = "free"
  /\ ct' = IF tstate[attempt] = "Error" THEN "post_failed"
           ELSE IF full THEN "routes" ELSE "post_connected"
  /\ UNCHANGED <<tkVars, tunnel, tstate, open, routes>>

\* enable_full_vpn raises on every system but Windows, and there when a command
\* cannot be run; it first deletes what an earlier session may have left.
StartRoutes ==
  /\ At("routes")
  /\ \/ system = "Windows" /\ ct' = "add_server" /\ routes' = {}
     \/ ct' = "post_exception" /\ UNCHANGED routes
  /\ UNCHANGED <<tkVars, events, tunnel, tstate, lock, open>>

\* Each route is added or makes _run_route raise.
AddRoute(point, route, next) ==
  /\ At(point)
  /\ \/ ct' = next /\ routes' = routes \cup {route}
     \/ ct' = "post_exception" /\ UNCHANGED routes
  /\ UNCHANGED <<tkVars, events, tunnel, tstate, lock, open>>

\* The route to the server itself is left out for local servers.
AddServerRoute ==
  \/ AddRoute("add_server", "server", "add_low")
  \/ /\ At("add_server")
     /\ ct' = "add_low"
     /\ UNCHANGED <<tkVars, events, tunnel, tstate, lock, open, routes>>

AddDefaultRoutes == AddRoute("add_low", "0.0.0.0/1", "add_high")
                      \/ AddRoute("add_high", "128.0.0.0/1", "post_connected")

\* The thread hands the outcome to the Tk thread and ends.
PostOutcome ==
  /\ \/ At("post_connected") /\ Post(ConnectedEvent)
     \/ At("post_failed") /\ Post(FailedEvent)
     \/ At("post_exception") /\ Post(ExceptionEvent)
  /\ ct' = "none"
  /\ UNCHANGED <<tkVars, tunnel, tstate, lock, open, routes>>

-----------------------------------------------------------------------------
RunEvent == RunStateEvent \/ RunConnected \/ RunFailed \/ RunNameError

TkThread == RunEvent \/ Teardown

ConnectThread == HandshakeReturns \/ TakeLock \/ PostConnecting \/ Build \/ PostState
                   \/ StartRoutes \/ AddServerRoute \/ AddDefaultRoutes \/ PostOutcome

\* The window being closed waits for the tunnel's lock, whose holder waits for
\* the event loop (see CloseReturns).
Frozen == ui = "teardown" /\ op = "close" /\ ct \in {"post_connecting", "post_state"}

\* The window is closed or frozen, or there is nothing to do but to wait for
\* the user.
Rest == /\ \/ ui = "closed"
           \/ ui = "loop" /\ ct = "none" /\ events = <<>>
           \/ Frozen
        /\ UNCHANGED vars

Next == ClickConnect \/ ClickDisconnect \/ CloseWindow \/ TkThread \/ ConnectThread \/ Rest

Spec == Init /\ [][Next]_vars

\* Both threads are scheduled; handshakes and commands return, for they have
\* timeouts or are short.  The user need not do anything.
FairSpec == Spec /\ WF_vars(TkThread) /\ WF_vars(ConnectThread)

-----------------------------------------------------------------------------
(* Properties. *)

\* Nothing is going on: the Tk thread waits for the user.
Quiet == ui = "loop" /\ ct = "none" /\ events = <<>>

\* When nothing is going on, the status line says Connected exactly when the
\* current tunnel is connected, it is not left at a passing state, and the
\* button offers to disconnect only what is connected, whatever the order of
\* the queued updates and of the direct ones.
StatusSettles == Quiet =>
  LET connected == tunnel # 0 /\ tstate[tunnel] = "Connected"
  IN  /\ status = "Connected" <=> connected
      /\ status # "Disconnecting..."
      /\ status = "Connecting..." => is_connecting
      /\ button => connected

\* No tunnel keeps its interface and its socket once the application has
\* lost track of it, over any number of attempts.
NoOrphanTunnel == ui # "closed" /\ ct = "none" => open \subseteq {tunnel}

\* When nothing is going on, routes are only installed towards a connected
\* tunnel; otherwise all traffic would be lost.
RoutesNeedTunnel == Quiet /\ routes # {} => tunnel # 0 /\ tstate[tunnel] = "Connected"

\* Disconnecting, or reporting a failed attempt, always gets back to the
\* event loop: the Tk thread never waits for a thread that waits for it.
TeardownReturns == (ui = "teardown" /\ op # "close") ~> ui = "loop"

\* "Called when connection fails." (ui/main.py:795): an attempt always ends.
AttemptEnds == is_connecting ~> (~is_connecting \/ ui = "closed" \/ op = "close")

\* "Clean up routes and tunnel before closing the UI." (ui/main.py:820): once
\* begun, closing comes to its end.
CloseReturns == op = "close" ~> ui = "closed"
=============================================================================
