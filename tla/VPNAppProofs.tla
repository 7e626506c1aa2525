---------------------------- MODULE VPNAppProofs ----------------------------
(***************************************************************************)
(* Proofs about VPNApp, for any number of attempts and a queue of any      *)
(* length: its types, what the status line says when nothing is going on,  *)
(* and that neither a tunnel nor a route outlives its use.                 *)
(***************************************************************************)
EXTENDS VPNApp, SequenceTheorems, TLAPS

-----------------------------------------------------------------------------
(* The inductive invariant. *)

IsConnected == tunnel # 0 /\ tstate[tunnel] = "Connected"

\* The end of an attempt is in the queue; it is the last callback there, and
\* all before it are updates of the status line.
Pending == events # <<>> /\ events[Len(events)].kind # "state"
UpdatesFirst == \A i \in 1..(Len(events) - 1) : events[i].kind = "state"

\* What the status line says once the queued updates are run.
Updates  == IF Pending THEN Len(events) - 1 ELSE Len(events)
Settling == IF Updates = 0 THEN status ELSE events[Updates].state

\* An attempt has not come to a tunnel; its tunnel is connected; it failed.
Before == tunnel = 0 /\ Settling \in {"Connecting...", "Disconnected"}
Up     == IsConnected /\ Settling = "Connected"
Failed == tunnel # 0 /\ tstate[tunnel] = "Error" /\ Settling = "Error"

\* What each point of the connecting thread has behind it.
AtPoint ==
  /\ ct = "handshake" => Before
  /\ ct \in {"lock", "post_connecting"} =>
       tunnel = attempt /\ Settling \in {"Connecting...", "Disconnected"}
  /\ ct \in {"build", "post_state"} => tunnel = attempt /\ Settling = "Connecting..."
  /\ ct = "post_state" => tstate[attempt] \in {"Connected", "Error"}
  /\ ct \in {"routes", "add_server", "add_low", "add_high", "post_connected"} => Up
  /\ ct = "post_failed" => Before \/ Failed
  /\ ct = "post_exception" => Before \/ Up

\* ... and each outcome that is in the queue.
AtOutcome == Pending =>
  LET kind == events[Len(events)].kind
  IN  /\ kind = "connected" => Up
      /\ kind = "failed" => Before \/ Failed
      /\ kind = "exception" => Before \/ Up

\* An attempt goes on in the thread or in the queue, never in both, and only
\* while is_connecting says so; it is alone: no callback but the closing of the
\* window runs beside it.
OneAttempt ==
  /\ ct # "none" => ~Pending /\ attempt # 0
  /\ ct # "none" \/ Pending => is_connecting /\ op \in {"none", "close"}
  /\ is_connecting => ~button /\ op # "disconnect"

\* What is left when an attempt is over: also one whose end was never shown.
AtRest == ct = "none" /\ ~Pending =>
  /\ is_connecting => Before \/ Up \/ Failed
  /\ ~is_connecting /\ button => Up
  /\ ~is_connecting /\ ~button => tunnel = 0 /\ Settling \in {"Disconnected", "Connection Failed"}

\* The callbacks that disconnect begin with nothing else queued, and the routes
\* stay withdrawn.
InTeardown ==
  /\ op # "none" <=> ui = "teardown"
  /\ op \in {"failed", "disconnect"} => routes = {}
  /\ op = "failed" => is_connecting /\ events = <<>>
  /\ op = "disconnect" => button

\* Neither the interface nor the routes are without their tunnel.
Attached ==
  /\ open \subseteq {tunnel}
  /\ routes # {} => IsConnected /\ ct \notin {"lock", "post_connecting", "build"}

AppInv == ui # "closed" =>
  UpdatesFirst /\ AtPoint /\ AtOutcome /\ OneAttempt /\ AtRest /\ InTeardown /\ Attached

IInv == TypeOK /\ AppInv

-----------------------------------------------------------------------------
(* The queue of callbacks. *)

Queue == events \in Seq(Callbacks)

\* What the kind of a callback says of its fields.
LEMMA CallbackKinds ==
  /\ \A e \in Callbacks : e.kind \in {"state", "connected", "failed", "exception"}
  /\ \A e \in Callbacks : e.kind = "state" => e.state \in States
  /\ ConnectedEvent \in Callbacks /\ ConnectedEvent.kind = "connected"
  /\ FailedEvent \in Callbacks /\ FailedEvent.kind = "failed"
  /\ ExceptionEvent \in Callbacks /\ ExceptionEvent.kind = "exception"
  /\ \A s \in States : StateEvent(s) \in Callbacks /\ StateEvent(s).kind = "state" /\ StateEvent(s).state = s
BY DEF Callbacks, StateEvent, ConnectedEvent, FailedEvent, ExceptionEvent, States

\* What is left of a queue when its first callback is taken.
LEMMA Taken ==
  ASSUME NEW S, NEW s \in Seq(S), s # <<>>
  PROVE  /\ Len(s) \in Nat \ {0} /\ Head(s) = s[1] /\ Head(s) \in S
         /\ Tail(s) \in Seq(S) /\ Len(Tail(s)) = Len(s) - 1
         /\ \A i \in 1..(Len(s) - 1) : Tail(s)[i] = s[i + 1]
         /\ Tail(s) = <<>> <=> Len(s) = 1
<1>1. /\ Len(s) \in Nat \ {0} /\ Head(s) \in S /\ Tail(s) \in Seq(S) /\ Len(Tail(s)) = Len(s) - 1
      /\ \A i \in 1..(Len(s) - 1) : Tail(s)[i] = s[i + 1]
  BY EmptySeq, HeadTailProperties
<1>2. Head(s) = s[1]
  OBVIOUS
<1>3. Tail(s) = <<>> <=> Len(Tail(s)) = 0
  BY <1>1, EmptySeq
<1>4. QED
  BY <1>1, <1>2, <1>3

\* Without a step of the queue and of the status line, what they amount to stays.
LEMMA QueueStays ==
  ASSUME UNCHANGED <<events, status>>
  PROVE  /\ Pending' <=> Pending
         /\ UpdatesFirst' <=> UpdatesFirst
         /\ Settling' = Settling
BY DEF Pending, UpdatesFirst, Settling, Updates

\* An update that is queued has the last word.
LEMMA QueueUpdate ==
  ASSUME Queue, UpdatesFirst, ~Pending, NEW s \in States, events' = Append(events, StateEvent(s))
  PROVE  Queue' /\ UpdatesFirst' /\ ~Pending' /\ Settling' = s
<1>1. /\ events' \in Seq(Callbacks) /\ Len(events') = Len(events) + 1 /\ Len(events) \in Nat
      /\ events'[Len(events) + 1] = StateEvent(s)
      /\ \A i \in 1..Len(events) : events'[i] = events[i]
  BY CallbackKinds DEF Queue
<1>2. \A i \in 1..Len(events) : events[i].kind = "state"
  BY <1>1 DEF UpdatesFirst, Pending
<1>3. ~Pending'
  BY <1>1, CallbackKinds DEF Pending
<1>4. UpdatesFirst'
  BY <1>1, <1>2 DEF UpdatesFirst
<1>5. Settling' = s
  BY <1>1, <1>3, CallbackKinds DEF Settling, Updates
<1>6. QED
  BY <1>1, <1>3, <1>4, <1>5 DEF Queue

\* An outcome that is queued comes after all updates, and says nothing yet.
LEMMA QueueOutcome ==
  ASSUME Queue, UpdatesFirst, ~Pending, UNCHANGED status,
         NEW e \in {ConnectedEvent, FailedEvent, ExceptionEvent}, events' = Append(events, e)
  PROVE  /\ Queue' /\ UpdatesFirst' /\ Pending' /\ Settling' = Settling
         /\ events'[Len(events')] = e
<1>1. /\ events' \in Seq(Callbacks) /\ Len(events') = Len(events) + 1 /\ Len(events) \in Nat
      /\ events'[Len(events) + 1] = e /\ e.kind # "state" /\ events' # <<>>
      /\ \A i \in 1..Len(events) : events'[i] = events[i]
  BY CallbackKinds DEF Queue
<1>2. \A i \in 1..Len(events) : events[i].kind = "state"
  BY <1>1 DEF UpdatesFirst, Pending
<1>3. Pending' /\ UpdatesFirst'
  BY <1>1, <1>2 DEF Pending, UpdatesFirst
<1>4. Settling' = Settling
  BY <1>1, <1>3 DEF Settling, Updates
<1>5. QED
  BY <1>1, <1>3, <1>4 DEF Queue

\* An update that is run is what the status line says until the next one.
LEMMA RunUpdate ==
  ASSUME Queue, UpdatesFirst, events # <<>>, Head(events).kind = "state",
         status' = Head(events).state, events' = Tail(events)
  PROVE  /\ Queue' /\ UpdatesFirst' /\ Settling' = Settling
         /\ Pending' <=> Pending
         /\ Pending => events'[Len(events')] = events[Len(events)]
<1>1. /\ events' \in Seq(Callbacks) /\ Len(events') = Len(events) - 1 /\ Len(events) \in Nat \ {0}
      /\ \A i \in 1..Len(events') : events'[i] = events[i + 1]
      /\ Head(events) = events[1]
      /\ events' = <<>> <=> Len(events) = 1
  BY Taken DEF Queue
<1>2. UpdatesFirst'
  BY <1>1 DEF UpdatesFirst
<1>3. CASE Len(events) = 1
  BY <1>1, <1>2, <1>3 DEF Queue, Pending, Settling, Updates
<1>4. CASE Len(events) > 1
  <2>1. events' # <<>> /\ events'[Len(events')] = events[Len(events)]
    BY <1>1, <1>4
  <2>2. Pending' <=> Pending
    BY <2>1 DEF Pending
  <2>3. Updates' = Updates - 1 /\ Updates \in 1..Len(events) /\ Updates' \in 0..Len(events')
    BY <1>1, <1>4, <2>2 DEF Updates
  <2>4. Settling' = Settling
    <3>1. CASE Updates' = 0
      BY <1>1, <2>3, <3>1 DEF Settling
    <3>2. CASE Updates' # 0
      <4>1. events'[Updates'] = events[Updates]
        BY <1>1, <2>3, <3>2
      <4>2. QED
        BY <2>3, <3>2, <4>1 DEF Settling
    <3>3. QED
      BY <3>1, <3>2
  <2>5. QED
    BY <1>1, <1>2, <2>1, <2>2, <2>4 DEF Queue
<1>5. Len(events) = 1 \/ Len(events) > 1
  BY <1>1
<1>6. QED
  BY <1>3, <1>4, <1>5

\* An outcome that is run was the only callback left.
LEMMA RunOutcome ==
  ASSUME Queue, UpdatesFirst, events # <<>>, Head(events).kind # "state", events' = Tail(events)
  PROVE  /\ Queue' /\ UpdatesFirst' /\ ~Pending' /\ events' = <<>> /\ Settling' = status'
         /\ Pending /\ Settling = status /\ events[Len(events)] = Head(events)
<1>1. /\ events' \in Seq(Callbacks) /\ Len(events) \in Nat \ {0} /\ Head(events) = events[1]
      /\ events' = <<>> <=> Len(events) = 1
  BY Taken DEF Queue
<1>2. Len(events) = 1 /\ events' = <<>> /\ Len(events') = 0
  BY <1>1 DEF UpdatesFirst
<1>3. Pending /\ ~Pending'
  BY <1>1, <1>2 DEF Pending
<1>4. UpdatesFirst'
  <2>1. 1..(Len(events') - 1) = {}
    BY <1>2
  <2>2. QED
    BY <2>1 DEF UpdatesFirst
<1>5. Settling = status /\ Settling' = status'
  BY <1>2, <1>3 DEF Settling, Updates
<1>6. QED
  BY <1>1, <1>2, <1>3, <1>4, <1>5 DEF Queue

\* The two updates of disconnect() leave the status line at Disconnected.
LEMMA QueueDisconnected ==
  ASSUME Queue, UpdatesFirst, ~Pending,
         events' = events \o <<StateEvent("Disconnecting..."), StateEvent("Disconnected")>>
  PROVE  Queue' /\ UpdatesFirst' /\ ~Pending' /\ Settling' = "Disconnected"
<1>1. /\ events' \in Seq(Callbacks) /\ Len(events') = Len(events) + 2 /\ Len(events) \in Nat
      /\ events'[Len(events) + 1] = StateEvent("Disconnecting...")
      /\ events'[Len(events) + 2] = StateEvent("Disconnected")
      /\ \A i \in 1..Len(events) : events'[i] = events[i]
  BY CallbackKinds DEF Queue, States
<1>2. /\ StateEvent("Disconnecting...").kind = "state" /\ StateEvent("Disconnected").kind = "state"
      /\ StateEvent("Disconnected").state = "Disconnected"
  BY DEF StateEvent
<1>3. \A i \in 1..Len(events) : events[i].kind = "state"
  BY <1>1 DEF UpdatesFirst, Pending
<1>4. ~Pending'
  BY <1>1, <1>2 DEF Pending
<1>5. UpdatesFirst'
  BY <1>1, <1>2, <1>3 DEF UpdatesFirst
<1>6. Settling' = "Disconnected"
  BY <1>1, <1>2, <1>4 DEF Settling, Updates
<1>7. QED
  BY <1>1, <1>4, <1>5, <1>6 DEF Queue

-----------------------------------------------------------------------------
(* Types. *)

USE AttemptsAssumption

Flags == full \in BOOLEAN /\ is_connecting \in BOOLEAN /\ button \in BOOLEAN

TkTypes ==
  /\ system \in {"Windows", "route", "no route"}
  /\ ui \in {"loop", "teardown", "closed"}
  /\ op \in {"none", "disconnect", "failed", "close"}
  /\ status \in States \cup {"Connection Failed"}

ThreadTypes ==
  /\ ct \in {"none", "handshake", "lock", "post_connecting", "build", "post_state", "routes",
             "add_server", "add_low", "add_high", "post_connected", "post_failed", "post_exception"}
  /\ lock \in {"free", "connect"}

RoutesType == routes \subseteq Routes

TunnelTypes ==
  /\ attempt \in 0..MaxAttempts /\ tunnel \in 0..MaxAttempts
  /\ tstate \in [Attempts -> States] /\ open \subseteq Attempts

\* The type invariant, cut into parts that few actions touch.
LEMMA TypeParts ==
  TypeOK <=> Flags /\ TkTypes /\ ThreadTypes /\ RoutesType /\ TunnelTypes /\ Queue
BY DEF TypeOK, Flags, TkTypes, ThreadTypes, RoutesType, TunnelTypes, Queue

\* The type invariant is inductive: initially.
LEMMA TypeInit == Init => TypeOK
<1> SUFFICES ASSUME Init PROVE TypeOK
  OBVIOUS
<1>1. Flags
  BY DEF Init, Flags
<1>2. TkTypes /\ ThreadTypes /\ RoutesType
  BY DEF Init, TkTypes, ThreadTypes, RoutesType, States
<1>3. TunnelTypes
  <2>1. attempt = 0 /\ tunnel = 0
    BY DEF Init
  <2>2. attempt \in 0..MaxAttempts /\ tunnel \in 0..MaxAttempts
    BY <2>1
  <2>3. tstate \in [Attempts -> States] /\ open \subseteq Attempts
    BY DEF Init, States
  <2>4. QED
    BY <2>2, <2>3 DEF TunnelTypes
<1>4. Queue
  BY EmptySeq DEF Init, Queue
<1>5. QED
  BY <1>1, <1>2, <1>3, <1>4, TypeParts

\* A callback begins to disconnect, or raises.
LEMMA BeginTypes ==
  ASSUME TkTypes, RoutesType, UNCHANGED <<system, status>>,
         NEW callback \in {"disconnect", "failed", "close"}, Begin(callback)
  PROVE  TkTypes' /\ RoutesType'
BY DEF TkTypes, RoutesType, Begin

\* ... and a callback ends.
LEMMA FinishTypes ==
  ASSUME Flags, TkTypes, op # "none", Finish, UNCHANGED <<system, full>>
  PROVE  Flags' /\ TkTypes'
<1>1. CASE op = "failed"
  <2>1. op' = "none" /\ ui' = "loop" /\ is_connecting' = FALSE /\ button' = FALSE
        /\ status' = "Connection Failed"
    BY <1>1 DEF Finish
  <2>2. QED
    BY <2>1 DEF Flags, TkTypes
<1>2. CASE op = "disconnect"
  <2>1. op' = "none" /\ ui' = "loop" /\ is_connecting' = is_connecting /\ button' = FALSE
        /\ status' = "Disconnected"
    BY <1>2 DEF Finish
  <2>2. QED
    BY <2>1 DEF Flags, TkTypes, States
<1>3. CASE op = "close"
  <2>1. op' = "none" /\ ui' = "closed" /\ is_connecting' = is_connecting /\ button' = button
        /\ status' = status
    BY <1>3 DEF Finish
  <2>2. QED
    BY <2>1 DEF Flags, TkTypes
<1>4. QED
  BY <1>1, <1>2, <1>3 DEF TkTypes

\* The steps of the Tk thread keep the types ...
LEMMA TkTypesNext ==
  ASSUME IInv, ClickConnect \/ ClickDisconnect \/ CloseWindow \/ TkThread
  PROVE  (Flags /\ TkTypes /\ ThreadTypes /\ RoutesType /\ TunnelTypes /\ Queue)'
<1>1. Flags /\ TkTypes /\ ThreadTypes /\ RoutesType /\ TunnelTypes /\ Queue
  BY TypeParts DEF IInv
<1>2. CASE ClickConnect
  <2>1. Flags'
    BY <1>1, <1>2 DEF ClickConnect, Flags
  <2>2. TkTypes' /\ ThreadTypes' /\ RoutesType' /\ Queue'
    BY <1>1, <1>2 DEF ClickConnect, TkTypes, ThreadTypes, RoutesType, Queue, States
  <2>3. TunnelTypes'
    BY <1>1, <1>2 DEF ClickConnect, TunnelTypes
  <2>4. QED
    BY <2>1, <2>2, <2>3
<1>3. CASE ClickDisconnect \/ CloseWindow
  <2>1. TkTypes' /\ RoutesType'
    BY <1>1, <1>3, BeginTypes DEF ClickDisconnect, CloseWindow
  <2>2. ThreadTypes' /\ TunnelTypes' /\ Queue'
    BY <1>1, <1>3 DEF ClickDisconnect, CloseWindow, ThreadTypes, TunnelTypes, Queue
  <2>3. Flags'
    BY <1>1, <1>3 DEF ClickDisconnect, CloseWindow, Flags
  <2>4. QED
    BY <2>1, <2>2, <2>3
<1>4. CASE RunStateEvent
  <2>1. Head(events) \in Callbacks /\ Tail(events) \in Seq(Callbacks)
    BY <1>1, <1>4, Taken DEF RunStateEvent, NextIs, Queue
  <2>2. TkTypes'
    BY <1>1, <1>4, <2>1, CallbackKinds DEF RunStateEvent, NextIs, TkTypes
  <2>3. ThreadTypes' /\ RoutesType' /\ TunnelTypes' /\ Queue'
    BY <1>1, <1>4, <2>1 DEF RunStateEvent, ThreadTypes, RoutesType, TunnelTypes, Queue
  <2>4. Flags'
    BY <1>1, <1>4 DEF RunStateEvent, Flags
  <2>5. QED
    BY <2>2, <2>3, <2>4
<1>5. CASE RunConnected
  <2>1. Tail(events) \in Seq(Callbacks)
    BY <1>1, <1>5, Taken DEF RunConnected, NextIs, Queue
  <2>2. TkTypes' /\ ThreadTypes' /\ RoutesType' /\ TunnelTypes' /\ Queue'
    BY <1>1, <1>5, <2>1 DEF RunConnected, TkTypes, ThreadTypes, RoutesType, TunnelTypes, Queue, States
  <2>3. Flags'
    BY <1>1, <1>5 DEF RunConnected, Flags
  <2>4. QED
    BY <2>2, <2>3
<1>6. CASE RunFailed
  <2>1. Tail(events) \in Seq(Callbacks)
    BY <1>1, <1>6, Taken DEF RunFailed, NextIs, Queue
  <2>2. TkTypes' /\ RoutesType'
    BY <1>1, <1>6, BeginTypes DEF RunFailed
  <2>3. ThreadTypes' /\ TunnelTypes' /\ Queue'
    BY <1>1, <1>6, <2>1 DEF RunFailed, ThreadTypes, TunnelTypes, Queue
  <2>4. Flags'
    BY <1>1, <1>6 DEF RunFailed, Flags
  <2>5. QED
    BY <2>2, <2>3, <2>4
<1>7. CASE RunNameError
  <2>1. Tail(events) \in Seq(Callbacks)
    BY <1>1, <1>7, Taken DEF RunNameError, NextIs, Queue
  <2>2. TkTypes' /\ ThreadTypes' /\ RoutesType' /\ TunnelTypes' /\ Queue'
    BY <1>1, <1>7, <2>1 DEF RunNameError, TkTypes, ThreadTypes, RoutesType, TunnelTypes, Queue
  <2>3. Flags'
    BY <1>1, <1>7 DEF RunNameError, Flags
  <2>4. QED
    BY <2>2, <2>3
<1>8. CASE Teardown
  <2>1. op # "none"
    BY <1>8 DEF IInv, AppInv, InTeardown, Teardown
  <2>2. Flags' /\ TkTypes'
    BY <1>1, <1>8, <2>1, FinishTypes DEF Teardown
  <2>3. ThreadTypes' /\ RoutesType'
    BY <1>1, <1>8 DEF Teardown, ThreadTypes, RoutesType
  <2>4. CASE Disconnected(tunnel)
    <3>1. TunnelTypes'
      <4>1. tunnel' = 0 /\ attempt' = attempt /\ "Disconnected" \in States
        BY <1>8 DEF Teardown, States
      <4>2. tstate' = [tstate EXCEPT ![tunnel] = "Disconnected"] /\ open' = open \ {tunnel}
        BY <2>4 DEF Disconnected
      <4>3. attempt' \in 0..MaxAttempts /\ tunnel' \in 0..MaxAttempts
        BY <1>1, <4>1 DEF TunnelTypes
      <4>4. tstate' \in [Attempts -> States]
        BY <1>1, <4>1, <4>2 DEF TunnelTypes
      <4>5. open' \subseteq Attempts
        BY <1>1, <4>2 DEF TunnelTypes
      <4>6. QED
        BY <4>3, <4>4, <4>5 DEF TunnelTypes
    <3>2. \A s \in States : StateEvent(s) \in Callbacks
      BY CallbackKinds
    <3>3. Queue'
      BY <1>1, <2>4, <3>2 DEF Disconnected, Queue, States
    <3>4. QED
      BY <2>2, <2>3, <3>1, <3>3
  <2>5. CASE UNCHANGED <<tstate, open, events>>
    BY <1>1, <1>8, <2>2, <2>3, <2>5 DEF Teardown, TunnelTypes, Queue
  <2>6. QED
    BY <1>8, <2>4, <2>5 DEF Teardown
<1>9. QED
  BY <1>2, <1>3, <1>4, <1>5, <1>6, <1>7, <1>8 DEF TkThread, RunEvent

\* ... and so do those of the connecting thread.
LEMMA ThreadTypesNext ==
  ASSUME IInv, ConnectThread
  PROVE  (Flags /\ TkTypes /\ ThreadTypes /\ RoutesType /\ TunnelTypes /\ Queue)'
<1>1. Flags /\ TkTypes /\ ThreadTypes /\ RoutesType /\ TunnelTypes /\ Queue
  BY TypeParts DEF IInv
<1>2. UNCHANGED tkVars
  BY DEF ConnectThread, HandshakeReturns, TakeLock, PostConnecting, Build, PostState, StartRoutes,
         AddServerRoute, AddDefaultRoutes, AddRoute, PostOutcome
<1>3. ui # "closed" /\ ct # "none"
  BY DEF ConnectThread, HandshakeReturns, TakeLock, PostConnecting, Build, PostState, StartRoutes,
         AddServerRoute, AddDefaultRoutes, AddRoute, PostOutcome, At
<1>4. attempt # 0
  BY <1>3 DEF IInv, AppInv, OneAttempt
<1>5. Flags' /\ TkTypes'
  <2>1. Flags'
    BY <1>1, <1>2 DEF Flags, tkVars
  <2>2. TkTypes'
    BY <1>1, <1>2 DEF TkTypes, tkVars
  <2>3. QED
    BY <2>1, <2>2
<1>6. attempt' = attempt /\ attempt \in 0..MaxAttempts /\ attempt \in Attempts
  BY <1>1, <1>2, <1>4 DEF TunnelTypes, tkVars, Attempts
<1>7. ASSUME NEW e \in Callbacks, Post(e)
      PROVE  Queue'
  BY <1>1, <1>7 DEF Post, Queue
<1>8. CASE HandshakeReturns
  <2>1. ThreadTypes' /\ RoutesType' /\ Queue'
    BY <1>1, <1>8 DEF HandshakeReturns, ThreadTypes, RoutesType, Queue
  <2>2. TunnelTypes'
    BY <1>1, <1>6, <1>8 DEF HandshakeReturns, TunnelTypes
  <2>3. QED
    BY <1>5, <2>1, <2>2
<1>9. CASE TakeLock
  <2>1. ThreadTypes' /\ RoutesType' /\ Queue'
    BY <1>1, <1>9 DEF TakeLock, ThreadTypes, RoutesType, Queue
  <2>2. TunnelTypes'
    BY <1>1, <1>6, <1>9 DEF TakeLock, TunnelTypes, States
  <2>3. QED
    BY <1>5, <2>1, <2>2
<1>10. CASE PostConnecting
  <2>1. ThreadTypes' /\ RoutesType'
    BY <1>1, <1>10 DEF PostConnecting, ThreadTypes, RoutesType
  <2>2. TunnelTypes'
    BY <1>1, <1>6, <1>10 DEF PostConnecting, TunnelTypes
  <2>3. Queue'
    BY <1>7, <1>10, CallbackKinds DEF PostConnecting, States
  <2>4. QED
    BY <1>5, <2>1, <2>2, <2>3
<1>11. CASE Build
  <2>1. ThreadTypes' /\ RoutesType' /\ Queue'
    BY <1>1, <1>11 DEF Build, ThreadTypes, RoutesType, Queue
  <2>2. TunnelTypes'
    BY <1>1, <1>6, <1>11 DEF Build, TunnelTypes, States
  <2>3. QED
    BY <1>5, <2>1, <2>2
<1>12. CASE PostState
  <2>1. ThreadTypes' /\ RoutesType'
    BY <1>1, <1>12 DEF PostState, ThreadTypes, RoutesType
  <2>2. TunnelTypes'
    BY <1>1, <1>6, <1>12 DEF PostState, TunnelTypes
  <2>3. tstate[attempt] \in States
    BY <1>1, <1>6 DEF TunnelTypes
  <2>4. Queue'
    BY <1>7, <1>12, <2>3, CallbackKinds DEF PostState
  <2>5. QED
    BY <1>5, <2>1, <2>2, <2>4
<1>13. CASE StartRoutes \/ AddServerRoute \/ AddDefaultRoutes
  <2>1. ThreadTypes' /\ RoutesType' /\ Queue'
    BY <1>1, <1>13 DEF StartRoutes, AddServerRoute, AddDefaultRoutes, AddRoute, ThreadTypes, RoutesType,
                       Queue, Routes
  <2>2. TunnelTypes'
    BY <1>1, <1>6, <1>13 DEF StartRoutes, AddServerRoute, AddDefaultRoutes, AddRoute, TunnelTypes
  <2>3. QED
    BY <1>5, <2>1, <2>2
<1>14. CASE PostOutcome
  <2>1. ThreadTypes' /\ RoutesType'
    BY <1>1, <1>14 DEF PostOutcome, ThreadTypes, RoutesType
  <2>2. TunnelTypes'
    BY <1>1, <1>6, <1>14 DEF PostOutcome, TunnelTypes
  <2>3. Queue'
    BY <1>7, <1>14, CallbackKinds DEF PostOutcome
  <2>4. QED
    BY <1>5, <2>1, <2>2, <2>3
<1>15. QED
  BY <1>8, <1>9, <1>10, <1>11, <1>12, <1>13, <1>14 DEF ConnectThread

\* Every step keeps the types.
LEMMA TypeNext == IInv /\ [Next]_vars => TypeOK'
<1> SUFFICES ASSUME IInv, [Next]_vars PROVE TypeOK'
  OBVIOUS
<1>1. (Flags /\ TkTypes /\ ThreadTypes /\ RoutesType /\ TunnelTypes /\ Queue)'
  <2>1. CASE UNCHANGED vars
    <3>1. Flags /\ TkTypes /\ ThreadTypes /\ RoutesType /\ TunnelTypes /\ Queue
      BY TypeParts DEF IInv
    <3>2. Flags'
      BY <2>1, <3>1 DEF Flags, vars
    <3>3. TkTypes' /\ ThreadTypes' /\ RoutesType' /\ TunnelTypes' /\ Queue'
      BY <2>1, <3>1 DEF TkTypes, ThreadTypes, RoutesType, TunnelTypes, Queue, vars
    <3>4. QED
      BY <3>2, <3>3
  <2>2. QED
    BY <2>1, TkTypesNext, ThreadTypesNext DEF Next, Rest
<1>2. QED
  BY <1>1 DEF TypeOK, Flags, TkTypes, ThreadTypes, RoutesType, TunnelTypes, Queue

-----------------------------------------------------------------------------
(* The steps of the Tk thread. *)

\* What the invariant says while the window is open.
Parts == UpdatesFirst /\ AtPoint /\ AtOutcome /\ OneAttempt /\ AtRest /\ InTeardown /\ Attached

\* A queued update is one of the states of a tunnel.
LEMMA UpdateIsState ==
  ASSUME Queue, UpdatesFirst, Updates # 0
  PROVE  Settling \in States
<1>1. Updates \in 1..Len(events) /\ events[Updates] \in Callbacks /\ events[Updates].kind = "state"
  <2>1. Len(events) \in Nat /\ \A i \in 1..Len(events) : events[i] \in Callbacks
    BY DEF Queue
  <2>2. CASE Pending
    <3>1. Len(events) # 0 /\ Updates = Len(events) - 1
      BY <2>2, EmptySeq DEF Pending, Updates, Queue
    <3>2. Updates \in 1..(Len(events) - 1) /\ Updates \in 1..Len(events)
      BY <2>1, <3>1
    <3>3. QED
      BY <2>1, <3>2 DEF UpdatesFirst
  <2>3. CASE ~Pending
    <3>1. Updates = Len(events) /\ Updates \in 1..Len(events)
      BY <2>1, <2>3 DEF Updates
    <3>2. events # <<>>
      BY <3>1
    <3>3. QED
      BY <2>1, <2>3, <3>1, <3>2 DEF Pending
  <2>4. QED
    BY <2>2, <2>3
<1>2. QED
  BY <1>1, CallbackKinds DEF Settling

\* A new attempt finds nothing of an earlier one but updates that are queued,
\* the last of which says Disconnected.
LEMMA ClickConnectStep ==
  ASSUME TypeOK, Parts, ClickConnect
  PROVE  Parts'
<1>1. Flags /\ TkTypes /\ TunnelTypes /\ Queue
  BY TypeParts
<1>2. ct = "none" /\ ~Pending /\ op = "none"
  BY DEF Parts, OneAttempt, InTeardown, ClickConnect
<1>3. tunnel = 0 /\ Settling \in {"Disconnected", "Connection Failed"} /\ routes = {}
  BY <1>2 DEF Parts, AtRest, Attached, IsConnected, ClickConnect
<1>4. UpdatesFirst' /\ ~Pending' /\ Updates' = Updates
  BY <1>2 DEF Parts, UpdatesFirst, Pending, Updates, ClickConnect
<1>5. Settling' \in {"Connecting...", "Disconnected"}
  <2>1. CASE Updates = 0
    BY <1>4, <2>1 DEF Settling, ClickConnect
  <2>2. CASE Updates # 0
    <3>1. Settling = "Disconnected"
      BY <1>1, <1>3, <2>2, UpdateIsState DEF Parts, States
    <3>2. QED
      BY <1>4, <2>2, <3>1 DEF Settling, ClickConnect
  <2>3. QED
    BY <2>1, <2>2
<1>6. ct' = "handshake" /\ is_connecting' /\ ~button' /\ UNCHANGED <<ui, op, tunnel, tstate, open, routes>>
  BY DEF ClickConnect
<1>7. attempt' # 0
  BY <1>1 DEF ClickConnect, TunnelTypes
<1>8. AtPoint'
  BY <1>3, <1>5, <1>6 DEF AtPoint, Before
<1>9. AtOutcome' /\ AtRest'
  BY <1>4, <1>6 DEF AtOutcome, AtRest
<1>10. OneAttempt' /\ InTeardown'
  BY <1>2, <1>4, <1>6, <1>7 DEF OneAttempt, InTeardown, Parts
<1>11. Attached'
  BY <1>3, <1>6 DEF Parts, Attached
<1>12. QED
  BY <1>4, <1>8, <1>9, <1>10, <1>11 DEF Parts

\* A callback that disconnects begins when nothing else is under way.
LEMMA ClickDisconnectStep ==
  ASSUME TypeOK, Parts, ClickDisconnect
  PROVE  Parts'
<1>1. UNCHANGED <<events, ct, attempt, is_connecting, button, status, tunnel, tstate, open>>
  BY DEF ClickDisconnect
<1>2. /\ Pending' <=> Pending
      /\ UpdatesFirst'
      /\ Settling' = Settling
  BY <1>1, QueueStays DEF Parts
<1>3. ct = "none" /\ ~Pending /\ ~is_connecting /\ button /\ op = "none"
  BY DEF Parts, OneAttempt, InTeardown, ClickDisconnect
<1>4. \/ UNCHANGED <<ui, op, routes>>
      \/ ui' = "teardown" /\ op' = "disconnect" /\ routes' = {}
  BY DEF ClickDisconnect, Begin
<1>5. AtPoint' /\ AtOutcome'
  BY <1>1, <1>2, <1>3 DEF AtPoint, AtOutcome
<1>6. AtRest'
  BY <1>1, <1>2 DEF Parts, AtRest, Before, Up, Failed, IsConnected
<1>7. OneAttempt' /\ InTeardown'
  BY <1>1, <1>2, <1>3, <1>4 DEF Parts, OneAttempt, InTeardown
<1>8. Attached'
  BY <1>1, <1>4 DEF Parts, Attached, IsConnected
<1>9. QED
  BY <1>2, <1>5, <1>6, <1>7, <1>8 DEF Parts

\* The closing of the window begins at any time.
LEMMA CloseWindowStep ==
  ASSUME TypeOK, Parts, CloseWindow
  PROVE  Parts'
<1>1. UNCHANGED <<events, ct, attempt, is_connecting, button, status, tunnel, tstate, open>>
  BY DEF CloseWindow
<1>2. /\ Pending' <=> Pending
      /\ UpdatesFirst'
      /\ Settling' = Settling
  BY <1>1, QueueStays DEF Parts
<1>3. op = "none"
  BY DEF Parts, InTeardown, CloseWindow
<1>4. \/ UNCHANGED <<ui, op, routes>>
      \/ ui' = "teardown" /\ op' = "close" /\ routes' = {}
  BY DEF CloseWindow, Begin
<1>5. AtPoint'
  BY <1>1, <1>2 DEF Parts, AtPoint, Before, Up, Failed, IsConnected
<1>6. AtOutcome' /\ AtRest'
  BY <1>1, <1>2 DEF Parts, AtOutcome, AtRest, Before, Up, Failed, IsConnected
<1>7. OneAttempt' /\ InTeardown'
  BY <1>1, <1>2, <1>3, <1>4 DEF Parts, OneAttempt, InTeardown
<1>8. Attached'
  BY <1>1, <1>4 DEF Parts, Attached, IsConnected
<1>9. QED
  BY <1>2, <1>5, <1>6, <1>7, <1>8 DEF Parts

\* An update changes what the status line says, not what it will say.
LEMMA RunStateEventStep ==
  ASSUME TypeOK, Parts, RunStateEvent
  PROVE  Parts'
<1>1. UNCHANGED <<ui, op, ct, attempt, is_connecting, button, tunnel, tstate, open, routes>>
  BY DEF RunStateEvent
<1>2. /\ UpdatesFirst' /\ Settling' = Settling
      /\ Pending' <=> Pending
      /\ Pending => events'[Len(events')] = events[Len(events)]
  BY TypeParts, RunUpdate DEF Parts, RunStateEvent, NextIs
<1>3. AtPoint'
  BY <1>1, <1>2 DEF Parts, AtPoint, Before, Up, Failed, IsConnected
<1>4. AtOutcome' /\ AtRest'
  BY <1>1, <1>2 DEF Parts, AtOutcome, AtRest, Before, Up, Failed, IsConnected
<1>5. OneAttempt'
  BY <1>1, <1>2 DEF Parts, OneAttempt
<1>6. InTeardown'
  BY <1>1 DEF Parts, InTeardown, RunStateEvent, NextIs
<1>7. Attached'
  BY <1>1 DEF Parts, Attached, IsConnected
<1>8. QED
  BY <1>2, <1>3, <1>4, <1>5, <1>6, <1>7 DEF Parts

\* An outcome is run with nothing before it and nothing behind it.
LEMMA OutcomeIsRun ==
  ASSUME TypeOK, Parts, ui = "loop", events # <<>>, Head(events).kind # "state", events' = Tail(events)
  PROVE  /\ UpdatesFirst' /\ ~Pending' /\ events' = <<>> /\ Settling' = status'
         /\ Settling = status /\ ct = "none" /\ op = "none" /\ is_connecting /\ ~button
         /\ Before \/ Up \/ Failed
         /\ Head(events).kind = "connected" => Up
<1>1. /\ UpdatesFirst' /\ ~Pending' /\ events' = <<>> /\ Settling' = status'
      /\ Pending /\ Settling = status /\ events[Len(events)] = Head(events)
  BY TypeParts, RunOutcome DEF Parts
<1>2. ct = "none" /\ op = "none" /\ is_connecting /\ ~button
  BY <1>1 DEF Parts, OneAttempt, InTeardown
<1>3. Head(events).kind \in {"state", "connected", "failed", "exception"}
  BY Taken, TypeParts, CallbackKinds DEF Queue
<1>4. /\ Before \/ Up \/ Failed
      /\ Head(events).kind = "connected" => Up
  BY <1>1, <1>3 DEF Parts, AtOutcome
<1>5. QED
  BY <1>1, <1>2, <1>4

\* The button offers to disconnect what the outcome says is connected.
LEMMA RunConnectedStep ==
  ASSUME TypeOK, Parts, RunConnected
  PROVE  Parts'
<1>1. /\ UpdatesFirst' /\ ~Pending' /\ events' = <<>> /\ Settling' = status'
      /\ ct = "none" /\ op = "none" /\ Up
  BY OutcomeIsRun DEF RunConnected, NextIs
<1>2. /\ UNCHANGED <<ui, op, ct, attempt, tunnel, tstate, open, routes>>
      /\ ~is_connecting' /\ button' /\ status' = "Connected"
  BY DEF RunConnected
<1>3. Up'
  BY <1>1, <1>2 DEF Up, IsConnected
<1>4. AtPoint' /\ AtOutcome' /\ AtRest'
  BY <1>1, <1>2, <1>3 DEF AtPoint, AtOutcome, AtRest
<1>5. OneAttempt' /\ InTeardown'
  BY <1>1, <1>2 DEF Parts, OneAttempt, InTeardown
<1>6. Attached'
  BY <1>1, <1>2 DEF Parts, Attached, IsConnected
<1>7. QED
  BY <1>1, <1>4, <1>5, <1>6 DEF Parts

\* A failed attempt begins to disconnect, or is never shown to have ended.
LEMMA RunFailedStep ==
  ASSUME TypeOK, Parts, RunFailed \/ RunNameError
  PROVE  Parts'
<1>1. /\ UpdatesFirst' /\ ~Pending' /\ events' = <<>> /\ Settling' = status'
      /\ Settling = status /\ ct = "none" /\ op = "none" /\ is_connecting /\ ~button
      /\ Before \/ Up \/ Failed
  BY OutcomeIsRun DEF RunFailed, RunNameError, NextIs
<1>2. /\ UNCHANGED <<ct, attempt, is_connecting, button, status, tunnel, tstate, open>>
      /\ \/ UNCHANGED <<ui, op, routes>>
         \/ ui' = "teardown" /\ op' = "failed" /\ routes' = {}
  BY DEF RunFailed, RunNameError, Begin
<1>3. Before' \/ Up' \/ Failed'
  BY <1>1, <1>2 DEF Before, Up, Failed, IsConnected
<1>4. AtPoint' /\ AtOutcome' /\ AtRest'
  BY <1>1, <1>2, <1>3 DEF AtPoint, AtOutcome, AtRest
<1>5. OneAttempt' /\ InTeardown'
  BY <1>1, <1>2 DEF Parts, OneAttempt, InTeardown
<1>6. Attached'
  BY <1>1, <1>2 DEF Parts, Attached, IsConnected
<1>7. QED
  BY <1>1, <1>4, <1>5, <1>6 DEF Parts

\* Once disconnected, nothing is open, no route is installed, and the status
\* line will not say anything else.
LEMMA TeardownStep ==
  ASSUME TypeOK, Parts, Teardown, op # "close"
  PROVE  Parts'
<1>1. TkTypes /\ TunnelTypes /\ Queue
  BY TypeParts
<1>2. op \in {"failed", "disconnect"}
  BY <1>1 DEF Parts, InTeardown, Teardown, TkTypes
<1>3. ct = "none" /\ ~Pending /\ routes = {}
  BY <1>2 DEF Parts, OneAttempt, InTeardown
<1>4. (op = "failed" /\ events = <<>> /\ (Before \/ Up \/ Failed)) \/ (op = "disconnect" /\ Up)
  BY <1>2, <1>3 DEF Parts, InTeardown, OneAttempt, AtRest
<1>5. /\ tunnel' = 0 /\ UNCHANGED <<ct, attempt, routes>> /\ op' = "none" /\ ui' = "loop"
      /\ ~button' /\ status' \in {"Disconnected", "Connection Failed"}
      /\ ~is_connecting'
  <2>1. tunnel' = 0 /\ UNCHANGED <<ct, attempt, routes>>
    BY DEF Teardown
  <2>2. CASE op = "failed"
    <3>1. op' = "none" /\ ui' = "loop" /\ ~button' /\ status' = "Connection Failed" /\ ~is_connecting'
      BY <2>2 DEF Teardown, Finish
    <3>2. QED
      BY <2>1, <3>1
  <2>3. CASE op = "disconnect"
    <3>1. ~is_connecting
      BY <2>3 DEF Parts, OneAttempt
    <3>2. op' = "none" /\ ui' = "loop" /\ ~button' /\ status' = "Disconnected" /\ is_connecting' = is_connecting
      BY <2>3 DEF Teardown, Finish
    <3>3. QED
      BY <2>1, <3>1, <3>2
  <2>4. QED
    BY <1>2, <2>2, <2>3
<1>6. /\ UpdatesFirst' /\ ~Pending' /\ Settling' \in {"Disconnected", "Connection Failed"}
      /\ open' = {}
  <2>1. CASE tunnel # 0 /\ tstate[tunnel] # "Disconnected"
    <3>1. Disconnected(tunnel)
      BY <2>1 DEF Teardown
    <3>2. UpdatesFirst' /\ ~Pending' /\ Settling' = "Disconnected"
      BY <1>1, <1>3, <3>1, QueueDisconnected DEF Parts, Disconnected
    <3>3. open' = {}
      BY <3>1 DEF Parts, Attached, Disconnected
    <3>4. QED
      BY <3>2, <3>3
  <2>2. CASE tunnel = 0 \/ tstate[tunnel] = "Disconnected"
    <3>1. tunnel = 0 /\ events = <<>> /\ UNCHANGED <<tstate, open, events>>
      BY <1>4, <2>2 DEF Before, Up, Failed, IsConnected, Teardown
    <3>2. UpdatesFirst' /\ ~Pending' /\ Settling' = status'
      <4>1. events' = <<>> /\ Len(events') = 0 /\ UpdatesFirst
        BY <3>1 DEF Parts
      <4>2. UpdatesFirst'
        BY <3>1, <4>1 DEF UpdatesFirst
      <4>3. ~Pending' /\ Settling' = status'
        BY <4>1 DEF Pending, Updates, Settling
      <4>4. QED
        BY <4>2, <4>3
    <3>3. open' = {}
      BY <1>1, <3>1 DEF Parts, Attached, TunnelTypes, Attempts
    <3>4. QED
      BY <1>5, <3>2, <3>3
  <2>3. QED
    BY <2>1, <2>2
<1>7. AtPoint' /\ AtOutcome' /\ AtRest'
  BY <1>3, <1>5, <1>6 DEF AtPoint, AtOutcome, AtRest
<1>8. OneAttempt' /\ InTeardown'
  BY <1>3, <1>5, <1>6 DEF OneAttempt, InTeardown
<1>9. Attached'
  BY <1>3, <1>5, <1>6 DEF Attached
<1>10. QED
  BY <1>6, <1>7, <1>8, <1>9 DEF Parts

-----------------------------------------------------------------------------
(* The steps of the connecting thread. *)

\* While the thread goes on, there is nothing to claim of an outcome.
LEMMA AttemptGoesOn ==
  ASSUME Parts, ui # "closed", ct # "none", UNCHANGED tkVars, ct' # "none", ~Pending'
  PROVE  AtOutcome' /\ OneAttempt' /\ AtRest' /\ InTeardown'
<1>1. attempt # 0 /\ is_connecting /\ op \in {"none", "close"}
  BY DEF Parts, OneAttempt
<1>2. AtOutcome' /\ AtRest'
  BY DEF AtOutcome, AtRest
<1>3. OneAttempt' /\ InTeardown'
  BY <1>1 DEF Parts, OneAttempt, InTeardown, tkVars
<1>4. QED
  BY <1>2, <1>3

\* The handshake ends: the tunnel that its keys are for is new.
LEMMA HandshakeReturnsStep ==
  ASSUME TypeOK, Parts, HandshakeReturns
  PROVE  Parts'
<1>1. ui # "closed" /\ ct = "handshake" /\ UNCHANGED <<tkVars, events, tstate, open, routes>>
  BY DEF HandshakeReturns, At
<1>2. /\ Pending' <=> Pending
      /\ UpdatesFirst'
      /\ Settling' = Settling
  BY <1>1, QueueStays DEF Parts, tkVars
<1>3. ~Pending' /\ Before /\ open = {} /\ routes = {}
  BY <1>1, <1>2, TypeParts DEF Parts, OneAttempt, AtPoint, Attached, Before, IsConnected, TunnelTypes, Attempts
<1>4. \/ ct' \in {"post_failed", "post_exception"} /\ tunnel' = tunnel
      \/ ct' = "lock" /\ tunnel' = attempt
  BY DEF HandshakeReturns
<1>5. attempt' = attempt
  BY <1>1 DEF tkVars
<1>6. AtPoint'
  BY <1>2, <1>3, <1>4, <1>5 DEF AtPoint, Before
<1>7. AtOutcome' /\ OneAttempt' /\ AtRest' /\ InTeardown'
  BY <1>1, <1>3, <1>4, AttemptGoesOn
<1>8. Attached'
  BY <1>1, <1>3 DEF Attached
<1>9. QED
  BY <1>2, <1>6, <1>7, <1>8 DEF Parts

\* connect() begins, and gets as far as the interface or fails.
LEMMA ConnectStep ==
  ASSUME TypeOK, Parts, TakeLock \/ PostConnecting \/ Build
  PROVE  Parts'
<1>1. ui # "closed" /\ ct # "none" /\ UNCHANGED <<tkVars, tunnel, routes>>
  BY DEF TakeLock, PostConnecting, Build, At
<1>2. attempt' = attempt /\ status' = status /\ attempt \in Attempts /\ tunnel = attempt
  <2>1. attempt' = attempt /\ status' = status
    BY <1>1 DEF tkVars
  <2>2. attempt \in Attempts
    BY <1>1, TypeParts DEF Parts, OneAttempt, TunnelTypes, Attempts
  <2>3. tunnel = attempt
    BY DEF Parts, AtPoint, TakeLock, PostConnecting, Build, At
  <2>4. QED
    BY <2>1, <2>2, <2>3
<1>3. ~Pending /\ UpdatesFirst /\ routes = {} /\ open \subseteq {attempt} /\ Queue
  BY <1>1, <1>2, TypeParts DEF Parts, OneAttempt, Attached, TakeLock, PostConnecting, Build, At
<1>4. CASE TakeLock
  <2>1. UpdatesFirst' /\ ~Pending' /\ Settling' = Settling
    BY <1>2, <1>3, <1>4, QueueStays DEF TakeLock
  <2>2. ct' = "post_connecting" /\ open' = open
    BY <1>4 DEF TakeLock
  <2>3. AtPoint'
    BY <1>1, <1>2, <1>4, <2>1, <2>2 DEF Parts, AtPoint, TakeLock, At
  <2>4. AtOutcome' /\ OneAttempt' /\ AtRest' /\ InTeardown'
    BY <1>1, <2>1, <2>2, AttemptGoesOn
  <2>5. Attached'
    BY <1>1, <1>2, <1>3, <2>2 DEF Attached
  <2>6. QED
    BY <2>1, <2>3, <2>4, <2>5 DEF Parts
<1>5. CASE PostConnecting
  <2>1. UpdatesFirst' /\ ~Pending' /\ Settling' = "Connecting..."
    BY <1>3, <1>5, QueueUpdate DEF PostConnecting, Post, States
  <2>2. ct' = "build" /\ open' = open
    BY <1>5 DEF PostConnecting
  <2>3. AtPoint'
    BY <1>1, <1>2, <2>1, <2>2 DEF AtPoint
  <2>4. AtOutcome' /\ OneAttempt' /\ AtRest' /\ InTeardown'
    BY <1>1, <2>1, <2>2, AttemptGoesOn
  <2>5. Attached'
    BY <1>1, <1>2, <1>3, <2>2 DEF Attached
  <2>6. QED
    BY <2>1, <2>3, <2>4, <2>5 DEF Parts
<1>6. CASE Build
  <2>1. UpdatesFirst' /\ ~Pending' /\ Settling' = Settling
    BY <1>2, <1>3, <1>6, QueueStays DEF Build
  <2>2. ct' = "post_state" /\ tstate'[attempt] \in {"Connected", "Error"} /\ open' \subseteq {attempt}
    BY <1>2, <1>3, <1>6, TypeParts DEF Build, TunnelTypes
  <2>3. AtPoint'
    BY <1>1, <1>2, <1>6, <2>1, <2>2 DEF Parts, AtPoint, Build, At
  <2>4. AtOutcome' /\ OneAttempt' /\ AtRest' /\ InTeardown'
    BY <1>1, <2>1, <2>2, AttemptGoesOn
  <2>5. Attached'
    BY <1>1, <1>2, <1>3, <2>2 DEF Attached
  <2>6. QED
    BY <2>1, <2>3, <2>4, <2>5 DEF Parts
<1>7. QED
  BY <1>4, <1>5, <1>6

\* connect() returns, after the update for its outcome.
LEMMA PostStateStep ==
  ASSUME TypeOK, Parts, PostState
  PROVE  Parts'
<1>1. /\ ui # "closed" /\ ct = "post_state" /\ UNCHANGED <<tkVars, tunnel, tstate, open, routes>>
      /\ events' = Append(events, StateEvent(tstate[attempt]))
      /\ ct' \in {"post_failed", "routes", "post_connected"}
      /\ ct' = "post_failed" <=> tstate[attempt] = "Error"
  BY DEF PostState, At, Post
<1>2. attempt' = attempt /\ attempt # 0 /\ tunnel = attempt /\ tstate[attempt] \in {"Connected", "Error"}
  BY <1>1 DEF Parts, OneAttempt, AtPoint, tkVars
<1>3. ~Pending /\ UpdatesFirst /\ Queue
  BY <1>1, TypeParts DEF Parts, OneAttempt
<1>4. UpdatesFirst' /\ ~Pending' /\ Settling' = tstate[attempt]
  BY <1>1, <1>2, <1>3, QueueUpdate DEF States
<1>5. AtPoint'
  BY <1>1, <1>2, <1>4 DEF AtPoint, Up, Failed, IsConnected
<1>6. AtOutcome' /\ OneAttempt' /\ AtRest' /\ InTeardown'
  BY <1>1, <1>4, AttemptGoesOn
<1>7. Attached'
  BY <1>1 DEF Parts, Attached, IsConnected
<1>8. QED
  BY <1>4, <1>5, <1>6, <1>7 DEF Parts

\* Routes are installed towards a tunnel that is connected.
LEMMA RoutesStep ==
  ASSUME TypeOK, Parts, StartRoutes \/ AddServerRoute \/ AddDefaultRoutes
  PROVE  Parts'
<1>1. /\ ui # "closed" /\ ct \in {"routes", "add_server", "add_low", "add_high"}
      /\ UNCHANGED <<tkVars, events, tunnel, tstate, open>>
      /\ ct' \in {"add_server", "add_low", "add_high", "post_connected", "post_exception"}
  BY DEF StartRoutes, AddServerRoute, AddDefaultRoutes, AddRoute, At
<1>2. /\ Pending' <=> Pending
      /\ UpdatesFirst'
      /\ Settling' = Settling
  BY <1>1, QueueStays DEF Parts, tkVars
<1>3. Up /\ ~Pending
  BY <1>1 DEF Parts, AtPoint, OneAttempt
<1>4. Up'
  BY <1>1, <1>2, <1>3 DEF Up, IsConnected
<1>5. AtPoint'
  BY <1>1, <1>4 DEF AtPoint
<1>6. AtOutcome' /\ OneAttempt' /\ AtRest' /\ InTeardown'
  BY <1>1, <1>2, <1>3, AttemptGoesOn
<1>7. Attached'
  BY <1>1, <1>4 DEF Parts, Attached, Up
<1>8. QED
  BY <1>2, <1>5, <1>6, <1>7 DEF Parts

\* The thread ends; its outcome is in the queue.
LEMMA PostOutcomeStep ==
  ASSUME TypeOK, Parts, PostOutcome
  PROVE  Parts'
<1>1. PICK e \in {ConnectedEvent, FailedEvent, ExceptionEvent} :
        /\ events' = Append(events, e)
        /\ \/ ct = "post_connected" /\ e = ConnectedEvent
           \/ ct = "post_failed" /\ e = FailedEvent
           \/ ct = "post_exception" /\ e = ExceptionEvent
  BY DEF PostOutcome, Post, At
<1>2. ct' = "none" /\ ui = "loop" /\ UNCHANGED <<tkVars, tunnel, tstate, open, routes>>
  BY DEF PostOutcome, Post
<1>3. attempt # 0 /\ is_connecting /\ ~button /\ op = "none" /\ ~Pending /\ UpdatesFirst /\ Queue
  BY <1>1, <1>2, TypeParts DEF Parts, OneAttempt, InTeardown
<1>4. UpdatesFirst' /\ Pending' /\ Settling' = Settling /\ events'[Len(events')] = e
  BY <1>1, <1>2, <1>3, QueueOutcome DEF tkVars
<1>5. /\ e.kind = "connected" => Up'
      /\ e.kind = "failed" => Before' \/ Failed'
      /\ e.kind = "exception" => (Before \/ Up)'
  <2>1. CASE ct = "post_connected"
    BY <1>1, <1>2, <1>4, <2>1 DEF Parts, AtPoint, Up, IsConnected, ConnectedEvent
  <2>2. CASE ct = "post_failed"
    BY <1>1, <1>2, <1>4, <2>2 DEF Parts, AtPoint, Before, Failed, FailedEvent
  <2>3. CASE ct = "post_exception"
    BY <1>1, <1>2, <1>4, <2>3 DEF Parts, AtPoint, Before, Up, IsConnected, ExceptionEvent
  <2>4. QED
    BY <1>1, <2>1, <2>2, <2>3
<1>6. AtOutcome'
  BY <1>4, <1>5 DEF AtOutcome
<1>7. AtPoint' /\ AtRest'
  BY <1>2, <1>4 DEF AtPoint, AtRest
<1>8. OneAttempt' /\ InTeardown'
  BY <1>2, <1>3 DEF Parts, OneAttempt, InTeardown, tkVars
<1>9. Attached'
  BY <1>2 DEF Parts, Attached, IsConnected
<1>10. QED
  BY <1>4, <1>6, <1>7, <1>8, <1>9 DEF Parts

-----------------------------------------------------------------------------
(* The theorems. *)

\* The inductive invariant: initially.
LEMMA AppInit == Init => IInv
<1> SUFFICES ASSUME Init PROVE IInv
  OBVIOUS
<1>1. TypeOK
  BY TypeInit
<1>2. ~Pending /\ UpdatesFirst /\ Settling = "Disconnected"
  <2>1. events = <<>> /\ Len(events) = 0 /\ status = "Disconnected"
    BY DEF Init
  <2>2. UpdatesFirst
    <3>1. 1..(Len(events) - 1) = {}
      BY <2>1
    <3>2. QED
      BY <3>1 DEF UpdatesFirst
  <2>3. QED
    BY <2>1, <2>2 DEF Pending, Settling, Updates
<1>3. AtPoint /\ AtOutcome /\ OneAttempt /\ AtRest
  BY <1>2 DEF Init, AtPoint, AtOutcome, OneAttempt, AtRest
<1>4. InTeardown /\ Attached
  BY DEF Init, InTeardown, Attached
<1>5. QED
  BY <1>1, <1>2, <1>3, <1>4 DEF IInv, AppInv

\* ... and by each step.
LEMMA AppNext == IInv /\ [Next]_vars => IInv'
<1> SUFFICES ASSUME IInv, [Next]_vars PROVE IInv'
  OBVIOUS
<1>1. TypeOK /\ TypeOK'
  BY TypeNext DEF IInv
<1>2. ui # "closed" => Parts
  BY DEF IInv, AppInv, Parts
<1>3. CASE ClickConnect \/ ClickDisconnect \/ CloseWindow
  <2>1. Parts
    BY <1>2, <1>3 DEF ClickConnect, ClickDisconnect, CloseWindow
  <2>2. Parts'
    BY <1>1, <1>3, <2>1, ClickConnectStep, ClickDisconnectStep, CloseWindowStep
  <2>3. QED
    BY <1>1, <2>2 DEF IInv, AppInv, Parts
<1>4. CASE RunEvent
  <2>1. Parts
    BY <1>2, <1>4 DEF RunEvent, RunStateEvent, RunConnected, RunFailed, RunNameError, NextIs
  <2>2. Parts'
    BY <1>1, <1>4, <2>1, RunStateEventStep, RunConnectedStep, RunFailedStep DEF RunEvent
  <2>3. QED
    BY <1>1, <2>2 DEF IInv, AppInv, Parts
<1>5. CASE Teardown
  <2>1. Parts
    BY <1>2, <1>5 DEF Teardown
  <2>2. CASE op = "close"
    BY <1>1, <1>5, <2>2 DEF Teardown, Finish, IInv, AppInv
  <2>3. CASE op # "close"
    <3>1. Parts'
      BY <1>1, <1>5, <2>1, <2>3, TeardownStep
    <3>2. QED
      BY <1>1, <3>1 DEF IInv, AppInv, Parts
  <2>4. QED
    BY <2>2, <2>3
<1>6. CASE ConnectThread
  <2>1. Parts
    BY <1>2, <1>6 DEF ConnectThread, HandshakeReturns, TakeLock, PostConnecting, Build, PostState,
                      StartRoutes, AddServerRoute, AddDefaultRoutes, AddRoute, PostOutcome, At
  <2>2. Parts'
    BY <1>1, <1>6, <2>1, HandshakeReturnsStep, ConnectStep, PostStateStep, RoutesStep, PostOutcomeStep
       DEF ConnectThread
  <2>3. QED
    BY <1>1, <2>2 DEF IInv, AppInv, Parts
<1>7. CASE UNCHANGED vars
  <2>1. UNCHANGED <<ui, op, events, ct, attempt, is_connecting, button, status, tunnel, tstate, open, routes>>
    BY <1>7 DEF vars
  <2>2. /\ Pending' <=> Pending
        /\ UpdatesFirst' <=> UpdatesFirst
        /\ Settling' = Settling
    BY <2>1, QueueStays
  <2>3. ui # "closed" => Parts'
    <3>1. SUFFICES ASSUME Parts PROVE Parts'
      BY <1>2
    <3>2. AtPoint' /\ AtOutcome' /\ AtRest'
      BY <2>1, <2>2, <3>1 DEF Parts, AtPoint, AtOutcome, AtRest, Before, Up, Failed, IsConnected
    <3>3. OneAttempt' /\ InTeardown' /\ Attached'
      BY <2>1, <2>2, <3>1 DEF Parts, OneAttempt, InTeardown, Attached, IsConnected
    <3>4. QED
      BY <2>2, <3>1, <3>2, <3>3 DEF Parts
  <2>4. QED
    BY <1>1, <2>1, <2>3 DEF IInv, AppInv, Parts
<1>8. QED
  BY <1>3, <1>4, <1>5, <1>6, <1>7 DEF Next, TkThread, Rest

\* The inductive invariant holds throughout the attempts of the application
\* (ui/main.py, class VPNApp).
THEOREM AppInvariant == Spec => []IInv
BY AppInit, AppNext, PTL DEF Spec

\* Every variable of the application keeps its type.
THEOREM AppTypeCorrect == Spec => []TypeOK
<1>1. IInv => TypeOK
  BY DEF IInv
<1>2. QED
  BY <1>1, AppInvariant, PTL

\* When nothing is going on, the status line and the button agree with the
\* tunnel, in whatever order the updates of two threads came.
THEOREM StatusAgrees == Spec => []StatusSettles
<1>1. IInv => StatusSettles
  <2> SUFFICES ASSUME IInv, Quiet PROVE StatusSettles
    BY DEF StatusSettles
  <2>1. Parts /\ ct = "none"
    BY DEF IInv, AppInv, Parts, Quiet
  <2>2. ~Pending /\ Settling = status
    <3>1. events = <<>> /\ Len(events) = 0
      BY DEF Quiet
    <3>2. QED
      BY <3>1 DEF Pending, Settling, Updates
  <2>3. \/ is_connecting /\ ~button /\ (Before \/ Up \/ Failed)
        \/ ~is_connecting /\ button /\ Up
        \/ ~is_connecting /\ ~button /\ tunnel = 0 /\ status \in {"Disconnected", "Connection Failed"}
    BY <2>1, <2>2 DEF Parts, AtRest, OneAttempt
  <2>4. CASE Before
    BY <2>2, <2>3, <2>4 DEF Before, Up, IsConnected, StatusSettles
  <2>5. CASE Up
    BY <2>2, <2>5 DEF Up, IsConnected, StatusSettles
  <2>6. CASE Failed
    BY <2>2, <2>3, <2>6 DEF Failed, Up, IsConnected, StatusSettles
  <2>7. CASE tunnel = 0 /\ ~button /\ status \in {"Disconnected", "Connection Failed"}
    BY <2>7 DEF StatusSettles
  <2>8. QED
    BY <2>3, <2>4, <2>5, <2>6, <2>7
<1>2. QED
  BY <1>1, AppInvariant, PTL

\* Whatever attempts fail, and wherever, the interface and the socket of a
\* tunnel are open only while the application knows the tunnel.
THEOREM TunnelsAreTracked == Spec => []NoOrphanTunnel
<1>1. IInv => NoOrphanTunnel
  BY DEF IInv, AppInv, Attached, NoOrphanTunnel
<1>2. QED
  BY <1>1, AppInvariant, PTL

\* When nothing is going on, no route leads into a tunnel that is not connected.
THEOREM RoutesLeadSomewhere == Spec => []RoutesNeedTunnel
<1>1. IInv => RoutesNeedTunnel
  BY DEF IInv, AppInv, Attached, IsConnected, RoutesNeedTunnel, Quiet
<1>2. QED
  BY <1>1, AppInvariant, PTL
=============================================================================
