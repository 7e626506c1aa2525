------------------------- MODULE TunnelClientProofs -------------------------
(***************************************************************************)
(* Proofs about TunnelClient, for any set of callers and any number of     *)
(* connections: its types, the resources it holds whenever no call is in   *)
(* progress, and that no worker uses what was closed under it.             *)
(***************************************************************************)
EXTENDS TunnelClient, TLAPS

-----------------------------------------------------------------------------
(* The inductive invariant. *)

Connecting == {"open_tun", "prepare", "open_udp", "start", "clean"}
Held == Connecting \cup {"callback", "join"}
Busy == {"poll", "pass"}

\* A caller is between the taking and the release of the lock exactly when it
\* holds it.
LockHeld == \A p \in Callers : pc[p] \in Held <=> lock = p

\* Nothing is held but by the current interface, or one whose constructor raised.
OnlyCurrent == \A i \in Generations \ unnamed : Holds(i) => i = tun

\* The caller p is in connect() with threads neither started nor left running.
InConnect(p) ==
  pc[p] \in Connecting \/ (pc[p] = "callback" /\ state \in {"CONNECTING", "ERROR"})

\* Interface and socket are both there, or neither is.
Paired == (tun = 0 <=> udp = 0) /\ (tun # 0 => Usable(tun))

\* What self.tun, self.udp_sock and running are at the point that the caller p of
\* connect() or disconnect() is at, which in the state callback the state tells; a
\* caller that connects finds no thread running, unless an earlier one failed to
\* start them all.
Point(p) ==
  /\ InConnect(p) => gen # 0 /\ (~halfway => ~running)
  /\ pc[p] = "open_tun" => tun = 0 /\ udp = 0
  /\ pc[p] = "prepare" => tun = gen /\ udp = 0 /\ (platform # "nt" => gen \in fds)
  /\ pc[p] = "open_udp" => tun = gen /\ udp = 0 /\ Usable(gen)
  /\ pc[p] = "start" => tun = gen /\ udp = gen /\ Usable(gen)
  /\ pc[p] = "clean" => state = "ERROR"
  /\ pc[p] = "join" => ~running /\ Paired
  /\ pc[p] = "callback" =>
       /\ state = "CONNECTING" => tun = 0 /\ udp = 0
       /\ state = "CONNECTED" => running /\ tun # 0 /\ Paired
       /\ state = "DISCONNECTING" => Paired /\ (~halfway => (running <=> tun # 0))
       /\ state = "DISCONNECTED" => ~running /\ tun = 0 /\ udp = 0

Points == \A p \in Callers : Point(p)

\* The part of ResourcesMatchState that does not follow from OnlyCurrent.
Settled == lock = NoCaller =>
  /\ state \in {"DISCONNECTED", "CONNECTED", "ERROR"}
  /\ state = "CONNECTED" <=> tun # 0
  /\ state = "CONNECTED" <=> udp # 0
  /\ ~halfway => (running <=> state = "CONNECTED")
  /\ tun # 0 => Usable(tun)

\* A worker in a round has hold of the interface or the socket that is the
\* current one, which nobody is replacing.
HasHold(w) ==
  /\ \A p \in Callers : ~InConnect(p)
  /\ tun # 0 /\ udp # 0
  /\ Kind(w) = "keepalive" => wpc[w] = "pass"
  /\ using[w] = IF <<Kind(w), wpc[w]>> \in {<<"tun", "poll">>, <<"udp", "pass">>} THEN tun ELSE udp

WorkersHold == ~halfway => \A w \in Workers : wpc[w] \in Busy => HasHold(w)

ClientInv == LockHeld /\ OnlyCurrent /\ Points /\ Settled /\ WorkersHold

IInv == TypeOK /\ ClientInv

-----------------------------------------------------------------------------
(* Types. *)

USE CallersAssumption, ConnectsAssumption

TUNTypes ==
  /\ platform \in {"nt", "posix"}
  /\ fds \subseteq Generations /\ adapters \subseteq Generations /\ sessions \subseteq Generations

Numbers == gen \in 0..MaxConnects /\ tun \in 0..MaxConnects /\ udp \in 0..MaxConnects

\* The calls of TUNInterface keep the types of its variables.
LEMMA TUNCalls ==
  ASSUME TUNTypes, NEW i \in 0..MaxConnects,
         (i \in Generations /\ (Construct(i) \/ ConstructFails(i) \/ Prepare(i) \/ PrepareFails(i)))
           \/ Close(i) \/ UNCHANGED tunVars
  PROVE  TUNTypes'
<1>1. CASE i \in Generations /\ Construct(i)
  BY <1>1 DEF TUNTypes, Construct, Generations
<1>2. CASE i \in Generations /\ ConstructFails(i)
  BY <1>2 DEF TUNTypes, ConstructFails, Generations
<1>3. CASE i \in Generations /\ Prepare(i)
  BY <1>3 DEF TUNTypes, Prepare, Generations
<1>4. CASE i \in Generations /\ PrepareFails(i)
  BY <1>4 DEF TUNTypes, PrepareFails, Prepare, Generations, tunVars
<1>5. CASE Close(i)
  BY <1>5 DEF TUNTypes, Close, Generations
<1>6. CASE UNCHANGED tunVars
  BY <1>6 DEF TUNTypes, Generations, tunVars
<1>7. QED
  BY <1>1, <1>2, <1>3, <1>4, <1>5, <1>6

Flags == running \in BOOLEAN /\ halfway \in BOOLEAN
StateType == state \in {"DISCONNECTED", "CONNECTING", "CONNECTED", "DISCONNECTING", "ERROR"}
CallerTypes ==
  /\ lock \in Callers \cup {NoCaller}
  /\ pc \in [Callers -> {"idle", "callback", "open_tun", "prepare", "open_udp", "start",
                         "clean", "disconnect", "join"}]
WorkerTypes ==
  /\ wpc \in [Workers -> {"none", "between", "poll", "recv", "lookup", "pass"}]
  /\ using \in [Workers -> 0..MaxConnects]
UnnamedType == unnamed \subseteq Generations

\* The type invariant, cut into parts that few actions touch.
LEMMA TypeParts ==
  TypeOK <=> /\ Flags /\ StateType /\ CallerTypes /\ Numbers
             /\ TUNTypes /\ WorkerTypes /\ UnnamedType
BY DEF TypeOK, Flags, StateType, CallerTypes, Numbers, TUNTypes, WorkerTypes, UnnamedType

\* What a caller does to its pc and to the lock keeps their types.
LEMMA CallerStep ==
  ASSUME CallerTypes, NEW p \in Callers, NEW to, Go(p, to),
         to \in {"idle", "callback", "open_tun", "prepare", "open_udp", "start", "clean",
                 "disconnect", "join"},
         lock' \in {lock, p, NoCaller}
  PROVE  CallerTypes'
BY DEF CallerTypes, Go

\* What a worker does to its pc and its hold keeps their types.
LEMMA WorkerStep ==
  ASSUME WorkerTypes, Numbers, NEW w \in Workers, Worker(w) \/ Receive(w)
  PROVE  WorkerTypes'
<1>1. ASSUME NEW r \in 0..MaxConnects, NEW to \in {"poll", "lookup", "pass"}, Takes(w, r, to)
      PROVE  WorkerTypes'
  BY <1>1 DEF WorkerTypes, Takes, EndRound, WorkerGo
<1>2. CASE EndRound(w)
  BY <1>2 DEF WorkerTypes, EndRound, WorkerGo
<1>3. CASE Round(w)
  <2>1. CASE ~running
    BY <1>3, <2>1 DEF Round, WorkerTypes, WorkerGo
  <2>2. CASE running
    <3>1. Kind(w) \in {"tun", "udp", "keepalive"}
      BY DEF Workers, Kinds, Kind
    <3>2. CASE Kind(w) = "tun"
      BY <1>1, <1>3, <2>2, <3>2 DEF Round, Numbers
    <3>3. CASE Kind(w) = "udp"
      BY <1>1, <1>3, <2>2, <3>3 DEF Round, Numbers
    <3>4. CASE Kind(w) = "keepalive"
      BY <1>1, <1>3, <2>2, <3>4 DEF Round, Sends, Numbers
    <3>5. QED
      BY <3>1, <3>2, <3>3, <3>4
  <2>3. QED
    BY <2>1, <2>2
<1>4. CASE Poll(w)
  <2>1. CASE WorkerGo(w, "recv") /\ UNCHANGED using
    BY <2>1 DEF WorkerTypes, WorkerGo
  <2>2. QED
    BY <1>1, <1>2, <1>4, <2>1 DEF Poll, Sends, Numbers
<1>5. CASE Receive(w) \/ Pass(w)
  BY <1>2, <1>5 DEF Receive, Pass
<1>6. QED
  BY <1>3, <1>4, <1>5 DEF Worker

\* The type invariant is inductive: initially.
LEMMA TypeInit == Init => TypeOK
<1>1. SUFFICES ASSUME Init PROVE TypeOK
  OBVIOUS
<1>2. Flags /\ StateType
  BY <1>1 DEF Init, Flags, StateType
<1>3. CallerTypes
  BY <1>1 DEF Init, CallerTypes
<1>4. Numbers /\ UnnamedType /\ WorkerTypes
  BY <1>1 DEF Init, Numbers, UnnamedType, WorkerTypes
<1>5. TUNTypes
  BY <1>1 DEF Init, TUNInit, TUNTypes
<1>6. QED
  BY <1>2, <1>3, <1>4, <1>5, TypeParts

\* ... and by each step.
LEMMA TypeNext == IInv /\ [Next]_vars => TypeOK'
<1> DEFINE Types == /\ Flags /\ StateType /\ CallerTypes /\ Numbers
                    /\ TUNTypes /\ WorkerTypes /\ UnnamedType
<1> SUFFICES ASSUME IInv, [Next]_vars PROVE Types'
  BY DEF TypeOK, Flags, StateType, CallerTypes, Numbers, TUNTypes, WorkerTypes, UnnamedType
<1> USE DEF Types
<1>1. Types
  BY TypeParts DEF IInv
<1>2. \A p \in Callers :
        /\ pc[p] \in Connecting => gen \in Generations
        /\ pc[p] = "prepare" => tun \in Generations
  BY <1>1 DEF IInv, ClientInv, Points, Point, InConnect, Connecting, Numbers, Generations
<1>3. ASSUME NEW p \in Callers, BeginConnect(p)
      PROVE  Types'
  <2>1. Flags' /\ StateType' /\ TUNTypes' /\ WorkerTypes' /\ UnnamedType'
    BY <1>1, <1>3 DEF BeginConnect, SetState, Flags, StateType, TUNTypes, WorkerTypes, UnnamedType,
                      tunVars, workerVars, history
  <2>2. Numbers'
    BY <1>1, <1>3 DEF BeginConnect, Numbers
  <2>3. CallerTypes'
    BY <1>1, <1>3, CallerStep DEF BeginConnect, SetState
  <2>4. QED
    BY <2>1, <2>2, <2>3
<1>4. ASSUME NEW p \in Callers, CallDisconnect(p)
      PROVE  Types'
  <2>1. Flags' /\ StateType' /\ Numbers' /\ TUNTypes' /\ WorkerTypes' /\ UnnamedType'
    BY <1>1, <1>4 DEF CallDisconnect, Flags, StateType, Numbers, TUNTypes, WorkerTypes, UnnamedType,
                      tunVars, workerVars, history
  <2>2. CallerTypes'
    BY <1>1, <1>4, CallerStep DEF CallDisconnect
  <2>3. QED
    BY <2>1, <2>2
<1>5. ASSUME NEW p \in Callers, OpenTun(p)
      PROVE  Types'
  <2>1. gen \in Generations
    BY <1>2, <1>5 DEF OpenTun, Connecting
  <2>2. Flags' /\ StateType' /\ Numbers' /\ WorkerTypes' /\ UnnamedType'
    BY <1>1, <1>5, <2>1 DEF OpenTun, Fail, SetState, Flags, StateType, Numbers, WorkerTypes, UnnamedType, workerVars
  <2>3. TUNTypes'
    BY <1>1, <1>5, <2>1, TUNCalls DEF OpenTun, Numbers
  <2>4. CallerTypes'
    BY <1>1, <1>5, CallerStep DEF OpenTun, Fail, SetState
  <2>5. QED
    BY <2>2, <2>3, <2>4
<1>6. ASSUME NEW p \in Callers, PrepareTun(p)
      PROVE  Types'
  <2>1. tun \in Generations
    BY <1>2, <1>6 DEF PrepareTun
  <2>2. Flags' /\ StateType' /\ Numbers' /\ WorkerTypes' /\ UnnamedType'
    BY <1>1, <1>6 DEF PrepareTun, Fail, SetState, Flags, StateType, Numbers, WorkerTypes, UnnamedType, workerVars, history
  <2>3. TUNTypes'
    BY <1>1, <1>6, <2>1, TUNCalls DEF PrepareTun, Numbers
  <2>4. CallerTypes'
    BY <1>1, <1>6, CallerStep DEF PrepareTun, Fail, SetState
  <2>5. QED
    BY <2>2, <2>3, <2>4
<1>7. ASSUME NEW p \in Callers, OpenUdp(p)
      PROVE  Types'
  <2>1. Flags' /\ StateType' /\ Numbers' /\ TUNTypes' /\ WorkerTypes' /\ UnnamedType'
    BY <1>1, <1>7 DEF OpenUdp, Fail, SetState, Flags, StateType, Numbers, TUNTypes, WorkerTypes, UnnamedType,
                      tunVars, workerVars, history
  <2>2. CallerTypes'
    BY <1>1, <1>7, CallerStep DEF OpenUdp, Fail, SetState
  <2>3. QED
    BY <2>1, <2>2
<1>8. ASSUME NEW p \in Callers, StartThreads(p)
      PROVE  Types'
  <2>1. StateType' /\ Numbers' /\ TUNTypes' /\ UnnamedType'
    BY <1>1, <1>8 DEF StartThreads, SetState, StateType, Numbers, TUNTypes, UnnamedType, tunVars, history
  <2>2. Flags'
    BY <1>1, <1>8 DEF StartThreads, Flags, history
  <2>3. WorkerTypes'
    BY <1>1, <1>8 DEF StartThreads, Started, WorkerTypes
  <2>4. CallerTypes'
    BY <1>1, <1>8, CallerStep DEF StartThreads, SetState
  <2>5. QED
    BY <2>1, <2>2, <2>3, <2>4
<1>9. ASSUME NEW p \in Callers, StartFails(p)
      PROVE  Types'
  <2>1. StateType' /\ Numbers' /\ TUNTypes' /\ UnnamedType'
    BY <1>1, <1>9 DEF StartFails, Fail, SetState, StateType, Numbers, TUNTypes, UnnamedType, tunVars
  <2>2. Flags'
    BY <1>9 DEF StartFails, Flags
  <2>3. WorkerTypes'
    BY <1>1, <1>9 DEF StartFails, Started, WorkerTypes
  <2>4. CallerTypes'
    BY <1>1, <1>9, CallerStep DEF StartFails, Fail, SetState
  <2>5. QED
    BY <2>1, <2>2, <2>3, <2>4
<1>10. ASSUME NEW p \in Callers, CleanUp(p)
       PROVE  Types'
  <2>1. StateType' /\ Numbers' /\ UnnamedType' /\ Flags' /\ WorkerTypes'
    BY <1>1, <1>10 DEF CleanUp, Cleanup, StateType, Numbers, UnnamedType, Flags, WorkerTypes,
                       workerVars, history
  <2>2. TUNTypes'
    BY <1>1, <1>10, TUNCalls DEF CleanUp, Cleanup, Numbers
  <2>3. CallerTypes'
    BY <1>1, <1>10, CallerStep DEF CleanUp, Release
  <2>4. QED
    BY <2>1, <2>2, <2>3
<1>11. ASSUME NEW p \in Callers, BeginDisconnect(p)
       PROVE  Types'
  <2>1. StateType' /\ Numbers' /\ TUNTypes' /\ WorkerTypes' /\ UnnamedType'
    BY <1>1, <1>11 DEF BeginDisconnect, SetState, StateType, Numbers, TUNTypes, WorkerTypes, UnnamedType,
                       tunVars, workerVars, history
  <2>2. Flags'
    BY <1>1, <1>11 DEF BeginDisconnect, Flags, history
  <2>3. CallerTypes'
    BY <1>1, <1>11, CallerStep DEF BeginDisconnect, SetState
  <2>4. QED
    BY <2>1, <2>2, <2>3
<1>12. ASSUME NEW p \in Callers, FinishDisconnect(p)
       PROVE  Types'
  <2>1. StateType' /\ Numbers' /\ UnnamedType' /\ WorkerTypes'
    BY <1>1, <1>12 DEF FinishDisconnect, SetState, Cleanup, StateType, Numbers, UnnamedType, WorkerTypes, workerVars
  <2>2. Flags'
    BY <1>1, <1>12 DEF FinishDisconnect, Flags
  <2>3. TUNTypes'
    BY <1>1, <1>12, TUNCalls DEF FinishDisconnect, Cleanup, Numbers
  <2>4. CallerTypes'
    BY <1>1, <1>12, CallerStep DEF FinishDisconnect, SetState
  <2>5. QED
    BY <2>1, <2>2, <2>3, <2>4
<1>13. ASSUME NEW p \in Callers, Notified(p)
       PROVE  Types'
  <2>1. /\ lock' \in {lock, NoCaller} /\ running' \in {running, FALSE}
        /\ \E to \in {"open_tun", "clean", "join", "idle"} : Go(p, to)
    BY <1>1, <1>13 DEF Notified, Release, StateType
  <2>2. StateType' /\ Numbers' /\ TUNTypes' /\ WorkerTypes' /\ UnnamedType'
    BY <1>1, <1>13 DEF Notified, StateType, Numbers, TUNTypes, WorkerTypes, UnnamedType,
                       tunVars, workerVars, history
  <2>3. Flags'
    BY <1>1, <1>13, <2>1 DEF Notified, Flags, history
  <2>4. CallerTypes'
    BY <1>1, <2>1, CallerStep
  <2>5. QED
    BY <2>2, <2>3, <2>4
<1>14. ASSUME NEW w \in Workers, Worker(w) \/ Receive(w)
       PROVE  Types'
  <2>1. UNCHANGED <<clientVars, tunVars, history>>
    BY <1>14 DEF Worker, Round, Poll, Receive, Pass
  <2>2. Flags' /\ StateType' /\ CallerTypes' /\ Numbers' /\ TUNTypes' /\ UnnamedType'
    BY <1>1, <2>1 DEF Flags, StateType, CallerTypes, Numbers, TUNTypes, UnnamedType,
                      clientVars, tunVars, history
  <2>3. WorkerTypes'
    BY <1>1, <1>14, WorkerStep
  <2>4. QED
    BY <2>2, <2>3
<1>15. CASE UNCHANGED vars
  BY <1>1, <1>15 DEF Flags, StateType, CallerTypes, Numbers, TUNTypes, WorkerTypes, UnnamedType,
                     vars, clientVars, tunVars, workerVars, history
<1>16. QED
  BY <1>3, <1>4, <1>5, <1>6, <1>7, <1>8, <1>9, <1>10, <1>11, <1>12, <1>13, <1>14, <1>15
     DEF Next, Call, Caller

-----------------------------------------------------------------------------
(* The lock, and the points that callers are at. *)

\* Whoever takes the lock, keeps it or releases it is the only one to be
\* between these two.
LEMMA LockNext == IInv /\ [Next]_vars => LockHeld'
<1> SUFFICES ASSUME IInv, [Next]_vars PROVE LockHeld'
  OBVIOUS
<1>1. LockHeld /\ CallerTypes
  BY TypeParts DEF IInv, ClientInv
<1>2. ASSUME NEW p \in Callers, NEW to, Go(p, to), UNCHANGED lock, pc[p] \in Held <=> to \in Held
      PROVE  LockHeld'
  BY <1>1, <1>2 DEF LockHeld, CallerTypes, Go
<1>3. ASSUME NEW p \in Callers, NEW to \in Held, Go(p, to), lock = NoCaller, lock' = p
      PROVE  LockHeld'
  BY <1>1, <1>3 DEF LockHeld, CallerTypes, Go
<1>4. ASSUME NEW p \in Callers, pc[p] \in Held, Release(p)
      PROVE  LockHeld'
  BY <1>1, <1>4 DEF LockHeld, CallerTypes, Release, Go, Held, Connecting
<1>5. ASSUME NEW p \in Callers, BeginConnect(p) \/ BeginDisconnect(p)
      PROVE  LockHeld'
  BY <1>2, <1>3, <1>5 DEF BeginConnect, BeginDisconnect, SetState, Held, Connecting
<1>6. ASSUME NEW p \in Callers, StartThreads(p) \/ FinishDisconnect(p) \/ CallDisconnect(p)
      PROVE  LockHeld'
  BY <1>2, <1>6 DEF StartThreads, FinishDisconnect, CallDisconnect, SetState, Held, Connecting
<1>7. ASSUME NEW p \in Callers, OpenTun(p) \/ PrepareTun(p) \/ OpenUdp(p) \/ StartFails(p)
      PROVE  LockHeld'
  BY <1>2, <1>7 DEF OpenTun, PrepareTun, OpenUdp, StartFails, Fail, SetState, Held, Connecting
<1>8. ASSUME NEW p \in Callers, CleanUp(p)
      PROVE  LockHeld'
  BY <1>4, <1>8 DEF CleanUp, Held, Connecting
<1>9. ASSUME NEW p \in Callers, Notified(p)
      PROVE  LockHeld'
  <2>1. \/ Release(p)
        \/ UNCHANGED lock /\ \E to \in {"open_tun", "clean", "join"} : Go(p, to)
    BY <1>9, TypeParts DEF Notified, IInv, StateType
  <2>2. QED
    BY <1>2, <1>4, <1>9, <2>1 DEF Notified, Held, Connecting
<1>10. ASSUME NEW w \in Workers, Worker(w) \/ Receive(w)
       PROVE  LockHeld'
  BY <1>1, <1>10 DEF LockHeld, Worker, Round, Poll, Receive, Pass, clientVars
<1>11. CASE UNCHANGED vars
  BY <1>1, <1>11 DEF LockHeld, vars, clientVars
<1>12. QED
  BY <1>5, <1>6, <1>7, <1>8, <1>9, <1>10, <1>11 DEF Next, Call, Caller

\* While p holds the lock, every other caller is outside, and remains there.
LEMMA OthersOutside ==
  ASSUME LockHeld, CallerTypes, NEW p \in Callers, pc[p] \in Held, NEW to, Go(p, to)
  PROVE  /\ lock = p /\ p # NoCaller
         /\ pc'[p] = to
         /\ \A q \in Callers \ {p} : pc[q] \notin Held /\ pc'[q] \notin Held
BY DEF LockHeld, CallerTypes, Go

\* While nobody holds it, every caller is, and remains there but the one that goes.
LEMMA AllOutside ==
  ASSUME LockHeld, CallerTypes, lock = NoCaller, NEW p \in Callers, NEW to, Go(p, to)
  PROVE  /\ p # NoCaller
         /\ pc'[p] = to
         /\ \A q \in Callers \ {p} : pc'[q] \notin Held
         /\ \A q \in Callers : pc[q] \notin Held
BY DEF LockHeld, CallerTypes, Go

\* Nothing is claimed of a caller outside; in particular it is not connecting.
LEMMA Outside ==
  ASSUME NEW q \in Callers, pc'[q] \notin Held
  PROVE  Point(q)' /\ ~InConnect(q)'
BY DEF Point, InConnect, Held, Connecting

\* With a single caller inside, what is claimed of that one is all.
LEMMA OnePoint ==
  ASSUME NEW p \in Callers, \A q \in Callers \ {p} : pc'[q] \notin Held, Point(p)'
  PROVE  Points'
BY Outside DEF Points

\* What is closed is not held any more, and what is current after it, nothing,
\* is not either.
LEMMA CloseLeaves ==
  ASSUME OnlyCurrent, TUNTypes, Cleanup, UNCHANGED unnamed
  PROVE  OnlyCurrent'
BY DEF OnlyCurrent, TUNTypes, Cleanup, Close, Holds, Generations

\* While somebody connects, no worker is in a round, and none begins one before
\* this is over.
LEMMA NoneBusy ==
  ASSUME WorkersHold, NEW p \in Callers, InConnect(p), UNCHANGED <<wpc, halfway>>
  PROVE  WorkersHold'
BY DEF WorkersHold, HasHold

-----------------------------------------------------------------------------
(* The steps of connect(). *)

\* connect() starts with nothing: no interface, no socket, no thread in a round.
LEMMA BeginConnectStep ==
  ASSUME IInv, NEW p \in Callers, BeginConnect(p)
  PROVE  (OnlyCurrent /\ Points /\ Settled /\ WorkersHold)'
<1>1. LockHeld /\ OnlyCurrent /\ Settled /\ WorkersHold /\ Numbers /\ CallerTypes
  BY TypeParts DEF IInv, ClientInv
<1>2. lock = NoCaller /\ lock' = p /\ Go(p, "callback") /\ state' = "CONNECTING"
  BY DEF BeginConnect, SetState
<1>3. p # NoCaller /\ pc'[p] = "callback" /\ \A q \in Callers \ {p} : pc'[q] \notin Held
  BY <1>1, <1>2, AllOutside
<1>4. tun = 0 /\ udp = 0 /\ tun' = 0 /\ udp' = 0 /\ gen' # 0 /\ (~halfway' => ~running')
  BY <1>1, <1>2 DEF Settled, BeginConnect, Numbers, history
<1>5. OnlyCurrent'
  BY <1>1 DEF OnlyCurrent, BeginConnect, tunVars, history, Holds
<1>6. Points'
  <2>1. Point(p)'
    BY <1>2, <1>3, <1>4 DEF Point, InConnect, Connecting
  <2>2. QED
    BY <1>3, <2>1, OnePoint
<1>7. Settled'
  BY <1>2, <1>3 DEF Settled
<1>8. WorkersHold'
  BY <1>1, <1>4 DEF WorkersHold, HasHold, BeginConnect, workerVars, history
<1>9. QED
  BY <1>5, <1>6, <1>7, <1>8

\* A step of connect() that raises, and is not the start of the threads, leaves
\* what there is for the cleanup.
LEMMA FailStep ==
  ASSUME IInv, NEW p \in Callers, pc[p] \in Connecting, Fail(p),
         UNCHANGED <<running, lock, gen, workerVars, halfway>>
  PROVE  (Points /\ Settled /\ WorkersHold)'
<1>1. LockHeld /\ Points /\ WorkersHold /\ CallerTypes
  BY TypeParts DEF IInv, ClientInv
<1>2. /\ lock' = p /\ p # NoCaller /\ pc'[p] = "callback" /\ state' = "ERROR"
      /\ \A q \in Callers \ {p} : pc'[q] \notin Held
  BY <1>1, OthersOutside DEF Fail, SetState, Held
<1>3. InConnect(p) /\ gen' # 0 /\ (~halfway' => ~running')
  BY <1>1 DEF Points, Point, InConnect
<1>4. Points'
  <2>1. Point(p)'
    BY <1>2, <1>3 DEF Point, Connecting
  <2>2. QED
    BY <1>2, <2>1, OnePoint
<1>5. Settled'
  BY <1>2 DEF Settled
<1>6. WorkersHold'
  BY <1>1, <1>3, NoneBusy DEF workerVars
<1>7. QED
  BY <1>4, <1>5, <1>6

\* The interface that is opened becomes the current one; one that is left open
\* by a constructor that raised counts as unnamed.
LEMMA OpenTunStep ==
  ASSUME IInv, NEW p \in Callers, OpenTun(p)
  PROVE  (OnlyCurrent /\ Points /\ Settled /\ WorkersHold)'
<1>1. /\ LockHeld /\ OnlyCurrent /\ Points /\ WorkersHold
      /\ Numbers /\ CallerTypes /\ TUNTypes /\ UnnamedType
  BY TypeParts DEF IInv, ClientInv
<1>2. /\ InConnect(p) /\ pc[p] \in Connecting
      /\ UNCHANGED <<running, lock, halfway, gen, udp, workerVars>>
  BY DEF OpenTun, InConnect, Connecting
<1>3. tun = 0 /\ udp = 0 /\ gen # 0 /\ (~halfway => ~running)
  BY <1>1, <1>2 DEF Points, Point, OpenTun
<1>4. ASSUME Construct(gen), tun' = gen, Go(p, "prepare"), UNCHANGED <<state, unnamed>>
      PROVE  (OnlyCurrent /\ Points /\ Settled /\ WorkersHold)'
  <2>1. OnlyCurrent'
    BY <1>1, <1>3, <1>4 DEF OnlyCurrent, Construct, Holds, TUNTypes, Generations
  <2>2. /\ lock' = p /\ p # NoCaller /\ pc'[p] = "prepare"
        /\ \A q \in Callers \ {p} : pc'[q] \notin Held
    BY <1>1, <1>2, <1>4, OthersOutside DEF Held
  <2>3. Point(p)'
    BY <1>2, <1>3, <1>4, <2>2 DEF Point, Construct
  <2>4. Settled'
    BY <2>2 DEF Settled
  <2>5. WorkersHold'
    BY <1>1, <1>2, NoneBusy DEF workerVars
  <2>6. QED
    BY <2>1, <2>2, <2>3, <2>4, <2>5, OnePoint
<1>5. ASSUME ConstructFails(gen), unnamed' = unnamed \cup {gen}, Fail(p), UNCHANGED tun
      PROVE  (OnlyCurrent /\ Points /\ Settled /\ WorkersHold)'
  <2>1. OnlyCurrent'
    BY <1>1, <1>3, <1>5 DEF OnlyCurrent, ConstructFails, Holds, TUNTypes, Generations
  <2>2. QED
    BY <1>2, <1>5, <2>1, FailStep
<1>6. QED
  BY <1>4, <1>5 DEF OpenTun

\* Whatever create(), start() and configure() reach belongs to the interface
\* that self.tun names; when they are through, it can be used.
LEMMA PrepareTunStep ==
  ASSUME IInv, NEW p \in Callers, PrepareTun(p)
  PROVE  (OnlyCurrent /\ Points /\ Settled /\ WorkersHold)'
<1>1. /\ LockHeld /\ OnlyCurrent /\ Points /\ WorkersHold
      /\ Numbers /\ CallerTypes /\ TUNTypes /\ UnnamedType
  BY TypeParts DEF IInv, ClientInv
<1>2. /\ InConnect(p) /\ pc[p] \in Connecting
      /\ UNCHANGED <<running, lock, halfway, gen, tun, udp, unnamed, workerVars>>
  BY DEF PrepareTun, InConnect, Connecting, history
<1>3. tun = gen /\ udp = 0 /\ gen # 0 /\ (~halfway => ~running) /\ (platform # "nt" => gen \in fds)
  BY <1>1, <1>2 DEF Points, Point, PrepareTun
<1>4. OnlyCurrent'
  BY <1>1, <1>2, <1>3 DEF PrepareTun, OnlyCurrent, Prepare, PrepareFails, Holds, TUNTypes, Generations,
                          tunVars
<1>5. ASSUME Prepare(tun), Go(p, "open_udp"), UNCHANGED state
      PROVE  (Points /\ Settled /\ WorkersHold)'
  <2>1. /\ lock' = p /\ p # NoCaller /\ pc'[p] = "open_udp"
        /\ \A q \in Callers \ {p} : pc'[q] \notin Held
    BY <1>1, <1>2, <1>5, OthersOutside DEF Held
  <2>2. Usable(gen)'
    BY <1>2, <1>3, <1>5 DEF Prepare, Usable
  <2>3. Point(p)'
    BY <1>2, <1>3, <2>1, <2>2 DEF Point
  <2>4. Settled'
    BY <2>1 DEF Settled
  <2>5. WorkersHold'
    BY <1>1, <1>2, NoneBusy DEF workerVars
  <2>6. QED
    BY <2>1, <2>3, <2>4, <2>5, OnePoint
<1>6. ASSUME Fail(p)
      PROVE  (Points /\ Settled /\ WorkersHold)'
  BY <1>2, <1>6, FailStep
<1>7. QED
  BY <1>4, <1>5, <1>6 DEF PrepareTun

\* The socket does not disturb the interface.
LEMMA OpenUdpStep ==
  ASSUME IInv, NEW p \in Callers, OpenUdp(p)
  PROVE  (OnlyCurrent /\ Points /\ Settled /\ WorkersHold)'
<1>1. LockHeld /\ OnlyCurrent /\ Points /\ WorkersHold /\ CallerTypes
  BY TypeParts DEF IInv, ClientInv
<1>2. /\ InConnect(p) /\ pc[p] \in Connecting
      /\ UNCHANGED <<running, lock, halfway, gen, tun, unnamed, tunVars, workerVars>>
  BY DEF OpenUdp, InConnect, Connecting, history
<1>3. tun = gen /\ gen # 0 /\ (~halfway => ~running) /\ Usable(gen) /\ Usable(gen)'
  BY <1>1, <1>2 DEF Points, Point, OpenUdp, tunVars, Usable
<1>4. OnlyCurrent'
  BY <1>1, <1>2 DEF OnlyCurrent, Holds, tunVars
<1>5. ASSUME udp' = gen, Go(p, "start"), UNCHANGED state
      PROVE  (Points /\ Settled /\ WorkersHold)'
  <2>1. /\ lock' = p /\ p # NoCaller /\ pc'[p] = "start"
        /\ \A q \in Callers \ {p} : pc'[q] \notin Held
    BY <1>1, <1>2, <1>5, OthersOutside DEF Held
  <2>2. Point(p)'
    BY <1>2, <1>3, <1>5, <2>1 DEF Point
  <2>3. Settled'
    BY <2>1 DEF Settled
  <2>4. WorkersHold'
    BY <1>1, <1>2, NoneBusy DEF workerVars
  <2>5. QED
    BY <2>1, <2>2, <2>3, <2>4, OnePoint
<1>6. ASSUME Fail(p)
      PROVE  (Points /\ Settled /\ WorkersHold)'
  BY <1>2, <1>6, FailStep
<1>7. QED
  BY <1>4, <1>5, <1>6 DEF OpenUdp

\* The first round of a worker begins with everything in place.
LEMMA StartThreadsStep ==
  ASSUME IInv, NEW p \in Callers, StartThreads(p)
  PROVE  (OnlyCurrent /\ Points /\ Settled /\ WorkersHold)'
<1>1. /\ LockHeld /\ OnlyCurrent /\ Points /\ WorkersHold /\ CallerTypes /\ WorkerTypes
  BY TypeParts DEF IInv, ClientInv
<1>2. InConnect(p) /\ pc[p] \in Held
  BY DEF StartThreads, InConnect, Held, Connecting
<1>3. /\ tun = gen /\ udp = gen /\ gen # 0 /\ Usable(gen) /\ running' /\ state' = "CONNECTED"
      /\ UNCHANGED <<lock, gen, tun, udp, tunVars, history>>
  BY <1>1, <1>2 DEF Points, Point, StartThreads, SetState
<1>4. /\ lock' = p /\ p # NoCaller /\ pc'[p] = "callback"
      /\ \A q \in Callers \ {p} : pc'[q] \notin Held
  BY <1>1, <1>2, <1>3, OthersOutside DEF StartThreads, SetState
<1>5. OnlyCurrent'
  BY <1>1, <1>3 DEF OnlyCurrent, Holds, tunVars, history
<1>6. Points'
  <2>1. Paired'
    BY <1>3 DEF Paired, Usable, tunVars
  <2>2. Point(p)'
    BY <1>3, <1>4, <2>1 DEF Point, InConnect, Connecting
  <2>3. QED
    BY <1>4, <2>2, OnePoint
<1>7. Settled'
  BY <1>4 DEF Settled
<1>8. WorkersHold'
  <2>1. ~halfway => \A w \in Workers : wpc[w] \notin Busy
    BY <1>1, <1>2 DEF WorkersHold, HasHold
  <2>2. \A w \in Workers : wpc'[w] \in {"between", wpc[w]}
    BY <1>1 DEF StartThreads, Started
  <2>3. QED
    BY <1>3, <2>1, <2>2 DEF WorkersHold, Busy, history
<1>9. QED
  BY <1>5, <1>6, <1>7, <1>8

\* From here on the tunnel may have threads that belong to no connection, and
\* nothing is claimed about them until it is disconnected.
LEMMA StartFailsStep ==
  ASSUME IInv, NEW p \in Callers, StartFails(p)
  PROVE  (OnlyCurrent /\ Points /\ Settled /\ WorkersHold)'
<1>1. /\ LockHeld /\ OnlyCurrent /\ Points /\ CallerTypes
  BY TypeParts DEF IInv, ClientInv
<1>2. InConnect(p) /\ pc[p] \in Held
  BY DEF StartFails, InConnect, Held, Connecting
<1>3. gen # 0 /\ halfway' = TRUE /\ state' = "ERROR" /\ UNCHANGED <<lock, gen, tun, tunVars, unnamed>>
  BY <1>1, <1>2 DEF Points, Point, StartFails, Fail, SetState
<1>4. /\ lock' = p /\ p # NoCaller /\ pc'[p] = "callback"
      /\ \A q \in Callers \ {p} : pc'[q] \notin Held
  BY <1>1, <1>2, <1>3, OthersOutside DEF StartFails, Fail, SetState
<1>5. OnlyCurrent'
  BY <1>1, <1>3 DEF OnlyCurrent, Holds, tunVars
<1>6. Point(p)'
  BY <1>3, <1>4 DEF Point
<1>7. Settled' /\ WorkersHold'
  BY <1>3, <1>4 DEF Settled, WorkersHold
<1>8. QED
  BY <1>4, <1>5, <1>6, <1>7, OnePoint

\* The except clause of connect() leaves nothing behind.
LEMMA CleanUpStep ==
  ASSUME IInv, NEW p \in Callers, CleanUp(p)
  PROVE  (OnlyCurrent /\ Points /\ Settled /\ WorkersHold)'
<1>1. /\ LockHeld /\ OnlyCurrent /\ Points /\ WorkersHold /\ CallerTypes /\ TUNTypes
  BY TypeParts DEF IInv, ClientInv
<1>2. InConnect(p) /\ pc[p] \in Held
  BY DEF CleanUp, InConnect, Held, Connecting
<1>3. /\ (~halfway => ~running) /\ tun' = 0 /\ udp' = 0 /\ state' = "ERROR"
      /\ UNCHANGED <<running, workerVars, history>>
  BY <1>1, <1>2 DEF Points, Point, CleanUp, Cleanup
<1>4. \A q \in Callers : pc'[q] \notin Held
  BY <1>1, <1>2, OthersOutside DEF CleanUp, Release, Held, Connecting
<1>5. OnlyCurrent'
  BY <1>1, <1>3, CloseLeaves DEF CleanUp, history
<1>6. Points'
  BY <1>4, Outside DEF Points
<1>7. Settled'
  BY <1>3 DEF Settled, history
<1>8. WorkersHold'
  BY <1>1, <1>2, <1>3, NoneBusy DEF workerVars, history
<1>9. QED
  BY <1>5, <1>6, <1>7, <1>8

-----------------------------------------------------------------------------
(* The steps of disconnect(), and the return of the state callback. *)

\* A call that waits for the lock changes nothing.
LEMMA CallDisconnectStep ==
  ASSUME IInv, NEW p \in Callers, CallDisconnect(p)
  PROVE  (OnlyCurrent /\ Points /\ Settled /\ WorkersHold)'
<1>1. /\ OnlyCurrent /\ Points /\ Settled /\ WorkersHold /\ CallerTypes
  BY TypeParts DEF IInv, ClientInv
<1>2. \A q \in Callers : pc'[q] = pc[q] \/ pc'[q] \notin Held
  BY <1>1 DEF CallDisconnect, Go, CallerTypes, Held, Connecting
<1>3. UNCHANGED <<state, running, lock, gen, tun, udp, tunVars, workerVars, history>>
  BY DEF CallDisconnect
<1>4. OnlyCurrent'
  BY <1>1, <1>3 DEF OnlyCurrent, Holds, tunVars, history
<1>5. ASSUME NEW q \in Callers
      PROVE  Point(q)' /\ (InConnect(q)' => InConnect(q))
  <2>1. CASE pc'[q] = pc[q]
    BY <1>1, <1>3, <2>1 DEF Points, Point, InConnect, Paired, Usable, tunVars, history
  <2>2. CASE pc'[q] \notin Held
    BY <2>2, Outside
  <2>3. QED
    BY <1>2, <2>1, <2>2
<1>6. Settled'
  BY <1>1, <1>3 DEF Settled, Usable, tunVars, history
<1>7. WorkersHold'
  BY <1>1, <1>3, <1>5 DEF WorkersHold, HasHold, workerVars, history
<1>8. QED
  BY <1>4, <1>5, <1>6, <1>7 DEF Points

\* disconnect() finds the state and the resources in agreement.
LEMMA BeginDisconnectStep ==
  ASSUME IInv, NEW p \in Callers, BeginDisconnect(p)
  PROVE  (OnlyCurrent /\ Points /\ Settled /\ WorkersHold)'
<1>1. /\ LockHeld /\ OnlyCurrent /\ Points /\ Settled /\ WorkersHold /\ CallerTypes
  BY TypeParts DEF IInv, ClientInv
<1>2. lock = NoCaller /\ UNCHANGED <<running, gen, tun, udp, tunVars, workerVars, history>>
  BY DEF BeginDisconnect
<1>3. OnlyCurrent'
  BY <1>1, <1>2 DEF OnlyCurrent, Holds, tunVars, history
<1>4. ASSUME state = "DISCONNECTED", Go(p, "idle"), UNCHANGED <<state, lock>>
      PROVE  (Points /\ Settled /\ WorkersHold)'
  <2>1. \A q \in Callers : pc'[q] \notin Held
    BY <1>1, <1>2, <1>4, AllOutside DEF Held, Connecting
  <2>2. Settled'
    BY <1>1, <1>2, <1>4 DEF Settled, Usable, tunVars, history
  <2>3. WorkersHold'
    BY <1>1, <1>2, <2>1, Outside DEF WorkersHold, HasHold, workerVars, history
  <2>4. QED
    BY <2>1, <2>2, <2>3, Outside DEF Points
<1>5. ASSUME SetState(p, "DISCONNECTING"), lock' = p
      PROVE  (Points /\ Settled /\ WorkersHold)'
  <2>1. /\ p # NoCaller /\ pc'[p] = "callback" /\ state' = "DISCONNECTING"
        /\ \A q \in Callers \ {p} : pc'[q] \notin Held
    BY <1>1, <1>2, <1>5, AllOutside DEF SetState
  <2>2. Paired' /\ (~halfway' => (running' <=> tun' # 0))
    BY <1>1, <1>2 DEF Settled, Paired, Usable, tunVars, history
  <2>3. ~InConnect(p)' /\ Point(p)'
    BY <2>1, <2>2 DEF Point, InConnect, Connecting
  <2>4. Points'
    BY <2>1, <2>3, OnePoint
  <2>5. Settled'
    BY <1>5, <2>1 DEF Settled
  <2>6. WorkersHold'
    BY <1>1, <1>2, <2>1, <2>3, Outside DEF WorkersHold, HasHold, workerVars, history
  <2>7. QED
    BY <2>4, <2>5, <2>6
<1>6. QED
  BY <1>3, <1>4, <1>5 DEF BeginDisconnect

\* What disconnect() closes is in nobody's hands.
LEMMA FinishDisconnectStep ==
  ASSUME IInv, NEW p \in Callers, FinishDisconnect(p)
  PROVE  (OnlyCurrent /\ Points /\ Settled /\ WorkersHold)'
<1>1. /\ LockHeld /\ OnlyCurrent /\ Points /\ CallerTypes /\ TUNTypes
  BY TypeParts DEF IInv, ClientInv
<1>2. ~running' /\ tun' = 0 /\ udp' = 0 /\ state' = "DISCONNECTED"
  BY <1>1 DEF Points, Point, FinishDisconnect, SetState, Cleanup
<1>3. /\ lock' = p /\ p # NoCaller /\ pc'[p] = "callback"
      /\ \A q \in Callers \ {p} : pc'[q] \notin Held
  BY <1>1, OthersOutside DEF FinishDisconnect, SetState, Held
<1>4. OnlyCurrent'
  BY <1>1, CloseLeaves DEF FinishDisconnect
<1>5. Point(p)'
  BY <1>2, <1>3 DEF Point, InConnect, Connecting
<1>6. Settled'
  BY <1>3 DEF Settled
<1>7. WorkersHold'
  BY DEF WorkersHold, FinishDisconnect, Joined, Busy, workerVars
<1>8. QED
  BY <1>3, <1>4, <1>5, <1>6, <1>7, OnePoint

\* The callback disturbs nothing; what comes after it finds the resources as the
\* state says.
LEMMA NotifiedStep ==
  ASSUME IInv, NEW p \in Callers, Notified(p)
  PROVE  (OnlyCurrent /\ Points /\ Settled /\ WorkersHold)'
<1>1. /\ LockHeld /\ OnlyCurrent /\ Points /\ WorkersHold /\ CallerTypes /\ StateType
  BY TypeParts DEF IInv, ClientInv
<1>2. pc[p] = "callback" /\ UNCHANGED <<state, gen, tun, udp, tunVars, workerVars, history>>
  BY DEF Notified
<1>3. Point(p) /\ pc[p] \in Held
  BY <1>1, <1>2 DEF Points, Held
<1>4. \E to \in {"open_tun", "clean", "join", "idle"} : Go(p, to)
  BY <1>1 DEF Notified, Release, StateType
<1>5. /\ lock = p /\ p # NoCaller
      /\ \A q \in Callers \ {p} : pc[q] \notin Held /\ pc'[q] \notin Held
  BY <1>1, <1>3, <1>4, OthersOutside
<1>6. OnlyCurrent'
  BY <1>1, <1>2 DEF OnlyCurrent, Holds, tunVars, history
<1>7. CASE state \in {"CONNECTING", "ERROR"}
  <2>1. /\ UNCHANGED <<running, lock>>
        /\ Go(p, IF state = "CONNECTING" THEN "open_tun" ELSE "clean")
    BY <1>7 DEF Notified
  <2>2. pc'[p] = IF state = "CONNECTING" THEN "open_tun" ELSE "clean"
    BY <1>1, <2>1 DEF Go, CallerTypes
  <2>3. InConnect(p)
    BY <1>2, <1>7 DEF InConnect
  <2>4. Point(p)'
    BY <1>2, <1>3, <1>7, <2>1, <2>2, <2>3 DEF Point, history
  <2>5. Settled'
    BY <1>5, <2>1 DEF Settled
  <2>6. WorkersHold'
    BY <1>1, <1>2, <2>3, NoneBusy DEF workerVars, history
  <2>7. QED
    BY <1>5, <1>6, <2>4, <2>5, <2>6, OnePoint
<1>8. CASE state \notin {"CONNECTING", "ERROR"}
  <2>1. pc'[p] \in {"join", "idle"}
    BY <1>1, <1>8 DEF Notified, Release, Go, CallerTypes, StateType
  <2>2. \A q \in Callers : ~InConnect(q)'
    BY <1>5, <2>1, Outside DEF InConnect, Connecting
  <2>3. WorkersHold'
    BY <1>1, <1>2, <2>2 DEF WorkersHold, HasHold, workerVars, history
  <2>4. Paired => Paired'
    BY <1>2 DEF Paired, Usable, tunVars
  <2>5. CASE state = "DISCONNECTING"
    <3>1. ~running' /\ pc'[p] = "join" /\ lock' = lock
      BY <1>1, <2>5 DEF Notified, Go, CallerTypes
    <3>2. Paired
      BY <1>2, <1>3, <2>5 DEF Point
    <3>3. Point(p)'
      BY <2>2, <2>4, <3>1, <3>2 DEF Point
    <3>4. Settled'
      BY <1>5, <3>1 DEF Settled
    <3>5. QED
      BY <1>5, <1>6, <2>3, <3>3, <3>4, OnePoint
  <2>6. CASE state \in {"CONNECTED", "DISCONNECTED"}
    <3>1. running' = running /\ pc'[p] = "idle"
      BY <1>1, <2>6 DEF Notified, Release, Go, CallerTypes
    <3>2. \A q \in Callers : pc'[q] \notin Held
      BY <1>5, <3>1 DEF Held, Connecting
    <3>3. /\ state = "CONNECTED" => running /\ tun # 0 /\ Paired
          /\ state = "DISCONNECTED" => ~running /\ tun = 0 /\ udp = 0
      BY <1>2, <1>3 DEF Point
    <3>4. Settled'
      BY <1>2, <2>4, <2>6, <3>1, <3>3 DEF Settled, Paired
    <3>5. QED
      BY <1>6, <2>3, <3>2, <3>4, Outside DEF Points
  <2>7. QED
    BY <1>1, <1>8, <2>5, <2>6 DEF StateType
<1>9. QED
  BY <1>7, <1>8

-----------------------------------------------------------------------------
(* The steps of the workers. *)

\* A worker that takes hold of what is current, while nobody connects, has it.
LEMMA TakeHold ==
  ASSUME IInv, NEW w \in Workers, Worker(w) \/ Receive(w), ~halfway
  PROVE  wpc'[w] \in Busy => HasHold(w)'
<1>1. /\ Points /\ LockHeld /\ Settled /\ WorkersHold /\ WorkerTypes /\ CallerTypes /\ StateType
  BY TypeParts DEF IInv, ClientInv
<1>2. UNCHANGED <<pc, state, tun, udp>>
  BY DEF Worker, Round, Poll, Receive, Pass, clientVars
<1>3. ASSUME EndRound(w)
      PROVE  wpc'[w] \notin Busy
  BY <1>1, <1>3 DEF EndRound, WorkerGo, WorkerTypes, Busy
<1>4. ASSUME tun # 0, udp # 0, \A p \in Callers : ~InConnect(p),
             NEW to \in Busy, Kind(w) = "keepalive" => to = "pass",
             Takes(w, IF <<Kind(w), to>> \in {<<"tun", "poll">>, <<"udp", "pass">>} THEN tun ELSE udp, to)
      PROVE  HasHold(w)'
  BY <1>1, <1>2, <1>4 DEF Takes, WorkerGo, HasHold, InConnect, WorkerTypes
<1>5. Kind(w) \in {"tun", "udp", "keepalive"}
  BY DEF Workers, Kinds, Kind
<1>6. ASSUME tun # 0, udp # 0, \A p \in Callers : ~InConnect(p),
             Kind(w) \in {"tun", "keepalive"}, Sends(w)
      PROVE  wpc'[w] \in Busy => HasHold(w)'
  <2>1. CASE udp \in Hostnames
    BY <1>1, <1>6, <2>1 DEF Sends, Takes, WorkerGo, WorkerTypes, Busy
  <2>2. CASE udp \notin Hostnames
    BY <1>4, <1>6, <2>2 DEF Sends, Busy
  <2>3. QED
    BY <2>1, <2>2
<1>7. CASE Round(w)
  <2>1. CASE ~running
    BY <1>1, <1>7, <2>1 DEF Round, WorkerGo, WorkerTypes, Busy
  <2>2. CASE running
    <3>1. \A p \in Callers : ~InConnect(p) /\ pc[p] # "join"
      BY <1>1, <2>2 DEF Points, Point
    <3>2. tun # 0 /\ udp # 0
      <4>1. CASE lock = NoCaller
        BY <1>1, <2>2, <4>1 DEF Settled
      <4>2. CASE lock \in Callers
        <5>1. Point(lock) /\ pc[lock] = "callback" /\ state \notin {"CONNECTING", "ERROR"}
          BY <1>1, <3>1, <4>2 DEF LockHeld, Held, InConnect, Points
        <5>2. QED
          BY <1>1, <2>2, <5>1 DEF Point, Paired, StateType
      <4>3. QED
        BY <1>1, <4>1, <4>2 DEF CallerTypes
    <3>3. CASE Kind(w) = "tun"
      <4>1. Takes(w, tun, "poll")
        BY <1>7, <2>2, <3>3 DEF Round
      <4>2. QED
        BY <1>4, <3>1, <3>2, <3>3, <4>1 DEF Busy
    <3>4. CASE Kind(w) = "udp"
      <4>1. Takes(w, udp, "poll")
        BY <1>7, <2>2, <3>4 DEF Round
      <4>2. QED
        BY <1>4, <3>1, <3>2, <3>4, <4>1 DEF Busy
    <3>5. CASE Kind(w) = "keepalive"
      <4>1. Sends(w)
        BY <1>7, <2>2, <3>5 DEF Round
      <4>2. QED
        BY <1>6, <3>1, <3>2, <3>5, <4>1
    <3>6. QED
      BY <1>5, <3>3, <3>4, <3>5
  <2>3. QED
    BY <2>1, <2>2
<1>8. CASE Poll(w)
  <2>1. /\ tun # 0 /\ udp # 0 /\ \A p \in Callers : ~InConnect(p)
        /\ Kind(w) \in {"tun", "udp"}
    BY <1>1, <1>5, <1>8 DEF Poll, WorkersHold, HasHold, Busy
  <2>2. CASE Kind(w) = "tun"
    <3>1. EndRound(w) \/ Sends(w)
      BY <1>8, <2>2 DEF Poll
    <3>2. QED
      BY <1>3, <1>6, <2>1, <2>2, <3>1
  <2>3. CASE Kind(w) = "udp"
    <3>1. \/ EndRound(w) \/ Takes(w, tun, "pass")
          \/ WorkerGo(w, "recv")
      BY <1>8, <2>3 DEF Poll
    <3>2. CASE WorkerGo(w, "recv")
      BY <1>1, <3>2 DEF WorkerGo, WorkerTypes, Busy
    <3>3. QED
      BY <1>3, <1>4, <2>1, <2>3, <3>1, <3>2 DEF Busy
  <2>4. QED
    BY <2>1, <2>2, <2>3
<1>9. CASE Receive(w) \/ Pass(w)
  BY <1>3, <1>9 DEF Receive, Pass
<1>10. QED
  BY <1>7, <1>8, <1>9 DEF Worker

\* A step of one worker leaves every other one where it is.
LEMMA WorkerAlone ==
  ASSUME WorkerTypes, NEW w \in Workers, Worker(w) \/ Receive(w), NEW v \in Workers \ {w}
  PROVE  wpc'[v] = wpc[v] /\ using'[v] = using[v]
<1>1. ASSUME NEW r, NEW to, Takes(w, r, to) \/ EndRound(w)
      PROVE  wpc'[v] = wpc[v] /\ using'[v] = using[v]
  BY <1>1 DEF Takes, EndRound, WorkerGo, WorkerTypes
<1>2. CASE Round(w)
  <2>1. CASE ~running
    BY <1>2, <2>1 DEF Round, WorkerGo, WorkerTypes
  <2>2. CASE running
    <3>1. Kind(w) \in {"tun", "udp", "keepalive"}
      BY DEF Workers, Kinds, Kind
    <3>2. CASE Kind(w) = "tun"
      BY <1>1, <1>2, <2>2, <3>2 DEF Round
    <3>3. CASE Kind(w) = "udp"
      BY <1>1, <1>2, <2>2, <3>3 DEF Round
    <3>4. CASE Kind(w) = "keepalive"
      BY <1>1, <1>2, <2>2, <3>4 DEF Round, Sends
    <3>5. QED
      BY <3>1, <3>2, <3>3, <3>4
  <2>3. QED
    BY <2>1, <2>2
<1>3. CASE Poll(w)
  <2>1. CASE WorkerGo(w, "recv") /\ UNCHANGED using
    BY <2>1 DEF WorkerTypes, WorkerGo
  <2>2. QED
    BY <1>1, <1>3, <2>1 DEF Poll, Sends
<1>4. CASE Receive(w) \/ Pass(w)
  BY <1>1, <1>4 DEF Receive, Pass
<1>5. QED
  BY <1>2, <1>3, <1>4 DEF Worker

\* A worker disturbs nothing but its own hold.
LEMMA WorkerKeeps ==
  ASSUME IInv, NEW w \in Workers, Worker(w) \/ Receive(w)
  PROVE  (OnlyCurrent /\ Points /\ Settled /\ WorkersHold)'
<1>1. /\ OnlyCurrent /\ Points /\ Settled /\ WorkersHold /\ WorkerTypes
  BY TypeParts DEF IInv, ClientInv
<1>2. UNCHANGED <<clientVars, tunVars, history>>
  BY DEF Worker, Round, Poll, Receive, Pass
<1>3. OnlyCurrent'
  BY <1>1, <1>2 DEF OnlyCurrent, Holds, clientVars, tunVars, history
<1>4. Points'
  BY <1>1, <1>2 DEF Points, Point, InConnect, Paired, Usable, clientVars, tunVars, history
<1>5. Settled'
  BY <1>1, <1>2 DEF Settled, Usable, clientVars, tunVars, history
<1>6. ASSUME ~halfway', NEW v \in Workers, wpc'[v] \in Busy
      PROVE  HasHold(v)'
  <2>1. CASE v = w
    BY <1>2, <1>6, <2>1, TakeHold DEF history
  <2>2. CASE v # w
    <3>1. wpc'[v] = wpc[v] /\ using'[v] = using[v]
      BY <1>1, <2>2, WorkerAlone
    <3>2. HasHold(v)
      BY <1>1, <1>2, <1>6, <3>1 DEF WorkersHold, history
    <3>3. QED
      BY <1>2, <3>1, <3>2 DEF HasHold, InConnect, clientVars
  <2>3. QED
    BY <2>1, <2>2
<1>7. WorkersHold'
  BY <1>6 DEF WorkersHold
<1>8. QED
  BY <1>3, <1>4, <1>5, <1>7

-----------------------------------------------------------------------------
(* The theorems. *)

\* The inductive invariant: initially.
LEMMA ClientInit == Init => IInv
<1> SUFFICES ASSUME Init PROVE IInv
  OBVIOUS
<1>1. TypeOK
  BY TypeInit
<1>2. LockHeld /\ Points
  BY DEF Init, LockHeld, Points, Point, InConnect, Held, Connecting
<1>3. OnlyCurrent
  BY DEF Init, TUNInit, OnlyCurrent, Holds
<1>4. Settled
  BY DEF Init, Settled
<1>5. WorkersHold
  BY DEF Init, WorkersHold, Busy
<1>6. QED
  BY <1>1, <1>2, <1>3, <1>4, <1>5 DEF IInv, ClientInv

\* ... and by each step.
LEMMA ClientNext == IInv /\ [Next]_vars => IInv'
<1> SUFFICES ASSUME IInv, [Next]_vars PROVE IInv'
  OBVIOUS
<1>1. TypeOK' /\ LockHeld'
  BY TypeNext, LockNext
<1>2. (OnlyCurrent /\ Points /\ Settled /\ WorkersHold)'
  <2>1. CASE Next
    BY <2>1, BeginConnectStep, OpenTunStep, PrepareTunStep, OpenUdpStep, StartThreadsStep,
       StartFailsStep, CleanUpStep, NotifiedStep, CallDisconnectStep, BeginDisconnectStep,
       FinishDisconnectStep, WorkerKeeps
       DEF Next, Call, Caller
  <2>2. CASE UNCHANGED vars
    <3>1. /\ OnlyCurrent /\ Points /\ Settled /\ WorkersHold
          /\ UNCHANGED <<clientVars, tunVars, workerVars, history>>
      BY <2>2 DEF IInv, ClientInv, vars
    <3>2. OnlyCurrent'
      BY <3>1 DEF OnlyCurrent, Holds, clientVars, tunVars, history
    <3>3. Points'
      BY <3>1 DEF Points, Point, InConnect, Paired, Usable, clientVars, tunVars, history
    <3>4. Settled'
      BY <3>1 DEF Settled, Usable, clientVars, tunVars, history
    <3>5. WorkersHold'
      BY <3>1 DEF WorkersHold, HasHold, InConnect, clientVars, workerVars, history
    <3>6. QED
      BY <3>2, <3>3, <3>4, <3>5
  <2>3. QED
    BY <2>1, <2>2
<1>3. QED
  BY <1>1, <1>2 DEF IInv, ClientInv

\* The inductive invariant holds throughout connect(), disconnect() and the
\* rounds of the workers (client/tunnel.py).
THEOREM ClientInvariant == Spec => []IInv
BY ClientInit, ClientNext, PTL DEF Spec

\* Every variable of the tunnel client keeps its type.
THEOREM ClientTypeCorrect == Spec => []TypeOK
<1>1. IInv => TypeOK
  BY DEF IInv
<1>2. QED
  BY <1>1, ClientInvariant, PTL

\* Whenever no call is in progress, connected means a usable interface, a
\* socket and running threads, and nothing is left of an earlier connection:
\* whichever step of connect() raised, the except clause closed what was there.
THEOREM ResourcesFollowState == Spec => []ResourcesMatchState
<1>1. IInv => ResourcesMatchState
  BY DEF IInv, ClientInv, Settled, OnlyCurrent, ResourcesMatchState
<1>2. QED
  BY <1>1, ClientInvariant, PTL

\* disconnect() never closes the interface under a worker that waits on it or
\* writes to it, nor the socket under one that waits on it or sends to a numeric
\* address, unless a connect() in between could not start all of its workers.  A
\* sendto() that is still looking up a hostname after the 2 s of the join is not
\* covered: the socket is closed meanwhile.
THEOREM NothingClosedInUse == Spec => []NoUseAfterClose
<1>1. IInv => NoUseAfterClose
  <2> SUFFICES ASSUME IInv, ~halfway, NEW w \in Workers, wpc[w] \in Busy
               PROVE  IF Kind(w) # "keepalive"
                            /\ wpc[w] = IF Kind(w) = "tun" THEN "poll" ELSE "pass"
                        THEN Usable(using[w]) ELSE using[w] = udp
    BY DEF NoUseAfterClose, Busy
  <2>1. HasHold(w) /\ LockHeld /\ Points /\ Settled /\ CallerTypes /\ StateType
    BY TypeParts DEF IInv, ClientInv, WorkersHold
  <2>2. Kind(w) \in {"tun", "udp", "keepalive"}
    BY DEF Workers, Kinds, Kind
  <2>3. Usable(tun)
    <3>1. CASE lock = NoCaller
      BY <2>1, <3>1 DEF Settled, HasHold
    <3>2. CASE lock \in Callers
      <4>1. Point(lock) /\ pc[lock] \in {"callback", "join"} /\ ~InConnect(lock)
        BY <2>1, <3>2 DEF LockHeld, Held, InConnect, Points, HasHold
      <4>2. QED
        BY <2>1, <4>1 DEF Point, InConnect, Paired, HasHold, StateType
    <3>3. QED
      BY <2>1, <3>1, <3>2 DEF CallerTypes
  <2>4. QED
    BY <2>1, <2>2, <2>3 DEF HasHold, Busy
<1>2. QED
  BY <1>1, ClientInvariant, PTL
=============================================================================
