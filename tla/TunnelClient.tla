---------------------------- MODULE TunnelClient ----------------------------
(***************************************************************************)
(* The life of one TunnelClient (client/tunnel.py): connect() and          *)
(* disconnect(), called by any threads under the object's lock, and the    *)
(* worker threads that each successful connect() starts.  Both calls run   *)
(* the state callback of the user interface while they hold the lock, and  *)
(* are held up as long as it takes.  A worker may be waiting for a packet  *)
(* (at most 1 s), look up the server's name for a datagram, wait in        *)
(* recvfrom() for a datagram that another worker has taken, be held up in  *)
(* the statistics callback, or, the keepalive thread, sleep for            *)
(* KEEPALIVE_INTERVAL, 15 s; disconnect() waits 2 s for each.              *)
(***************************************************************************)
EXTENDS Naturals, TUNInterface

CONSTANTS Callers,     \* threads that call connect() and disconnect()
          MaxConnects, \* bound: calls of connect() that open an interface
          Hostnames,   \* those of these calls whose server is named by a hostname
          NoCaller     \* nobody holds the lock

ASSUME CallersAssumption == NoCaller \notin Callers
ASSUME ConnectsAssumption == MaxConnects \in Nat \ {0}

VARIABLES
  state,    \* state
  running,  \* _running
  lock,     \* the caller that holds _lock
  pc,       \* pc[p]: what the caller p executes
  gen,      \* how many times connect() set out to open an interface
  tun,      \* self.tun, named by that number; 0 is None
  udp,      \* self.udp_sock, likewise
  wpc,      \* wpc[w]: what the worker w executes; "none" before its start and after its end
  using,    \* using[w]: the interface or socket w took hold of
  unnamed,  \* the interfaces whose constructor raised
  halfway   \* connect() has failed since with _running set

clientVars == <<state, running, lock, pc, gen, tun, udp>>
workerVars == <<wpc, using>>
history    == <<unnamed, halfway>>

vars == <<clientVars, tunVars, workerVars, history>>

Generations == 1..MaxConnects
Kinds == {"tun", "udp", "keepalive"}
Workers == Kinds \X Generations
Kind(w) == w[1]

TypeOK ==
  /\ state \in {"DISCONNECTED", "CONNECTING", "CONNECTED", "DISCONNECTING", "ERROR"}
  /\ running \in BOOLEAN /\ halfway \in BOOLEAN
  /\ lock \in Callers \cup {NoCaller}
  /\ pc \in [Callers -> {"idle", "callback", "open_tun", "prepare", "open_udp", "start",
                         "clean", "disconnect", "join"}]
  /\ gen \in 0..MaxConnects /\ tun \in 0..MaxConnects /\ udp \in 0..MaxConnects
  /\ platform \in {"nt", "posix"}
  /\ fds \subseteq Generations /\ adapters \subseteq Generations
  /\ sessions \subseteq Generations /\ unnamed \subseteq Generations
  /\ wpc \in [Workers -> {"none", "between", "poll", "recv", "lookup", "pass"}]
  /\ using \in [Workers -> 0..MaxConnects]

Init ==
  /\ TUNInit
  /\ state = "DISCONNECTED" /\ running = FALSE /\ lock = NoCaller
  /\ pc = [p \in Callers |-> "idle"]
  /\ gen = 0 /\ tun = 0 /\ udp = 0
  /\ wpc = [w \in Workers |-> "none"]
  /\ using = [w \in Workers |-> 0]
  /\ unnamed = {} /\ halfway = FALSE

Go(p, to) == pc' = [pc EXCEPT ![p] = to]
Release(p) == lock' = NoCaller /\ Go(p, "idle")

\* _set_state: the state is set, and the callback has it.
SetState(p, s) == state' = s /\ Go(p, "callback")

\* Mutated form: the tunnel goes on running.
Notified_KeepRunning(p) ==
  /\ pc[p] = "callback"
  /\ CASE state = "CONNECTING" -> Go(p, "open_tun") /\ UNCHANGED lock
       [] state = "ERROR" -> Go(p, "clean") /\ UNCHANGED lock
       [] state = "DISCONNECTING" -> Go(p, "join") /\ UNCHANGED lock
       [] state \in {"CONNECTED", "DISCONNECTED"} -> Release(p)
  /\ UNCHANGED <<state, running, gen, tun, udp, tunVars, workerVars, history>>

\* The callback returns: connect() goes on to the interface, or cleans up, and
\* disconnect() stops the tunnel; after CONNECTED and DISCONNECTED the call is over.
Notified(p) ==
  /\ pc[p] = "callback"
  /\ CASE state = "CONNECTING" -> Go(p, "open_tun") /\ UNCHANGED <<lock, running>>
       [] state = "ERROR" -> Go(p, "clean") /\ UNCHANGED <<lock, running>>
       [] state = "DISCONNECTING" -> running' = FALSE /\ Go(p, "join") /\ UNCHANGED lock
       [] state \in {"CONNECTED", "DISCONNECTED"} -> Release(p) /\ UNCHANGED running
  /\ UNCHANGED <<state, gen, tun, udp, tunVars, workerVars, history>>

-----------------------------------------------------------------------------
(* connect(). *)

\* The lock is taken; a connected tunnel is left alone.
BeginConnect(p) ==
  /\ pc[p] = "idle" /\ lock = NoCaller
  /\ state # "CONNECTED" /\ gen < MaxConnects
  /\ gen' = gen + 1
  /\ lock' = p
  /\ SetState(p, "CONNECTING")
  /\ UNCHANGED <<running, tun, udp, tunVars, workerVars, history>>

\* Mutated form: the state is one that the enumeration lacks.
Fail_NoSuchState(p) == SetState(p, "FAILED")

\* A step of connect() raised: the except clause begins.
Fail(p) == SetState(p, "ERROR")

\* Without keys, or when the constructor raises, self.tun is not set.
OpenTun(p) ==
  /\ pc[p] = "open_tun"
  /\ \/ Construct(gen) /\ tun' = gen /\ Go(p, "prepare") /\ UNCHANGED <<state, unnamed>>
     \/ ConstructFails(gen) /\ unnamed' = unnamed \cup {gen} /\ Fail(p) /\ UNCHANGED tun
  /\ UNCHANGED <<running, lock, gen, udp, workerVars, halfway>>

PrepareTun(p) ==
  /\ pc[p] = "prepare"
  /\ \/ Prepare(tun) /\ Go(p, "open_udp") /\ UNCHANGED state
     \/ PrepareFails(tun) /\ Fail(p)
  /\ UNCHANGED <<running, lock, gen, tun, udp, workerVars, history>>

\* The socket, and bind(): the one or the other may raise.
OpenUdp(p) ==
  /\ pc[p] = "open_udp"
  /\ \/ udp' = gen /\ Go(p, "start") /\ UNCHANGED state
     \/ udp' \in {udp, gen} /\ Fail(p)
  /\ UNCHANGED <<running, lock, gen, tun, tunVars, workerVars, history>>

Started(kinds) == [w \in Workers |-> IF w \in kinds \X {gen} THEN "between" ELSE wpc[w]]

\* _start_threads, and the state CONNECTED.
StartThreads(p) ==
  /\ pc[p] = "start"
  /\ running' = TRUE
  /\ wpc' = Started(Kinds)
  /\ SetState(p, "CONNECTED")
  /\ UNCHANGED <<lock, gen, tun, udp, tunVars, using, history>>

\* A thread cannot be started, after others were: _running stays set.
StartFails(p) ==
  /\ pc[p] = "start"
  /\ running' = TRUE /\ halfway' = TRUE
  /\ \E kinds \in {{}, {"tun"}, {"tun", "udp"}} : wpc' = Started(kinds)
  /\ Fail(p)
  /\ UNCHANGED <<lock, gen, tun, udp, tunVars, using, unnamed>>

\* Mutated form: the attributes are not reset.
Cleanup_KeepNames == Close(tun) /\ UNCHANGED <<tun, udp>>

\* _cleanup closes what self.tun and self.udp_sock refer to.
Cleanup == Close(tun) /\ tun' = 0 /\ udp' = 0

\* Mutated form: the lock is not released.
CleanUp_KeepLock(p) ==
  /\ pc[p] = "clean"
  /\ Cleanup
  /\ Go(p, "idle")
  /\ UNCHANGED <<state, running, lock, gen, workerVars, history>>

\* The except clause goes on when the callback has returned.
CleanUp(p) ==
  /\ pc[p] = "clean"
  /\ Cleanup
  /\ Release(p)
  /\ UNCHANGED <<state, running, gen, workerVars, history>>

-----------------------------------------------------------------------------
(* disconnect(). *)

CallDisconnect(p) ==
  /\ pc[p] = "idle"
  /\ Go(p, "disconnect")
  /\ UNCHANGED <<state, running, lock, gen, tun, udp, tunVars, workerVars, history>>

\* The lock is taken; a tunnel that is disconnected is left alone.
BeginDisconnect(p) ==
  /\ pc[p] = "disconnect" /\ lock = NoCaller
  /\ IF state = "DISCONNECTED"
       THEN Go(p, "idle") /\ UNCHANGED <<state, lock>>
       ELSE SetState(p, "DISCONNECTING") /\ lock' = p
  /\ UNCHANGED <<running, gen, tun, udp, tunVars, workerVars, history>>

\* Mutated form: threads are not waited for.
Joined_AtOnce(w) == TRUE

\* join(timeout=2.0) of a worker comes back when the worker has ended, or is
\* held up for longer than the timeout: in the callback, asleep, in recvfrom(),
\* or looking up a name.  The wait before reading ends sooner, after 1 s.
Joined(w) == wpc[w] \in {"none", "between", "recv", "lookup"}

FinishDisconnect(p) ==
  /\ pc[p] = "join"
  /\ \A w \in Workers : Joined(w)
  /\ Cleanup
  /\ SetState(p, "DISCONNECTED")
  /\ halfway' = FALSE
  /\ UNCHANGED <<running, lock, gen, workerVars, unnamed>>

-----------------------------------------------------------------------------
(* The workers.  "between" two rounds of its loop, a worker is in the         *)
(* statistics callback, or asleep, or about to look at _running.  An          *)
(* attribute that is None makes the round raise, which is swallowed.          *)

WorkerGo(w, to) == wpc' = [wpc EXCEPT ![w] = to]
EndRound(w) == WorkerGo(w, "between") /\ using' = [using EXCEPT ![w] = 0]

\* The worker takes hold of self.tun or of self.udp_sock.
Takes(w, resource, to) ==
  IF resource = 0 THEN EndRound(w)
                  ELSE WorkerGo(w, to) /\ using' = [using EXCEPT ![w] = resource]

\* sendto() on the socket, to the server of the latest connect(): a hostname is
\* looked up first, for each datagram.
Sends(w) == Takes(w, udp, IF udp \in Hostnames THEN "lookup" ELSE "pass")

\* while self._running: the wait for a packet; the keepalive thread, which has
\* slept, looks at _running once more and sends.
Round(w) ==
  /\ wpc[w] = "between"
  /\ IF ~running THEN WorkerGo(w, "none") /\ UNCHANGED using
     ELSE CASE Kind(w) = "tun" -> Takes(w, tun, "poll")
            [] Kind(w) = "udp" -> Takes(w, udp, "poll")
            [] Kind(w) = "keepalive" -> Sends(w)
  /\ UNCHANGED <<clientVars, tunVars, history>>

\* The workers that receive for two connections may wait for one socket.
Shared(w) == \E v \in Workers \ {w} : Kind(v) = "udp" /\ wpc[v] # "none"

\* Nothing came, or what came is passed on: to the socket, or to the interface.
\* What select() reported another worker may have taken.
Poll(w) ==
  /\ wpc[w] = "poll"
  /\ \/ EndRound(w)
     \/ Kind(w) = "tun" /\ Sends(w)
     \/ Kind(w) = "udp" /\ Takes(w, tun, "pass")
     \/ Kind(w) = "udp" /\ Shared(w) /\ WorkerGo(w, "recv") /\ UNCHANGED using
  /\ UNCHANGED <<clientVars, tunVars, history>>

\* recvfrom() has no timeout: it returns with the next datagram, if there is one,
\* which goes to the interface of that moment or is lost.
Receive(w) ==
  /\ wpc[w] = "recv"
  /\ EndRound(w)
  /\ UNCHANGED <<clientVars, tunVars, history>>

\* The packet is passed on, or the keepalive sent.  After a lookup the socket may
\* turn out to be closed: then sendto() raises, which is swallowed.
Pass(w) ==
  /\ wpc[w] \in {"lookup", "pass"}
  /\ EndRound(w)
  /\ UNCHANGED <<clientVars, tunVars, history>>

-----------------------------------------------------------------------------
Call(p) == BeginConnect(p) \/ CallDisconnect(p)

Caller(p) == OpenTun(p) \/ PrepareTun(p) \/ OpenUdp(p) \/ StartThreads(p)
               \/ StartFails(p) \/ CleanUp(p)
               \/ BeginDisconnect(p) \/ FinishDisconnect(p)

Worker(w) == Round(w) \/ Poll(w) \/ Pass(w)

Next == \/ \E p \in Callers : Call(p) \/ Caller(p) \/ Notified(p)
        \/ \E w \in Workers : Worker(w) \/ Receive(w)

Spec == Init /\ [][Next]_vars

\* Threads are scheduled, and one that waits for a lock that is free again and
\* again has it in the end; it is enough that some thread goes on of those that
\* can.  Nobody has to call anything, no datagram has to come, and no state
\* callback has to return: the application's waits for the Tk thread (VPNApp).
FairSpec ==
  /\ Spec
  /\ \A p \in Callers : SF_vars(BeginDisconnect(p))
  /\ WF_vars(\E p \in Callers : Caller(p))
  /\ WF_vars(\E w \in Workers : Worker(w))

-----------------------------------------------------------------------------
(* Properties. *)

\* Whenever no call is in progress, the tunnel has an interface that can be
\* used and a socket exactly when it is connected, and only then do its threads
\* run, unless one could not be started; and no interface holds a descriptor,
\* an adapter or a session beside the current one, however far an earlier
\* connect() came, unless its constructor raised.
ResourcesMatchState == lock = NoCaller =>
  /\ state \in {"DISCONNECTED", "CONNECTED", "ERROR"}
  /\ state = "CONNECTED" <=> tun # 0
  /\ state = "CONNECTED" <=> udp # 0
  /\ ~halfway => (running <=> state = "CONNECTED")
  /\ tun # 0 => Usable(tun)
  /\ \A i \in Generations \ unnamed : Holds(i) => i = tun

\* disconnect() never closes the interface while a worker waits on it or writes
\* to it, nor the socket while a worker waits on it in select() or sends to a
\* numeric address: on Linux the descriptor may name another file by then, on
\* Windows the session is gone; unless not all of the workers could be started.
\* It does close the socket under a worker whose sendto() is still looking up a
\* hostname after the 2 s of the join, and under one whose recvfrom() has found
\* the datagram taken (client/tunnel.py:170, 213, 234, 273).
NoUseAfterClose == ~halfway => \A w \in Workers :
  LET ofTun == IF Kind(w) = "tun" THEN "poll" ELSE "pass"
  IN  wpc[w] \in {"poll", "pass"} =>
        IF Kind(w) # "keepalive" /\ wpc[w] = ofTun THEN Usable(using[w]) ELSE using[w] = udp

\* Disconnecting ends the workers: after a while all are gone, unless the
\* tunnel is connected again, but for one that waits in recvfrom() for a datagram
\* that another has taken: closing the socket need not wake it.
WorkersEnd == state = "DISCONNECTED" ~>
  (state # "DISCONNECTED" \/ \A w \in Workers : wpc[w] \in {"none", "recv"})

\* No caller stays in the state callback for good.
CallbacksReturn == \A p \in Callers : []<>(pc[p] # "callback")

\* As long as no state callback holds its caller for good, neither this call's nor
\* that of the caller that has the lock, a call of disconnect() returns, whatever
\* else the other callers do and however long the workers are held up.  With the
\* application's callback this is not so: VPNApp's CloseReturns.
DisconnectReturns ==
  CallbacksReturn => \A p \in Callers : pc[p] = "disconnect" ~> pc[p] = "idle"
=============================================================================
