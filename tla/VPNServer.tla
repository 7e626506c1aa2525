----------------------------- MODULE VPNServer -----------------------------
(***************************************************************************)
(* The server process of server/main.py: the accept loop, one handler      *)
(* thread per connection that runs the handshake of module Handshake, the  *)
(* registry of connected clients, and the session keys it installs in the  *)
(* one TunnelServer (client/tunnel.py).  The clients' sides of the         *)
(* handshakes run with it.                                                 *)
(*                                                                         *)
(* The registry is updated under a lock, hence in one step; the keys are   *)
(* installed without one, the encryptor before the decryptor, hence in two *)
(* (_session_keys, which nothing reads, is left out).                      *)
(***************************************************************************)
EXTENDS Handshake

CONSTANTS IP,     \* IP[c]: addr[0] of the client on connection c
          NoConn  \* no entry in the registry

ASSUME NoConnAssumption == NoConn \notin Conns

VARIABLES
  main,       \* the main thread: start(), its loop, stop(), end of process
  hpc,        \* hpc[c]: how far _handle_client has come
  clients,    \* clients[i]: the connection registered for the address i
  encryptor,  \* the key of the tunnel's _encryptor
  decryptor   \* the key of the tunnel's _decryptor

threadVars == <<main, hpc, clients, encryptor, decryptor>>
systemVars == <<vars, threadVars>>

Addresses == {IP[c] : c \in Conns}

\* Threads are daemons: they end with the process.
alive == main \in {"serving", "stopping"}

SystemTypeOK ==
  /\ TypeOK
  /\ main \in {"starting", "serving", "stopping", "exited"}
  /\ hpc \in [Conns -> {"handshake", "install_encryptor", "install_decryptor",
                        "hold", "cleanup", "ended"}]
  /\ clients \in [Addresses -> Conns \cup {NoConn}]
  /\ encryptor \in {keys.encrypt_key : keys \in DerivableKeys} \cup {None}
  /\ decryptor \in {keys.decrypt_key : keys \in DerivableKeys} \cup {None}

SystemInit ==
  /\ Init
  /\ main = "starting"
  /\ hpc = [c \in Conns |-> "handshake"]
  /\ clients = [i \in Addresses |-> NoConn]
  /\ encryptor = None /\ decryptor = None

-----------------------------------------------------------------------------
(* The main thread. *)

\* start(): when the tunnel or the listening socket cannot be had the process
\* ends, otherwise the accept loop starts.
Start ==
  /\ main = "starting"
  /\ main' \in {"serving", "exited"}
  /\ UNCHANGED <<vars, hpc, clients, encryptor, decryptor>>

\* Ctrl-C: stop() clears running and closes the listening socket.
Interrupt ==
  /\ main = "serving"
  /\ main' = "stopping"
  /\ UNCHANGED <<vars, hpc, clients, encryptor, decryptor>>

\* stop() returns from the tunnel's stop() and from saving the configuration.
Exit ==
  /\ main = "stopping"
  /\ main' = "exited"
  /\ UNCHANGED <<vars, hpc, clients, encryptor, decryptor>>

-----------------------------------------------------------------------------
(* The handshakes. *)

\* A connection is made only while the server listens.
Connect(c) ==
  /\ main = "serving"
  /\ ClientConnect(c)
  /\ UNCHANGED threadVars

ClientStep(c) ==
  /\ ClientRecvServerHello(c) \/ ClientRecvFinal(c) \/ ClientFail(c) \/ ClientVanish(c)
  /\ UNCHANGED threadVars

ServerStep(c) == alive /\ Server(c) /\ UNCHANGED threadVars

-----------------------------------------------------------------------------
(* A handler thread, once handle_handshake has returned. *)

\* Mutated form: a client waits until its address is free in the registry.
Register_WhenFree(c) ==
  /\ alive /\ hpc[c] = "handshake" /\ spc[c] = "established"
  /\ clients[IP[c]] = NoConn
  /\ clients' = [clients EXCEPT ![IP[c]] = c]
  /\ hpc' = [hpc EXCEPT ![c] = "install_encryptor"]
  /\ UNCHANGED <<vars, main, encryptor, decryptor>>

\* Mutated form: the keys are installed without an entry.
Register_Forget(c) ==
  /\ alive /\ hpc[c] = "handshake" /\ spc[c] = "established"
  /\ hpc' = [hpc EXCEPT ![c] = "install_encryptor"]
  /\ UNCHANGED <<vars, main, clients, encryptor, decryptor>>

\* The client is stored under its address, replacing an earlier entry.
Register(c) ==
  /\ alive /\ hpc[c] = "handshake" /\ spc[c] = "established"
  /\ clients' = [clients EXCEPT ![IP[c]] = c]
  /\ hpc' = [hpc EXCEPT ![c] = "install_encryptor"]
  /\ UNCHANGED <<vars, main, encryptor, decryptor>>

\* Mutated form: the keys are swapped, as if they came from the client.
InstallEncryptor_Swapped(c) ==
  /\ alive /\ hpc[c] = "install_encryptor"
  /\ encryptor' = skeys[c].decrypt_key
  /\ hpc' = [hpc EXCEPT ![c] = "install_decryptor"]
  /\ UNCHANGED <<vars, main, clients, decryptor>>

\* TunnelServer.set_session_keys, up to the encryptor.
InstallEncryptor(c) ==
  /\ alive /\ hpc[c] = "install_encryptor"
  /\ encryptor' = skeys[c].encrypt_key
  /\ hpc' = [hpc EXCEPT ![c] = "install_decryptor"]
  /\ UNCHANGED <<vars, main, clients, decryptor>>

\* TunnelServer.set_session_keys, the decryptor.
InstallDecryptor(c) ==
  /\ alive /\ hpc[c] = "install_decryptor"
  /\ decryptor' = skeys[c].decrypt_key
  /\ hpc' = [hpc EXCEPT ![c] = "hold"]
  /\ UNCHANGED <<vars, main, clients, encryptor>>

\* handle_handshake returned None.
Refuse(c) ==
  /\ alive /\ hpc[c] = "handshake" /\ spc[c] = "refused"
  /\ hpc' = [hpc EXCEPT ![c] = "cleanup"]
  /\ UNCHANGED <<vars, main, clients, encryptor, decryptor>>

\* The loop that keeps the connection sees running cleared; it looks at
\* nothing else.
Release(c) ==
  /\ main = "stopping" /\ hpc[c] = "hold"
  /\ hpc' = [hpc EXCEPT ![c] = "cleanup"]
  /\ UNCHANGED <<vars, main, clients, encryptor, decryptor>>

\* Mutated form: the entry is left in the registry.
Cleanup_NoDelete(c) ==
  /\ alive /\ hpc[c] = "cleanup"
  /\ hpc' = [hpc EXCEPT ![c] = "ended"]
  /\ UNCHANGED <<vars, main, clients, encryptor, decryptor>>

\* The finally clause: the entry of the client's address is deleted.
Cleanup(c) ==
  /\ alive /\ hpc[c] = "cleanup"
  /\ clients' = [clients EXCEPT ![IP[c]] = NoConn]
  /\ hpc' = [hpc EXCEPT ![c] = "ended"]
  /\ UNCHANGED <<vars, main, encryptor, decryptor>>

Handler(c) == Register(c) \/ InstallEncryptor(c) \/ InstallDecryptor(c)
                \/ Refuse(c) \/ Release(c) \/ Cleanup(c)

-----------------------------------------------------------------------------
\* The process may end at any time once it is interrupted, and may serve
\* forever with every handshake over.
SystemTerminated == /\ main \in {"serving", "exited"}
                    /\ UNCHANGED systemVars

SystemNext ==
  \/ Start \/ Interrupt \/ Exit
  \/ \E c \in Conns : Connect(c) \/ ClientStep(c) \/ ServerStep(c) \/ Handler(c)
  \/ SystemTerminated

SystemSpec == SystemInit /\ [][SystemNext]_systemVars

\* Handler threads are scheduled, and stop() does not hang (it joins the
\* tunnel's threads with a timeout).  Nobody has to connect or to interrupt.
SystemFairness ==
  /\ WF_systemVars(Exit)
  /\ \A c \in Conns :
       /\ WF_systemVars(ClientFail(c) /\ UNCHANGED threadVars)
       /\ WF_systemVars(ServerRecvHello(c) /\ alive /\ UNCHANGED threadVars)
       /\ WF_systemVars(ServerRecvAck(c) /\ alive /\ UNCHANGED threadVars)
       /\ WF_systemVars(ServerEndOfStream(c) /\ alive /\ UNCHANGED threadVars)
       /\ WF_systemVars(Handler(c))

SystemFairSpec == SystemSpec /\ SystemFairness

-----------------------------------------------------------------------------
(* Properties. *)

Installing(c) == hpc[c] \in {"install_encryptor", "install_decryptor"}

Settled(c) == hpc[c] \in {"hold", "cleanup", "ended"}

\* An entry of the registry belongs to a handler that is still at work for
\* the client at that address, and whose client has proved that it holds the
\* session keys: no entry outlives its handler.
NoStaleEntries == \A i \in Addresses : clients[i] # NoConn =>
  LET c == clients[i]
  IN  /\ IP[c] = i /\ spc[c] = "established"
      /\ Installing(c) \/ hpc[c] \in {"hold", "cleanup"}

\* What the tunnel encrypts with is the key some client decrypts with and
\* the reverse, and that client trusts this server: whatever the handlers'
\* interleaving, no key of a refused handshake and no key of the wrong
\* direction is ever installed.
InstalledKeysAuthentic ==
  /\ encryptor # None => \E c \in Conns :
       /\ spc[c] = "established" /\ ckeys[c].decrypt_key = encryptor
       /\ conf[c].server_pubkey \in {server[c], None}
  /\ decryptor # None => \E c \in Conns :
       /\ spc[c] = "established" /\ ckeys[c].encrypt_key = decryptor
       /\ conf[c].server_pubkey \in {server[c], None}

\* The strengthening under which the two properties above are inductive.
SystemInv ==
  /\ \A c \in Conns : Installing(c) \/ hpc[c] = "hold" => spc[c] = "established"
  /\ encryptor # None =>
       \E c \in Conns : spc[c] = "established" /\ encryptor = skeys[c].encrypt_key
  /\ decryptor # None =>
       \E c \in Conns : spc[c] = "established" /\ decryptor = skeys[c].decrypt_key
  /\ NoStaleEntries

\* Until its handler cleans up, a client is in the registry ("Connected
\* clients", server/main.py:128), unless a client from the same address has
\* taken its entry, or the handler of one has ended and deleted it: no
\* connection from elsewhere and no handler at work makes a client disappear.
RegisteredWhileHeld == \A c \in Conns : Installing(c) \/ hpc[c] = "hold" =>
  \/ clients[IP[c]] = c
  \/ \E d \in Conns \ {c} :
       IP[d] = IP[c] /\ (clients[IP[c]] = d \/ hpc[d] = "ended")

\* When exactly one client has come out of its handshake with keys and every
\* handler is settled, the tunnel uses that client's keys ("Both sides use
\* derived session keys for UDP packet transport", docs/ARCHITECTURE.md:89).
LoneClientServed == \A c \in Conns :
  /\ cpc[c] = "done"
  /\ \A d \in Conns \ {c} : cpc[d] \in {"idle", "failed"}
  /\ \A d \in Conns : Settled(d) \/ cpc[d] = "idle"
  => encryptor = skeys[c].encrypt_key /\ decryptor = skeys[c].decrypt_key

\* The confirmation is sent to the client before its keys are installed; the
\* installation does follow, unless the server stops.
InstallFollowsConfirmation == \A c \in Conns :
  cpc[c] = "done" ~> (hpc[c] \in {"hold", "ended"} \/ main = "exited")
=============================================================================
