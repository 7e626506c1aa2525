-------------------------- MODULE VPNServerProofs --------------------------
(***************************************************************************)
(* Proofs about VPNServer, for every set of connections, of addresses and  *)
(* of keys: what the handshake guarantees is inherited by the server that  *)
(* runs it, and carried over to the registry and to the installed keys.    *)
(***************************************************************************)
EXTENDS VPNServer, HandshakeProofs

\* The server runs the handshake: each of its steps is a step of the
\* handshake module or leaves the handshakes alone.
LEMMA StepOfHandshake == [SystemNext]_systemVars => [Next]_vars
  BY DEF SystemNext, systemVars, threadVars, Start, Interrupt, Exit, Connect, ClientStep,
         ServerStep, Handler, Register, InstallEncryptor, InstallDecryptor, Refuse, Release,
         Cleanup, SystemTerminated, Next, Client, Server

\* Whatever holds of every handshake holds of those the server runs.
THEOREM SystemRunsHandshake == SystemSpec => Spec
<1>1. SystemInit => Init
  BY DEF SystemInit
<1> QED
  BY <1>1, StepOfHandshake, PTL DEF SystemSpec, Spec

\* Among all that its threads do besides, the handshakes of a server process
\* agree on keys: every established session has matching, trusted keys that it
\* shares with no other, and the process implements the abstract key agreement
\* (HandshakeServer.handle_handshake, called at server/main.py:208).
THEOREM SystemAgreesOnKeys ==
  SystemSpec => /\ [](MatchingKeys /\ EstablishedIsTrusted /\ SessionKeysUnique)
                /\ ImplementsKeyAgreement
BY SystemRunsHandshake, KeysMatch, TrustIsMutual, KeysUnique, Refinement, PTL

\* A server that has established a session neither takes it back nor changes
\* its keys.
LEMMA EstablishedStable ==
  ASSUME TypeOK, HandshakeInv, [Next]_vars, NEW c \in Conns, spc[c] = "established"
  PROVE  spc'[c] = "established" /\ skeys'[c] = skeys[c]
<1>1. cpc[c] # "idle"
  BY DEF HandshakeInv, ConnInv
<1>2. ASSUME NEW d \in Conns, Client(d)
      PROVE  spc'[c] = "established" /\ skeys'[c] = skeys[c]
  BY <1>1, <1>2 DEF Client, ClientConnect, ClientRecvServerHello, ClientRecvFinal, ClientFail,
                    ClientVanish, serverVars, TypeOK
<1>3. ASSUME NEW d \in Conns, Server(d)
      PROVE  spc'[c] = "established" /\ skeys'[c] = skeys[c]
  BY <1>3 DEF Server, ServerRecvHello, ServerRecvAck, ServerEndOfStream, ServerFail, Serving, TypeOK
<1> QED
  BY <1>2, <1>3 DEF Next, Terminated, vars

\* The invariant holds when the server has not started.
LEMMA SystemInvInit == SystemInit => SystemInv
  BY NoConnAssumption DEF SystemInit, SystemInv, Installing, NoStaleEntries

\* What the proofs need of SystemTypeOK.
ThreadTypeOK == /\ main \in {"starting", "serving", "stopping", "exited"}
                /\ hpc \in [Conns -> {"handshake", "install_encryptor", "install_decryptor",
                                      "hold", "cleanup", "ended"}]
                /\ clients \in [Addresses -> Conns \cup {NoConn}]

\* A step that leaves the threads alone keeps the invariant.
LEMMA SystemInvHandshakeStep ==
  ASSUME TypeOK, HandshakeInv, ThreadTypeOK, SystemInv, [Next]_vars, UNCHANGED threadVars
  PROVE  SystemInv'
<1>1. \A c \in Conns : spc[c] = "established" => spc'[c] = "established" /\ skeys'[c] = skeys[c]
  BY EstablishedStable
<1> QED
  BY <1>1 DEF SystemInv, NoStaleEntries, Installing, threadVars, ThreadTypeOK

\* Every step keeps the types of the threads' state.
LEMMA ThreadTypes == ThreadTypeOK /\ [SystemNext]_systemVars => ThreadTypeOK'
  BY DEF ThreadTypeOK, Addresses, SystemNext, systemVars, threadVars, Start, Interrupt, Exit,
         Connect, ClientStep, ServerStep, Handler, Register, InstallEncryptor, InstallDecryptor,
         Refuse, Release, Cleanup, SystemTerminated

\* Every step of the process keeps the invariant.
LEMMA SystemInvNext ==
  ASSUME TypeOK, HandshakeInv, ThreadTypeOK, SystemInv, [SystemNext]_systemVars
  PROVE  SystemInv'
<1> USE DEF SystemInv, NoStaleEntries, Installing, ThreadTypeOK
<1>1. CASE UNCHANGED threadVars
  BY <1>1, StepOfHandshake, SystemInvHandshakeStep
<1>2. ASSUME UNCHANGED <<vars, hpc, clients, encryptor, decryptor>>
      PROVE  SystemInv'
  BY <1>2 DEF vars
<1>3. ASSUME NEW c \in Conns, Register(c)
      PROVE  SystemInv'
  <2>1. IP[c] \in Addresses /\ spc[c] = "established"
    BY <1>3 DEF Register, Addresses
  <2> QED
    BY <1>3, <2>1, NoConnAssumption DEF Register, vars
<1>4. ASSUME NEW c \in Conns, InstallEncryptor(c)
      PROVE  SystemInv'
  <2>1. spc[c] = "established"
    BY <1>4 DEF InstallEncryptor
  <2> QED
    BY <1>4, <2>1 DEF InstallEncryptor, vars
<1>5. ASSUME NEW c \in Conns, InstallDecryptor(c)
      PROVE  SystemInv'
  <2>1. spc[c] = "established"
    BY <1>5 DEF InstallDecryptor
  <2> QED
    BY <1>5, <2>1 DEF InstallDecryptor, vars
<1>6. ASSUME NEW c \in Conns, Refuse(c)
      PROVE  SystemInv'
  BY <1>6 DEF Refuse, vars
<1>7. ASSUME NEW c \in Conns, Release(c)
      PROVE  SystemInv'
  BY <1>7 DEF Release, vars
<1>8. ASSUME NEW c \in Conns, Cleanup(c)
      PROVE  SystemInv'
  BY <1>8, NoConnAssumption DEF Cleanup, vars
<1> QED
  BY <1>1, <1>2, <1>3, <1>4, <1>5, <1>6, <1>7, <1>8
    DEF SystemNext, systemVars, Start, Interrupt, Exit, Connect, ClientStep, ServerStep, Handler,
        SystemTerminated

\* The invariants of the handshake and of the server process hold in every
\* reachable state, for any number of connections from any addresses.
THEOREM SystemInvariant == SystemSpec => [](TypeOK /\ HandshakeInv /\ ThreadTypeOK /\ SystemInv)
<1>1. SystemInit => ThreadTypeOK /\ SystemInv
  BY SystemInvInit DEF SystemInit, ThreadTypeOK
<1>2. /\ TypeOK /\ HandshakeInv /\ ThreadTypeOK /\ SystemInv
      /\ [SystemNext]_systemVars
      => ThreadTypeOK' /\ SystemInv'
  BY SystemInvNext, ThreadTypes
<1> QED
  BY <1>1, <1>2, SystemRunsHandshake, HandshakeInvariant, PTL DEF SystemSpec

\* The server's state has the types that the code gives it; the keys it
\* installs are keys that a handshake of its own can derive.
THEOREM SystemTypeCorrect == SystemSpec => []SystemTypeOK
<1>1. TypeOK /\ HandshakeInv /\ ThreadTypeOK /\ SystemInv => SystemTypeOK
  <2> SUFFICES ASSUME TypeOK, HandshakeInv, ThreadTypeOK, SystemInv
               PROVE  SystemTypeOK
    OBVIOUS
  <2>1. \A c \in Conns : spc[c] = "established" => skeys[c] \in DerivableKeys
    BY DEF HandshakeInv, ConnInv, TypeOK
  <2>2. encryptor \in {keys.encrypt_key : keys \in DerivableKeys} \cup {None}
    BY <2>1 DEF SystemInv
  <2>3. decryptor \in {keys.decrypt_key : keys \in DerivableKeys} \cup {None}
    BY <2>1 DEF SystemInv
  <2> QED
    BY <2>2, <2>3 DEF SystemTypeOK, ThreadTypeOK
<1> QED
  BY <1>1, SystemInvariant, PTL

\* No entry of the registry outlives its handler (server/main.py:212, 235).
THEOREM RegistryNotStale == SystemSpec => []NoStaleEntries
<1>1. SystemInv => NoStaleEntries
  BY DEF SystemInv
<1> QED
  BY <1>1, SystemInvariant, PTL

\* Only keys of sessions with clients that trust this server are installed in
\* the tunnel, each in its direction (server/main.py:219, tunnel.py:341).
THEOREM KeysAuthentic == SystemSpec => []InstalledKeysAuthentic
<1>1. TypeOK /\ HandshakeInv /\ SystemInv => InstalledKeysAuthentic
  <2> SUFFICES ASSUME TypeOK, HandshakeInv, SystemInv
               PROVE  InstalledKeysAuthentic
    OBVIOUS
  <2>1. ASSUME NEW c \in Conns, spc[c] = "established"
        PROVE  /\ ckeys[c].decrypt_key = skeys[c].encrypt_key
               /\ ckeys[c].encrypt_key = skeys[c].decrypt_key
               /\ conf[c].server_pubkey \in {server[c], None}
    <3>1. ConnInv(c)
      BY DEF HandshakeInv
    <3>2. /\ skeys[c] # None /\ cpc[c] # "idle"
          /\ ckeys[c] = DeriveSessionKeys(ckey[c], server[c], nonce[c])
          /\ skeys[c] = DeriveSessionKeys(server[c], ckey[c], nonce[c])
          /\ conf[c].server_pubkey \in {server[c], None}
      BY <2>1, <3>1 DEF ConnInv
    <3>3. ckey[c] \in ClientKeys /\ server[c] \in ServerKeys /\ nonce[c] \in Salts
      BY <3>1, <3>2 DEF ConnInv, TypeOK
    <3>4. ckeys[c] = Opposite(skeys[c])
      BY <3>2, <3>3, ClientDerives
    <3> QED
      BY <3>2, <3>4 DEF Opposite
  <2> QED
    BY <2>1 DEF SystemInv, InstalledKeysAuthentic
<1> QED
  BY <1>1, SystemInvariant, PTL

\* Every step keeps held clients registered, up to the exceptions of the
\* property: an entry taken by another client from the same address is that
\* client's until its handler ends, and an ended handler stays ended.
LEMMA RegisteredNext ==
  ASSUME ThreadTypeOK, SystemInv, RegisteredWhileHeld, [SystemNext]_systemVars
  PROVE  RegisteredWhileHeld'
<1> USE DEF RegisteredWhileHeld, ThreadTypeOK, Installing
<1>1. ASSUME UNCHANGED <<hpc, clients>>
      PROVE  RegisteredWhileHeld'
  BY <1>1
<1>2. ASSUME NEW d \in Conns, Register(d)
      PROVE  RegisteredWhileHeld'
  <2>1. /\ IP[d] \in Addresses
        /\ clients' = [clients EXCEPT ![IP[d]] = d]
        /\ hpc' = [hpc EXCEPT ![d] = "install_encryptor"] /\ hpc[d] = "handshake"
    BY <1>2 DEF Register, Addresses
  <2> QED
    BY <2>1
<1>3. ASSUME NEW d \in Conns,
             InstallEncryptor(d) \/ InstallDecryptor(d) \/ Refuse(d) \/ Release(d)
      PROVE  RegisteredWhileHeld'
  <2>1. /\ clients' = clients
        /\ \A c \in Conns : hpc'[c] = "ended" <=> hpc[c] = "ended"
        /\ \A c \in Conns : hpc'[c] \in {"install_decryptor", "hold"}
                           => hpc[c] \in {"install_encryptor", "install_decryptor", "hold"}
        /\ \A c \in Conns : hpc'[c] = "install_encryptor" => hpc[c] = "install_encryptor"
    BY <1>3 DEF InstallEncryptor, InstallDecryptor, Refuse, Release
  <2> QED
    BY <2>1
<1>4. ASSUME NEW d \in Conns, Cleanup(d)
      PROVE  RegisteredWhileHeld'
  <2>1. /\ IP[d] \in Addresses
        /\ clients' = [clients EXCEPT ![IP[d]] = NoConn]
        /\ hpc' = [hpc EXCEPT ![d] = "ended"] /\ hpc[d] = "cleanup"
    BY <1>4 DEF Cleanup, Addresses
  <2>2. ASSUME NEW c \in Conns, c # d, IP[c] = IP[d]
        PROVE  \E e \in Conns \ {c} : IP[e] = IP[c] /\ hpc'[e] = "ended"
    BY <2>1, <2>2
  <2>3. ASSUME NEW c \in Conns, IP[c] # IP[d]
        PROVE  clients'[IP[c]] = clients[IP[c]]
    BY <2>1, <2>3 DEF Addresses
  <2> QED
    BY <2>1, <2>2, <2>3
<1> QED
  BY <1>1, <1>2, <1>3, <1>4
    DEF SystemNext, systemVars, threadVars, Start, Interrupt, Exit, Connect, ClientStep,
        ServerStep, Handler, SystemTerminated

\* A client stays in the registry until its handler cleans up or another
\* connection from its address interferes, for any number of connections
\* (server/main.py:212-239).
THEOREM StaysRegistered == SystemSpec => []RegisteredWhileHeld
<1>1. SystemInit => RegisteredWhileHeld
  BY DEF SystemInit, RegisteredWhileHeld, Installing
<1>2. /\ ThreadTypeOK /\ SystemInv /\ RegisteredWhileHeld
      /\ [SystemNext]_systemVars
      => RegisteredWhileHeld'
  BY RegisteredNext
<1> QED
  BY <1>1, <1>2, SystemInvariant, PTL DEF SystemSpec
=============================================================================
