------------------------------- MODULE Tunnel -------------------------------
(***************************************************************************)
(* The data plane of client/tunnel.py: a TunnelClient and the TunnelServer *)
(* exchange sealed packets over UDP.  The client connects again and again, *)
(* each time with the keys of a new session, and its datagrams may start   *)
(* to come from another address (a new socket, or a NAT on the way).  The  *)
(* server's handlers install the keys of the sessions in their own time,   *)
(* the encryptor before the decryptor (see VPNServer).                     *)
(*                                                                         *)
(* Datagrams are lost, duplicated and reordered: those in flight are a     *)
(* set, and one that is received may stay there.                           *)
(***************************************************************************)
EXTENDS Crypto, FiniteSets

CONSTANTS ClientKey, ServerKey, \* the two key pairs of the handshakes
          Sessions,    \* bound: the sessions, numbered in their order
          Addrs,       \* addresses the client's datagrams may come from
          Packets,     \* packets that applications send
          ServerIP,    \* the server's address as recvfrom reports it
          ServerHost,  \* the host in the client's _server_addr
          None,        \* Python's None
          MaxInFlight  \* bound: datagrams in flight

\* The payload of a keepalive, b"".
NoPacket == "b''"

ASSUME PairsAssumption == ClientKey \in Int /\ ServerKey \in Int /\ ClientKey # ServerKey
ASSUME SessionsAssumption == Sessions \subseteq Nat \ {0}
ASSUME PacketsAssumption == NoPacket \notin Packets
ASSUME AddrsAssumption == None \notin Addrs /\ ServerIP \notin Addrs

VARIABLES
  session,      \* the session whose keys the client uses; 0: disconnected
  caddr,        \* the address the client's datagrams come from
  install,      \* install[s]: how far the handler of session s has come
  encryptor,    \* the server's _encryptor
  decryptor,    \* the server's _decryptor
  client_addr,  \* the server's _client_addr
  net,          \* datagrams in flight
  cread,        \* what the client read from its TUN, and in which session
  sread,        \* what the server read from its TUN, and for which session
  ctun,         \* what the client wrote to its TUN, and in which session
  stun          \* what the server wrote to its TUN, and for which session

clientVars == <<session, caddr, cread, ctun>>
serverVars == <<install, encryptor, decryptor, client_addr, sread, stun>>
vars == <<clientVars, serverVars, net>>

\* Mutated form: the server takes its keys for the client's and swaps them.
ServerKeys_Swapped(s) == Opposite(DeriveSessionKeys(ServerKey, ClientKey, s))

\* The keys of a session at each of its ends.
ClientKeys(s) == DeriveSessionKeys(ClientKey, ServerKey, s)
ServerKeys(s) == DeriveSessionKeys(ServerKey, ClientKey, s)

Datagram(src, dst, packet) == [src |-> src, dst |-> dst, packet |-> packet]

ToServer == {Datagram(a, ServerIP, Encrypt(ClientKeys(s).encrypt_key, p)) :
               a \in Addrs, s \in Sessions, p \in Packets \cup {NoPacket}}
ToClient == {Datagram(ServerIP, a, Encrypt(ServerKeys(s).encrypt_key, p)) :
               a \in Addrs, s \in Sessions, p \in Packets}

Traffic == Sessions \X Packets

TypeOK ==
  /\ session \in Sessions \cup {0} /\ caddr \in Addrs \cup {None}
  /\ install \in [Sessions -> {"none", "encryptor", "decryptor", "done"}]
  /\ encryptor \in {ServerKeys(s).encrypt_key : s \in Sessions} \cup {None}
  /\ decryptor \in {ServerKeys(s).decrypt_key : s \in Sessions} \cup {None}
  /\ client_addr \in Addrs \cup {None}
  /\ net \subseteq ToServer \cup ToClient
  /\ cread \subseteq Traffic /\ sread \subseteq Traffic
  /\ ctun \subseteq Traffic /\ stun \subseteq Traffic

Init ==
  /\ session = 0 /\ caddr = None
  /\ install = [s \in Sessions |-> "none"]
  /\ encryptor = None /\ decryptor = None /\ client_addr = None
  /\ net = {} /\ cread = {} /\ sread = {} /\ ctun = {} /\ stun = {}

-----------------------------------------------------------------------------
(* Sessions. *)

\* A handshake: the server's handler has keys to install, and the client
\* connects its tunnel with them, unless it gave up waiting for the server's
\* confirmation or found no interface.
Establish(s) ==
  /\ session = 0 /\ install[s] = "none"
  /\ \A t \in Sessions : t < s => install[t] # "none"
  /\ install' = [install EXCEPT ![s] = "encryptor"]
  /\ \/ session' = s /\ caddr' \in Addrs
     \/ UNCHANGED <<session, caddr>>
  /\ UNCHANGED <<encryptor, decryptor, client_addr, net, cread, sread, ctun, stun>>

Disconnect ==
  /\ session # 0
  /\ session' = 0
  /\ UNCHANGED <<caddr, serverVars, net, cread, ctun>>

\* The client's datagrams come from another address.
Rebind ==
  /\ session # 0
  /\ caddr' \in Addrs \ {caddr}
  /\ UNCHANGED <<session, serverVars, net, cread, ctun>>

\* TunnelServer.set_session_keys, in its two steps.
InstallEncryptor(s) ==
  /\ install[s] = "encryptor"
  /\ encryptor' = ServerKeys(s).encrypt_key
  /\ install' = [install EXCEPT ![s] = "decryptor"]
  /\ UNCHANGED <<clientVars, decryptor, client_addr, net, sread, stun>>

InstallDecryptor(s) ==
  /\ install[s] = "decryptor"
  /\ decryptor' = ServerKeys(s).decrypt_key
  /\ install' = [install EXCEPT ![s] = "done"]
  /\ UNCHANGED <<clientVars, encryptor, client_addr, net, sread, stun>>

-----------------------------------------------------------------------------
(* The client's loops. *)

\* A queue on the way that is full loses a datagram.
Send(d) == IF Cardinality(net) < MaxInFlight THEN net' = net \cup {d}
           ELSE \E e \in net : net' = (net \ {e}) \cup {d}

\* A datagram is taken from the network, or a copy of it is.
Take(d) == net' \in {net, net \ {d}}

\* _tun_to_udp: sendto resolves the name of the server, if it is one.
ClientSend(p) ==
  /\ session # 0
  /\ Send(Datagram(caddr, ServerIP, Encrypt(ClientKeys(session).encrypt_key, p)))
  /\ cread' = cread \cup {<<session, p>>}
  /\ UNCHANGED <<session, caddr, ctun, serverVars>>

\* _keepalive_loop.
Keepalive ==
  /\ session # 0
  /\ Send(Datagram(caddr, ServerIP, Encrypt(ClientKeys(session).encrypt_key, NoPacket)))
  /\ UNCHANGED <<clientVars, serverVars>>

\* The sender must be the server, compared as it was given to connect().
FromServer(d) == d.src = ServerHost

\* _udp_to_tun: everything that is refused is dropped.
ClientReceive(d) ==
  /\ session # 0 /\ d.dst = caddr
  /\ Take(d)
  /\ ctun' = IF /\ FromServer(d)
                /\ Decrypts(ClientKeys(session).decrypt_key, d.packet)
                /\ d.packet.plaintext # NoPacket
               THEN ctun \cup {<<session, d.packet.plaintext>>}
               ELSE ctun
  /\ UNCHANGED <<session, caddr, cread, serverVars>>

-----------------------------------------------------------------------------
(* The server's loops. *)

\* The session that a key of the server belongs to.
SessionOf(key) == key.salt

\* _tun_read_loop.
ServerSend(p) ==
  /\ encryptor # None /\ client_addr # None
  /\ Send(Datagram(ServerIP, client_addr, Encrypt(encryptor, p)))
  /\ sread' = sread \cup {<<SessionOf(encryptor), p>>}
  /\ UNCHANGED <<clientVars, install, encryptor, decryptor, client_addr, stun>>

\* Mutated form: an empty payload is written as well.
Accepts_Empty(d) == decryptor # None /\ Decrypts(decryptor, d.packet)

\* The server opens the packet, and it is no keepalive.
Accepts(d) == /\ decryptor # None
              /\ Decrypts(decryptor, d.packet)
              /\ d.packet.plaintext # NoPacket

\* Mutated form: the address is learned from packets that are written only.
ServerReceive_LearnLate(d) ==
  /\ d.dst = ServerIP
  /\ Take(d)
  /\ IF Accepts(d)
       THEN client_addr' = d.src /\ stun' = stun \cup {<<SessionOf(decryptor), d.packet.plaintext>>}
       ELSE UNCHANGED <<client_addr, stun>>
  /\ UNCHANGED <<clientVars, install, encryptor, decryptor, sread>>

\* _udp_receive_loop: the client's address is learned from every datagram,
\* before anything is known of it.
ServerReceive(d) ==
  /\ d.dst = ServerIP
  /\ Take(d)
  /\ client_addr' = d.src
  /\ stun' = IF Accepts(d) THEN stun \cup {<<SessionOf(decryptor), d.packet.plaintext>>} ELSE stun
  /\ UNCHANGED <<clientVars, install, encryptor, decryptor, sread>>

-----------------------------------------------------------------------------
Lose(d) == net' = net \ {d} /\ UNCHANGED <<clientVars, serverVars>>

Next ==
  \/ \E s \in Sessions : Establish(s) \/ InstallEncryptor(s) \/ InstallDecryptor(s)
  \/ Disconnect \/ Rebind \/ Keepalive
  \/ \E p \in Packets : ClientSend(p) \/ ServerSend(p)
  \/ \E d \in net : ClientReceive(d) \/ ServerReceive(d) \/ Lose(d)

Spec == Init /\ [][Next]_vars

\* The keepalive thread goes on sending, and a keepalive that is sent again
\* and again gets through in the end.  No application has to send, and nobody
\* has to connect.
Fairness ==
  /\ WF_vars(Keepalive)
  /\ \A d \in ToServer : d.packet.plaintext = NoPacket =>
       SF_vars(d \in net /\ ServerReceive(d))

FairSpec == Spec /\ Fairness

-----------------------------------------------------------------------------
(* Properties. *)

\* Whatever is lost, duplicated or late, across sessions and while the keys
\* change one after the other, each end writes to its TUN only packets that
\* the other end read from its own in the same session, and no keepalive.
DeliveredAsSent == stun \subseteq cread /\ ctun \subseteq sread

\* While the client stays connected from one address, the server comes to
\* send to that address, be there no traffic but keepalives ("UDP client
\* address is learned from incoming tunnel packets", server/main.py:220).
AddressLearned == \A a \in Addrs :
  (session # 0 /\ caddr = a) ~> (client_addr = a \/ session = 0 \/ caddr # a)

\* A connected client refuses no packet that the server sealed for its
\* session, whether the server was named by its address or by a hostname
\* ("Server hostname or IP", client/tunnel.py:108).
GenuineAccepted == [][\A d \in net :
  ClientReceive(d) /\ d.packet.key = ServerKeys(session).encrypt_key
    => <<session, d.packet.plaintext>> \in ctun']_vars
=============================================================================
