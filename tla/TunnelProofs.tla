---------------------------- MODULE TunnelProofs ----------------------------
(***************************************************************************)
(* What is proved of the data plane, for any sessions, addresses and       *)
(* packets: types, delivery across sessions, and that a client accepts     *)
(* what its server sends when the server is named by its address.          *)
(***************************************************************************)
EXTENDS Tunnel, TLAPS

\* The two ends of a session hold opposite keys.
LEMMA EndsOpposite ==
  ASSUME NEW s \in Sessions
  PROVE  /\ ServerKeys(s).decrypt_key = ClientKeys(s).encrypt_key
         /\ ServerKeys(s).encrypt_key = ClientKeys(s).decrypt_key
  <1>1. Exchange(ClientKey, ServerKey) = Exchange(ServerKey, ClientKey)
    BY DEF Exchange
  <1>2. CASE ClientKey < ServerKey
    <2>1. ~(ServerKey < ClientKey)
      BY <1>2, PairsAssumption
    <2> QED
      BY <1>1, <1>2, <2>1 DEF ClientKeys, ServerKeys, DeriveSessionKeys
  <1>3. CASE ~(ClientKey < ServerKey)
    <2>1. ServerKey < ClientKey
      BY <1>3, PairsAssumption
    <2> QED
      BY <1>1, <1>3, <2>1 DEF ClientKeys, ServerKeys, DeriveSessionKeys
  <1> QED
    BY <1>2, <1>3

\* A key of the server tells the session and the direction it belongs to.
LEMMA KeysApart ==
  ASSUME NEW s \in Sessions, NEW t \in Sessions
  PROVE  /\ SessionOf(ServerKeys(s).encrypt_key) = s
         /\ SessionOf(ServerKeys(s).decrypt_key) = s
         /\ ServerKeys(s).encrypt_key # ServerKeys(t).decrypt_key
         /\ ServerKeys(s).encrypt_key = ServerKeys(t).encrypt_key => s = t
         /\ ServerKeys(s).decrypt_key = ServerKeys(t).decrypt_key => s = t
  BY DEF ServerKeys, DeriveSessionKeys, SessionOf, HKDF

\* The fields of the two kinds of datagrams.
LEMMA DatagramFields ==
  /\ \A d \in ToServer : \E s \in Sessions : /\ d.packet.key = ServerKeys(s).decrypt_key
                                            /\ d.packet.plaintext \in Packets \cup {NoPacket}
                                            /\ d.dst = ServerIP /\ d.src \in Addrs
  /\ \A d \in ToClient : \E s \in Sessions : /\ d.packet.key = ServerKeys(s).encrypt_key
                                            /\ d.packet.plaintext \in Packets
                                            /\ d.src = ServerIP /\ d.dst \in Addrs
  BY EndsOpposite DEF ToServer, ToClient, Datagram, Encrypt

\* Every packet in flight was read from the TUN of the end that sealed it, in
\* the session of its key.
InFlightAsSent == \A d \in net, s \in Sessions : d.packet.plaintext # NoPacket =>
  /\ d.packet.key = ServerKeys(s).decrypt_key => <<s, d.packet.plaintext>> \in cread
  /\ d.packet.key = ServerKeys(s).encrypt_key => <<s, d.packet.plaintext>> \in sread

\* A client that is connected has an address.
Located == session # 0 => caddr \in Addrs

\* The inductive invariant.
Inv == TypeOK /\ Located /\ InFlightAsSent /\ DeliveredAsSent

-----------------------------------------------------------------------------
\* The invariant holds before the first session.
LEMMA InvInit == Init => Inv
  BY DEF Init, Inv, TypeOK, Located, InFlightAsSent, DeliveredAsSent, Traffic

\* What a send leaves in flight is the datagram sent and what was there.
LEMMA SendAdds ==
  ASSUME NEW d, Send(d)
  PROVE  net' \subseteq net \cup {d}
  BY DEF Send

\* Nothing but the network and the histories of one side moves when a packet
\* is sent, and it is sent with the sender's key of its session.
LEMMA SendKeepsInv ==
  ASSUME Inv,
         NEW d \in ToServer \cup ToClient, NEW s \in Sessions,
         net' \subseteq net \cup {d},
         cread \subseteq cread', sread \subseteq sread',
         cread' \subseteq Traffic, sread' \subseteq Traffic,
         \/ d \in ToServer /\ d.packet.key = ServerKeys(s).decrypt_key
              /\ (d.packet.plaintext = NoPacket \/ <<s, d.packet.plaintext>> \in cread')
         \/ d \in ToClient /\ d.packet.key = ServerKeys(s).encrypt_key
              /\ <<s, d.packet.plaintext>> \in sread',
         UNCHANGED <<session, caddr, install, encryptor, decryptor, client_addr, ctun, stun>>
  PROVE  Inv'
<1>1. TypeOK' /\ Located'
  BY DEF Inv, TypeOK, Located
<1>2. InFlightAsSent'
  <2> SUFFICES ASSUME NEW e \in net', NEW t \in Sessions, e.packet.plaintext # NoPacket
               PROVE  /\ e.packet.key = ServerKeys(t).decrypt_key => <<t, e.packet.plaintext>> \in cread'
                      /\ e.packet.key = ServerKeys(t).encrypt_key => <<t, e.packet.plaintext>> \in sread'
    BY DEF InFlightAsSent, ServerKeys
  <2>1. CASE e \in net
    BY <2>1 DEF Inv, InFlightAsSent
  <2>2. CASE e = d
    BY <2>2, KeysApart
  <2> QED
    BY <2>1, <2>2
<1>3. DeliveredAsSent'
  BY DEF Inv, DeliveredAsSent
<1> QED
  BY <1>1, <1>2, <1>3 DEF Inv

-----------------------------------------------------------------------------
\* What a receive leaves in flight was there before.
LEMMA TakeKeeps ==
  ASSUME NEW d, Take(d)
  PROVE  net' \subseteq net
  BY DEF Take

\* Every step of the client, the server and the network keeps the invariant.
LEMMA InvNext == Inv /\ [Next]_vars => Inv'
<1> SUFFICES ASSUME Inv, [Next]_vars
             PROVE  Inv'
  OBVIOUS
<1>1. ASSUME NEW s \in Sessions, Establish(s)
      PROVE  Inv'
  BY <1>1 DEF Establish, Inv, TypeOK, Located, InFlightAsSent, DeliveredAsSent
<1>2. ASSUME NEW s \in Sessions, InstallEncryptor(s) \/ InstallDecryptor(s)
      PROVE  Inv'
  BY <1>2 DEF InstallEncryptor, InstallDecryptor, clientVars,
              Inv, TypeOK, Located, InFlightAsSent, DeliveredAsSent
<1>3. CASE Disconnect
  BY <1>3 DEF Disconnect, serverVars, Inv, TypeOK, Located, InFlightAsSent, DeliveredAsSent
<1>4. CASE Rebind
  BY <1>4 DEF Rebind, serverVars, Inv, TypeOK, Located, InFlightAsSent, DeliveredAsSent
<1>5. CASE Keepalive
  <2> DEFINE d == Datagram(caddr, ServerIP, Encrypt(ClientKeys(session).encrypt_key, NoPacket))
  <2>1. session \in Sessions /\ caddr \in Addrs
    BY <1>5 DEF Keepalive, Inv, TypeOK, Located
  <2>2. d \in ToServer
    BY <2>1 DEF ToServer
  <2>3. d.packet.key = ServerKeys(session).decrypt_key /\ d.packet.plaintext = NoPacket
    BY <2>1, EndsOpposite DEF Datagram, Encrypt
  <2>4. net' \subseteq net \cup {d} /\ UNCHANGED <<clientVars, serverVars>>
    BY <1>5, SendAdds DEF Keepalive
  <2>5. cread \subseteq Traffic /\ sread \subseteq Traffic
    BY DEF Inv, TypeOK
  <2> HIDE DEF d
  <2> QED
    BY <2>1, <2>2, <2>3, <2>4, <2>5, SendKeepsInv DEF clientVars, serverVars
<1>6. ASSUME NEW p \in Packets, ClientSend(p)
      PROVE  Inv'
  <2> DEFINE d == Datagram(caddr, ServerIP, Encrypt(ClientKeys(session).encrypt_key, p))
  <2>1. session \in Sessions /\ caddr \in Addrs
    BY <1>6 DEF ClientSend, Inv, TypeOK, Located
  <2>2. d \in ToServer
    BY <2>1 DEF ToServer
  <2>3. d.packet.key = ServerKeys(session).decrypt_key /\ d.packet.plaintext = p
    BY <2>1, EndsOpposite DEF Datagram, Encrypt
  <2>4. /\ net' \subseteq net \cup {d}
        /\ cread' = cread \cup {<<session, p>>}
        /\ UNCHANGED <<session, caddr, ctun, serverVars>>
    BY <1>6, SendAdds DEF ClientSend
  <2>5. cread' \subseteq Traffic /\ sread' \subseteq Traffic
    BY <2>1, <2>4 DEF Inv, TypeOK, Traffic, serverVars
  <2> HIDE DEF d
  <2> QED
    BY <2>1, <2>2, <2>3, <2>4, <2>5, SendKeepsInv DEF serverVars
<1>7. ASSUME NEW p \in Packets, ServerSend(p)
      PROVE  Inv'
  <2> DEFINE d == Datagram(ServerIP, client_addr, Encrypt(encryptor, p))
  <2>1. PICK s \in Sessions : encryptor = ServerKeys(s).encrypt_key
    BY <1>7 DEF ServerSend, Inv, TypeOK
  <2>2. d \in ToClient
    BY <1>7, <2>1 DEF ServerSend, Inv, TypeOK, ToClient
  <2>3. d.packet.key = ServerKeys(s).encrypt_key /\ d.packet.plaintext = p
    BY <2>1 DEF Datagram, Encrypt
  <2>4. /\ net' \subseteq net \cup {d}
        /\ sread' = sread \cup {<<s, p>>}
        /\ UNCHANGED <<clientVars, install, encryptor, decryptor, client_addr, stun>>
    BY <1>7, <2>1, SendAdds, KeysApart DEF ServerSend
  <2>5. cread' \subseteq Traffic /\ sread' \subseteq Traffic
    BY <2>4 DEF Inv, TypeOK, Traffic, clientVars
  <2> HIDE DEF d
  <2> QED
    BY <2>2, <2>3, <2>4, <2>5, SendKeepsInv DEF clientVars
<1>8. ASSUME NEW d \in net, ClientReceive(d)
      PROVE  Inv'
  <2>1. session \in Sessions /\ net' \subseteq net
    BY <1>8, TakeKeeps DEF ClientReceive, Inv, TypeOK
  <2>2. \/ ctun' = ctun
        \/ /\ ctun' = ctun \cup {<<session, d.packet.plaintext>>}
           /\ d.packet.key = ServerKeys(session).encrypt_key /\ d.packet.plaintext # NoPacket
    BY <1>8, <2>1, EndsOpposite DEF ClientReceive, Decrypts
  <2>3. ctun' \subseteq sread
    BY <2>1, <2>2 DEF Inv, InFlightAsSent, DeliveredAsSent
  <2> QED
    BY <1>8, <2>1, <2>3
      DEF ClientReceive, serverVars, Inv, TypeOK, Located, InFlightAsSent, DeliveredAsSent
<1>9. ASSUME NEW d \in net, ServerReceive(d)
      PROVE  Inv'
  <2>1. net' \subseteq net /\ client_addr' = d.src
    BY <1>9, TakeKeeps DEF ServerReceive
  <2>2. d.src \in Addrs
    BY <1>9, DatagramFields, AddrsAssumption DEF ServerReceive, Inv, TypeOK
  <2>3. stun' \subseteq cread
    <3>1. CASE Accepts(d)
      <4>1. PICK s \in Sessions : decryptor = ServerKeys(s).decrypt_key
        BY <3>1 DEF Accepts, Inv, TypeOK
      <4>2. stun' = stun \cup {<<s, d.packet.plaintext>>}
        BY <1>9, <3>1, <4>1, KeysApart DEF ServerReceive
      <4>3. <<s, d.packet.plaintext>> \in cread
        BY <3>1, <4>1 DEF Accepts, Decrypts, Inv, InFlightAsSent
      <4> QED
        BY <4>2, <4>3 DEF Inv, DeliveredAsSent
    <3>2. CASE ~Accepts(d)
      BY <1>9, <3>2 DEF ServerReceive, Inv, DeliveredAsSent
    <3> QED
      BY <3>1, <3>2
  <2> QED
    BY <1>9, <2>1, <2>2, <2>3
      DEF ServerReceive, clientVars, Inv, TypeOK, Located, InFlightAsSent, DeliveredAsSent
<1>10. ASSUME NEW d \in net, Lose(d)
       PROVE  Inv'
  BY <1>10 DEF Lose, clientVars, serverVars, Inv, TypeOK, Located, InFlightAsSent, DeliveredAsSent
<1>11. CASE UNCHANGED vars
  BY <1>11 DEF vars, clientVars, serverVars, Inv, TypeOK, Located, InFlightAsSent, DeliveredAsSent
<1> QED
  BY <1>1, <1>2, <1>3, <1>4, <1>5, <1>6, <1>7, <1>8, <1>9, <1>10, <1>11 DEF Next

-----------------------------------------------------------------------------
\* Types and the origin of everything in flight, in every reachable state.
THEOREM TunnelInvariant == Spec => []Inv
<1> QED
  BY InvInit, InvNext, PTL DEF Spec

\* The tunnel's state has the types that the code gives it.
THEOREM TunnelTypeCorrect == Spec => []TypeOK
<1>1. Inv => TypeOK
  BY DEF Inv
<1> QED
  BY <1>1, TunnelInvariant, PTL

\* Each end writes to its TUN only what the other end read from its own in
\* the same session, however datagrams are lost, duplicated or late.
THEOREM Delivery == Spec => []DeliveredAsSent
<1>1. Inv => DeliveredAsSent
  BY DEF Inv
<1> QED
  BY <1>1, TunnelInvariant, PTL

\* A client that was given its server's address refuses no packet of its
\* session's server.
THEOREM ClientAcceptsServer ==
  ASSUME ServerHost = ServerIP
  PROVE  Spec => GenuineAccepted
<1> DEFINE Accepted == \A d \in net :
             ClientReceive(d) /\ d.packet.key = ServerKeys(session).encrypt_key
               => <<session, d.packet.plaintext>> \in ctun'
<1>1. Inv /\ [Next]_vars => [Accepted]_vars
  <2> SUFFICES ASSUME Inv, NEW d \in net, ClientReceive(d),
                      d.packet.key = ServerKeys(session).encrypt_key
               PROVE  <<session, d.packet.plaintext>> \in ctun'
    OBVIOUS
  <2>1. session \in Sessions
    BY DEF ClientReceive, Inv, TypeOK
  <2>2. d \notin ToServer
    BY <2>1, DatagramFields, KeysApart
  <2>3. d.src = ServerIP /\ d.packet.plaintext \in Packets
    BY <2>2, DatagramFields DEF Inv, TypeOK
  <2> QED
    BY <2>1, <2>3, EndsOpposite, PacketsAssumption DEF ClientReceive, FromServer, Decrypts
<1> QED
  BY <1>1, TunnelInvariant, PTL DEF Spec, GenuineAccepted
=============================================================================
