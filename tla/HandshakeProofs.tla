-------------------------- MODULE HandshakeProofs --------------------------
(***************************************************************************)
(* Proofs about Handshake, for every set of connections, of key pairs, of  *)
(* nonces and of clock readings.                                           *)
(***************************************************************************)
EXTENDS Handshake, TLAPS

-----------------------------------------------------------------------------
(* The key derivation. *)

\* The two ends of a session derive opposite keys, because exactly one of two
\* different public keys is the smaller (crypto.py:168-197).
LEMMA OppositeKeys ==
  ASSUME NEW k \in Int, NEW s \in Int, k # s, NEW n
  PROVE  DeriveSessionKeys(k, s, n) = Opposite(DeriveSessionKeys(s, k, n))
<1>1. Exchange(k, s) = Exchange(s, k)
  BY DEF Exchange
<1>2. CASE k < s
  <2>1. ~(s < k)
    BY <1>2
  <2> QED
    BY <1>1, <1>2, <2>1 DEF DeriveSessionKeys, Opposite
<1>3. CASE s < k
  <2>1. ~(k < s)
    BY <1>3
  <2> QED
    BY <1>1, <1>3, <2>1 DEF DeriveSessionKeys, Opposite
<1> QED
  BY <1>2, <1>3

\* The two directions of a session use different keys (crypto.py:151).
LEMMA DirectionsDiffer ==
  ASSUME NEW k, NEW s, NEW n
  PROVE  DeriveSessionKeys(k, s, n).encrypt_key # DeriveSessionKeys(k, s, n).decrypt_key
  BY DEF DeriveSessionKeys, HKDF

\* Different nonces lead to different keys (handshake.py:306-307).
LEMMA NoncesSeparateKeys ==
  ASSUME NEW k1, NEW s1, NEW n1, NEW k2, NEW s2, NEW n2, n1 # n2
  PROVE  KeysOf(DeriveSessionKeys(k1, s1, n1)) \cap KeysOf(DeriveSessionKeys(k2, s2, n2)) = {}
  BY DEF KeysOf, DeriveSessionKeys, HKDF

-----------------------------------------------------------------------------
(* What a message of each type carries. *)

\* The fields of the messages a client sends.
LEMMA ClientMessageFields ==
  ASSUME NEW m \in ClientMessages
  PROVE  /\ m # Empty => m.type \in {"CLIENT_HELLO", "CLIENT_ACK"}
         /\ m.type = "CLIENT_HELLO" => m.public_key \in ClientKeys
  BY DEF ClientMessages, Empty, ClientHello, ClientAck

\* The fields of the messages a server sends.
LEMMA ServerMessageFields ==
  ASSUME NEW m \in ServerMessages
  PROVE  m.type = "SERVER_HELLO" => m.public_key \in ServerKeys /\ m.nonce \in Salts
  BY DEF ServerMessages, Empty, ServerHello, Error, FinalAck

\* The constructors give messages of the types their names say, all different.
LEMMA Constructors ==
  /\ Empty.type = "EMPTY" /\ Error.type = "ERROR" /\ FinalAck.type = "CLIENT_ACK"
  /\ \A v, t, k : ClientHello(v, t, k).type = "CLIENT_HELLO" /\ ClientHello(v, t, k).public_key = k
  /\ \A e : ClientAck(e).type = "CLIENT_ACK"
  /\ \A s, n : /\ ServerHello(s, n).type = "SERVER_HELLO"
              /\ ServerHello(s, n).public_key = s /\ ServerHello(s, n).nonce = n
  BY DEF Empty, Error, FinalAck, ClientHello, ClientAck, ServerHello

\* What the client derives from a ServerHello is the opposite of what its
\* server can derive.
LEMMA ClientDerives ==
  ASSUME NEW k \in ClientKeys, NEW s \in ServerKeys, NEW n \in Salts
  PROVE  /\ DeriveSessionKeys(s, k, n) \in DerivableKeys
         /\ DeriveSessionKeys(k, s, n) = Opposite(DeriveSessionKeys(s, k, n))
         /\ DeriveSessionKeys(k, s, n).encrypt_key = DeriveSessionKeys(s, k, n).decrypt_key
<1>1. k \in Int /\ s \in Int /\ k # s
  BY KeysAssumption
<1>2. DeriveSessionKeys(k, s, n) = Opposite(DeriveSessionKeys(s, k, n))
  BY <1>1, OppositeKeys
<1>3. DeriveSessionKeys(s, k, n) \in DerivableKeys
  BY DEF DerivableKeys
<1> QED
  BY <1>2, <1>3 DEF Opposite

-----------------------------------------------------------------------------
(* Type correctness. *)

\* The initial state has the right types.
LEMMA TypeInit == Init => TypeOK
  BY DEF Init, TypeOK, Configs, ClientMessages, ServerMessages

\* Every step keeps the types, given what the invariant says of messages.
LEMMA TypeNext ==
  ASSUME TypeOK, HandshakeInv, [Next]_vars
  PROVE  TypeOK'
<1> USE DEF TypeOK
<1>1. ASSUME NEW c \in Conns, ClientConnect(c)
      PROVE  TypeOK'
  <2>1. PICK s \in ServerKeys, config \in Configs, k \in ClientKeys, v \in Versions, t \in Clock :
          /\ server' = [server EXCEPT ![c] = s]
          /\ conf' = [conf EXCEPT ![c] = config]
          /\ ckey' = [ckey EXCEPT ![c] = k]
          /\ c2s' = [c2s EXCEPT ![c] = ClientHello(v, t, k)]
    BY <1>1 DEF ClientConnect
  <2>2. ClientHello(v, t, k) \in ClientMessages
    BY DEF ClientMessages
  <2> QED
    BY <1>1, <2>1, <2>2 DEF ClientConnect
<1>2. ASSUME NEW c \in Conns, ClientRecvServerHello(c)
      PROVE  TypeOK'
  <2>1. s2c' \in [Conns -> ServerMessages]
    BY <1>2 DEF ClientRecvServerHello, ServerMessages
  <2>2. CASE s2c[c].type = "SERVER_HELLO" /\ Trusted(conf[c], s2c[c].public_key)
    <3> DEFINE keys == DeriveSessionKeys(ckey[c], s2c[c].public_key, s2c[c].nonce)
               mirror == DeriveSessionKeys(s2c[c].public_key, ckey[c], s2c[c].nonce)
    <3>1. ckey[c] \in ClientKeys
      BY <1>2 DEF HandshakeInv, ConnInv, ClientRecvServerHello
    <3>2. s2c[c].public_key \in ServerKeys /\ s2c[c].nonce \in Salts
      BY <2>2, ServerMessageFields
    <3>3. keys = Opposite(mirror) /\ mirror \in DerivableKeys /\ keys.encrypt_key = mirror.decrypt_key
      BY <3>1, <3>2, ClientDerives
    <3>4. ClientAck(Encrypt(keys.encrypt_key, "HANDSHAKE_CONFIRM")) \in ClientMessages
      <4> HIDE DEF keys, mirror
      <4> QED BY <3>3 DEF ClientMessages
    <3>5. /\ ckeys' = [ckeys EXCEPT ![c] = keys]
          /\ c2s' = [c2s EXCEPT ![c] = ClientAck(Encrypt(keys.encrypt_key, "HANDSHAKE_CONFIRM"))]
          /\ cpc' = [cpc EXCEPT ![c] = "ack_sent"]
      BY <1>2, <2>2 DEF ClientRecvServerHello
    <3> HIDE DEF keys, mirror
    <3> QED
      BY <1>2, <2>1, <3>3, <3>4, <3>5 DEF ClientRecvServerHello, serverVars
  <2>3. CASE ~(s2c[c].type = "SERVER_HELLO" /\ Trusted(conf[c], s2c[c].public_key))
    BY <1>2, <2>1, <2>3 DEF ClientRecvServerHello, serverVars
  <2> QED
    BY <2>2, <2>3
<1>3. ASSUME NEW c \in Conns, ClientRecvFinal(c)
      PROVE  TypeOK'
  <2>1. s2c' \in [Conns -> ServerMessages]
    BY <1>3 DEF ClientRecvFinal, ServerMessages
  <2> QED
    BY <1>3, <2>1 DEF ClientRecvFinal, serverVars
<1>4. ASSUME NEW c \in Conns, ClientFail(c) \/ ClientVanish(c)
      PROVE  TypeOK'
  BY <1>4 DEF ClientFail, ClientVanish, serverVars
<1>5. ASSUME NEW c \in Conns, ServerRecvHello(c)
      PROVE  TypeOK'
  <2>1. c2s' \in [Conns -> ClientMessages]
    BY <1>5 DEF ServerRecvHello, ClientMessages
  <2>2. PICK now \in Clock :
          IF c2s[c].type = "CLIENT_HELLO" /\ Acceptable(c2s[c], now)
            THEN /\ \E n \in FreshSalts :
                      /\ nonce' = [nonce EXCEPT ![c] = n]
                      /\ skeys' = [skeys EXCEPT ![c] =
                                     DeriveSessionKeys(server[c], c2s[c].public_key, n)]
                      /\ s2c' = [s2c EXCEPT ![c] = ServerHello(server[c], n)]
                 /\ spc' = [spc EXCEPT ![c] = "await_ack"]
            ELSE /\ s2c' = [s2c EXCEPT ![c] = Error] \/ s2c' = s2c
                 /\ spc' = [spc EXCEPT ![c] = "refused"]
                 /\ UNCHANGED <<nonce, skeys>>
    BY <1>5 DEF ServerRecvHello
  <2>3. CASE c2s[c].type = "CLIENT_HELLO" /\ Acceptable(c2s[c], now)
    <3>1. PICK n \in FreshSalts :
            /\ nonce' = [nonce EXCEPT ![c] = n]
            /\ skeys' = [skeys EXCEPT ![c] = DeriveSessionKeys(server[c], c2s[c].public_key, n)]
            /\ s2c' = [s2c EXCEPT ![c] = ServerHello(server[c], n)]
      BY <2>2, <2>3
    <3>2. server[c] \in ServerKeys /\ c2s[c].public_key \in ClientKeys /\ n \in Salts
      BY <1>5, <2>3, ClientMessageFields
        DEF HandshakeInv, ConnInv, ServerRecvHello, FreshSalts
    <3>3. /\ DeriveSessionKeys(server[c], c2s[c].public_key, n) \in DerivableKeys
          /\ ServerHello(server[c], n) \in ServerMessages
      BY <3>2 DEF DerivableKeys, ServerMessages
    <3> QED
      BY <1>5, <2>1, <2>2, <2>3, <3>1, <3>2, <3>3 DEF ServerRecvHello, clientVars
  <2>4. CASE ~(c2s[c].type = "CLIENT_HELLO" /\ Acceptable(c2s[c], now))
    BY <1>5, <2>1, <2>2, <2>4 DEF ServerRecvHello, clientVars, ServerMessages
  <2> QED
    BY <2>3, <2>4
<1>6. ASSUME NEW c \in Conns, ServerRecvAck(c)
      PROVE  TypeOK'
  <2>1. c2s' \in [Conns -> ClientMessages]
    BY <1>6 DEF ServerRecvAck, ClientMessages
  <2>2. s2c' \in [Conns -> ServerMessages]
    BY <1>6 DEF ServerRecvAck, ServerMessages
  <2> QED
    BY <1>6, <2>1, <2>2 DEF ServerRecvAck, clientVars
<1>7. ASSUME NEW c \in Conns, ServerEndOfStream(c) \/ ServerFail(c)
      PROVE  TypeOK'
  BY <1>7 DEF ServerEndOfStream, ServerFail, clientVars
<1>8. CASE UNCHANGED vars
  BY <1>8 DEF vars
<1> QED
  BY <1>1, <1>2, <1>3, <1>4, <1>5, <1>6, <1>7, <1>8 DEF Next, Client, Server, Terminated

-----------------------------------------------------------------------------
(* The inductive invariant. *)

\* The invariant holds when no connection has been made.
LEMMA InvInit == Init => HandshakeInv
  BY Constructors DEF Init, HandshakeInv, ConnInv, NoncesDistinct

\* The step leaves the connection d alone.
SameConn(d) ==
  /\ cpc'[d] = cpc[d] /\ conf'[d] = conf[d] /\ ckey'[d] = ckey[d] /\ ckeys'[d] = ckeys[d]
  /\ server'[d] = server[d] /\ c2s'[d] = c2s[d] /\ s2c'[d] = s2c[d]
  /\ spc'[d] = spc[d] /\ nonce'[d] = nonce[d] /\ skeys'[d] = skeys[d]

\* A connection that a step leaves alone keeps its invariant.
LEMMA Frame ==
  ASSUME NEW d \in Conns, ConnInv(d), SameConn(d)
  PROVE  ConnInv(d)'
  BY DEF ConnInv, SameConn

\* It is enough to look at the connection a step touches, and at the nonces
\* when the step draws one.
LEMMA OneConn ==
  ASSUME HandshakeInv, NEW c \in Conns, ConnInv(c)',
         \A d \in Conns \ {c} : SameConn(d),
         nonce'[c] = nonce[c] \/ \A d \in Conns : nonce[d] # nonce'[c]
  PROVE  HandshakeInv'
<1>1. ASSUME NEW d \in Conns
      PROVE  ConnInv(d)'
  BY <1>1, Frame DEF HandshakeInv
<1>2. NoncesDistinct'
  BY DEF HandshakeInv, NoncesDistinct, SameConn
<1> QED
  BY <1>1, <1>2 DEF HandshakeInv

\* Every step of either side keeps the invariant.
LEMMA InvNext ==
  ASSUME TypeOK, HandshakeInv, [Next]_vars
  PROVE  HandshakeInv'
<1> USE DEF TypeOK
<1>1. ASSUME NEW c \in Conns, ClientConnect(c)
      PROVE  HandshakeInv'
  <2>1. \A d \in Conns \ {c} : SameConn(d)
    BY <1>1 DEF ClientConnect, SameConn
  <2>2. ConnInv(c)
    BY DEF HandshakeInv
  <2>3. ConnInv(c)'
    <3>1. PICK s \in ServerKeys, config \in Configs, k \in ClientKeys, v \in Versions, t \in Clock :
          /\ server' = [server EXCEPT ![c] = s]
          /\ conf' = [conf EXCEPT ![c] = config]
          /\ ckey' = [ckey EXCEPT ![c] = k]
          /\ c2s' = [c2s EXCEPT ![c] = ClientHello(v, t, k)]
      BY <1>1 DEF ClientConnect
    <3>2. /\ cpc[c] = "idle" /\ cpc'[c] = "hello_sent" /\ spc'[c] = "await_hello"
          /\ server'[c] = s /\ ckey'[c] = k /\ c2s'[c] = ClientHello(v, t, k)
          /\ ckeys'[c] = ckeys[c] /\ s2c'[c] = s2c[c] /\ nonce'[c] = nonce[c] /\ skeys'[c] = skeys[c]
      BY <1>1, <3>1 DEF ClientConnect
    <3> QED
      BY <2>2, <3>2, Constructors DEF ConnInv
  <2> QED
    BY <1>1, <2>1, <2>3, OneConn DEF ClientConnect
<1>2. ASSUME NEW c \in Conns, ClientRecvServerHello(c)
      PROVE  HandshakeInv'
  <2>1. \A d \in Conns \ {c} : SameConn(d)
    BY <1>2 DEF ClientRecvServerHello, SameConn, serverVars
  <2>2. ConnInv(c)
    BY DEF HandshakeInv
  <2>3. /\ cpc[c] = "hello_sent" /\ s2c'[c] = Empty
        /\ conf'[c] = conf[c] /\ ckey'[c] = ckey[c] /\ server'[c] = server[c]
        /\ spc'[c] = spc[c] /\ nonce'[c] = nonce[c] /\ skeys'[c] = skeys[c]
    BY <1>2 DEF ClientRecvServerHello, serverVars
  <2>4. CASE s2c[c].type = "SERVER_HELLO" /\ Trusted(conf[c], s2c[c].public_key)
    <3> DEFINE keys == DeriveSessionKeys(ckey[c], s2c[c].public_key, s2c[c].nonce)
    <3>1. /\ cpc'[c] = "ack_sent" /\ ckeys'[c] = keys
          /\ c2s'[c] = ClientAck(Encrypt(keys.encrypt_key, "HANDSHAKE_CONFIRM"))
      BY <1>2, <2>4 DEF ClientRecvServerHello
    <3>2. s2c[c].public_key = server[c] /\ s2c[c].nonce = nonce[c] /\ skeys[c] # None
      BY <2>2, <2>4 DEF ConnInv
    <3>3. keys # None
      <4>1. ckey[c] \in ClientKeys /\ server[c] \in ServerKeys /\ nonce[c] \in Salts
        BY <2>2, <2>3, <3>2 DEF ConnInv
      <4> QED
        BY <3>2, <4>1, ClientDerives, NoKeysAssumption
    <3>4. \/ conf[c].server_pubkey = server[c]
          \/ conf[c].server_pubkey = None /\ conf[c].allow_insecure
      BY <2>4, <3>2 DEF Trusted
    <3>5. keys = DeriveSessionKeys(ckey[c], server[c], nonce[c])
      BY <3>2
    <3>6. c2s'[c].type = "CLIENT_ACK" /\ s2c'[c].type = "EMPTY"
      BY <2>3, <3>1, Constructors
    <3> HIDE DEF keys
    <3>7. ConnInv(c)'
      BY <2>2, <2>3, <3>1, <3>2, <3>3, <3>4, <3>5, <3>6 DEF ConnInv
    <3> QED
      BY <2>1, <2>3, <3>7, OneConn
  <2>5. CASE ~(s2c[c].type = "SERVER_HELLO" /\ Trusted(conf[c], s2c[c].public_key))
    <3>1. cpc'[c] = "failed" /\ ckeys'[c] = ckeys[c] /\ c2s'[c] = c2s[c]
      BY <1>2, <2>5 DEF ClientRecvServerHello
    <3>2. ConnInv(c)'
      BY <2>2, <2>3, <3>1, Constructors DEF ConnInv
    <3> QED
      BY <2>1, <2>3, <3>2, OneConn
  <2> QED
    BY <2>4, <2>5
<1>3. ASSUME NEW c \in Conns, ClientRecvFinal(c)
      PROVE  HandshakeInv'
  <2>1. \A d \in Conns \ {c} : SameConn(d)
    BY <1>3 DEF ClientRecvFinal, SameConn, serverVars
  <2>2. ConnInv(c)
    BY DEF HandshakeInv
  <2>3. /\ s2c'[c] = Empty /\ cpc[c] = "ack_sent"
        /\ cpc'[c] = IF s2c[c].type = "CLIENT_ACK" THEN "done" ELSE "failed"
        /\ conf'[c] = conf[c] /\ ckey'[c] = ckey[c] /\ ckeys'[c] = ckeys[c]
        /\ server'[c] = server[c] /\ c2s'[c] = c2s[c]
        /\ spc'[c] = spc[c] /\ nonce'[c] = nonce[c] /\ skeys'[c] = skeys[c]
    BY <1>3 DEF ClientRecvFinal, serverVars
  <2>4. ConnInv(c)'
    BY <2>2, <2>3, Constructors DEF ConnInv
  <2> QED
    BY <2>1, <2>3, <2>4, OneConn
<1>4. ASSUME NEW c \in Conns, ClientFail(c) \/ ClientVanish(c)
      PROVE  HandshakeInv'
  <2>1. \A d \in Conns \ {c} : SameConn(d)
    BY <1>4 DEF ClientFail, ClientVanish, SameConn, serverVars
  <2>2. ConnInv(c)
    BY DEF HandshakeInv
  <2>3. /\ cpc[c] \in {"hello_sent", "ack_sent"} /\ cpc'[c] \in {"failed", "vanished"}
        /\ conf'[c] = conf[c] /\ ckey'[c] = ckey[c] /\ ckeys'[c] = ckeys[c]
        /\ server'[c] = server[c] /\ c2s'[c] = c2s[c] /\ s2c'[c] = s2c[c]
        /\ spc'[c] = spc[c] /\ nonce'[c] = nonce[c] /\ skeys'[c] = skeys[c]
    BY <1>4 DEF ClientFail, ClientVanish, Waiting, serverVars
  <2>4. ConnInv(c)'
    BY <2>2, <2>3 DEF ConnInv
  <2> QED
    BY <2>1, <2>3, <2>4, OneConn
<1>5. ASSUME NEW c \in Conns, ServerRecvHello(c)
      PROVE  HandshakeInv'
  <2>1. \A d \in Conns \ {c} : SameConn(d)
    BY <1>5 DEF ServerRecvHello, SameConn, clientVars
  <2>2. ConnInv(c)
    BY DEF HandshakeInv
  <2>3. /\ spc[c] = "await_hello" /\ c2s'[c] = Empty /\ c2s[c] # Empty
        /\ cpc'[c] = cpc[c] /\ conf'[c] = conf[c] /\ ckey'[c] = ckey[c]
        /\ ckeys'[c] = ckeys[c] /\ server'[c] = server[c]
    BY <1>5 DEF ServerRecvHello, clientVars
  <2>4. ckeys[c] = None /\ skeys[c] = None /\ cpc[c] \notin {"idle", "done"}
    BY <2>2, <2>3 DEF ConnInv
  <2>5. CASE \E n \in FreshSalts :
               /\ c2s[c].type = "CLIENT_HELLO"
               /\ nonce' = [nonce EXCEPT ![c] = n]
               /\ skeys' = [skeys EXCEPT ![c] = DeriveSessionKeys(server[c], c2s[c].public_key, n)]
               /\ s2c' = [s2c EXCEPT ![c] = ServerHello(server[c], n)]
               /\ spc' = [spc EXCEPT ![c] = "await_ack"]
    <3>1. PICK n \in FreshSalts :
               /\ c2s[c].type = "CLIENT_HELLO"
               /\ nonce'[c] = n
               /\ skeys'[c] = DeriveSessionKeys(server[c], c2s[c].public_key, n)
               /\ s2c'[c] = ServerHello(server[c], n)
               /\ spc'[c] = "await_ack"
      BY <2>5
    <3>2. n \in Salts /\ n # None /\ \A d \in Conns : nonce[d] # n
      BY NoneAssumption DEF FreshSalts
    <3>3. c2s[c].public_key = ckey[c] /\ ckey[c] \in ClientKeys /\ server[c] \in ServerKeys
      BY <2>2, <2>4, <3>1 DEF ConnInv
    <3>4. skeys'[c] # None
      BY <3>1, <3>2, <3>3, ClientDerives, NoKeysAssumption
    <3>5. ConnInv(c)'
      BY <2>2, <2>3, <2>4, <3>1, <3>2, <3>3, <3>4, Constructors DEF ConnInv
    <3> QED
      BY <2>1, <3>1, <3>2, <3>5, OneConn
  <2>6. CASE /\ s2c' = [s2c EXCEPT ![c] = Error] \/ s2c' = s2c
             /\ spc' = [spc EXCEPT ![c] = "refused"]
             /\ UNCHANGED <<nonce, skeys>>
    <3>1. /\ s2c'[c] = Error \/ s2c'[c] = s2c[c]
          /\ spc'[c] = "refused" /\ nonce'[c] = nonce[c] /\ skeys'[c] = skeys[c]
      BY <2>6
    <3>2. ConnInv(c)'
      BY <2>2, <2>3, <2>4, <3>1, Constructors DEF ConnInv
    <3> QED
      BY <2>1, <3>1, <3>2, OneConn
  <2> QED
    BY <1>5, <2>5, <2>6 DEF ServerRecvHello
<1>6. ASSUME NEW c \in Conns, ServerRecvAck(c)
      PROVE  HandshakeInv'
  <2>1. \A d \in Conns \ {c} : SameConn(d)
    BY <1>6 DEF ServerRecvAck, SameConn, clientVars
  <2>2. ConnInv(c)
    BY DEF HandshakeInv
  <2>3. /\ spc[c] = "await_ack" /\ c2s'[c] = Empty /\ c2s[c] # Empty
        /\ cpc'[c] = cpc[c] /\ conf'[c] = conf[c] /\ ckey'[c] = ckey[c] /\ ckeys'[c] = ckeys[c]
        /\ server'[c] = server[c] /\ nonce'[c] = nonce[c] /\ skeys'[c] = skeys[c]
        /\ \/ c2s[c].type = "CLIENT_ACK" /\ s2c'[c] = FinalAck /\ spc'[c] = "established"
           \/ s2c'[c] = s2c[c] /\ spc'[c] = "refused"
    BY <1>6 DEF ServerRecvAck, clientVars
  <2>4. ConnInv(c)'
    BY <2>2, <2>3, Constructors DEF ConnInv
  <2> QED
    BY <2>1, <2>3, <2>4, OneConn
<1>7. ASSUME NEW c \in Conns, ServerEndOfStream(c) \/ ServerFail(c)
      PROVE  HandshakeInv'
  <2>1. \A d \in Conns \ {c} : SameConn(d)
    BY <1>7 DEF ServerEndOfStream, ServerFail, SameConn, clientVars
  <2>2. ConnInv(c)
    BY DEF HandshakeInv
  <2>3. /\ spc[c] \in {"await_hello", "await_ack"} /\ spc'[c] = "refused"
        /\ cpc'[c] = cpc[c] /\ conf'[c] = conf[c] /\ ckey'[c] = ckey[c] /\ ckeys'[c] = ckeys[c]
        /\ server'[c] = server[c] /\ c2s'[c] = c2s[c] /\ s2c'[c] = s2c[c]
        /\ nonce'[c] = nonce[c] /\ skeys'[c] = skeys[c]
    BY <1>7 DEF ServerEndOfStream, ServerFail, Serving, clientVars
  <2>4. ConnInv(c)'
    BY <2>2, <2>3 DEF ConnInv
  <2> QED
    BY <2>1, <2>3, <2>4, OneConn
<1>8. CASE UNCHANGED vars
  BY <1>8 DEF vars, HandshakeInv, ConnInv, NoncesDistinct
<1> QED
  BY <1>1, <1>2, <1>3, <1>4, <1>5, <1>6, <1>7, <1>8 DEF Next, Client, Server, Terminated

\* In every reachable state all variables have their types and the invariant
\* that ties the two ends of each connection together holds.
THEOREM HandshakeInvariant == Spec => [](TypeOK /\ HandshakeInv)
<1>1. Init => TypeOK /\ HandshakeInv
  BY TypeInit, InvInit
<1>2. TypeOK /\ HandshakeInv /\ [Next]_vars => (TypeOK /\ HandshakeInv)'
  BY TypeNext, InvNext
<1> QED
  BY <1>1, <1>2, PTL DEF Spec

-----------------------------------------------------------------------------
(* Consequences. *)

\* Every variable keeps its type, whatever the number of connections.
THEOREM TypeCorrect == Spec => []TypeOK
  BY HandshakeInvariant, PTL

\* Keys returned on either side of a connection have their opposites on the
\* other side (handshake.py:203 and 347).
THEOREM KeysMatch == Spec => []MatchingKeys
<1>1. TypeOK /\ HandshakeInv => MatchingKeys
  <2> SUFFICES ASSUME TypeOK, HandshakeInv, NEW c \in Conns
               PROVE  /\ cpc[c] = "done" => spc[c] = "established"
                      /\ spc[c] = "established" => ckeys[c] # None /\ ckeys[c] = Opposite(skeys[c])
    BY DEF MatchingKeys
  <2>1. ConnInv(c)
    BY DEF HandshakeInv
  <2>2. cpc[c] = "done" => spc[c] = "established"
    BY <2>1 DEF ConnInv
  <2>3. ASSUME spc[c] = "established"
        PROVE  ckeys[c] # None /\ ckeys[c] = Opposite(skeys[c])
    <3>1. /\ ckeys[c] # None /\ skeys[c] # None /\ cpc[c] # "idle"
          /\ ckeys[c] = DeriveSessionKeys(ckey[c], server[c], nonce[c])
          /\ skeys[c] = DeriveSessionKeys(server[c], ckey[c], nonce[c])
      BY <2>1, <2>3 DEF ConnInv
    <3>2. ckey[c] \in ClientKeys /\ server[c] \in ServerKeys /\ nonce[c] \in Salts
      BY <2>1, <3>1 DEF ConnInv, TypeOK
    <3> QED
      BY <3>1, <3>2, ClientDerives
  <2> QED
    BY <2>2, <2>3
<1> QED
  BY <1>1, HandshakeInvariant, PTL

\* A server only ever establishes a session with a client that pinned its
\* key, or that pinned none and allowed the insecure mode (handshake.py:160-168).
THEOREM TrustIsMutual == Spec => []EstablishedIsTrusted
<1>1. HandshakeInv => EstablishedIsTrusted
  BY DEF HandshakeInv, ConnInv, EstablishedIsTrusted
<1> QED
  BY <1>1, HandshakeInvariant, PTL

\* No two sessions of any servers share a key, even when clients use an
\* ephemeral key pair again (handshake.py:306-307).
THEOREM KeysUnique == Spec => []SessionKeysUnique
<1>1. TypeOK /\ HandshakeInv => SessionKeysUnique
  <2> SUFFICES ASSUME TypeOK, HandshakeInv, NEW c \in Conns, skeys[c] # None
               PROVE  /\ skeys[c].encrypt_key # skeys[c].decrypt_key
                      /\ \A d \in Conns \ {c} :
                           skeys[d] # None => KeysOf(skeys[c]) \cap KeysOf(skeys[d]) = {}
    BY DEF SessionKeysUnique
  <2>1. \A d \in Conns : skeys[d] # None =>
          /\ skeys[d] = DeriveSessionKeys(server[d], ckey[d], nonce[d])
          /\ nonce[d] # None
    BY DEF HandshakeInv, ConnInv
  <2>2. skeys[c].encrypt_key # skeys[c].decrypt_key
    BY <2>1, DirectionsDiffer
  <2>3. ASSUME NEW d \in Conns \ {c}, skeys[d] # None
        PROVE  KeysOf(skeys[c]) \cap KeysOf(skeys[d]) = {}
    <3>1. nonce[c] # nonce[d]
      BY <2>1, <2>3 DEF HandshakeInv, NoncesDistinct
    <3> QED
      BY <2>1, <2>3, <3>1, NoncesSeparateKeys
  <2> QED
    BY <2>2, <2>3
<1> QED
  BY <1>1, HandshakeInvariant, PTL

-----------------------------------------------------------------------------
(* Refinement of KeyAgreement. *)

\* The phase of a connection is that of KeyAgreement.
LEMMA PhaseFrame ==
  ASSUME NEW d \in Conns, cpc'[d] = cpc[d], spc'[d] = spc[d],
         ckeys'[d] = ckeys[d], skeys'[d] = skeys[d]
  PROVE  Phase(d)' = Phase(d)
  BY DEF Phase

\* A step of one connection that leaves its phase and the keys alone is a
\* stuttering step of KeyAgreement.
LEMMA Stutter ==
  ASSUME NEW c \in Conns, \A d \in Conns \ {c} : SameConn(d),
         Phase(c)' = Phase(c), ckeys' = ckeys, skeys' = skeys
  PROVE  UNCHANGED KA!vars
<1>1. \A d \in Conns : Phase(d)' = Phase(d)
  BY PhaseFrame DEF SameConn
<1> QED
  BY <1>1 DEF KA!vars

\* Otherwise it moves the phase of that connection alone.
LEMMA PhaseStep ==
  ASSUME NEW c \in Conns, \A d \in Conns \ {c} : SameConn(d),
         NEW p, Phase(c)' = p
  PROVE  [d \in Conns |-> Phase(d)]' = [[d \in Conns |-> Phase(d)] EXCEPT ![c] = p]
<1>1. \A d \in Conns \ {c} : Phase(d)' = Phase(d)
  BY PhaseFrame DEF SameConn
<1> QED
  BY <1>1

\* The initial state is one of the abstract key agreement.
LEMMA RefinementInit == Init => KA!Init
  BY DEF Init, KA!Init, Phase

\* Every step is one of the abstract key agreement, or leaves it alone.
LEMMA RefinementNext ==
  ASSUME TypeOK, HandshakeInv, TypeOK', HandshakeInv', [Next]_vars
  PROVE  [KA!Next]_KA!vars
<1>1. ASSUME NEW c \in Conns, ClientConnect(c)
      PROVE  UNCHANGED KA!vars
  <2>1. \A d \in Conns \ {c} : SameConn(d)
    BY <1>1 DEF ClientConnect, SameConn, TypeOK
  <2>2. ConnInv(c)
    BY DEF HandshakeInv
  <2>3. /\ cpc[c] = "idle" /\ cpc'[c] = "hello_sent" /\ spc'[c] = "await_hello"
        /\ ckeys' = ckeys /\ skeys' = skeys
    BY <1>1 DEF ClientConnect, TypeOK
  <2>4. Phase(c)' = Phase(c)
    BY <2>2, <2>3 DEF ConnInv, Phase
  <2> QED
    BY <2>1, <2>3, <2>4, Stutter
<1>2. ASSUME NEW c \in Conns, ClientRecvServerHello(c)
      PROVE  KA!Accept(c) \/ UNCHANGED KA!vars
  <2>1. \A d \in Conns \ {c} : SameConn(d)
    BY <1>2 DEF ClientRecvServerHello, SameConn, serverVars, TypeOK
  <2>2. ConnInv(c) /\ ConnInv(c)'
    BY DEF HandshakeInv
  <2>3. cpc[c] = "hello_sent" /\ spc'[c] = spc[c] /\ skeys' = skeys
    BY <1>2 DEF ClientRecvServerHello, serverVars, TypeOK
  <2>4. CASE s2c[c].type = "SERVER_HELLO" /\ Trusted(conf[c], s2c[c].public_key)
    <3> DEFINE keys == DeriveSessionKeys(ckey[c], s2c[c].public_key, s2c[c].nonce)
    <3>1. cpc'[c] = "ack_sent" /\ ckeys' = [ckeys EXCEPT ![c] = keys] /\ ckeys'[c] = keys
      BY <1>2, <2>4 DEF ClientRecvServerHello, TypeOK
    <3>2. /\ s2c[c].public_key = server[c] /\ s2c[c].nonce = nonce[c]
          /\ skeys[c] # None /\ ckeys[c] = None
      BY <2>2, <2>3, <2>4 DEF ConnInv
    <3>3. /\ ckey[c] \in ClientKeys /\ server[c] \in ServerKeys /\ nonce[c] \in Salts
          /\ skeys[c] = DeriveSessionKeys(server[c], ckey[c], nonce[c])
      BY <2>2, <2>3, <3>2 DEF ConnInv, TypeOK
    <3>4. keys = Opposite(skeys[c])
      BY <3>2, <3>3, ClientDerives
    <3>5. Phase(c) = "offered"
      BY <2>2, <2>3, <3>2 DEF ConnInv, Phase
    <3>6. Phase(c)' = "accepted"
      <4>1. ckeys'[c] # None /\ cpc'[c] # "done"
        BY <2>2, <3>1 DEF ConnInv
      <4>2. spc'[c] # "established"
        BY <2>2, <2>3, <3>2 DEF ConnInv
      <4> QED
        BY <4>1, <4>2 DEF Phase
    <3>7. [d \in Conns |-> Phase(d)]' = [[d \in Conns |-> Phase(d)] EXCEPT ![c] = "accepted"]
      BY <2>1, <3>6, PhaseStep
    <3> HIDE DEF keys
    <3> QED
      BY <2>3, <3>1, <3>4, <3>5, <3>7 DEF KA!Accept, Opposite
  <2>5. CASE ~(s2c[c].type = "SERVER_HELLO" /\ Trusted(conf[c], s2c[c].public_key))
    <3>1. cpc'[c] = "failed" /\ ckeys' = ckeys
      BY <1>2, <2>5 DEF ClientRecvServerHello, TypeOK
    <3>2. Phase(c)' = Phase(c)
      BY <2>3, <3>1 DEF Phase
    <3> QED
      BY <2>1, <2>3, <3>1, <3>2, Stutter
  <2> QED
    BY <2>4, <2>5
<1>3. ASSUME NEW c \in Conns, ClientRecvFinal(c)
      PROVE  KA!Return(c) \/ UNCHANGED KA!vars
  <2>1. \A d \in Conns \ {c} : SameConn(d)
    BY <1>3 DEF ClientRecvFinal, SameConn, serverVars, TypeOK
  <2>2. ConnInv(c)
    BY DEF HandshakeInv
  <2>3. /\ cpc[c] = "ack_sent" /\ spc' = spc /\ ckeys' = ckeys /\ skeys' = skeys
        /\ cpc'[c] = IF s2c[c].type = "CLIENT_ACK" THEN "done" ELSE "failed"
    BY <1>3 DEF ClientRecvFinal, serverVars, TypeOK
  <2>4. CASE s2c[c].type = "CLIENT_ACK"
    <3>1. Phase(c) = "established" /\ Phase(c)' = "returned"
      BY <2>2, <2>3, <2>4 DEF ConnInv, Phase
    <3>2. [d \in Conns |-> Phase(d)]' = [[d \in Conns |-> Phase(d)] EXCEPT ![c] = "returned"]
      BY <2>1, <3>1, PhaseStep
    <3> QED
      BY <2>3, <3>1, <3>2 DEF KA!Return
  <2>5. CASE s2c[c].type # "CLIENT_ACK"
    <3>1. Phase(c)' = Phase(c)
      BY <2>3, <2>5 DEF Phase
    <3> QED
      BY <2>1, <2>3, <3>1, Stutter
  <2> QED
    BY <2>4, <2>5
<1>4. ASSUME NEW c \in Conns, ClientFail(c) \/ ClientVanish(c)
      PROVE  UNCHANGED KA!vars
  <2>1. \A d \in Conns \ {c} : SameConn(d)
    BY <1>4 DEF ClientFail, ClientVanish, SameConn, serverVars, TypeOK
  <2>2. /\ cpc[c] # "done" /\ cpc'[c] # "done"
        /\ spc' = spc /\ ckeys' = ckeys /\ skeys' = skeys
    BY <1>4 DEF ClientFail, ClientVanish, Waiting, serverVars, TypeOK
  <2>3. Phase(c)' = Phase(c)
    BY <2>2 DEF Phase
  <2> QED
    BY <2>1, <2>2, <2>3, Stutter
<1>5. ASSUME NEW c \in Conns, ServerRecvHello(c)
      PROVE  KA!Offer(c) \/ UNCHANGED KA!vars
  <2>1. \A d \in Conns \ {c} : SameConn(d)
    BY <1>5 DEF ServerRecvHello, SameConn, clientVars, TypeOK
  <2>2. ConnInv(c) /\ ConnInv(c)'
    BY DEF HandshakeInv
  <2>3. spc[c] = "await_hello" /\ cpc' = cpc /\ ckeys' = ckeys
    BY <1>5 DEF ServerRecvHello, clientVars
  <2>4. skeys[c] = None /\ ckeys[c] = None /\ cpc[c] # "done"
    BY <2>2, <2>3 DEF ConnInv
  <2>5. CASE \E n \in FreshSalts :
               /\ nonce' = [nonce EXCEPT ![c] = n]
               /\ skeys' = [skeys EXCEPT ![c] = DeriveSessionKeys(server[c], c2s[c].public_key, n)]
               /\ spc' = [spc EXCEPT ![c] = "await_ack"]
    <3>1. PICK n \in FreshSalts :
               /\ nonce' = [nonce EXCEPT ![c] = n]
               /\ skeys' = [skeys EXCEPT ![c] = DeriveSessionKeys(server[c], c2s[c].public_key, n)]
               /\ spc' = [spc EXCEPT ![c] = "await_ack"]
      BY <2>5
    <3> DEFINE pair == DeriveSessionKeys(server[c], c2s[c].public_key, n)
    <3>2. nonce'[c] = n /\ skeys'[c] = pair /\ spc'[c] = "await_ack"
      BY <3>1 DEF TypeOK
    <3>3. n \in Salts /\ n # None /\ \A d \in Conns : nonce[d] # n
      BY NoneAssumption DEF FreshSalts
    <3>4. skeys'[c] # None
      BY <2>2, <3>2, <3>3 DEF ConnInv
    <3>5. pair \in DerivableKeys
      BY <3>2, <3>4 DEF TypeOK
    <3>6. pair.encrypt_key # pair.decrypt_key
      BY DirectionsDiffer
    <3>7. ASSUME NEW d \in Conns, skeys[d] # None
          PROVE  KA!Keys(skeys[d]) \cap KA!Keys(pair) = {}
      <4>1. skeys[d] = DeriveSessionKeys(server[d], ckey[d], nonce[d]) /\ nonce[d] # n
        BY <3>3, <3>7 DEF HandshakeInv, ConnInv
      <4> QED
        BY <4>1, NoncesSeparateKeys DEF KeysOf, KA!Keys
    <3>8. Phase(c) = "none"
      BY <2>3, <2>4 DEF Phase
    <3>9. Phase(c)' = "offered"
      BY <2>3, <2>4, <3>2, <3>4 DEF Phase
    <3>10. [d \in Conns |-> Phase(d)]' = [[d \in Conns |-> Phase(d)] EXCEPT ![c] = "offered"]
      BY <2>1, <3>9, PhaseStep
    <3>11. skeys' = [skeys EXCEPT ![c] = pair]
      BY <3>1
    <3> HIDE DEF pair
    <3> QED
      BY <2>3, <3>5, <3>6, <3>7, <3>8, <3>10, <3>11 DEF KA!Offer
  <2>6. CASE spc' = [spc EXCEPT ![c] = "refused"] /\ UNCHANGED <<nonce, skeys>>
    <3>1. spc'[c] = "refused" /\ skeys' = skeys
      BY <2>6 DEF TypeOK
    <3>2. Phase(c)' = Phase(c)
      BY <2>3, <3>1 DEF Phase
    <3> QED
      BY <2>1, <2>3, <3>1, <3>2, Stutter
  <2> QED
    BY <1>5, <2>5, <2>6 DEF ServerRecvHello
<1>6. ASSUME NEW c \in Conns, ServerRecvAck(c)
      PROVE  KA!Establish(c) \/ UNCHANGED KA!vars
  <2>1. \A d \in Conns \ {c} : SameConn(d)
    BY <1>6 DEF ServerRecvAck, SameConn, clientVars, TypeOK
  <2>2. ConnInv(c)
    BY DEF HandshakeInv
  <2>3. /\ spc[c] = "await_ack" /\ cpc' = cpc /\ ckeys' = ckeys /\ skeys' = skeys
        /\ \/ c2s[c].type = "CLIENT_ACK" /\ spc'[c] = "established"
           \/ spc'[c] = "refused"
    BY <1>6 DEF ServerRecvAck, clientVars, TypeOK
  <2>4. CASE c2s[c].type = "CLIENT_ACK" /\ spc'[c] = "established"
    <3>1. Phase(c) = "accepted" /\ Phase(c)' = "established"
      BY <2>2, <2>3, <2>4 DEF ConnInv, Phase
    <3>2. [d \in Conns |-> Phase(d)]' = [[d \in Conns |-> Phase(d)] EXCEPT ![c] = "established"]
      BY <2>1, <3>1, PhaseStep
    <3> QED
      BY <2>3, <3>1, <3>2 DEF KA!Establish
  <2>5. CASE spc'[c] = "refused"
    <3>1. Phase(c)' = Phase(c)
      BY <2>3, <2>5 DEF Phase
    <3> QED
      BY <2>1, <2>3, <3>1, Stutter
  <2> QED
    BY <2>3, <2>4, <2>5
<1>7. ASSUME NEW c \in Conns, ServerEndOfStream(c) \/ ServerFail(c)
      PROVE  UNCHANGED KA!vars
  <2>1. \A d \in Conns \ {c} : SameConn(d)
    BY <1>7 DEF ServerEndOfStream, ServerFail, SameConn, clientVars, TypeOK
  <2>2. /\ spc[c] # "established" /\ spc'[c] # "established"
        /\ cpc' = cpc /\ ckeys' = ckeys /\ skeys' = skeys
    BY <1>7 DEF ServerEndOfStream, ServerFail, Serving, clientVars, TypeOK
  <2>3. Phase(c)' = Phase(c)
    BY <2>2 DEF Phase
  <2> QED
    BY <2>1, <2>2, <2>3, Stutter
<1>8. CASE UNCHANGED vars
  BY <1>8 DEF vars, KA!vars, Phase
<1> QED
  BY <1>1, <1>2, <1>3, <1>4, <1>5, <1>6, <1>7, <1>8
    DEF Next, Client, Server, Terminated, KA!Next

\* The handshake implements the abstract key agreement: its messages, time-
\* outs and resets amount to offers of fresh keys, their acceptance with the
\* opposite keys, and the two returns, in that order.
THEOREM Refinement == Spec => ImplementsKeyAgreement
<1>1. Init => KA!Init
  BY RefinementInit
<1>2. (TypeOK /\ HandshakeInv) /\ (TypeOK /\ HandshakeInv)' /\ [Next]_vars => [KA!Next]_KA!vars
  BY RefinementNext
<1> QED
  BY <1>1, <1>2, HandshakeInvariant, PTL DEF Spec, ImplementsKeyAgreement, KA!Spec
=============================================================================
