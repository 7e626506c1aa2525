----------------------------- MODULE Handshake -----------------------------
(***************************************************************************)
(* The TCP handshake of client/handshake.py: HandshakeClient.perform_      *)
(* handshake on one side of each connection, HandshakeServer.handle_       *)
(* handshake on the other, the two halves of the TCP stream between them,  *)
(* timeouts and resets on either side, and a client whose machine stops    *)
(* without closing its socket.                                             *)
(*                                                                         *)
(* A connection c carries one handshake: the server starts a handler       *)
(* thread for every connection it accepts.  The client's ephemeral key     *)
(* pair belongs to its HandshakeClient, and perform_handshake may be called  *)
(* on one object again: two connections may use the same key pair.  The    *)
(* protocol is a strict alternation, so at most one message is in flight   *)
(* in each direction; a half of the stream is that message or Empty.       *)
(***************************************************************************)
EXTENDS Crypto

CONSTANTS Conns,             \* TCP connections to a handshake port
          ClientKeys,        \* ephemeral key pairs clients generate
          ServerKeys,        \* static key pairs of the servers that exist
          Salts,             \* values of os.urandom(HANDSHAKE_NONCE_SIZE)
          Versions,          \* protocol versions clients are built with
          PROTOCOL_VERSION,  \* the version the servers are built with
          Clock,             \* readings of time.time() on either machine
          MAX_CLOCK_SKEW,    \* MAX_CLOCK_SKEW_SECONDS
          None               \* Python's None

ASSUME KeysAssumption == /\ ClientKeys \subseteq Int
                         /\ ServerKeys \subseteq Int
                         /\ ClientKeys \cap ServerKeys = {}

ASSUME NoneAssumption == /\ None \notin Int
                         /\ None \notin Salts

ASSUME ClockAssumption == /\ Clock \subseteq Int
                          /\ MAX_CLOCK_SKEW \in Nat

VARIABLES
  cpc,     \* cpc[c]: how far perform_handshake has come
  conf,    \* conf[c]: server_pubkey and allow_insecure of the HandshakeClient
  ckey,    \* ckey[c]: key_exchange of the HandshakeClient
  ckeys,   \* ckeys[c]: session_keys of the HandshakeClient
  server,  \* server[c]: the server that host and port lead to
  c2s,     \* c2s[c]: the message on its way to the server
  s2c,     \* s2c[c]: the message on its way to the client
  spc,     \* spc[c]: how far handle_handshake has come
  nonce,   \* nonce[c]: the nonce that handle_handshake drew
  skeys    \* skeys[c]: the session_keys that handle_handshake derived

clientVars == <<cpc, conf, ckey, ckeys, server>>
serverVars == <<spc, nonce, skeys>>
vars == <<cpc, conf, ckey, ckeys, server, c2s, s2c, spc, nonce, skeys>>

Configs == [server_pubkey : ServerKeys \cup {None}, allow_insecure : BOOLEAN]

-----------------------------------------------------------------------------
(* Messages. *)

Empty == [type |-> "EMPTY"]

ClientHello(version, timestamp, public_key) ==
  [type |-> "CLIENT_HELLO", version |-> version, timestamp |-> timestamp,
   public_key |-> public_key]

ServerHello(public_key, salt) ==
  [type |-> "SERVER_HELLO", public_key |-> public_key, nonce |-> salt]

ClientAck(encrypted_confirm) ==
  [type |-> "CLIENT_ACK", encrypted_confirm |-> encrypted_confirm]

\* The server's confirmation, with the UDP port to use, has the type
\* CLIENT_ACK as well.
FinalAck == [type |-> "CLIENT_ACK", udp_port |-> "listen_port"]

Error == [type |-> "ERROR"]

\* Every pair of keys that a server can derive from one of its handshakes.
DerivableKeys == {DeriveSessionKeys(s, k, n) : s \in ServerKeys, k \in ClientKeys, n \in Salts}

ASSUME NoKeysAssumption == \A keys \in DerivableKeys : None \notin {keys, Opposite(keys)}

ClientMessages ==
  {Empty}
    \cup {ClientHello(v, t, k) : v \in Versions, t \in Clock, k \in ClientKeys}
    \cup {ClientAck(Encrypt(keys.decrypt_key, "HANDSHAKE_CONFIRM")) : keys \in DerivableKeys}

ServerMessages ==
  {Empty, Error, FinalAck} \cup {ServerHello(s, n) : s \in ServerKeys, n \in Salts}

-----------------------------------------------------------------------------
TypeOK ==
  /\ cpc \in [Conns -> {"idle", "hello_sent", "ack_sent", "done", "failed", "vanished"}]
  /\ conf \in [Conns -> Configs]
  /\ ckey \in [Conns -> ClientKeys \cup {None}]
  /\ ckeys \in [Conns -> {Opposite(keys) : keys \in DerivableKeys} \cup {None}]
  /\ server \in [Conns -> ServerKeys \cup {None}]
  /\ c2s \in [Conns -> ClientMessages]
  /\ s2c \in [Conns -> ServerMessages]
  /\ spc \in [Conns -> {"idle", "await_hello", "await_ack", "established", "refused"}]
  /\ nonce \in [Conns -> Salts \cup {None}]
  /\ skeys \in [Conns -> DerivableKeys \cup {None}]

Init ==
  /\ cpc = [c \in Conns |-> "idle"]
  /\ conf = [c \in Conns |-> [server_pubkey |-> None, allow_insecure |-> FALSE]]
  /\ ckey = [c \in Conns |-> None]
  /\ ckeys = [c \in Conns |-> None]
  /\ server = [c \in Conns |-> None]
  /\ c2s = [c \in Conns |-> Empty]
  /\ s2c = [c \in Conns |-> Empty]
  /\ spc = [c \in Conns |-> "idle"]
  /\ nonce = [c \in Conns |-> None]
  /\ skeys = [c \in Conns |-> None]

\* perform_handshake is between two of its messages.
Waiting(c) == cpc[c] \in {"hello_sent", "ack_sent"}

\* The socket is closed on every path out of perform_handshake.
ClientClosed(c) == cpc[c] \in {"done", "failed"}

Serving(c) == spc[c] \in {"await_hello", "await_ack"}

-----------------------------------------------------------------------------
(* The client. *)

\* HandshakeClient() followed by the first half of perform_handshake: the
\* TCP connection is made, which starts a handler on the server, and the
\* ClientHello is sent.
ClientConnect(c) ==
  /\ cpc[c] = "idle"
  /\ \E s \in ServerKeys, config \in Configs, k \in ClientKeys, v \in Versions, t \in Clock :
       /\ server' = [server EXCEPT ![c] = s]
       /\ conf' = [conf EXCEPT ![c] = config]
       /\ ckey' = [ckey EXCEPT ![c] = k]
       /\ c2s' = [c2s EXCEPT ![c] = ClientHello(v, t, k)]
  /\ cpc' = [cpc EXCEPT ![c] = "hello_sent"]
  /\ spc' = [spc EXCEPT ![c] = "await_hello"]
  /\ UNCHANGED <<ckeys, s2c, nonce, skeys>>

\* Mutated form: the insecure mode is looked at first.
Trusted_InsecureFirst(config, public_key) ==
  config.allow_insecure \/ config.server_pubkey = public_key

\* Key pinning: a configured key must match, and without one the user must
\* have allowed the insecure mode.
Trusted(config, public_key) ==
  IF config.server_pubkey # None THEN config.server_pubkey = public_key
                                 ELSE config.allow_insecure

\* Steps 2 to 4: an ERROR or an untrusted ServerHello raises HandshakeError,
\* anything else derives the keys and answers with a ClientAck.
ClientRecvServerHello(c) ==
  /\ cpc[c] = "hello_sent" /\ s2c[c] # Empty
  /\ s2c' = [s2c EXCEPT ![c] = Empty]
  /\ IF s2c[c].type = "SERVER_HELLO" /\ Trusted(conf[c], s2c[c].public_key)
       THEN LET keys == DeriveSessionKeys(ckey[c], s2c[c].public_key, s2c[c].nonce)
            IN  /\ ckeys' = [ckeys EXCEPT ![c] = keys]
                /\ c2s' = [c2s EXCEPT ![c] =
                             ClientAck(Encrypt(keys.encrypt_key, "HANDSHAKE_CONFIRM"))]
                /\ cpc' = [cpc EXCEPT ![c] = "ack_sent"]
       ELSE /\ cpc' = [cpc EXCEPT ![c] = "failed"]
            /\ UNCHANGED <<ckeys, c2s>>
  /\ UNCHANGED <<conf, ckey, server, serverVars>>

\* Step 5: the final acknowledgement ends the handshake and closes the socket.
ClientRecvFinal(c) ==
  /\ cpc[c] = "ack_sent" /\ s2c[c] # Empty
  /\ s2c' = [s2c EXCEPT ![c] = Empty]
  /\ cpc' = [cpc EXCEPT ![c] = IF s2c[c].type = "CLIENT_ACK" THEN "done" ELSE "failed"]
  /\ UNCHANGED <<conf, ckey, ckeys, server, c2s, serverVars>>

\* Mutated form: once the ack is sent, the handshake counts as a success.
ClientFail_TakenAsDone(c) ==
  /\ Waiting(c)
  /\ cpc' = [cpc EXCEPT ![c] = IF cpc[c] = "ack_sent" THEN "done" ELSE "failed"]
  /\ UNCHANGED <<conf, ckey, ckeys, server, c2s, s2c, serverVars>>

\* socket.timeout, socket.error or an end of stream: HandshakeError, and the
\* finally clause closes the socket.
ClientFail(c) ==
  /\ Waiting(c)
  /\ cpc' = [cpc EXCEPT ![c] = "failed"]
  /\ UNCHANGED <<conf, ckey, ckeys, server, c2s, s2c, serverVars>>

\* The client's machine stops: its socket is never closed.
ClientVanish(c) ==
  /\ Waiting(c)
  /\ cpc' = [cpc EXCEPT ![c] = "vanished"]
  /\ UNCHANGED <<conf, ckey, ckeys, server, c2s, s2c, serverVars>>

-----------------------------------------------------------------------------
(* The server. *)

Acceptable(hello, now) ==
  /\ hello.version = PROTOCOL_VERSION
  /\ now - hello.timestamp <= MAX_CLOCK_SKEW
  /\ hello.timestamp - now <= MAX_CLOCK_SKEW

\* Mutated form: one nonce for all the handshakes.
FreshSalts_Fixed == {CHOOSE n \in Salts : TRUE}

\* os.urandom draws a value that no other handshake has drawn.
FreshSalts == Salts \ {nonce[d] : d \in Conns}

\* Steps 1 to 3: another message than a hello is dropped, an unacceptable
\* hello is answered with an error; otherwise the server draws the nonce,
\* derives its keys and sends the ServerHello.
ServerRecvHello(c) ==
  /\ spc[c] = "await_hello" /\ c2s[c] # Empty
  /\ c2s' = [c2s EXCEPT ![c] = Empty]
  /\ \E now \in Clock :
       IF c2s[c].type = "CLIENT_HELLO" /\ Acceptable(c2s[c], now)
         THEN /\ \E n \in FreshSalts :
                   /\ nonce' = [nonce EXCEPT ![c] = n]
                   /\ skeys' = [skeys EXCEPT ![c] =
                                  DeriveSessionKeys(server[c], c2s[c].public_key, n)]
                   /\ s2c' = [s2c EXCEPT ![c] = ServerHello(server[c], n)]
              /\ spc' = [spc EXCEPT ![c] = "await_ack"]
         ELSE /\ s2c' = IF c2s[c].type = "CLIENT_HELLO" THEN [s2c EXCEPT ![c] = Error] ELSE s2c
              /\ spc' = [spc EXCEPT ![c] = "refused"]
              /\ UNCHANGED <<nonce, skeys>>
  /\ UNCHANGED clientVars

\* Steps 4 and 5: the ack must be the confirmation, sealed with the key this
\* server decrypts with.
ServerRecvAck(c) ==
  /\ spc[c] = "await_ack" /\ c2s[c] # Empty
  /\ c2s' = [c2s EXCEPT ![c] = Empty]
  /\ IF /\ c2s[c].type = "CLIENT_ACK"
        /\ Decrypts(skeys[c].decrypt_key, c2s[c].encrypted_confirm)
        /\ c2s[c].encrypted_confirm.plaintext = "HANDSHAKE_CONFIRM"
       THEN /\ s2c' = [s2c EXCEPT ![c] = FinalAck]
            /\ spc' = [spc EXCEPT ![c] = "established"]
       ELSE /\ spc' = [spc EXCEPT ![c] = "refused"]
            /\ UNCHANGED s2c
  /\ UNCHANGED <<clientVars, nonce, skeys>>

\* Mutated form: an empty recv is taken for a message still to come.
ServerEndOfStream_Ignored(c) ==
  /\ Serving(c) /\ c2s[c] = Empty /\ ClientClosed(c)
  /\ UNCHANGED vars

\* The client has closed and its last message is read: _recv_exact raises
\* and handle_handshake returns None.
ServerEndOfStream(c) ==
  /\ Serving(c) /\ c2s[c] = Empty /\ ClientClosed(c)
  /\ spc' = [spc EXCEPT ![c] = "refused"]
  /\ UNCHANGED <<clientVars, c2s, s2c, nonce, skeys>>

\* Any other exception in a send or a recv, a reset connection for one.
ServerFail(c) ==
  /\ Serving(c)
  /\ spc' = [spc EXCEPT ![c] = "refused"]
  /\ UNCHANGED <<clientVars, c2s, s2c, nonce, skeys>>

-----------------------------------------------------------------------------
Client(c) == ClientConnect(c) \/ ClientRecvServerHello(c) \/ ClientRecvFinal(c)
               \/ ClientFail(c) \/ ClientVanish(c)

Server(c) == ServerRecvHello(c) \/ ServerRecvAck(c) \/ ServerEndOfStream(c) \/ ServerFail(c)

\* Every handshake is over, or hangs on a client that has vanished.
Finished(c) == /\ cpc[c] \in {"done", "failed", "vanished"}
               /\ Serving(c) => cpc[c] = "vanished" /\ c2s[c] = Empty

Terminated == (\A c \in Conns : Finished(c)) /\ UNCHANGED vars

Next == (\E c \in Conns : Client(c) \/ Server(c)) \/ Terminated

Spec == Init /\ [][Next]_vars

\* The client's socket has a timeout, so a waiting client returns; the
\* handler thread runs whenever it has something to read.  Nothing forces a
\* reset, a vanishing client or a new connection.
Fairness == \A c \in Conns :
  /\ WF_vars(ClientFail(c))
  /\ WF_vars(ServerRecvHello(c))
  /\ WF_vars(ServerRecvAck(c))
  /\ WF_vars(ServerEndOfStream(c))

FairSpec == Spec /\ Fairness

-----------------------------------------------------------------------------
(* Properties. *)

\* A client that returns keys to its caller (handshake.py:203) shares them
\* with a server that has accepted it, each encrypting with what the other
\* decrypts with; and a server that returns keys (handshake.py:347) shares
\* them with a client that has derived its own, even if that client has
\* given up since.
MatchingKeys == \A c \in Conns :
  /\ cpc[c] = "done" => spc[c] = "established"
  /\ spc[c] = "established" => ckeys[c] # None /\ ckeys[c] = Opposite(skeys[c])

\* No server ends up with a session for a client that does not trust that
\* server's key, whichever server the client was connected to.
EstablishedIsTrusted == \A c \in Conns :
  spc[c] = "established" =>
    \/ conf[c].server_pubkey = server[c]
    \/ conf[c].server_pubkey = None /\ conf[c].allow_insecure

\* No key is used by two sessions, nor in both directions of one.
SessionKeysUnique == \A c \in Conns : skeys[c] # None =>
  /\ skeys[c].encrypt_key # skeys[c].decrypt_key
  /\ \A d \in Conns \ {c} : skeys[d] # None => KeysOf(skeys[c]) \cap KeysOf(skeys[d]) = {}

\* What the step a connection has reached, and the messages it has in
\* flight, say about its two ends.
ConnInv(c) ==
  /\ cpc[c] = "idle" => /\ spc[c] = "idle" /\ skeys[c] = None
                        /\ c2s[c] = Empty /\ s2c[c] = Empty
  /\ cpc[c] # "idle" => server[c] \in ServerKeys /\ ckey[c] \in ClientKeys
  /\ cpc[c] \in {"idle", "hello_sent"} => ckeys[c] = None
  /\ cpc[c] = "ack_sent" => ckeys[c] # None
  /\ cpc[c] = "done" => spc[c] = "established"
  /\ c2s[c].type = "CLIENT_HELLO" => c2s[c].public_key = ckey[c]
  /\ c2s[c].type = "CLIENT_ACK" => ckeys[c] # None
  /\ s2c[c].type = "SERVER_HELLO" => /\ s2c[c].public_key = server[c]
                                     /\ s2c[c].nonce = nonce[c]
                                     /\ skeys[c] # None
  /\ s2c[c].type = "CLIENT_ACK" => spc[c] = "established"
  /\ spc[c] = "await_hello" => skeys[c] = None
  /\ spc[c] = "established" => ckeys[c] # None
  /\ nonce[c] = None <=> skeys[c] = None
  /\ skeys[c] # None => skeys[c] = DeriveSessionKeys(server[c], ckey[c], nonce[c])
  /\ ckeys[c] # None => /\ skeys[c] # None
                        /\ ckeys[c] = DeriveSessionKeys(ckey[c], server[c], nonce[c])
                        /\ \/ conf[c].server_pubkey = server[c]
                           \/ conf[c].server_pubkey = None /\ conf[c].allow_insecure

NoncesDistinct == \A c, d \in Conns : c # d /\ nonce[c] # None => nonce[c] # nonce[d]

\* The strengthening under which the three properties above are inductive.
HandshakeInv == (\A c \in Conns : ConnInv(c)) /\ NoncesDistinct

\* A handler thread of the server, whose socket has no timeout, still leaves
\* handle_handshake in the end, unless the client's machine has vanished.
HandlerReturns == \A c \in Conns : Serving(c) ~> (~Serving(c) \/ cpc[c] = "vanished")

Phase(c) ==
  IF cpc[c] = "done" THEN "returned"
  ELSE IF spc[c] = "established" THEN "established"
  ELSE IF ckeys[c] # None THEN "accepted"
  ELSE IF skeys[c] # None THEN "offered"
  ELSE "none"

KA == INSTANCE KeyAgreement WITH SessionKeys <- DerivableKeys,
        phase <- [c \in Conns |-> Phase(c)], offered <- skeys, accepted <- ckeys

\* The handshake implements the abstract key agreement.
ImplementsKeyAgreement == KA!Spec
=============================================================================
