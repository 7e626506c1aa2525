---------------------------- MODULE KeyAgreement ----------------------------
(***************************************************************************)
(* What a handshake promises, whatever messages it uses.  On each          *)
(* connection the server offers a pair of directional keys that no other   *)
(* connection uses; the client accepts it, ending up with the opposite     *)
(* pair; only then does the server regard the session as established; and  *)
(* only then does the client return the keys to its caller.  Either side   *)
(* may stop at any point, but no step is ever taken back and no key is     *)
(* ever replaced.                                                          *)
(***************************************************************************)
CONSTANTS Conns,        \* the connections
          SessionKeys,  \* the pairs of keys a server may offer
          None          \* no keys yet

VARIABLES phase, offered, accepted

vars == <<phase, offered, accepted>>

Keys(pair) == {pair.encrypt_key, pair.decrypt_key}

Init == /\ phase    = [c \in Conns |-> "none"]
        /\ offered  = [c \in Conns |-> None]
        /\ accepted = [c \in Conns |-> None]

Offer(c) ==
  /\ phase[c] = "none"
  /\ \E pair \in SessionKeys :
       /\ pair.encrypt_key # pair.decrypt_key
       /\ \A d \in Conns : offered[d] # None => Keys(offered[d]) \cap Keys(pair) = {}
       /\ offered' = [offered EXCEPT ![c] = pair]
  /\ phase' = [phase EXCEPT ![c] = "offered"]
  /\ UNCHANGED accepted

Accept(c) ==
  /\ phase[c] = "offered"
  /\ phase' = [phase EXCEPT ![c] = "accepted"]
  /\ accepted' = [accepted EXCEPT ![c] = [encrypt_key |-> offered[c].decrypt_key,
                                          decrypt_key |-> offered[c].encrypt_key]]
  /\ UNCHANGED offered

Establish(c) ==
  /\ phase[c] = "accepted"
  /\ phase' = [phase EXCEPT ![c] = "established"]
  /\ UNCHANGED <<offered, accepted>>

Return(c) ==
  /\ phase[c] = "established"
  /\ phase' = [phase EXCEPT ![c] = "returned"]
  /\ UNCHANGED <<offered, accepted>>

Next == \E c \in Conns : Offer(c) \/ Accept(c) \/ Establish(c) \/ Return(c)

Spec == Init /\ [][Next]_vars
=============================================================================
