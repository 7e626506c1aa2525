-------------------------- MODULE ServerConfigProofs --------------------------
(***************************************************************************)
(* Proofs about module ServerConfig, for any key pairs and any number of   *)
(* starts.  The invariant says what the files and the history tell about   *)
(* the key pair; each property is a consequence of it.                     *)
(***************************************************************************)
EXTENDS ServerConfig, TLAPS

OldJson == [pub |-> OldKey, legacy |-> OldKey]

\* The pair of a running process, and its relation to the key file.
PairInv == pc # "down" =>
  /\ private \in Keys /\ public = private
  /\ keyfile # None => keyfile = private
  /\ saved # None /\ ~torn => private = saved

\* The key file holds the pair of the latest stop(), or nothing; it holds
\* nothing only if a stop() was cut off or the pair is still in an old file.
KeyFileInv ==
  /\ keyfile # None => saved = keyfile /\ ~torn
  /\ saved # None /\ ~torn /\ keyfile = None => json = OldJson /\ saved = OldKey
  /\ pc \in {"write_json", "open_key"} /\ keyfile = None => torn

\* A readable server.json is an old one, with no key file beside it yet, or
\* names no other pair than the key file.
JsonInv ==
  /\ json # Unreadable =>
       \/ json = OldJson /\ keyfile = None
       \/ json.legacy = None /\ (json.pub # None /\ keyfile # None => json.pub = keyfile)
  /\ pc \in {"open_key", "write_key"} => json = [pub |-> private, legacy |-> None]

ConfigInv == TypeOK /\ PairInv /\ KeyFileInv /\ JsonInv

USE MaxBootsAssumption, OldKeyAssumption, NoneAssumption, UnreadableAssumption

\* The configuration file of an older version names the old key twice.
LEMMA OldJsonIsRecord ==
  /\ OldJson \in [pub : Keys \cup {None}, legacy : Keys \cup {None}]
  /\ OldJson # Unreadable /\ OldJson.legacy = OldKey /\ OldJson.pub = OldKey
BY DEF OldJson

\* The contents of a file without keys.
LEMMA BlankIsRecord ==
  /\ Blank \in [pub : Keys \cup {None}, legacy : Keys \cup {None}]
  /\ Blank # Unreadable /\ Blank.legacy = None /\ Blank.pub = None
BY DEF Blank

\* The invariant holds at first.
LEMMA ConfigInit == Init => ConfigInv
<1> SUFFICES ASSUME Init PROVE ConfigInv
  OBVIOUS
<1>1. TypeOK
  <2>1. json \in [pub : Keys \cup {None}, legacy : Keys \cup {None}] \cup {Unreadable}
    BY OldJsonIsRecord, BlankIsRecord DEF Init, OldJson
  <2>2. saved \in Keys \cup {None}
    BY DEF Init
  <2>3. keyfile = None /\ pc = "down" /\ private = None /\ public = None /\ again = FALSE
        /\ used \subseteq Keys /\ boots \in 0..MaxBoots /\ torn = FALSE
    BY DEF Init
  <2> QED BY <2>1, <2>2, <2>3 DEF TypeOK
<1>2. PairInv /\ KeyFileInv /\ JsonInv
  BY OldJsonIsRecord, BlankIsRecord DEF Init, PairInv, KeyFileInv, JsonInv, OldJson
<1> QED BY <1>1, <1>2 DEF ConfigInv

\* The key pair that a start comes up with, when the invariant holds.
LEMMA StartedPair ==
  ASSUME ConfigInv, json # Unreadable,
         NEW priv \in Keys, NEW pub \in Keys, KeyPair(priv, pub)
  PROVE  /\ pub = priv
         /\ keyfile # None => keyfile = priv
         /\ saved # None /\ ~torn => priv = saved
         /\ used' \subseteq Keys
BY DEF ConfigInv, TypeOK, KeyFileInv, JsonInv, OldJson, KeyPair, LoadedPrivate, LoadedPublic

\* Every step keeps the invariant.
LEMMA ConfigStep == ConfigInv /\ [Next]_vars => ConfigInv'
<1> SUFFICES ASSUME ConfigInv, [Next]_vars PROVE ConfigInv'
  OBVIOUS
<1> USE DEF ConfigInv
<1>1. CASE Boot
  <2>1. PICK priv \in Keys, pub \in Keys :
          KeyPair(priv, pub) /\ private' = priv /\ public' = pub
    BY <1>1 DEF Boot
  <2>2. PairInv' /\ used' \subseteq Keys
    BY <1>1, <2>1, StartedPair DEF Boot, PairInv, files
  <2>3. TypeOK'
    <3>1. boots' \in 0..MaxBoots
      BY <1>1 DEF Boot, TypeOK
    <3>2. /\ UNCHANGED <<json, keyfile, saved, torn>> /\ again' = FALSE
          /\ pc' = "starting" /\ private' \in Keys /\ public' \in Keys
      BY <1>1, <2>1 DEF Boot, files
    <3> QED BY <2>2, <3>1, <3>2 DEF TypeOK
  <2>4. KeyFileInv' /\ JsonInv'
    BY <1>1 DEF Boot, KeyFileInv, JsonInv, OldJson, files
  <2> QED BY <2>2, <2>3, <2>4
<1>2. CASE Start
  BY <1>2 DEF Start, Down, TypeOK, PairInv, KeyFileInv, JsonInv, OldJson, files, memory, history
<1>3. CASE Interrupt
  BY <1>3 DEF Interrupt, TypeOK, PairInv, KeyFileInv, JsonInv, OldJson, files, memory, history
<1>4. CASE OpenJson
  BY <1>4 DEF OpenJson, TypeOK, PairInv, KeyFileInv, JsonInv, OldJson, memory
<1>5. CASE WriteJson
  <2> DEFINE new == [pub |-> private, legacy |-> None]
  <2>1. /\ new \in [pub : Keys \cup {None}, legacy : Keys \cup {None}]
        /\ new.pub = private /\ new.legacy = None
    BY <1>5 DEF WriteJson, PairInv
  <2>2. json' = new /\ pc' = "open_key" /\ UNCHANGED <<keyfile, memory, again, history>>
    BY <1>5 DEF WriteJson, PairInv
  <2> HIDE DEF new
  <2>3. TypeOK' /\ PairInv' /\ KeyFileInv'
    BY <1>5, <2>1, <2>2 DEF WriteJson, TypeOK, PairInv, KeyFileInv, memory, history
  <2>4. JsonInv'
    BY <1>5, <2>1, <2>2 DEF JsonInv, PairInv, WriteJson, memory, new
  <2> QED BY <2>3, <2>4
<1>6. CASE OpenKey
  BY <1>6 DEF OpenKey, TypeOK, PairInv, KeyFileInv, JsonInv, OldJson, memory
<1>7. CASE WriteKey
  <2>1. private \in Keys /\ json.pub = private /\ json.legacy = None
    BY <1>7 DEF WriteKey, PairInv, JsonInv
  <2>2. TypeOK' /\ PairInv' /\ KeyFileInv'
    BY <1>7, <2>1 DEF WriteKey, Down, TypeOK, PairInv, KeyFileInv
  <2>3. JsonInv'
    BY <1>7, <2>1 DEF WriteKey, Down, JsonInv
  <2> QED BY <2>2, <2>3
<1>8. CASE Die
  BY <1>8 DEF Die, Down, TypeOK, PairInv, KeyFileInv, JsonInv, OldJson, files, history
<1>9. CASE Repair
  BY <1>9 DEF Repair, Blank, TypeOK, PairInv, KeyFileInv, JsonInv, OldJson, memory, history
<1>10. CASE UNCHANGED vars
  BY <1>10 DEF vars, files, memory, history, TypeOK, PairInv, KeyFileInv, JsonInv, OldJson
<1> QED BY <1>1, <1>2, <1>3, <1>4, <1>5, <1>6, <1>7, <1>8, <1>9, <1>10 DEF Next

\* The invariant above holds in every reachable state (ServerConfig.load, save
\* and the life of the process around them).
THEOREM ConfigInvariant == Spec => []ConfigInv
<1>1. Init => ConfigInv BY ConfigInit
<1>2. ConfigInv /\ [Next]_vars => ConfigInv' BY ConfigStep
<1> QED BY <1>1, <1>2, PTL DEF Spec

\* Every variable has its type.
THEOREM ConfigTypeCorrect == Spec => []TypeOK
<1>1. ConfigInv => TypeOK BY DEF ConfigInv
<1> QED BY <1>1, ConfigInvariant, PTL

\* The public key shown belongs to the private key in use, wherever earlier
\* processes ended (main.py:63-77, 110-115).
THEOREM PairMatches == Spec => []KeyPairMatches
<1>1. ConfigInv => KeyPairMatches BY DEF ConfigInv, PairInv, KeyPairMatches
<1> QED BY <1>1, ConfigInvariant, PTL

\* A pair that was saved is used at every later start, unless a stop() was cut
\* off while server.key did not hold it (main.py:79-97, 251-266).
THEOREM IdentityStays == Spec => []IdentityKept
<1>1. ConfigInv => IdentityKept BY DEF ConfigInv, PairInv, IdentityKept
<1> QED BY <1>1, ConfigInvariant, PTL

\* The server.json that a server leaves behind holds no private key, and the
\* public key of server.key (main.py:79-91).
THEOREM JsonIsShareable == Spec => []ShareableJson
<1>1. ConfigInv => ShareableJson
  BY DEF ConfigInv, TypeOK, KeyFileInv, JsonInv, OldJson, Blank, ShareableJson
<1> QED BY <1>1, ConfigInvariant, PTL
=============================================================================
