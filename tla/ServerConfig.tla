---------------------------- MODULE ServerConfig ----------------------------
(***************************************************************************)
(* The key pair of the server over several runs of its process: class      *)
(* ServerConfig of server/main.py, the constructor, start() and stop() of  *)
(* VPNServer, and main().  The pair is loaded or generated at the start    *)
(* and written by stop(), to server.json and then to server.key; opening a *)
(* file for writing empties it.  The process may end at any point.         *)
(*                                                                         *)
(* A private key and its public key have the same name.                    *)
(***************************************************************************)
EXTENDS Naturals

CONSTANTS Keys,        \* key pairs
          OldKey,      \* the pair of an installation of an earlier version
          None,        \* no key
          Unreadable,  \* a server.json that load() cannot read
          MaxBoots     \* bound: how many times the server is started

ASSUME MaxBootsAssumption == MaxBoots \in Nat
ASSUME OldKeyAssumption == OldKey \in Keys
ASSUME NoneAssumption == None \notin Keys
ASSUME UnreadableAssumption ==
  Unreadable \notin [pub : Keys \cup {None}, legacy : Keys \cup {None}]

VARIABLES
  json,     \* server.json: its entries public_key and, of earlier versions,
            \* private_key; a file that is absent has no entries
  keyfile,  \* server.key; empty and absent are alike
  pc,       \* the main thread; "down" when the process does not run
  private,  \* config.private_key
  public,   \* config.public_key
  again,    \* main() itself has called stop(): no one catches the next Ctrl-C
  used,     \* key pairs generated or found so far
  boots,    \* how many times the server was started, for the bound
  saved,    \* the pair of the latest run that stopped, or of the earlier version
  torn      \* a stop() has begun to write, and server.key does not hold the
            \* pair: the stop() goes on, or it was never finished

files   == <<json, keyfile>>
memory  == <<private, public>>
history == <<used, boots, saved, torn>>

vars == <<files, pc, memory, again, history>>

Blank == [pub |-> None, legacy |-> None]

TypeOK ==
  /\ json \in [pub : Keys \cup {None}, legacy : Keys \cup {None}] \cup {Unreadable}
  /\ keyfile \in Keys \cup {None}
  /\ pc \in {"down", "starting", "serving", "stopping", "write_json", "open_key", "write_key"}
  /\ private \in Keys \cup {None} /\ public \in Keys \cup {None}
  /\ used \subseteq Keys /\ boots \in 0..MaxBoots
  /\ saved \in Keys \cup {None}
  /\ again \in BOOLEAN /\ torn \in BOOLEAN

\* No files; those of an earlier version, with both keys in server.json; or
\* config/server.example.json as it was copied, whose public key is a
\* placeholder that bytes.fromhex refuses.
Init ==
  /\ \/ json \in {Blank, Unreadable} /\ saved = None
     \/ json = [pub |-> OldKey, legacy |-> OldKey] /\ saved = OldKey
  /\ keyfile = None
  /\ pc = "down" /\ private = None /\ public = None /\ again = FALSE
  /\ used = {OldKey} /\ boots = 0 /\ torn = FALSE

-----------------------------------------------------------------------------
(* Starting. *)

\* What load() takes for the private key: the entry of an earlier version
\* has precedence over the key file.
LoadedPrivate == IF json.legacy # None THEN json.legacy ELSE keyfile

\* The public key is the one of server.json, and else derived.
LoadedPublic == IF json.pub # None THEN json.pub ELSE LoadedPrivate

\* Mutated form: the key that is there already is overlooked in the files of
\* an earlier version.
KeyPair_NoLegacy(priv, pub) ==
  \/ keyfile # None /\ priv = keyfile /\ pub = LoadedPublic /\ UNCHANGED used
  \/ /\ keyfile = None
     /\ priv \in Keys \ used /\ pub = priv
     /\ used' = used \cup {priv}

\* Mutated form: a generated private key goes with the public key of the file.
KeyPair_KeepPublic(priv, pub) ==
  \/ LoadedPrivate # None /\ priv = LoadedPrivate /\ pub = LoadedPublic /\ UNCHANGED used
  \/ /\ LoadedPrivate = None
     /\ priv \in Keys \ used /\ pub = IF json.pub # None THEN json.pub ELSE priv
     /\ used' = used \cup {priv}

\* load() and the constructor: both keys are generated when there is no
\* private key.
KeyPair(priv, pub) ==
  \/ LoadedPrivate # None /\ priv = LoadedPrivate /\ pub = LoadedPublic /\ UNCHANGED used
  \/ /\ LoadedPrivate = None
     /\ priv \in Keys \ used /\ pub = priv
     /\ used' = used \cup {priv}

\* Without a readable server.json the server does not get as far.
Boot ==
  /\ pc = "down" /\ boots < MaxBoots /\ json # Unreadable
  /\ \E priv, pub \in Keys : KeyPair(priv, pub) /\ private' = priv /\ public' = pub
  /\ boots' = boots + 1
  /\ pc' = "starting" /\ again' = FALSE
  /\ UNCHANGED <<files, saved, torn>>

Down == pc' = "down" /\ private' = None /\ public' = None

\* start() gets the tunnel and the listening socket, or the process ends:
\* without stop(), and hence without saving.
Start ==
  /\ pc = "starting"
  /\ \/ pc' = "serving" /\ UNCHANGED memory
     \/ Down
  /\ UNCHANGED <<files, again, history>>

\* Ctrl-C in the loop of start() leads to its finally clause, Ctrl-C before
\* the loop or during that clause to the except clause of main(): both call
\* stop(), the second time from its beginning.
Interrupt ==
  /\ pc # "down" /\ ~again
  /\ pc' = "stopping"
  /\ again' = (pc # "serving")
  /\ UNCHANGED <<files, memory, history>>

-----------------------------------------------------------------------------
(* stop(), once the socket is closed and the tunnel stopped: save(). *)

OpenJson ==
  /\ pc = "stopping"
  /\ json' = Unreadable
  /\ pc' = "write_json"
  /\ torn' = (keyfile # private)
  /\ UNCHANGED <<keyfile, memory, again, used, boots, saved>>

\* Mutated form: what was loaded from the file is written back.
WriteJson_KeepsPrivate ==
  /\ pc = "write_json"
  /\ json' = [pub |-> public, legacy |-> private]
  /\ pc' = "open_key"
  /\ UNCHANGED <<keyfile, memory, again, history>>

\* The private key is not among the entries.
WriteJson ==
  /\ pc = "write_json"
  /\ json' = [pub |-> public, legacy |-> None]
  /\ pc' = "open_key"
  /\ UNCHANGED <<keyfile, memory, again, history>>

OpenKey ==
  /\ pc = "open_key"
  /\ keyfile' = None
  /\ pc' = "write_key"
  /\ torn' = TRUE
  /\ UNCHANGED <<json, memory, again, used, boots, saved>>

\* Mutated form: the key is written as bytes, which cannot be read back.
WriteKey_Raw ==
  /\ pc = "write_key"
  /\ keyfile' = Unreadable
  /\ saved' = private
  /\ torn' = FALSE
  /\ Down
  /\ UNCHANGED <<json, again, used, boots>>

\* The key file is complete, and the process ends.
WriteKey ==
  /\ pc = "write_key"
  /\ keyfile' = private
  /\ saved' = private
  /\ torn' = FALSE
  /\ Down
  /\ UNCHANGED <<json, again, used, boots>>

-----------------------------------------------------------------------------
(* What else may happen. *)

\* The process is killed, a third Ctrl-C comes, or a file cannot be opened or
\* written.
Die ==
  /\ pc # "down"
  /\ Down
  /\ UNCHANGED <<files, again, history>>

\* Somebody removes a server.json that cannot be read, or what is wrong in it.
Repair ==
  /\ pc = "down" /\ json = Unreadable
  /\ json' = Blank
  /\ UNCHANGED <<keyfile, pc, memory, again, history>>

Next == Boot \/ Start \/ Interrupt \/ OpenJson \/ WriteJson \/ OpenKey \/ WriteKey \/ Die \/ Repair

Spec == Init /\ [][Next]_vars

-----------------------------------------------------------------------------
(* Properties. *)

\* The public key that the server shows (and clients pin) belongs to the
\* private key it uses, wherever earlier processes ended.
KeyPairMatches == pc # "down" => public = private

\* A server that has once stopped, or was installed with an earlier version,
\* has the same key pair at every later start, unless a stop() was cut off
\* while server.key did not hold it: no end anywhere else, no second Ctrl-C and
\* no repair makes clients refuse it that have pinned its key.
IdentityKept == pc # "down" /\ saved # None /\ ~torn => private = saved

\* "Persist private key separately so server.json remains shareable"
\* (server/main.py:89): whatever was cut off before, the file that a server
\* left behind has no private key, and its public key is that of server.key.
ShareableJson == pc = "down" /\ saved # None /\ ~torn /\ json \notin {Unreadable, Blank} =>
  \/ json = [pub |-> saved, legacy |-> None] /\ keyfile = saved
  \/ json = [pub |-> OldKey, legacy |-> OldKey] /\ saved = OldKey
=============================================================================
