--------------------------- MODULE KeyMaterials ---------------------------
(***************************************************************************)
(* The two keyrings of a process, from the files an operator mounts to the *)
(* keys that seal and open envelopes.  Startup reads every file twice: the *)
(* configuration validates the documents, then cryptobox reads them again  *)
(* and builds the keyrings, with checks of its own.  A file may be         *)
(* replaced in between.                                                    *)
(*                                                                         *)
(* A document is a primary version and a sequence of entries; the material *)
(* of an entry is a number, Malformed when it is not 32 bytes of base64.   *)
(***************************************************************************)
EXTENDS Integers, Sequences

CONSTANTS
  Document,  \* the keyring documents an operator may mount
  Malformed, \* a material that does not decode
  MaxKeys,   \* the most entries of a document: 8 in the code
  Half       \* int16 ranges over -Half .. Half - 1: 32768 in the code

ASSUME KeyMaterialsAssumption ==
  /\ MaxKeys \in Nat \ {0} /\ Half \in Nat \ {0}
  /\ \A doc \in Document :
       /\ doc.primary \in Int
       /\ \A i \in DOMAIN doc.keys : doc.keys[i].version \in Int

VARIABLES
  profile, \* "local" or "production"
  mounted, \* the document of each file
  process, \* "down", "validated" or "up"
  keyring  \* the keyrings in memory

Purpose   == {"payload", "signing"}
NoKeyring == [primary |-> 0, keys |-> <<>>]
keyVars   == <<profile, mounted, process, keyring>>

-----------------------------------------------------------------------------
Versions(doc)  == {doc.keys[i].version : i \in DOMAIN doc.keys}
Materials(doc) == {doc.keys[i].material : i \in DOMAIN doc.keys}

\* No two entries agree on a field.
DistinctFields(doc) ==
  \A i, j \in DOMAIN doc.keys :
    i # j => /\ doc.keys[i].version # doc.keys[j].version
             /\ doc.keys[i].material # doc.keys[j].material

\* What validateKeyringFile accepts.
Validates(doc) ==
  /\ doc.primary > 0 /\ Len(doc.keys) \in 1..MaxKeys
  /\ \A v \in Versions(doc) : v > 0
  /\ Malformed \notin Materials(doc)
  /\ DistinctFields(doc)
  /\ doc.primary \in Versions(doc)

\* The document of a purpose. A file that readSecretFile refuses, for its mode, its
\* owner or its size, is one without keys.
ReadSecretFile(p) == mounted[p]

\* What validateProductionSecrets accepts.
ValidConfig ==
  /\ \A p \in Purpose : Validates(ReadSecretFile(p))
  /\ Materials(ReadSecretFile("payload")) \cap Materials(ReadSecretFile("signing")) = {}

\* The conversion int16(n).
Int16(n) == ((n + Half) % (2 * Half)) - Half

\* Mutant: the bounds of a version left to the configuration.
DecodableAnyVersion(key) == key.material # Malformed
Decodable(key) == key.material # Malformed /\ key.version \in 1..(Half - 1)

\* What readKeyring loads, and the keyring it builds.
Loads(doc) ==
  /\ Len(doc.keys) \in 1..MaxKeys
  /\ \A i \in DOMAIN doc.keys : Decodable(doc.keys[i])
  /\ DistinctFields(doc)
  /\ Int16(doc.primary) \in {Int16(v) : v \in Versions(doc)}

KeyringOf(doc) ==
  [primary |-> Int16(doc.primary),
   keys |-> [v \in {Int16(u) : u \in Versions(doc)} |->
               doc.keys[CHOOSE i \in DOMAIN doc.keys :
                          Int16(doc.keys[i].version) = v].material]]

\* The deterministic material of every other profile.
Development == [p \in Purpose |-> [primary |-> 1, keys |-> <<p>>]]

\* Open: the key of the version an envelope names is there, and is the one that
\* sealed it.
Opens(p, envelope) ==
  /\ envelope.version \in DOMAIN keyring[p].keys
  /\ envelope.material = keyring[p].keys[envelope.version]

\* Materials.Ready.
Ready(k) == k.primary > 0 /\ k.primary \in DOMAIN k.keys

-----------------------------------------------------------------------------
KeyInit ==
  /\ profile \in {"local", "production"}
  /\ mounted \in [Purpose -> Document]
  /\ process = "down"
  /\ keyring = [p \in Purpose |-> NoKeyring]

\* A process that is up has its keyrings in memory: what is mounted matters to
\* the next startup only, so files are replaced before it.
Replace ==
  /\ process # "up" /\ profile = "production"
  /\ \E p \in Purpose, doc \in Document : mounted' = [mounted EXCEPT ![p] = doc]
  /\ UNCHANGED <<profile, process, keyring>>

\* config.Load: a refused configuration ends the startup.
Validate ==
  /\ process = "down"
  /\ profile = "production" => ValidConfig
  /\ process' = "validated"
  /\ UNCHANGED <<profile, mounted, keyring>>

\* cryptobox.Load: what cannot be loaded ends the startup too.
Load ==
  /\ process = "validated"
  /\ \/ /\ profile = "local"
        /\ process' = "up"
        /\ keyring' = Development
     \/ /\ profile = "production" /\ \A p \in Purpose : Loads(mounted[p])
        /\ process' = "up"
        /\ keyring' = [p \in Purpose |-> KeyringOf(mounted[p])]
     \/ /\ profile = "production" /\ \E p \in Purpose : ~Loads(mounted[p])
        /\ process' = "down"
        /\ UNCHANGED keyring
  /\ UNCHANGED <<profile, mounted>>

\* The process dies, and may be started again.
Die ==
  /\ process = "up"
  /\ process' = "down"
  /\ keyring' = [p \in Purpose |-> NoKeyring]
  /\ UNCHANGED <<profile, mounted>>

KeyNext == Replace \/ Validate \/ Load

-----------------------------------------------------------------------------
\* Whatever documents are mounted, and replaced between the two reads, a process
\* that has started has a usable primary key in both keyrings: Ready fails only
\* when the keyrings in memory are damaged, and every Seal finds its key.
StartedIsReady == process = "up" => \A p \in Purpose : Ready(keyring[p])

=============================================================================
