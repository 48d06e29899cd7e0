------------------------------- MODULE Startup -------------------------------
(***************************************************************************)
(* The life of the proxy's process: main reads and decrypts the secrets,   *)
(* builds the verifiers, initialises all clusters at once and serves until *)
(* it is asked to stop.  Module Cluster is the inside of one cluster's     *)
(* initialisation, module Proxy what is served.                            *)
(***************************************************************************)
EXTENDS Naturals, FiniteSets

CONSTANTS
  ClusterName,   \* the clusters a configuration may list
  SecretsFile,   \* the encrypted configurations that may lie on the disk
  ConfigKey      \* what the operator may type at the prompt

VARIABLES
  phase,         \* how far main has come
  secretsFile,   \* the file on the disk
  cluster        \* the fate of each cluster; "unlisted" when not configured

startVars == <<phase, secretsFile, cluster>>

ASSUME NamesAssumption == IsFiniteSet(ClusterName)

-----------------------------------------------------------------------------
(* Faulty variants of the definitions below, for the mutation checks.      *)

OneShort == Cardinality({c \in ClusterName : cluster[c] # "unlisted"}) - 1

-----------------------------------------------------------------------------

(***************************************************************************)
(* decrypt_config: the key is Base58 text, the file base64 of an IV and    *)
(* the ciphertext, and the key's length picks the cipher.  Another key, or *)
(* another content, ends in bytes that are not padded, not UTF-8 or not    *)
(* the YAML of a SecretsConfig.                                            *)
(***************************************************************************)
IvLength == 16
KeyLengths == {16, 24, 32}

Decrypts(key, file) ==
  /\ key.base58 /\ file.base64
  /\ file.length >= IvLength
  /\ key.length \in KeyLengths
  /\ file.sealedWith = key
  /\ file.isConfig

Starting == {"secrets", "validation", "clusters", "binding"}

StartInit ==
  /\ phase = "secrets"
  /\ secretsFile \in SecretsFile
  /\ cluster \in [ClusterName -> {"unlisted", "queued"}]

Listed == {c \in ClusterName : cluster[c] # "unlisted"}
Ready == {c \in ClusterName : cluster[c] = "ready"}

(***************************************************************************)
(* A `?` in main: the process prints the error and is gone.                *)
(***************************************************************************)
Goto(p) == phase' = p /\ UNCHANGED <<secretsFile, cluster>>

KeyTyped(key) ==
  /\ phase = "secrets"
  /\ Goto(IF Decrypts(key, secretsFile) THEN "validation" ELSE "failed")

(***************************************************************************)
(* The validation configuration is read and its verifiers are built, or    *)
(* the file, or a chain that Validation::new wants, is missing.            *)
(***************************************************************************)
VerifiersBuilt == phase = "validation" /\ Goto("clusters")
VerifiersFail == phase = "validation" /\ Goto("failed")

(***************************************************************************)
(* ClusterManager::new: buffer_unordered over all clusters, as many at a   *)
(* time as there are.  The stream hands out a cluster, and notices its own *)
(* end, only when the buffer has room.                                     *)
(***************************************************************************)
buffer_size == Cardinality(Listed)
Initialising == {c \in ClusterName : cluster[c] = "initialising"}
BufferHasRoom == Cardinality(Initialising) < buffer_size

Becomes(c, state) ==
  /\ cluster' = [cluster EXCEPT ![c] = state]
  /\ UNCHANGED <<phase, secretsFile>>

BeginInitialisation(c) ==
  /\ phase = "clusters" /\ BufferHasRoom
  /\ cluster[c] = "queued"
  /\ Becomes(c, "initialising")

Initialised(c) ==
  /\ phase = "clusters" /\ cluster[c] = "initialising"
  /\ Becomes(c, "ready") \/ Becomes(c, "failed")

Collected ==
  /\ BufferHasRoom
  /\ \A c \in Listed : cluster[c] \in {"ready", "failed"}

(***************************************************************************)
(* The clusters that failed are left out of the manager's list.            *)
(***************************************************************************)
ClustersReady ==
  /\ phase = "clusters" /\ Collected /\ Ready # {}
  /\ phase' = "binding"
  /\ cluster' = [c \in ClusterName |-> IF c \in Ready THEN "ready" ELSE "unlisted"]
  /\ UNCHANGED secretsFile

AllClustersFail == phase = "clusters" /\ Collected /\ Ready = {} /\ Goto("failed")

Bound == phase = "binding" /\ Goto("serving")
BindFails == phase = "binding" /\ Goto("failed")

(***************************************************************************)
(* The handlers of Ctrl-C and SIGTERM exist once `serve` polls             *)
(* shutdown_signal.  Earlier a signal kills the process; later ones than   *)
(* the first are swallowed.                                                *)
(***************************************************************************)
KilledBySignal == phase \in Starting /\ Goto("killed")
shutdown_signal == phase = "serving" /\ Goto("stopping")

StartStep ==
  \/ VerifiersBuilt \/ VerifiersFail
  \/ \E c \in ClusterName : BeginInitialisation(c) \/ Initialised(c)
  \/ ClustersReady \/ AllClustersFail
  \/ Bound \/ BindFails

ProcessStep ==
  \/ \E key \in ConfigKey : KeyTyped(key)
  \/ StartStep
  \/ KilledBySignal
  \/ shutdown_signal

-----------------------------------------------------------------------------

(***************************************************************************)
(* Every variable holds a value of its type.                               *)
(***************************************************************************)
StartTypeOK ==
  /\ phase \in Starting \cup {"serving", "stopping", "exited", "failed", "killed"}
  /\ secretsFile \in SecretsFile
  /\ cluster \in [ClusterName -> {"unlisted", "queued", "initialising", "ready", "failed"}]

(***************************************************************************)
(* Once the key is typed, start-up ends in a serving process or in an      *)
(* error, whatever becomes of the clusters and in whatever order: no       *)
(* cluster is forgotten and none is waited for in vain.  A configuration   *)
(* without clusters is the exception: buffer_unordered(0) never polls its  *)
(* stream, and the error written for it at cluster.rs:57 is not reached.   *)
(***************************************************************************)
StartupSettles == (phase # "secrets" /\ Listed # {}) ~> (phase \notin Starting)
=============================================================================
