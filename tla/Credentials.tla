---------------------------- MODULE Credentials ----------------------------
(***************************************************************************)
(* The credentials command of the API binary: bootstrap creates the first  *)
(* workspace with its API key and hands the key out in a file, revoke ends *)
(* the key.  Two commands may run at once, and a machine may lose power at *)
(* any point: what a file holds survives only once it was synced.          *)
(***************************************************************************)
EXTENDS Integers, FiniteSets

CONSTANTS
  Command, \* bootstrap commands an operator runs; a key is named by its command
  Path     \* values of --output-file

ASSUME CredentialAssumption == "none" \notin Command

VARIABLES
  commands,  \* where each command is, and the path it was given
  bootLock,  \* the commands that hold the advisory lock
  workspace, \* the command whose workspace and key are committed, if any
  keyActive, \* the status of that key
  files      \* path to the key a file holds and whether it was synced

credentialVars == <<commands, bootLock, workspace, keyActive, files>>

NoWorkspace == "none"
NoFile == [key |-> "none", synced |-> FALSE]

CommandAt(c, pc) == commands[c].pc = pc
Moves(c, pc) == commands' = [commands EXCEPT ![c].pc = pc]

CredentialInit ==
  /\ commands \in [Command -> [pc : {"new"}, path : Path]]
  /\ bootLock = {}
  /\ workspace = NoWorkspace /\ keyActive = FALSE
  /\ files = [p \in Path |-> NoFile]

\* The transaction of a command ends without its rows.
RollsBack(c) == bootLock' = bootLock \ {c}

-----------------------------------------------------------------------------
\* The advisory lock is granted, and kept to the end of the transaction.
LockBootstrap(c) ==
  /\ CommandAt(c, "new") /\ bootLock = {}
  /\ bootLock' = {c} /\ Moves(c, "locked")
  /\ UNCHANGED <<workspace, keyActive, files>>

\* A workspace exists already.
RefuseBootstrap(c) ==
  /\ CommandAt(c, "locked") /\ workspace # NoWorkspace
  /\ RollsBack(c) /\ Moves(c, "error")
  /\ UNCHANGED <<workspace, keyActive, files>>

\* The rows are inserted, not yet visible, and the sink creates the file, which
\* must not exist.
CreateFile(c) ==
  LET path == commands[c].path
  IN /\ CommandAt(c, "locked") /\ workspace = NoWorkspace
     /\ \/ /\ files[path] = NoFile
           /\ files' = [files EXCEPT ![path] = [key |-> c, synced |-> FALSE]]
           /\ Moves(c, "writing") /\ UNCHANGED bootLock
        \/ /\ files[path] # NoFile
           /\ RollsBack(c) /\ Moves(c, "error") /\ UNCHANGED files
     /\ UNCHANGED <<workspace, keyActive>>

\* persistCredential: written and synced, with its directory.
\* Mutant: the file is not synced.
PersistedUnsynced(c) == [key |-> c, synced |-> FALSE]
Persisted(c) == [key |-> c, synced |-> TRUE]

PersistFile(c) ==
  /\ CommandAt(c, "writing")
  /\ files' = [files EXCEPT ![commands[c].path] = Persisted(c)]
  /\ Moves(c, "written")
  /\ UNCHANGED <<bootLock, workspace, keyActive>>

\* The write or a sync fails: the file is removed and the transaction rolled back.
PersistFails(c) ==
  /\ CommandAt(c, "writing")
  /\ files' = [files EXCEPT ![commands[c].path] = NoFile]
  /\ RollsBack(c) /\ Moves(c, "error")
  /\ UNCHANGED <<workspace, keyActive>>

\* The database commits.
CommitApplies(c) ==
  /\ CommandAt(c, "written")
  /\ workspace' = c /\ keyActive' = TRUE
  /\ RollsBack(c) /\ Moves(c, "applied")
  /\ UNCHANGED files

\* The database does not commit, and the command learns it.
CommitFails(c) ==
  /\ CommandAt(c, "written")
  /\ RollsBack(c) /\ Moves(c, "failed")
  /\ UNCHANGED <<workspace, keyActive, files>>

\* The answer to the commit arrives, or is lost with the connection.
CommitAnswered(c) ==
  /\ CommandAt(c, "applied")
  /\ Moves(c, "ok")
  /\ UNCHANGED <<bootLock, workspace, keyActive, files>>

AnswerLost(c) ==
  /\ CommandAt(c, "applied")
  /\ Moves(c, "unknown")
  /\ UNCHANGED <<bootLock, workspace, keyActive, files>>

\* Whatever the error of Commit was, the file is removed.
CleanUp(c) ==
  /\ \/ CommandAt(c, "failed") /\ Moves(c, "error")
     \/ CommandAt(c, "unknown") /\ Moves(c, "error unknown")
  /\ files' = [files EXCEPT ![commands[c].path] = NoFile]
  /\ UNCHANGED <<bootLock, workspace, keyActive>>

\* The machine of the commands loses power: those that run are gone, a file that
\* was not synced may be gone too.
PowerLoss ==
  /\ commands' = [c \in Command |->
       IF commands[c].pc \in {"new", "ok", "error", "error unknown"} THEN commands[c]
       ELSE [commands[c] EXCEPT !.pc = IF commands[c].pc = "unknown" THEN "error unknown"
                                       ELSE "error"]]
  /\ bootLock' = {}
  /\ \E lost \in SUBSET {p \in Path : ~files[p].synced} :
       files' = [p \in Path |-> IF p \in lost THEN NoFile ELSE files[p]]
  /\ UNCHANGED <<workspace, keyActive>>

\* credentials revoke.
RevokeKey ==
  /\ keyActive
  /\ keyActive' = FALSE
  /\ UNCHANGED <<commands, bootLock, workspace, files>>

CredentialNext ==
  \/ \E c \in Command :
       \/ LockBootstrap(c) \/ RefuseBootstrap(c) \/ CreateFile(c) \/ PersistFile(c)
       \/ PersistFails(c) \/ CommitApplies(c) \/ CommitFails(c) \/ CommitAnswered(c)
       \/ AnswerLost(c) \/ CleanUp(c)
  \/ PowerLoss
  \/ RevokeKey

-----------------------------------------------------------------------------
\* The key is shown once: when a bootstrap succeeds its key is the committed one
\* and its file survives a loss of power, and a committed key whose file is gone is
\* one whose commit was never answered.
HandedOut(c) ==
  \E p \in Path : files[p] = [key |-> c, synced |-> TRUE]

CredentialKnown ==
  /\ \A c \in Command : CommandAt(c, "ok") => workspace = c /\ HandedOut(c)
  /\ workspace # NoWorkspace /\ ~HandedOut(workspace) => CommandAt(workspace, "error unknown")

=============================================================================
