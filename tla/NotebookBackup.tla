---------------------------- MODULE NotebookBackup ----------------------------
(***************************************************************************)
(* The local backup of apps/notebook: the page (ui/notebook-app.tsx), its   *)
(* NotebookBackupController, the worker NotebookBackupHost starts for each  *)
(* operation, and the IndexedDB store every page of the origin shares.      *)
(*                                                                         *)
(* A page runs one operation at a time.  Each step of an operation ends in  *)
(* one of the ways its promise can settle; an IndexedDB transaction commits *)
(* or aborts as a whole, by its deadline at the latest.  A page may be      *)
(* closed, or crash, between any two steps, which ends its worker; the      *)
(* store and the downloaded files remain.  The bytes of an envelope, and    *)
(* whether a recovery code opens it, are left to the worker's answer.       *)
(***************************************************************************)
EXTENDS FiniteSets

CONSTANTS
  Tabs,     (* Pages of the notebook open in one browser.                  *)
  Backups,  (* Envelopes, each with the recovery code drawn for it.        *)
  Restores, (* Operation ids of freshOperationId, which never repeat.      *)
  None

ASSUME BackupAssumption ==
  /\ Backups \cap Restores = {}
  /\ None \notin Backups \cup Restores

VARIABLES
  page,     (* "closed", or what the mount effect has made of the page.    *)
  stage,    (* What the operation of each page waits for.                  *)
  current,  (* The envelope it seals, or the id of its restore.            *)
  worker,   (* The worker of the operation, and its answer on the way.     *)
  plain,    (* Who holds the plaintext of the operation.                   *)
  code,     (* The recovery code a page shows, named by its envelope.      *)
  sealed,   (* Envelopes whose secrets were drawn.                         *)
  recorded, (* Those the record encrypted-backup:latest has held.          *)
  files,    (* Those handed to the browser as a download.                  *)
  staging,  (* The life of the record pending:<id> of each restore.        *)
  receipt,  (* The restore of the record restore-receipt:latest.           *)
  cleared   (* The restores each page found staged, now or earlier, when   *)
            (* its startup recovery committed.                             *)

operation == <<stage, current, worker, plain>>
store == <<recorded, staging, receipt>>
backupVars == <<page, operation, code, sealed, store, files, cleared>>

Staged == {o \in Restores : staging[o] \in {"pending", "removed"}}

\* The operation waits in this stage, in a page still open.
At(t, s) == stage[t] = s

Wait(t, s) == stage' = [stage EXCEPT ![t] = s]

WorkerIs(t, w, p) ==
  /\ worker' = [worker EXCEPT ![t] = w]
  /\ plain' = [plain EXCEPT ![t] = p]

\* The busy flag falls: whatever the outcome, nothing is left of the operation.
Finish(t) ==
  /\ Wait(t, "idle")
  /\ current' = [current EXCEPT ![t] = None]
  /\ WorkerIs(t, "none", "none")

\* A refusal: a restore already staged is discarded first.
Refuse(t) ==
  IF stage[t] \in {"opening", "consuming", "committing"}
  THEN /\ Wait(t, "discarding")
       /\ WorkerIs(t, "none", "none")
       /\ UNCHANGED current
  ELSE Finish(t)

Unstage(o) == staging' = [staging EXCEPT ![o] = "removed"]

-----------------------------------------------------------------------------
BackupInit ==
  /\ page = [t \in Tabs |-> "closed"]
  /\ stage = [t \in Tabs |-> "idle"]
  /\ current = [t \in Tabs |-> None]
  /\ worker = [t \in Tabs |-> "none"]
  /\ plain = [t \in Tabs |-> "none"]
  /\ code = [t \in Tabs |-> None]
  /\ sealed = {}
  /\ recorded = {}
  /\ files = {}
  /\ staging = [o \in Restores |-> "unborn"]
  /\ receipt = None
  /\ cleared = [t \in Tabs |-> {}]

Load(t) ==
  /\ page[t] = "closed"
  /\ page' = [page EXCEPT ![t] = "loading"]
  /\ UNCHANGED <<operation, code, sealed, store, files, cleared>>

\* Startup recovery: one transaction deletes every pending record.
RecoverRestores(t) ==
  /\ page[t] = "loading"
  /\ page' = [page EXCEPT ![t] = "ready"]
  /\ staging' = [o \in Restores |->
                   IF staging[o] = "pending" THEN "removed" ELSE staging[o]]
  /\ cleared' = [cleared EXCEPT ![t] = Staged]
  /\ UNCHANGED <<operation, code, sealed, recorded, receipt, files>>

\* Mutant: the page is ready although its recovery failed.
RecoveryIgnored(t) ==
  /\ page[t] = "loading"
  /\ page' = [page EXCEPT ![t] = "ready"]
  /\ cleared' = [cleared EXCEPT ![t] = Staged]
  /\ UNCHANGED <<operation, code, sealed, store, files>>

\* The preflight or the transaction is refused: only a reload helps.
RecoveryFails(t) ==
  /\ page[t] = "loading"
  /\ page' = [page EXCEPT ![t] = "refused"]
  /\ UNCHANGED <<operation, code, sealed, store, files, cleared>>

\* The page is closed, reloaded or lost, and its worker with it.
Close(t) ==
  /\ page[t] # "closed"
  /\ page' = [page EXCEPT ![t] = "closed"]
  /\ Finish(t)
  /\ code' = [code EXCEPT ![t] = None]
  /\ cleared' = [cleared EXCEPT ![t] = {}]
  /\ UNCHANGED <<sealed, store, files>>

\* The button is disabled while the page is busy or not ready.
Free(t) == page[t] = "ready" /\ At(t, "idle")

-----------------------------------------------------------------------------
(* Creating a backup.                                                       *)

\* The snapshot and the fresh secrets are transferred to a new worker.
StartBackup(t, b) ==
  /\ Free(t)
  /\ b \notin sealed
  /\ sealed' = sealed \cup {b}
  /\ code' = [code EXCEPT ![t] = None]
  /\ Wait(t, "sealing")
  /\ current' = [current EXCEPT ![t] = b]
  /\ WorkerIs(t, "working", "worker")
  /\ UNCHANGED <<page, store, files, cleared>>

\* No snapshot, no random bytes or no worker: the code shown is gone all the same.
BackupNotStarted(t) ==
  /\ Free(t)
  /\ code' = [code EXCEPT ![t] = None]
  /\ UNCHANGED <<page, operation, sealed, store, files, cleared>>

\* Mutant: the backup goes on although its record was refused.
RecordRefusalIgnored(t) ==
  /\ At(t, "recording")
  /\ \/ recorded' = recorded \cup {current[t]}
     \/ recorded' = recorded
  /\ Wait(t, "downloading")
  /\ UNCHANGED <<page, current, worker, plain, code, sealed, staging, receipt, files, cleared>>

\* recordEncryptedBackup puts the envelope over the one of the last backup.
RecordBackup(t) ==
  /\ At(t, "recording")
  /\ \/ /\ recorded' = recorded \cup {current[t]}
        /\ Wait(t, "downloading")
        /\ UNCHANGED <<current, worker, plain>>
     \/ /\ Refuse(t)
        /\ UNCHANGED recorded
  /\ UNCHANGED <<page, code, sealed, staging, receipt, files, cleared>>

Download(t) ==
  /\ At(t, "downloading")
  /\ \/ /\ files' = files \cup {current[t]}
        /\ Wait(t, "publishing")
        /\ UNCHANGED <<current, worker, plain>>
     \/ /\ Refuse(t)
        /\ UNCHANGED files
  /\ UNCHANGED <<page, code, sealed, store, cleared>>

PublishRecoveryCode(t) ==
  /\ At(t, "publishing")
  /\ code' = [code EXCEPT ![t] = current[t]]
  /\ Finish(t)
  /\ UNCHANGED <<page, sealed, store, files, cleared>>

-----------------------------------------------------------------------------
(* Restoring one.                                                           *)

StartRestore(t, o) ==
  /\ Free(t)
  /\ staging[o] = "unborn"
  /\ staging' = [staging EXCEPT ![o] = "drawn"]
  /\ Wait(t, "staging")
  /\ current' = [current EXCEPT ![t] = o]
  /\ UNCHANGED <<page, worker, plain, code, sealed, recorded, receipt, files, cleared>>

\* stageEncryptedRestore, then the worker of openBackupForUse, if it starts.
StageRestore(t) ==
  /\ At(t, "staging")
  /\ \/ /\ staging' = [staging EXCEPT ![current[t]] = "pending"]
        /\ \/ Wait(t, "opening") /\ WorkerIs(t, "working", "none")
           \/ Wait(t, "discarding") /\ UNCHANGED <<worker, plain>>
        /\ UNCHANGED current
     \/ /\ Refuse(t)
        /\ UNCHANGED staging
  /\ UNCHANGED <<page, code, sealed, recorded, receipt, files, cleared>>

\* The consumer accepts the plaintext or refuses it; either way it is wiped.
Consume(t) ==
  /\ At(t, "consuming")
  /\ \/ /\ Wait(t, "committing")
        /\ WorkerIs(t, "none", "none")
        /\ UNCHANGED current
     \/ Refuse(t)
  /\ UNCHANGED <<page, code, sealed, store, files, cleared>>

\* Mutant: the pending record is not looked up.
CommitUnchecked(t) ==
  /\ At(t, "committing")
  /\ \/ /\ Unstage(current[t])
        /\ receipt' = current[t]
        /\ Finish(t)
     \/ /\ Refuse(t)
        /\ UNCHANGED <<staging, receipt>>
  /\ UNCHANGED <<page, code, sealed, recorded, files, cleared>>

\* One transaction removes the record and writes the receipt; without the
\* record, which another page's recovery may have deleted, it aborts.
CommitRestore(t) ==
  /\ At(t, "committing")
  /\ \/ /\ staging[current[t]] = "pending"
        /\ Unstage(current[t])
        /\ receipt' = current[t]
        /\ Finish(t)
     \/ /\ Refuse(t)
        /\ UNCHANGED <<staging, receipt>>
  /\ UNCHANGED <<page, code, sealed, recorded, files, cleared>>

\* A failed discard is ignored: a later startup recovery removes the record.
DiscardRestore(t) ==
  /\ At(t, "discarding")
  /\ \/ Unstage(current[t])
     \/ UNCHANGED staging
  /\ Finish(t)
  /\ UNCHANGED <<page, code, sealed, recorded, receipt, files, cleared>>

-----------------------------------------------------------------------------
(* The worker of an operation.                                              *)

\* It posts its one answer, with the plaintext it opened, and wipes the rest.
WorkerAnswers(t) ==
  /\ worker[t] = "working"
  /\ \/ WorkerIs(t, "done", IF At(t, "opening") THEN "answer" ELSE "none")
     \/ WorkerIs(t, "failed", "none")
  /\ UNCHANGED <<page, stage, current, code, sealed, store, files, cleared>>

\* The host settles on the answer and terminates the worker.
AnswerArrives(t) ==
  /\ worker[t] = "done"
  /\ IF At(t, "sealing")
     THEN Wait(t, "recording") /\ WorkerIs(t, "none", "none")
     ELSE Wait(t, "consuming") /\ WorkerIs(t, "none", "page")
  /\ UNCHANGED <<page, current, code, sealed, store, files, cleared>>

\* Mutant: the host settles but leaves the worker to itself.
WorkerForgotten(t) ==
  /\ worker[t] # "none"
  /\ Wait(t, IF At(t, "opening") THEN "discarding" ELSE "idle")
  /\ UNCHANGED <<page, current, worker, plain, code, sealed, store, files, cleared>>

\* Mutant: no timeout watches a worker that says nothing.
SilentWorkerKept(t) ==
  /\ worker[t] \in {"done", "failed"}
  /\ Refuse(t)
  /\ UNCHANGED <<page, code, sealed, store, files, cleared>>

\* An error answer or event, or the timeout, which a late answer may lose to.
WorkerFails(t) ==
  /\ worker[t] # "none"
  /\ Refuse(t)
  /\ UNCHANGED <<page, code, sealed, store, files, cleared>>

-----------------------------------------------------------------------------
\* The ways a pending promise of the page settles.
Settle(t) ==
  \/ RecordBackup(t)
  \/ Download(t)
  \/ PublishRecoveryCode(t)
  \/ StageRestore(t)
  \/ Consume(t)
  \/ CommitRestore(t)
  \/ DiscardRestore(t)
  \/ AnswerArrives(t)
  \/ WorkerFails(t)

BackupNext ==
  \E t \in Tabs :
    \/ Load(t)
    \/ RecoverRestores(t)
    \/ RecoveryFails(t)
    \/ Close(t)
    \/ \E b \in Backups : StartBackup(t, b)
    \/ BackupNotStarted(t)
    \/ \E o \in Restores : StartRestore(t, o)
    \/ WorkerAnswers(t)
    \/ Settle(t)

BackupSpec == BackupInit /\ [][BackupNext]_backupVars

\* Transactions have a deadline, workers a timeout, and the rest runs in the
\* page; nothing obliges a worker to answer or a page to stay.
FairBackupSpec == BackupSpec /\ \A t \in Tabs : WF_backupVars(Settle(t))

-----------------------------------------------------------------------------
(* Properties.                                                              *)

\* The types of the variables: in particular the store and the downloads hold
\* envelopes sealed as backups, and receipts and codes name what they should.
BackupTypeOK ==
  /\ page \in [Tabs -> {"closed", "loading", "ready", "refused"}]
  /\ stage \in [Tabs -> {"idle", "sealing", "recording", "downloading", "publishing",
                         "staging", "opening", "consuming", "committing", "discarding"}]
  /\ current \in [Tabs -> Backups \cup Restores \cup {None}]
  /\ worker \in [Tabs -> {"none", "working", "done", "failed"}]
  /\ plain \in [Tabs -> {"none", "page", "worker", "answer"}]
  /\ code \in [Tabs -> Backups \cup {None}]
  /\ sealed \subseteq Backups
  /\ recorded \subseteq Backups
  /\ files \subseteq Backups
  /\ staging \in [Restores -> {"unborn", "drawn", "pending", "removed"}]
  /\ receipt \in Restores \cup {None}
  /\ cleared \in [Tabs -> SUBSET Restores]

\* A page shows a recovery code only for an envelope that was stored and whose
\* download was started, whatever fails or closes on the way (README.md:13).
PublishedCodeHasItsBackup ==
  \A t \in Tabs : code[t] # None => code[t] \in recorded \cap files

\* A page that accepts operations shares the store with no restore staged
\* before its startup recovery: it was removed, and nothing brings it back.
ReadyPageIsClean ==
  \A t \in Tabs : page[t] = "ready" => \A o \in cleared[t] : staging[o] = "removed"

\* A plaintext is with the page only while the consumer has it, with a worker
\* only while the page waits for that worker, and a worker lives no longer:
\* a refusal, a timeout or an answer that loses to one leaves neither behind.
PlaintextConfined ==
  \A t \in Tabs :
    /\ plain[t] = "page" => At(t, "consuming")
    /\ plain[t] \in {"worker", "answer"} => worker[t] # "none"
    /\ worker[t] # "none" => stage[t] \in {"sealing", "opening"} /\ page[t] = "ready"

\* A receipt is only ever written by the transaction that removes the staging
\* of the same restore, which was there until then.
ReceiptReplacesStaging ==
  [][receipt' # receipt => /\ staging[receipt'] = "pending"
                           /\ staging'[receipt'] = "removed"]_backupVars

\* Every operation comes to an end, even if the worker never answers.
OperationsEnd == \A t \in Tabs : stage[t] # "idle" ~> stage[t] = "idle"

\* What a startup recovery removes is an interrupted restore: no page is still
\* running it (the message at notebook-app.tsx:62 says as much).
CleanedWereInterrupted ==
  [][\A t \in Tabs : page[t] = "loading" /\ page'[t] = "ready" =>
       \A u \in Tabs : current[u] \in Restores => staging[current[u]] # "pending"]_backupVars
=============================================================================
