-------------------------- MODULE DatabaseConversion --------------------------
(***************************************************************************)
(* db encrypt, db decrypt and db rekey on the active database              *)
(* (plugins/storage/db/lifecycle.py, db/maintenance.py) with the paired    *)
(* artifact database (artifacts/store.py), the death of the shell at any   *)
(* step, its restart, and a background job that goes on writing.           *)
(*                                                                         *)
(* Connections last for one operation.  A commit is in the write-ahead log *)
(* until a checkpoint, or until the last connection is closed, folds it    *)
(* into the main file.  A file that is unlinked or replaced stays with the *)
(* connections that have it open; who connects afterwards makes a log of   *)
(* its own.  If two logs are written for one file, or one log for two      *)
(* files, SQLite promises nothing about the database: it is damaged, and   *)
(* the model says no more about it.                                        *)
(***************************************************************************)
EXTENDS Integers

CONSTANTS
  Keys,                              \* passphrases
  Plain,                             \* no passphrase
  MaxWrites, MaxOps, MaxFaults       \* bounds

ASSUME PlainAssumption == Plain \notin Keys
ASSUME BoundsAssumption == {MaxWrites, MaxOps, MaxFaults} \subseteq Nat

VARIABLES
  main,         \* the database file: rows, and the key they are encrypted with
  wal,          \* its log: rows that are not in the file yet, and the key of the newest pages
  temp,         \* the sidecar of a conversion
  artifacts,    \* the key of the artifact database, or "none"
  session,      \* the shell: where it is, the passphrase of its EventStore, its command's
  worker,       \* the background job: the passphrase of its EventStore, its connection
  damaged,      \* file and log do not belong together
  committed,    \* rows that were reported as written (history)
  exposed,      \* of these, those of a job that overlapped with a conversion (history)
  ops, faults

vars == <<main, wal, temp, artifacts, session, worker, damaged, committed, exposed, ops, faults>>

AllKeys == Keys \union {Plain}
Rows    == 1 .. MaxWrites

File == [rows : SUBSET Rows, key : AllKeys]

Session == [pc : {"idle", "checkpoint", "export", "unlink", "replace", "store", "rekeyed", "off"},
            key : AllKeys, target : AllKeys,
            late : BOOLEAN]           \* a command failed after it had changed the file's key

\* connection: none; on the files in place; on the file in place and a log that was unlinked
\* ("cut"); on a replaced file and the log in place ("astray"); on neither ("gone").
Worker == [key : AllKeys, connection : {"none", "open", "cut", "astray", "gone"},
           log : File]                \* the unlinked log of a connection that is cut

NoLog == [rows |-> {}, key |-> Plain]

TypeOK ==
  /\ {main, wal, temp} \subseteq File
  /\ artifacts \in AllKeys \union {"none"}
  /\ session \in Session /\ worker \in Worker /\ damaged \in BOOLEAN
  /\ main.rows \union wal.rows \union temp.rows \union worker.log.rows \subseteq committed
  /\ exposed \subseteq committed /\ committed \subseteq Rows
  /\ ops \in 0 .. MaxOps /\ faults \in 0 .. MaxFaults

Init ==
  /\ \E k \in AllKeys : /\ main = [rows |-> {}, key |-> k] /\ wal = main
                        /\ session = [pc |-> "idle", key |-> k, target |-> k, late |-> FALSE]
                        /\ worker = [key |-> k, connection |-> "none", log |-> NoLog]
                        /\ artifacts \in {"none", k}
  /\ temp = [rows |-> {}, key |-> Plain]
  /\ damaged = FALSE /\ committed = {} /\ exposed = {}
  /\ ops = 0 /\ faults = 0

-----------------------------------------------------------------------------
At(where)  == session.pc = where
Go(where)  == session' = [session EXCEPT !.pc = where]
Fault      == faults < MaxFaults /\ faults' = faults + 1
Is(state)  == worker.connection = state
Alone      == Is("none") \/ Is("gone")
Split      == Is("cut") \/ Is("astray")
history    == <<committed, exposed>>
files      == <<main, wal, temp, artifacts, damaged>>

NewRow(row) == row \in Rows \ committed /\ committed' = committed \union {row}

\* Rows that one reads through SQLite.
Contents == main.rows \union wal.rows

\* The log is folded into the file, pages as they are.
Fold(log) == /\ main' = [rows |-> main.rows \union log.rows, key |-> log.key]
             /\ wal' = [rows |-> {}, key |-> log.key]

Log(row) == [wal EXCEPT !.rows = @ \union {row}]

\* One operation of the shell on its database.
Write(row) ==
  /\ At("idle") /\ ~ damaged /\ session.key = wal.key
  /\ NewRow(row)
  /\ IF Alone THEN Fold(Log(row)) ELSE wal' = Log(row) /\ UNCHANGED main
  /\ damaged' = Split
  /\ UNCHANGED <<temp, artifacts, session, worker, exposed, ops, faults>>

-----------------------------------------------------------------------------
(* The background job. *)

\* The job was forked with the shell's EventStore.
StartJob ==
  /\ At("idle") /\ Is("none")
  /\ worker' = [worker EXCEPT !.key = session.key]
  /\ UNCHANGED <<files, session, history, ops, faults>>

Connect ==
  /\ Is("none") /\ ~ damaged /\ worker.key = wal.key
  /\ worker' = [worker EXCEPT !.connection = "open"]
  /\ UNCHANGED <<files, session, history, ops, faults>>

Converting == ~ At("idle") /\ ~ At("off")

\* The job's statement is a transaction of its own.  After a rekey its reads raise.
Commit(row) ==
  /\ ~ damaged /\ NewRow(row)
  /\ \/ /\ Is("open") /\ worker.key = wal.key
        /\ wal' = Log(row) /\ UNCHANGED <<worker, damaged>>
     \/ /\ Is("cut") /\ worker.key = worker.log.key
        /\ worker' = [worker EXCEPT !.log.rows = @ \union {row}] /\ UNCHANGED <<wal, damaged>>
     \/ /\ Is("astray")
        /\ wal' = Log(row) /\ damaged' = TRUE /\ UNCHANGED worker
     \/ Is("gone") /\ UNCHANGED <<wal, worker, damaged>>
  /\ exposed' = IF Converting \/ ~ Is("open") THEN exposed \union {row} ELSE exposed
  /\ UNCHANGED <<main, temp, artifacts, session, ops, faults>>

Disconnected == worker' = [worker EXCEPT !.connection = "none", !.log = NoLog]

\* The last connection on a file folds its log, and unlinks the one that has the name of the
\* log; on a file that has no name any more it does neither.
Close ==
  /\ ~ Is("none") /\ Disconnected
  /\ \/ Is("open") /\ Fold(wal) /\ UNCHANGED damaged
     \/ Is("cut") /\ Fold(worker.log) /\ damaged' = (damaged \/ worker.log.key # wal.key)
     \/ (Is("astray") \/ Is("gone")) /\ UNCHANGED <<main, wal, damaged>>
  /\ UNCHANGED <<temp, artifacts, session, history, ops, faults>>

WorkerDies ==
  /\ ~ Is("none") /\ Fault /\ Disconnected
  /\ UNCHANGED <<files, session, history, ops>>

\* artifact_store_for_db: created with the passphrase of the main database.
OpenArtifacts(key) ==
  /\ artifacts = "none"
  /\ artifacts' = key
  /\ UNCHANGED <<main, wal, temp, damaged, session, worker, history, ops, faults>>

Attach == \/ At("idle") /\ OpenArtifacts(session.key)
          \/ ~ Is("none") /\ OpenArtifacts(worker.key)

-----------------------------------------------------------------------------
(* db encrypt (from Plain) and db decrypt (to Plain). *)

Convert(key) ==
  /\ At("idle") /\ ops < MaxOps
  /\ session.key # key /\ Plain \in {session.key, key}
  /\ ~ damaged /\ session.key = wal.key      \* otherwise the checkpoint raises
  /\ session' = [session EXCEPT !.pc = "checkpoint", !.target = key]
  /\ ops' = ops + 1
  /\ UNCHANGED <<files, worker, history, faults>>

\* Mutant: the conversion starts without a checkpoint.
CheckpointSkipped ==
  /\ At("checkpoint")
  /\ Go("export")
  /\ UNCHANGED <<files, worker, history, ops, faults>>

\* A transaction of the job may keep the log from being folded; this is not an error.
Checkpoint ==
  /\ At("checkpoint")
  /\ \/ Fold(wal) /\ UNCHANGED exposed
     \/ Is("open") /\ UNCHANGED <<main, wal>> /\ exposed' = exposed \union wal.rows
  /\ Go("export")
  /\ UNCHANGED <<temp, artifacts, damaged, worker, committed, ops, faults>>

\* export_sqlcipher_database, and a first read of the copy.
Export ==
  /\ At("export")
  /\ temp' = [rows |-> Contents, key |-> session.target]
  /\ Go("unlink")
  /\ UNCHANGED <<main, wal, artifacts, damaged, worker, history, ops, faults>>

\* replace_database_file: the sidecars first.  A rekey may have been in the log alone.
UnlinkLog ==
  /\ At("unlink")
  /\ wal' = [rows |-> {}, key |-> main.key]
  /\ worker' = IF Is("open") THEN [worker EXCEPT !.connection = "cut", !.log = wal] ELSE worker
  /\ session' = [session EXCEPT !.pc = "replace", !.late = @ \/ wal.key # main.key]
  /\ UNCHANGED <<main, temp, artifacts, damaged, history, ops, faults>>

\* Then os.replace, which leaves a log that was made since: by the job, for the old file.
Replace ==
  /\ At("replace")
  /\ main' = temp
  /\ IF wal.rows = {} THEN wal' = [wal EXCEPT !.key = temp.key] /\ UNCHANGED damaged
                      ELSE damaged' = TRUE /\ UNCHANGED wal
  /\ worker' = CASE Is("open") -> [worker EXCEPT !.connection = "astray"]
                 [] Is("cut")  -> [worker EXCEPT !.connection = "gone", !.log = NoLog]
                 [] OTHER      -> worker
  /\ Go("store")
  /\ UNCHANGED <<temp, artifacts, history, ops, faults>>

\* Mutant: the file is replaced, the shell keeps its store.
KeepStore ==
  /\ At("store")
  /\ session' = [session EXCEPT !.pc = "idle", !.late = FALSE]
  /\ UNCHANGED <<files, worker, history, ops, faults>>

NewStore == session' = [session EXCEPT !.pc = "idle", !.key = session.target, !.late = FALSE]

\* replace_active_store.
ReplaceStore ==
  /\ At("store") /\ NewStore
  /\ UNCHANGED <<files, worker, history, ops, faults>>

-----------------------------------------------------------------------------
(* db rekey. *)

\* One transaction that writes every page under the new key, whoever else is connected.
\* While the job is in a transaction it waits, and raises in the end: nothing has changed.
Rekey(key) ==
  /\ At("idle") /\ ops < MaxOps /\ ~ damaged /\ session.key = wal.key
  /\ session.key # Plain /\ key \notin {Plain, session.key}
  /\ LET pages == [rows |-> Contents, key |-> key] IN
     IF Alone THEN Fold(pages) ELSE wal' = pages /\ UNCHANGED main
  /\ damaged' = Split
  /\ session' = [session EXCEPT !.pc = "rekeyed", !.target = key]
  /\ ops' = ops + 1
  /\ UNCHANGED <<temp, artifacts, worker, history, faults>>

AcceptKey ==
  /\ At("rekeyed") /\ NewStore
  /\ UNCHANGED <<files, worker, history, ops, faults>>

-----------------------------------------------------------------------------
\* An error of a step: the command fails, and the shell goes on with the store it had.
StepRaises ==
  /\ Converting /\ Fault
  /\ session' = [session EXCEPT !.pc = "idle", !.late = @ \/ session.pc \in {"store", "rekeyed"}]
  /\ UNCHANGED <<files, worker, history, ops>>

ShellDies ==
  /\ ~ At("off") /\ Fault /\ Go("off")
  /\ UNCHANGED <<files, worker, history, ops>>

\* The operator gives the passphrase that the database opens with now; opening folds the log.
Restart ==
  /\ At("off") /\ ~ damaged
  /\ session' = [pc |-> "idle", key |-> wal.key, target |-> wal.key, late |-> FALSE]
  /\ IF Alone THEN Fold(wal) ELSE UNCHANGED <<main, wal>>
  /\ UNCHANGED <<temp, artifacts, damaged, worker, history, ops, faults>>

Next ==
  \/ \E row \in Rows : Write(row) \/ Commit(row)
  \/ \E key \in AllKeys : Convert(key) \/ Rekey(key)
  \/ StartJob \/ Connect \/ Close \/ WorkerDies \/ Attach
  \/ Checkpoint \/ Export \/ UnlinkLog \/ Replace
  \/ ReplaceStore \/ AcceptKey \/ StepRaises \/ ShellDies \/ Restart

Spec == Init /\ [][Next]_vars

-----------------------------------------------------------------------------
(* Properties. *)

\* A conversion that fails or dies at any step loses nothing: what was written is in the
\* database, unless a background job wrote it, or kept the log open, during a conversion.
\* Excepted is a database whose job connected between the removal of the log and the
\* replacement of the file and wrote to it, or was cut off from its log by a conversion
\* that then failed, and the shell wrote as well: nothing is claimed of its rows, anybody's.
ConversionKeepsRows == ~ damaged => committed \ exposed \subseteq Contents

\* The shell at its prompt has the passphrase of its database, however its conversions
\* ended, unless one failed after the file, or the log with its new passphrase, was gone.
SessionOpensFile == At("idle") /\ ~ session.late /\ ~ damaged => session.key = wal.key

\* The artifact database is readable with the passphrase of its main database.
ArtifactsStayPaired == At("idle") => artifacts \in {"none", wal.key}
=============================================================================
