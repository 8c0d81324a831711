----------------------- MODULE DatabaseConversionProofs -----------------------
(***************************************************************************)
(* Theorems about DatabaseConversion, for any passphrases and bounds.      *)
(***************************************************************************)
EXTENDS DatabaseConversion, TLAPS

-----------------------------------------------------------------------------
(* The type invariant. *)

\* Folding a log into the file leaves a typed file with an empty log of the same key.
LEMMA FoldTyped ==
  ASSUME main \in File, NEW log \in File, Fold(log)
  PROVE  /\ main' \in File /\ main'.rows = main.rows \union log.rows /\ main'.key = log.key
         /\ wal' \in File /\ wal'.rows = {} /\ wal'.key = log.key
  BY DEF Fold, File, Rows

\* A row that is added to the log leaves its key.
LEMMA LogTyped ==
  ASSUME wal \in File, NEW row \in Rows
  PROVE  Log(row) \in File /\ Log(row).rows = wal.rows \union {row} /\ Log(row).key = wal.key
  BY DEF Log, File, Rows

\* A rekey writes everything that can be read.
LEMMA PagesTyped ==
  ASSUME main \in File, wal \in File, NEW key \in AllKeys
  PROVE  [rows |-> Contents, key |-> key] \in File
  BY DEF Contents, File, Rows

\* A step of the session's program counter leaves a typed session.
LEMMA GoTyped ==
  ASSUME session \in Session, NEW where, Go(where),
         where \in {"idle", "checkpoint", "export", "unlink", "replace", "store", "rekeyed", "off"}
  PROVE  /\ session' \in Session
         /\ session'.pc = where /\ session'.key = session.key
         /\ session'.target = session.target /\ session'.late = session.late
  BY DEF Go, Session

LEMMA NoLogTyped == NoLog \in File /\ NoLog.rows = {}
  BY DEF NoLog, File, AllKeys

LEMMA DisconnectedTyped ==
  worker \in Worker /\ Disconnected =>
    worker' \in Worker /\ worker'.connection = "none" /\ worker'.log = NoLog
  BY NoLogTyped DEF Disconnected, Worker

LEMMA InitTyped == Init => TypeOK
<1> SUFFICES ASSUME Init PROVE TypeOK
  OBVIOUS
<1>1. {main, wal, temp} \subseteq File /\ main.rows = {} /\ wal.rows = {} /\ temp.rows = {}
  BY DEF Init, File, AllKeys
<1>2. session \in Session /\ worker \in Worker /\ worker.log = NoLog
  BY NoLogTyped DEF Init, Session, Worker
<1>3. artifacts \in AllKeys \union {"none"}
  BY DEF Init
<1>4. /\ damaged = FALSE /\ committed = {} /\ exposed = {}
      /\ ops \in 0 .. MaxOps /\ faults \in 0 .. MaxFaults
  BY BoundsAssumption DEF Init
<1>. QED BY <1>1, <1>2, <1>3, <1>4, NoLogTyped DEF TypeOK

\* What each action does to the connection of the job.
LEMMA StepWorker == TypeOK /\ [Next]_vars =>
                      worker' \in Worker /\ worker'.log.rows \subseteq committed'
<1> SUFFICES ASSUME TypeOK, [Next]_vars
             PROVE  worker' \in Worker /\ worker'.log.rows \subseteq committed'
  OBVIOUS
<1>0. /\ worker \in Worker /\ wal \in File /\ session \in Session
      /\ worker.log.rows \union wal.rows \subseteq committed
  BY DEF TypeOK
<1>a. CASE worker' = worker /\ committed \subseteq committed'
  BY <1>0, <1>a
<1>1. ASSUME NEW row \in Rows, Commit(row), worker' # worker
      PROVE  worker' \in Worker /\ worker'.log.rows \subseteq committed'
  <2>1. worker' = [worker EXCEPT !.log.rows = @ \union {row}] /\ committed' = committed \union {row}
    BY <1>1 DEF Commit, NewRow
  <2>. QED BY <1>0, <2>1 DEF Worker, File
<1>2. CASE StartJob \/ Connect
  BY <1>0, <1>2 DEF StartJob, Connect, Worker, Session, history
<1>3. CASE Close \/ WorkerDies
  BY <1>0, <1>3, DisconnectedTyped, NoLogTyped DEF Close, WorkerDies, history
<1>4. CASE UnlinkLog
  <2>1. CASE Is("open")
    BY <1>0, <1>4, <2>1 DEF UnlinkLog, Worker, history
  <2>2. CASE ~ Is("open")
    BY <1>0, <1>4, <2>2 DEF UnlinkLog, history
  <2>. QED BY <2>1, <2>2
<1>5. CASE Replace
  <2>1. CASE Is("open")
    BY <1>0, <1>5, <2>1 DEF Replace, Worker, history, Is
  <2>2. CASE Is("cut")
    BY <1>0, <1>5, <2>2, NoLogTyped DEF Replace, Worker, history, Is
  <2>3. CASE ~ Is("open") /\ ~ Is("cut")
    BY <1>0, <1>5, <2>3 DEF Replace, history, Is
  <2>. QED BY <2>1, <2>2, <2>3
<1>. QED
  BY <1>a, <1>1, <1>2, <1>3, <1>4, <1>5
     DEF Next, vars, Write, Commit, NewRow, Convert, Rekey, Attach, OpenArtifacts, Checkpoint,
         Export, ReplaceStore, AcceptKey, StepRaises, ShellDies, Restart, files, history

LEMMA StepTyped == TypeOK /\ [Next]_vars => TypeOK'
<1> SUFFICES ASSUME TypeOK, [Next]_vars PROVE TypeOK'
  OBVIOUS
<1>w. worker' \in Worker /\ worker'.log.rows \subseteq committed'
  BY StepWorker
<1>0. {main, wal} \subseteq File /\ worker \in Worker /\ session \in Session
  BY DEF TypeOK
<1>l. worker.log \in File
  BY <1>0 DEF Worker
<1> USE BoundsAssumption DEF TypeOK
<1>1. ASSUME NEW row \in Rows, Write(row) PROVE TypeOK'
  <2>1. damaged' \in BOOLEAN BY <1>1 DEF Write, Split, Is
  <2>2. CASE Alone
    <3>1. Fold(Log(row)) BY <1>1, <2>2 DEF Write
    <3>. QED BY <1>0, <1>w, <1>1, <2>1, <3>1, FoldTyped, LogTyped DEF Write, NewRow
  <2>3. CASE ~ Alone
    BY <1>0, <1>w, <1>1, <2>1, <2>3, LogTyped DEF Write, NewRow
  <2>. QED BY <2>2, <2>3
<1>2. ASSUME NEW row \in Rows, Commit(row) PROVE TypeOK'
  <2>1. exposed' \subseteq committed' /\ committed' = committed \union {row}
    BY <1>2 DEF Commit, NewRow
  <2>2. wal' \in {wal, Log(row)} /\ damaged' \in BOOLEAN
    BY <1>2 DEF Commit
  <2>. QED BY <1>0, <1>w, <1>2, <2>1, <2>2, LogTyped DEF Commit
<1>3. ASSUME NEW key \in AllKeys, Convert(key) PROVE TypeOK'
  <2>1. session' \in Session BY <1>3 DEF Convert, Session
  <2>. QED BY <1>w, <1>3, <2>1 DEF Convert, files, history
<1>4. ASSUME NEW key \in AllKeys, Rekey(key) PROVE TypeOK'
  <2>1. session' \in Session BY <1>4 DEF Rekey, Session
  <2>2. damaged' \in BOOLEAN BY <1>4 DEF Rekey, Split, Is
  <2>3. CASE Alone
    <3>1. Fold([rows |-> Contents, key |-> key]) BY <1>4, <2>3 DEF Rekey
    <3>2. main' \in File /\ wal' \in File /\ main'.rows = main.rows \union Contents /\ wal'.rows = {}
      BY <1>0, <3>1, FoldTyped, PagesTyped
    <3>. QED BY <1>w, <1>4, <2>1, <2>2, <3>2 DEF Rekey, Contents, history
  <2>4. CASE ~ Alone
    <3>1. wal' = [rows |-> Contents, key |-> key] /\ UNCHANGED main BY <1>4, <2>4 DEF Rekey
    <3>2. wal' \in File /\ wal'.rows = main.rows \union wal.rows
      BY <1>0, <3>1, PagesTyped DEF Contents
    <3>. QED BY <1>w, <1>4, <2>1, <2>2, <3>1, <3>2 DEF Rekey, history
  <2>. QED BY <2>3, <2>4
<1>5. CASE StartJob \/ Connect
  BY <1>w, <1>5 DEF StartJob, Connect, files, history
<1>6. CASE Close
  <2>1. damaged' \in BOOLEAN BY <1>6 DEF Close
  <2>2. CASE Fold(wal)
    BY <1>0, <1>w, <1>6, <2>1, <2>2, FoldTyped DEF Close, history
  <2>3. CASE Fold(worker.log)
    BY <1>0, <1>l, <1>w, <1>6, <2>1, <2>3, FoldTyped DEF Close, history
  <2>4. CASE UNCHANGED <<main, wal>>
    BY <1>w, <1>6, <2>1, <2>4 DEF Close, history
  <2>. QED BY <1>6, <2>2, <2>3, <2>4 DEF Close
<1>17. CASE WorkerDies
  BY <1>w, <1>17 DEF WorkerDies, Fault, files, history
<1>7. CASE Attach
  BY <1>w, <1>7 DEF Attach, OpenArtifacts, Session, Worker, history
<1>8. CASE Checkpoint
  <2>1. session' \in Session BY <1>8, GoTyped DEF Checkpoint
  <2>2. CASE Fold(wal) /\ UNCHANGED exposed
    BY <1>0, <1>w, <1>8, <2>1, <2>2, FoldTyped DEF Checkpoint
  <2>3. CASE UNCHANGED <<main, wal>> /\ exposed' = exposed \union wal.rows
    BY <1>w, <1>8, <2>1, <2>3 DEF Checkpoint
  <2>. QED BY <1>8, <2>2, <2>3 DEF Checkpoint
<1>9. CASE Export
  <2>1. temp' \in File /\ temp'.rows = Contents BY <1>9 DEF Export, File, Contents, Session
  <2>. QED BY <1>w, <1>9, <2>1, GoTyped DEF Export, Contents, history
<1>10. CASE UnlinkLog
  <2>1. wal' \in File /\ wal'.rows = {} BY <1>0, <1>10 DEF UnlinkLog, File
  <2>2. session' \in Session BY <1>10 DEF UnlinkLog, Session
  <2>. QED BY <1>w, <1>10, <2>1, <2>2 DEF UnlinkLog, history
<1>11. CASE Replace
  <2>1. wal' \in File /\ wal'.rows = wal.rows /\ damaged' \in BOOLEAN
    BY <1>0, <1>11 DEF Replace, File
  <2>. QED BY <1>w, <1>11, <2>1, GoTyped DEF Replace, history
<1>12. CASE ReplaceStore \/ AcceptKey
  <2>1. session' \in Session BY <1>12 DEF ReplaceStore, AcceptKey, NewStore, Session
  <2>. QED BY <1>w, <1>12, <2>1 DEF ReplaceStore, AcceptKey, files, history
<1>14. CASE StepRaises
  <2>1. session' \in Session BY <1>14 DEF StepRaises, Session
  <2>. QED BY <1>w, <1>14, <2>1 DEF StepRaises, Fault, files, history
<1>15. CASE ShellDies
  BY <1>w, <1>15, GoTyped DEF ShellDies, Fault, files, history
<1>16. CASE Restart
  <2>1. session' \in Session BY <1>16 DEF Restart, Session, File
  <2>2. CASE Alone
    BY <1>0, <1>w, <1>16, <2>1, <2>2, FoldTyped DEF Restart, history
  <2>3. CASE ~ Alone
    BY <1>w, <1>16, <2>1, <2>3 DEF Restart, history
  <2>. QED BY <2>2, <2>3
<1>18. CASE UNCHANGED vars
  BY <1>18 DEF vars
<1>. QED
  BY <1>1, <1>2, <1>3, <1>4, <1>5, <1>6, <1>7, <1>8, <1>9, <1>10, <1>11, <1>12, <1>14,
     <1>15, <1>16, <1>17, <1>18 DEF Next

\* The state of files, connections and sessions is typed in every reachable state.
THEOREM Typed == Spec => []TypeOK
<1>. QED BY InitTyped, StepTyped, PTL DEF Spec

-----------------------------------------------------------------------------
(* The passphrases. *)

\* Until the log is unlinked the database opens with the passphrase of the session, and
\* afterwards unless the log had it (then the command would be late to fail); once the file
\* is replaced, and until the session takes it over, with the one the command was given.
KeysInv ==
  ~ damaged =>
    /\ session.pc \in {"checkpoint", "export", "unlink"} => session.key = wal.key
    /\ session.pc \in {"idle", "replace"} /\ ~ session.late => session.key = wal.key
    /\ session.pc \in {"unlink", "replace"} => temp.key = session.target
    /\ session.pc \in {"store", "rekeyed"} => wal.key = session.target

LEMMA InitKeys == Init => KeysInv
  BY DEF Init, KeysInv

LEMMA StepKeys == TypeOK /\ KeysInv /\ [Next]_vars => KeysInv'
<1> SUFFICES ASSUME TypeOK, KeysInv, [Next]_vars, ~ damaged' PROVE KeysInv'
  BY DEF KeysInv
<1>0. /\ main \in File /\ session \in Session /\ wal \in File
      /\ worker \in Worker /\ worker.log \in File
  BY DEF TypeOK, Worker
<1>d. ~ damaged
  BY DEF Next, vars, Write, Commit, Convert, Rekey, StartJob, Connect, Close, WorkerDies, Attach,
         OpenArtifacts, Checkpoint, Export, UnlinkLog, Replace, ReplaceStore, AcceptKey,
         StepRaises, ShellDies, Restart, files
<1> USE <1>d DEF KeysInv, At
\* What neither moves the session nor gives the database another passphrase.
<1>a. SUFFICES ASSUME ~ (session' = session /\ wal'.key = wal.key /\ temp' = temp)
               PROVE  KeysInv'
  OBVIOUS
<1>1. ASSUME NEW row \in Rows, Write(row) \/ Commit(row) PROVE KeysInv'
  <2>1. Fold(Log(row)) \/ wal' = Log(row) \/ wal' = wal
    BY <1>1 DEF Write, Commit
  <2>2. wal'.key = wal.key
    BY <1>0, <2>1, FoldTyped, LogTyped
  <2>. QED BY <1>1, <2>2, <1>a DEF Write, Commit
<1>2. ASSUME NEW key \in AllKeys, Convert(key) PROVE KeysInv'
  BY <1>0, <1>2 DEF Convert, Session, files
<1>3. ASSUME NEW key \in AllKeys, Rekey(key) PROVE KeysInv'
  <2>1. session'.pc = "rekeyed" /\ session'.target = key
    BY <1>0, <1>3 DEF Rekey, Session
  <2>2. wal'.key = key
    BY <1>0, <1>3, FoldTyped, PagesTyped DEF Rekey
  <2>. QED BY <2>1, <2>2
<1>4. CASE StartJob \/ Connect \/ WorkerDies \/ Attach
  BY <1>4, <1>a DEF StartJob, Connect, WorkerDies, Attach, OpenArtifacts, files
<1>c. CASE Close
  <2>1. wal'.key = wal.key
    <3>1. CASE Fold(wal)
      BY <1>0, <3>1, FoldTyped
    <3>2. CASE Fold(worker.log) /\ worker.log.key = wal.key
      BY <1>0, <3>2, FoldTyped
    <3>. QED BY <1>c, <3>1, <3>2 DEF Close
  <2>. QED BY <1>c, <2>1, <1>a DEF Close
<1>5. CASE Checkpoint
  <2>1. wal'.key = wal.key
    BY <1>0, <1>5, FoldTyped DEF Checkpoint
  <2>. QED BY <1>0, <1>5, <2>1, GoTyped DEF Checkpoint
<1>6. CASE Export
  BY <1>0, <1>6, GoTyped DEF Export
<1>7. CASE UnlinkLog
  BY <1>0, <1>7 DEF UnlinkLog, Session
<1>8. CASE Replace
  <2>1. wal'.key = temp.key
    BY <1>0, <1>8 DEF Replace, File
  <2>. QED BY <1>0, <1>8, <2>1, GoTyped DEF Replace
<1>9. CASE ReplaceStore \/ AcceptKey
  BY <1>0, <1>9 DEF ReplaceStore, AcceptKey, NewStore, Session, files
<1>10. CASE StepRaises
  BY <1>0, <1>10 DEF StepRaises, Converting, Session, files
<1>11. CASE ShellDies
  BY <1>0, <1>11, GoTyped DEF ShellDies, files
<1>12. CASE Restart
  <2>1. wal'.key = wal.key
    BY <1>0, <1>12, FoldTyped DEF Restart
  <2>. QED BY <1>0, <1>12, <2>1 DEF Restart, Session
<1>13. CASE UNCHANGED vars
  BY <1>13, <1>a DEF vars
<1>. QED
  BY <1>1, <1>2, <1>3, <1>4, <1>c, <1>5, <1>6, <1>7, <1>8, <1>9, <1>10, <1>11, <1>12, <1>13
     DEF Next

\* Whatever conversions ended how, and whoever else was connected, the shell at its prompt
\* has the passphrase of its database, unless one failed after the file, or the log with its
\* new passphrase, was gone, or the database is damaged.
THEOREM SessionOpens == Spec => []SessionOpensFile
<1>1. TypeOK /\ KeysInv => SessionOpensFile
  BY DEF KeysInv, SessionOpensFile, At
<1>. QED BY <1>1, InitTyped, StepTyped, InitKeys, StepKeys, PTL DEF Spec

-----------------------------------------------------------------------------
(* The rows. *)

\* From the checkpoint to the replacement the main file has the rows to be kept, without
\* its log; so has the sidecar, once it is written.  As long as a job is cut off from the
\* log, the log in place has no row that is to be kept.
RowsInv ==
  LET kept == committed \ exposed IN
  ~ damaged =>
    /\ kept \subseteq Contents
    /\ session.pc \in {"export", "unlink", "replace", "store"} => kept \subseteq main.rows
    /\ session.pc \in {"unlink", "replace"} => kept \subseteq temp.rows
    /\ worker.connection = "cut" => kept \subseteq main.rows

LEMMA InitRows == Init => RowsInv
  BY DEF Init, RowsInv, Contents

LEMMA StepRows == TypeOK /\ RowsInv /\ [Next]_vars => RowsInv'
<1> SUFFICES ASSUME TypeOK, RowsInv, [Next]_vars, ~ damaged' PROVE RowsInv'
  BY DEF RowsInv
<1>0. /\ main \in File /\ session \in Session /\ wal \in File
      /\ worker \in Worker /\ worker.log \in File
  BY DEF TypeOK, Worker
<1>d. ~ damaged
  BY DEF Next, vars, Write, Commit, Convert, Rekey, StartJob, Connect, Close, WorkerDies, Attach,
         OpenArtifacts, Checkpoint, Export, UnlinkLog, Replace, ReplaceStore, AcceptKey,
         StepRaises, ShellDies, Restart, files
<1> USE <1>d DEF RowsInv, Contents, Is
<1>1. ASSUME NEW row \in Rows, Write(row) PROVE RowsInv'
  <2>1. Fold(Log(row)) \/ (wal' = Log(row) /\ UNCHANGED main)
    BY <1>1 DEF Write
  <2>2. main'.rows \union wal'.rows = main.rows \union wal.rows \union {row}
    BY <1>0, <2>1, FoldTyped, LogTyped
  <2>3. worker'.connection # "cut" /\ session'.pc = "idle"
    BY <1>1 DEF Write, Split, At
  <2>. QED BY <1>1, <2>2, <2>3 DEF Write, NewRow, At
<1>2. ASSUME NEW row \in Rows, Commit(row) PROVE RowsInv'
  <2>1. main' = main /\ temp' = temp /\ session' = session /\ wal.rows \subseteq wal'.rows
        /\ worker'.connection = worker.connection
    BY <1>0, <1>2, LogTyped DEF Commit, Worker
  <2>2. CASE exposed' = exposed \union {row}
    BY <1>2, <2>1, <2>2 DEF Commit, NewRow
  <2>3. CASE exposed' = exposed /\ Is("open") /\ ~ Converting
    <3>1. wal'.rows = wal.rows \union {row}
      BY <1>0, <1>2, <2>3, LogTyped DEF Commit
    <3>. QED BY <1>2, <2>1, <2>3, <3>1 DEF Commit, NewRow, Converting, At
  <2>. QED BY <1>2, <2>2, <2>3 DEF Commit
<1>3. ASSUME NEW key \in AllKeys, Convert(key) PROVE RowsInv'
  BY <1>0, <1>3 DEF Convert, Session, files, history
<1>4. ASSUME NEW key \in AllKeys, Rekey(key) PROVE RowsInv'
  <2>1. main'.rows \union wal'.rows = Contents
    BY <1>0, <1>4, FoldTyped, PagesTyped DEF Rekey
  <2>2. session'.pc = "rekeyed" /\ worker'.connection # "cut"
    BY <1>0, <1>4 DEF Rekey, Split, Session
  <2>. QED BY <1>4, <2>1, <2>2 DEF Rekey, history
<1>5. CASE StartJob \/ Connect \/ WorkerDies \/ Attach
  BY <1>0, <1>5, DisconnectedTyped
     DEF StartJob, Connect, WorkerDies, Attach, OpenArtifacts, Worker, files, history
<1>c. CASE Close
  <2>1. worker'.connection = "none" /\ UNCHANGED <<session, temp, history>>
    BY <1>0, <1>c, DisconnectedTyped DEF Close, history
  <2>2. CASE Is("open") /\ Fold(wal)
    BY <1>0, <2>1, <2>2, FoldTyped DEF history
  <2>3. CASE Is("cut") /\ Fold(worker.log)
    BY <1>0, <2>1, <2>3, FoldTyped DEF history
  <2>4. CASE UNCHANGED <<main, wal>>
    BY <2>1, <2>4 DEF history
  <2>. QED BY <1>c, <2>2, <2>3, <2>4 DEF Close
<1>6. CASE Checkpoint
  <2>1. CASE Fold(wal) /\ UNCHANGED exposed
    BY <1>0, <1>6, <2>1, FoldTyped, GoTyped DEF Checkpoint
  <2>2. CASE Is("open") /\ UNCHANGED <<main, wal>> /\ exposed' = exposed \union wal.rows
    BY <1>0, <1>6, <2>2, GoTyped DEF Checkpoint
  <2>. QED BY <1>6, <2>1, <2>2 DEF Checkpoint
<1>7. CASE Export
  BY <1>0, <1>7, GoTyped DEF Export, At, history
<1>8. CASE UnlinkLog
  <2>1. session'.pc = "replace" /\ UNCHANGED <<main, temp, history>>
    BY <1>0, <1>8 DEF UnlinkLog, Session
  <2>. QED BY <1>8, <2>1 DEF UnlinkLog, At, history
<1>9. CASE Replace
  <2>1. main' = temp /\ worker'.connection # "cut"
    BY <1>0, <1>9 DEF Replace, Worker
  <2>. QED BY <1>0, <1>9, <2>1, GoTyped DEF Replace, At, history
<1>10. CASE ReplaceStore \/ AcceptKey
  BY <1>0, <1>10 DEF ReplaceStore, AcceptKey, NewStore, Session, files, history
<1>11. CASE StepRaises
  BY <1>0, <1>11 DEF StepRaises, Session, files, history
<1>12. CASE ShellDies
  BY <1>0, <1>12, GoTyped DEF ShellDies, files, history
<1>13. CASE Restart
  <2>1. Fold(wal) \/ UNCHANGED <<main, wal>>
    BY <1>13 DEF Restart
  <2>2. main'.rows \union wal'.rows = Contents /\ main.rows \subseteq main'.rows
    BY <1>0, <2>1, FoldTyped
  <2>3. session'.pc = "idle" /\ UNCHANGED <<temp, worker, history>>
    BY <1>13 DEF Restart
  <2>. QED BY <2>2, <2>3 DEF history
<1>14. CASE UNCHANGED vars
  BY <1>14 DEF vars
<1>. QED
  BY <1>1, <1>2, <1>3, <1>4, <1>5, <1>c, <1>6, <1>7, <1>8, <1>9, <1>10, <1>11, <1>12, <1>13, <1>14
     DEF Next

\* A conversion that fails or dies at any of its steps loses no row, whatever it converts
\* from and to, except rows of a background job that overlapped with it, and all rows if
\* the job and the shell came to write with different files.
THEOREM RowsAreKept == Spec => []ConversionKeepsRows
<1>1. RowsInv => ConversionKeepsRows
  BY DEF RowsInv, ConversionKeepsRows
<1>. QED BY <1>1, InitTyped, StepTyped, InitRows, StepRows, PTL DEF Spec
=============================================================================
