--------------------------- MODULE ManifestStore ---------------------------
(***************************************************************************)
(* The manifest of a run on disk: write_manifest_atomic, read_manifest and *)
(* check_output_dir_for_generate of src/src/dataipsum/manifest.py, over a  *)
(* file system whose process and machine may stop at any moment.           *)
(*                                                                         *)
(* One process (the driver) writes, any process reads: manifest.py says    *)
(* that it assumes no concurrent writers.  The k-th call of                *)
(* write_manifest_atomic carries manifest k and owns temporary file k (the *)
(* uuid4 in its name), so k names the payload, the file and the inode.     *)
(*                                                                         *)
(* The file system (external) is the usual journalled one: a directory     *)
(* operation is atomic, directory operations reach the disk in the order   *)
(* they were made, fsync of the directory makes all those before it        *)
(* durable, and the contents of a file survive a power loss for certain    *)
(* only after fsync of that file.                                          *)
(***************************************************************************)
EXTENDS Naturals

CONSTANT MaxWrites   \* bound: calls of write_manifest_atomic in a behaviour

ASSUME MaxWritesAssumption == MaxWrites \in Nat

None   == 0              \* no manifest (or no file) by that name
Writes == 1..MaxWrites
Torn   == MaxWrites + 1  \* what a reader gets from a file that is not whole

VARIABLES
  \* the file system
  dir,      \* <out> as processes see it: does it exist, which inode is
            \* _manifest.json, which ._manifest.json.tmp-* files are there
  onDisk,   \* the directory states a power loss may leave
  full,     \* inodes whose payload is wholly in the page cache or on disk
  durable,  \* inodes whose contents were fsynced
  \* the writer
  pc,       \* the system call write_manifest_atomic is about to make
  cur,      \* the manifest being written (or the last one)
  before,   \* inode of _manifest.json when the call was made
  outcome,  \* how the last call ended
  acked,    \* the last manifest whose write returned to its caller
  \* a reader
  opened,   \* the inode that read_text has opened
  seen      \* the manifest the last read_manifest returned, Torn or None

fsVars     == <<dir, onDisk, full, durable>>
writerVars == <<pc, cur, before, outcome, acked>>
readerVars == <<opened, seen>>
vars       == <<fsVars, writerVars, readerVars>>

Directories == [exists : BOOLEAN, final : {None} \cup Writes, temps : SUBSET Writes]
NoDirectory == [exists |-> FALSE, final |-> None, temps |-> {}]

Steps    == {"idle", "mkdir", "open", "write", "fsync", "replace",
             "open_dir", "fsync_dir", "return"}
Outcomes == {"none", "ok", "ManifestError", "other"}

TypeOK ==
  /\ dir \in Directories
  /\ onDisk \in SUBSET Directories
  /\ full \in SUBSET Writes
  /\ durable \in SUBSET Writes
  /\ pc \in Steps
  /\ cur \in {None} \cup Writes
  /\ before \in {None} \cup Writes
  /\ outcome \in Outcomes
  /\ acked \in {None} \cup Writes
  /\ opened \in {None} \cup Writes
  /\ seen \in {None, Torn} \cup Writes

Init ==
  /\ dir = NoDirectory
  /\ onDisk = {NoDirectory}
  /\ full = {}
  /\ durable = {}
  /\ pc = "idle"
  /\ cur = None
  /\ before = None
  /\ outcome = "none"
  /\ acked = None
  /\ opened = None
  /\ seen = None

-----------------------------------------------------------------------------
(* A directory operation is visible at once and durable later. *)
ChangeDirectory(d) ==
  /\ dir' = d
  /\ onDisk' = onDisk \cup {d}

(* What a process reads from inode k: the manifest, or part of it. *)
Content(k) == IF k = None \/ k \in full THEN k ELSE Torn

-----------------------------------------------------------------------------
(* Plausible bugs, each in the place of the definition of its name below. *)

BugNoFsyncFile ==            \* os.fsync(tmp_file) dropped
  /\ pc = "fsync"
  /\ pc' = "replace"
  /\ UNCHANGED <<fsVars, cur, before, outcome, acked, readerVars>>

BugReplaceCopies ==          \* shutil.copy for os.replace
  /\ pc = "replace"
  /\ pc' = "open_dir"
  /\ ChangeDirectory([dir EXCEPT !.final = cur])
  /\ UNCHANGED <<full, durable, cur, before, outcome, acked, readerVars>>

BugNoFsyncDir ==             \* os.fsync(dir_fd) dropped
  /\ pc = "fsync_dir"
  /\ pc' = "return"
  /\ UNCHANGED <<fsVars, cur, before, outcome, acked, readerVars>>

BugOSErrorSwallowed ==       \* the except clause does not raise again
  /\ pc \in {"replace", "open_dir", "fsync_dir", "return"}
  /\ pc' = "idle"
  /\ outcome' = "ok"
  /\ acked' = cur
  /\ UNCHANGED <<fsVars, cur, before, readerVars>>

-----------------------------------------------------------------------------
(* write_manifest_atomic, one action per system call. *)

CallWrite ==
  /\ pc = "idle" /\ cur < MaxWrites
  /\ pc' = "mkdir"
  /\ cur' = cur + 1
  /\ before' = dir.final
  /\ outcome' = "none"
  /\ UNCHANGED <<fsVars, acked, readerVars>>

Mkdir ==
  /\ pc = "mkdir"
  /\ pc' = "open"
  /\ IF dir.exists THEN UNCHANGED <<dir, onDisk>>
     ELSE ChangeDirectory([dir EXCEPT !.exists = TRUE])
  /\ UNCHANGED <<full, durable, cur, before, outcome, acked, readerVars>>

OpenTmp ==
  /\ pc = "open"
  /\ pc' = "write"
  /\ ChangeDirectory([dir EXCEPT !.temps = @ \cup {cur}])
  /\ UNCHANGED <<full, durable, cur, before, outcome, acked, readerVars>>

(* write and flush: until the flush ends the file holds part of the payload. *)
WriteAndFlush ==
  /\ pc = "write"
  /\ pc' = "fsync"
  /\ full' = full \cup {cur}
  /\ UNCHANGED <<dir, onDisk, durable, cur, before, outcome, acked, readerVars>>

FsyncFile ==
  /\ pc = "fsync"
  /\ pc' = "replace"
  /\ durable' = durable \cup {cur}
  /\ UNCHANGED <<dir, onDisk, full, cur, before, outcome, acked, readerVars>>

Replace ==
  /\ pc = "replace"
  /\ pc' = "open_dir"
  /\ ChangeDirectory([dir EXCEPT !.final = cur, !.temps = @ \ {cur}])
  /\ UNCHANGED <<full, durable, cur, before, outcome, acked, readerVars>>

OpenDir ==
  /\ pc = "open_dir"
  /\ pc' = "fsync_dir"
  /\ UNCHANGED <<fsVars, cur, before, outcome, acked, readerVars>>

FsyncDir ==
  /\ pc = "fsync_dir"
  /\ pc' = "return"
  /\ onDisk' = {dir}
  /\ UNCHANGED <<dir, full, durable, cur, before, outcome, acked, readerVars>>

ReturnOk ==
  /\ pc = "return"
  /\ pc' = "idle"
  /\ outcome' = "ok"
  /\ acked' = cur
  /\ UNCHANGED <<fsVars, cur, before, readerVars>>

(* An OSError of any call in the try block, os.close(dir_fd) included, is   *)
(* raised again as ManifestError.  Nothing is undone and the temporary file *)
(* stays.  Closing it flushes its buffer, so its payload may become whole.  *)
FailWithOSError ==
  /\ pc \in {"open", "write", "fsync", "replace", "open_dir", "fsync_dir", "return"}
  /\ full' \in (IF pc = "write" THEN {full, full \cup {cur}} ELSE {full})
  /\ pc' = "idle"
  /\ outcome' = "ManifestError"
  /\ UNCHANGED <<dir, onDisk, durable, cur, before, acked, readerVars>>

(* mkdir and json.dumps are outside the try block, and a character that     *)
(* UTF-8 cannot encode is no OSError: these errors reach the caller as they *)
(* are, the last one with the temporary file open.                          *)
FailWithOtherError ==
  /\ pc \in {"mkdir", "open", "write"}
  /\ pc' = "idle"
  /\ outcome' = "other"
  /\ UNCHANGED <<fsVars, cur, before, acked, readerVars>>

-----------------------------------------------------------------------------
(* read_manifest, by a process of its own; no file is FileNotFoundError. *)

OpenManifest ==
  /\ opened = None
  /\ dir.final # None
  /\ opened' = dir.final
  /\ UNCHANGED <<fsVars, writerVars, seen>>

ReadManifest ==
  /\ opened # None
  /\ opened' = None
  /\ seen' = Content(opened)
  /\ UNCHANGED <<fsVars, writerVars>>

(* check_output_dir_for_generate: may generate start in this directory?  *)
(* If not, its error tells the user to `resume` the run in it.           *)
GenerateAccepts == ~dir.exists \/ (dir.final = None /\ dir.temps = {})

-----------------------------------------------------------------------------
(* The writing process stops; the page cache is the kernel's and stays. *)
KillWriter ==
  /\ pc # "idle"
  /\ pc' = "idle"
  /\ outcome' = "none"
  /\ UNCHANGED <<fsVars, cur, before, acked, readerVars>>

(* The machine stops: every process with it, the directory is one of those *)
(* that may be on disk, and of a file that was not fsynced anything may be *)
(* left.                                                                   *)
PowerLoss ==
  /\ \E d \in onDisk : dir' = d /\ onDisk' = {d}
  /\ \E kept \in SUBSET full : full' = kept \cup (full \cap durable)
  /\ pc' = "idle"
  /\ outcome' = "none"
  /\ opened' = None
  /\ UNCHANGED <<durable, cur, before, acked, seen>>

Write == CallWrite \/ Mkdir \/ OpenTmp \/ WriteAndFlush \/ FsyncFile \/ Replace
         \/ OpenDir \/ FsyncDir \/ ReturnOk \/ FailWithOSError \/ FailWithOtherError
Read  == OpenManifest \/ ReadManifest
Next  == Write \/ Read \/ KillWriter \/ PowerLoss

Spec == Init /\ [][Next]_vars

-----------------------------------------------------------------------------
(* Whatever _manifest.json may be, now or after a power loss, is a whole     *)
(* manifest, and no reader is ever given part of one: the payload is flushed *)
(* and fsynced before os.replace makes it visible.                           *)
NeverTorn ==
  /\ \A d \in onDisk \cup {dir} : d.final # None => d.final \in full
  /\ seen # Torn

(* A manifest whose write returned to its caller is not lost: neither an     *)
(* error or crash of a later call nor a power loss takes _manifest.json back *)
(* before it (the fsync of the directory, then the return), and generate     *)
(* never starts over it (manifest.py 97-110).                                *)
AcknowledgedSurvives ==
  acked # None => dir.exists /\ dir.final >= acked /\ ~GenerateAccepts

(* A write that returned leaves no temporary file, not even after a power    *)
(* loss: what lies beside the manifest is of calls that failed or were       *)
(* killed, one file at most of each.                                         *)
OnlyFailuresLitter == \A d \in onDisk \cup {dir} : acked \notin d.temps

(* All of it together: to its readers and to the caller of a write the store *)
(* is an atomic register that is durable once a write is acknowledged.       *)
Register == INSTANCE ManifestRegister WITH
  current   <- Content(dir.final),
  survivors <- {Content(d.final) : d \in onDisk},
  reading   <- Content(opened)

ImplementsRegister == Register!Spec

(* What ManifestError tells its caller (manifest.py, last statement of       *)
(* write_manifest_atomic): the previous manifest, if any, was not changed.   *)
ErrorLeavesPreviousManifest ==
  outcome = "ManifestError" /\ before # None => dir.final = before
=============================================================================
