----------------------------- MODULE RunRecord ------------------------------
(***************************************************************************)
(* What a run leaves in its manifest and what resume makes of it: the      *)
(* flush policy, the contents of the manifest and its way through JSON,    *)
(* the sanitisation of the sink's options and the checks of resume of      *)
(* src/src/dataipsum/manifest.py, between an executor and a sink as        *)
(* testing/fakes.py implements and contracts/ describes them.              *)
(*                                                                         *)
(* The manifest file is the register that ManifestStore implements: its    *)
(* actions are those of ManifestRegister.  The driver is not in this       *)
(* repository (track D); it is modelled from what the docstrings of        *)
(* manifest.py and contracts/ and DD-01 (D.3.1, D.3.5) expect of it: it    *)
(* writes a manifest before the first chunk, records each result, asks     *)
(* the policy after each, and resume runs again the chunks not done.       *)
(*                                                                         *)
(* One table; the fields of a manifest on which nothing here depends       *)
(* (run_id, seed, plan, rows, flags, ...) travel unchanged.                *)
(***************************************************************************)
EXTENDS Naturals, FiniteSets

CONSTANTS
  Chunks,           \* the chunks of the plan
  ChunkBatchSize,   \* chunk_batch_size of the policy
  IntervalSeconds,  \* interval_seconds of the policy
  Concurrency,      \* results that the executor may hold, set_concurrency
  ResultStatuses,   \* the statuses that workers return: done, and those that
                    \* are not (pending, pending_llm, failed), handled alike
  Releases,         \* versions of dataipsum, as pairs <<major, rest>>
  SchemaDocuments,  \* documents that a user may give
  Canonical,        \* their canonical JSON, in which the order of keys is lost
  GenerateCalls,    \* calls of generate: the document given, the release run
  ResumeCalls,      \* calls of resume: the same, or no document
  OptionKeys,       \* the keys of the sink's options
  SecretKeys,       \* those that match pass, secret, token or key
  EnvKeys,          \* those that end in _env
  MaxStops,         \* bound: ends of a process, and power losses
  MaxWrites         \* bound of the register: manifests ever written

NotGiven == "not given"

ASSUME RunRecordAssumption ==
  /\ IsFiniteSet(Chunks) /\ Chunks # {}
  /\ ChunkBatchSize \in Nat \ {0}
  /\ IntervalSeconds \in Nat \ {0}
  /\ Concurrency \in Nat \ {0}
  /\ "done" \in ResultStatuses
  /\ ResultStatuses \subseteq {"done", "pending", "pending_llm", "failed"}
  /\ NotGiven \notin SchemaDocuments /\ NotGiven \notin {Canonical[s] : s \in SchemaDocuments}
  /\ GenerateCalls # {} /\ GenerateCalls \subseteq [schema : SchemaDocuments, release : Releases]
  /\ SecretKeys \subseteq OptionKeys /\ EnvKeys \subseteq OptionKeys
  /\ ResumeCalls \subseteq [schema : SchemaDocuments \cup {NotGiven}, release : Releases]
  /\ MaxStops \in Nat /\ MaxWrites \in Nat

VARIABLES
  \* _manifest.json
  current, survivors, acked, reading, seen,  \* as in ManifestRegister
  docs,       \* the JSON of each manifest that may still be on disk
  \* the sink
  sink,       \* chunk to the origin of its committed data: one, or none yet
  \* the process of the run
  pc,         \* "stopped", "read", "wait", "write", "sync", "return", "ended"
  given,      \* the hash of the schema given to this process, or NotGiven
  release,    \* the version of dataipsum that runs
  manifest,   \* the Manifest in memory
  todo,       \* tasks that the executor has not run yet
  results,    \* results that it has not yielded yet
  unflushed,  \* chunks_done_since_last_flush
  \* observation and bound
  ran,        \* chunks that this process has committed
  stops

register == <<current, survivors, acked, reading, seen>>
session  == <<given, release>>
work     == <<sink, todo, results, ran>>
vars     == <<register, docs, work, pc, session, manifest, unflushed, stops>>

Register == INSTANCE ManifestRegister

Hashes        == {Canonical[s] : s \in SchemaDocuments}
ChunkStatuses == ResultStatuses \cup {"pending"}
Statuses      == {"running", "completed", "partial", "failed"}
Manifests     == [dataipsum_version : Releases, schema_sha256 : Hashes,
                  sink_options : SUBSET OptionKeys, status : Statuses,
                  chunks : [Chunks -> ChunkStatuses]]
Origins       == [schema : Hashes, major : {r[1] : r \in Releases}]
Alive         == {"wait", "write", "sync", "return"}

-----------------------------------------------------------------------------
(* The pure functions of manifest.py. *)

BugShouldFlushAfterBatch(chunks_done, seconds, is_final) ==   \* > for >=
  is_final \/ chunks_done > ChunkBatchSize \/ seconds >= IntervalSeconds

BugShouldFlushNotAtEnd(chunks_done, seconds, is_final) ==     \* is_final forgotten
  chunks_done >= ChunkBatchSize \/ seconds >= IntervalSeconds

ShouldFlush(chunks_done, seconds, is_final) ==
  is_final \/ chunks_done >= ChunkBatchSize \/ seconds >= IntervalSeconds

BugSanitizeAll(options) == options \ SecretKeys               \* *_env not spared

SanitizeSinkOptions(options) == {key \in options : key \in EnvKeys \/ key \notin SecretKeys}

(* sha256 of the canonical JSON, taken for injective. *)
SchemaSha256(document) == Canonical[document]

SchemaMismatch(recorded, provided) == provided # NotGiven /\ recorded # provided

BugMajorVersion(version) == version[2]                        \* the wrong part

MajorVersion(version) == version[1]

VersionMismatch(recorded, running) == MajorVersion(recorded) # MajorVersion(running)

(* The JSON object of a manifest: its sink is kind and options, the latter    *)
(* sanitised; kind is one for all here.                                       *)
ToJson(m) ==
  [dataipsum_version |-> m.dataipsum_version, schema_sha256 |-> m.schema_sha256,
   status |-> m.status, chunks |-> m.chunks,
   sink |-> [options |-> SanitizeSinkOptions(m.sink_options)]]

FromJson(json) ==
  [dataipsum_version |-> json.dataipsum_version, schema_sha256 |-> json.schema_sha256,
   status |-> json.status, sink_options |-> json.sink.options,
   chunks |-> [c \in DOMAIN json.chunks |-> json.chunks[c]]]

TypeOK ==
  /\ current \in 0..MaxWrites /\ survivors \subseteq 0..MaxWrites
  /\ DOMAIN docs = (survivors \cup {current}) \ {0}
  /\ \A m \in DOMAIN docs : FromJson(docs[m]) \in Manifests
  /\ sink \in [Chunks -> SUBSET Origins]
  /\ pc \in Alive \cup {"stopped", "read", "ended"}
  /\ given \in Hashes \cup {NotGiven}
  /\ release \in Releases
  /\ manifest \in Manifests
  /\ todo \subseteq Chunks
  /\ results \subseteq Chunks \X ResultStatuses
  /\ unflushed \in 0..Cardinality(Chunks)
  /\ ran \subseteq Chunks
  /\ stops \in 0..MaxStops

NewManifest(document, version) ==
  [dataipsum_version |-> version, schema_sha256 |-> SchemaSha256(document),
   sink_options |-> OptionKeys, status |-> "running",
   chunks |-> [c \in Chunks |-> "pending"]]

AnyRelease  == CHOOSE r \in Releases : TRUE
AnyManifest == NewManifest(CHOOSE s \in SchemaDocuments : TRUE, AnyRelease)

Init ==
  /\ Register!Init
  /\ docs = <<>>
  /\ sink = [c \in Chunks |-> {}]
  /\ pc = "stopped"
  /\ given = NotGiven /\ release = AnyRelease /\ manifest = AnyManifest
  /\ todo = {} /\ results = {} /\ ran = {}
  /\ unflushed = 0
  /\ stops = 0

(* A process begins to count and to run; or it is gone with all its memory.  *)
StartCounting ==
  /\ results' = {} /\ ran' = {}
  /\ unflushed' = 0

LoseMemory ==
  /\ pc' = "stopped"
  /\ given' = NotGiven /\ release' = AnyRelease /\ manifest' = AnyManifest
  /\ todo' = {}
  /\ StartCounting

-----------------------------------------------------------------------------
(* generate demands an empty directory: where a power loss left data but no  *)
(* manifest, the user gives it another one.  The executor gets all the tasks *)
(* and starts on them after the first write.                                 *)
Generate ==
  /\ pc = "stopped" /\ current = 0
  /\ pc' = "write"
  /\ \E call \in GenerateCalls :
       /\ given' = SchemaSha256(call.schema)
       /\ release' = call.release
       /\ manifest' = NewManifest(call.schema, call.release)
  /\ sink' = [c \in Chunks |-> {}]
  /\ todo' = Chunks
  /\ StartCounting
  /\ UNCHANGED <<register, docs, stops>>

(* resume: read_manifest opens the file ... *)
StartResume(call) ==
  /\ pc = "stopped" /\ current # 0
  /\ Register!StartRead
  /\ pc' = "read"
  /\ given' = IF call.schema = NotGiven THEN NotGiven ELSE SchemaSha256(call.schema)
  /\ release' = call.release
  /\ UNCHANGED <<docs, work, manifest, unflushed, stops>>

(* ... and gets what it holds.  ManifestMismatchError ends the process. *)
RefuseResume ==
  /\ pc = "read"
  /\ Register!FinishRead
  /\ LET read == FromJson(docs[reading]) IN
       \/ SchemaMismatch(read.schema_sha256, given)
       \/ VersionMismatch(read.dataipsum_version, release)
  /\ LoseMemory
  /\ UNCHANGED <<docs, sink, stops>>

Verdict(chunks) == IF \A c \in Chunks : chunks[c] = "done" THEN "completed" ELSE "partial"

(* The manifest goes on under the version that wrote it or the one that runs. *)
Resume ==
  /\ pc = "read"
  /\ Register!FinishRead
  /\ LET read == FromJson(docs[reading])
         left == {c \in DOMAIN read.chunks : read.chunks[c] # "done"}
     IN  /\ ~SchemaMismatch(read.schema_sha256, given)
         /\ ~VersionMismatch(read.dataipsum_version, release)
         /\ \E v \in {read.dataipsum_version, release} :
              manifest' = [read EXCEPT !.dataipsum_version = v,
                             !.status = IF left = {} THEN Verdict(read.chunks) ELSE "running"]
         /\ todo' = left
         /\ pc' = IF ShouldFlush(0, 0, left = {}) THEN "write" ELSE "wait"
  /\ StartCounting
  /\ UNCHANGED <<docs, sink, session, stops>>

-----------------------------------------------------------------------------
(* The executor runs a task: write_chunk commits the chunk, replacing what   *)
(* was there, or raises; the status of the result says which.  Results wait  *)
(* in no order.                                                              *)
Committed(c) == [sink EXCEPT ![c] = {[schema |-> manifest.schema_sha256, major |-> release[1]]}]

BugWriteChunkSwallows(c, status) == sink' \in {sink, Committed(c)}  \* an error is lost

WriteChunk(c, status) == sink' = IF status = "done" THEN Committed(c) ELSE sink

RunChunk(c) ==
  /\ pc \in Alive /\ (pc = "wait" \/ unflushed > 0)
  /\ c \in todo /\ Cardinality(results) < Concurrency
  /\ \E status \in ResultStatuses :
       /\ WriteChunk(c, status)
       /\ results' = results \cup {<<c, status>>}
       /\ ran' = IF status = "done" THEN ran \cup {c} ELSE ran
  /\ todo' = todo \ {c}
  /\ UNCHANGED <<register, docs, pc, session, manifest, unflushed, stops>>

(* The driver takes a result, records it and asks the policy, any number of  *)
(* seconds after the last flush.                                             *)
Record(c, status) ==
  /\ pc = "wait" /\ <<c, status>> \in results
  /\ LET last   == todo = {} /\ results = {<<c, status>>}
         chunks == [manifest.chunks EXCEPT ![c] = status]
     IN  /\ manifest' = [manifest EXCEPT !.chunks = chunks,
                           !.status = IF last THEN Verdict(chunks) ELSE "running"]
         /\ \E seconds \in 0..IntervalSeconds :
              pc' = IF ShouldFlush(unflushed + 1, seconds, last) THEN "write" ELSE "wait"
  /\ results' = results \ {<<c, status>>}
  /\ unflushed' = unflushed + 1
  /\ UNCHANGED <<register, docs, sink, todo, ran, session, stops>>

-----------------------------------------------------------------------------
(* write_manifest_atomic, as the register sees it. *)
Keep(numbers, d) == [m \in numbers \ {0} |-> d[m]]

Publish ==
  /\ pc = "write" /\ current < MaxWrites
  /\ Register!Publish(current + 1)
  /\ docs' = [m \in (survivors \cup {current + 1}) \ {0} |->
                IF m = current + 1 THEN ToJson(manifest) ELSE docs[m]]
  /\ pc' = "sync"
  /\ UNCHANGED <<work, session, manifest, unflushed, stops>>

Harden ==
  /\ pc = "sync"
  /\ Register!Harden
  /\ docs' = Keep({current}, docs)
  /\ pc' = "return"
  /\ UNCHANGED <<work, session, manifest, unflushed, stops>>

Flushed ==
  /\ pc = "return"
  /\ Register!Acknowledge
  /\ pc' = IF manifest.status = "running" THEN "wait" ELSE "ended"
  /\ unflushed' = 0
  /\ UNCHANGED <<docs, work, session, manifest, stops>>

-----------------------------------------------------------------------------
(* The process ends: it is killed, a ManifestError ends it, or it had ended  *)
(* and its user may resume a run that is partial.                            *)
Stop ==
  /\ pc # "stopped" /\ stops < MaxStops
  /\ LoseMemory
  /\ stops' = stops + 1
  /\ IF reading = 0 THEN UNCHANGED register ELSE Register!FinishRead
  /\ UNCHANGED <<docs, sink>>

PowerLoss ==
  /\ stops < MaxStops
  /\ Register!LosePower
  /\ docs' = Keep({current'}, docs)
  /\ LoseMemory
  /\ stops' = stops + 1
  /\ UNCHANGED sink

Execute == \E c \in Chunks : RunChunk(c)
Drive   == \/ \E c \in Chunks, status \in ResultStatuses : Record(c, status)
           \/ Publish \/ Harden \/ Flushed
User    == \/ Generate \/ RefuseResume \/ Resume
           \/ \E call \in ResumeCalls : StartResume(call)
Next    == User \/ Execute \/ Drive \/ Stop \/ PowerLoss

Spec == Init /\ [][Next]_vars

(* A user who keeps coming back with the right schema, if any, and version. *)
ResumeRightly ==
  /\ current # 0
  /\ \E call \in ResumeCalls :
       /\ call.schema # NotGiven => Canonical[call.schema] = docs[current].schema_sha256
       /\ call.release[1] = docs[current].dataipsum_version[1]
       /\ StartResume(call)

FairSpec ==
  /\ Spec
  /\ WF_vars(Execute) /\ WF_vars(Drive)
  /\ WF_vars(Generate) /\ WF_vars(RefuseResume) /\ WF_vars(Resume)
  /\ SF_vars(ResumeRightly)

-----------------------------------------------------------------------------
(* What any manifest that may be found says of a chunk is true: if it is     *)
(* done, its data is committed, so that resume may leave it out.             *)
NothingOverclaimed ==
  /\ \A m \in DOMAIN docs, c \in Chunks : docs[m].chunks[c] = "done" => sink[c] # {}
  /\ pc \in Alive => \A c \in Chunks : manifest.chunks[c] = "done" => sink[c] # {}

(* A crash costs little (DD-00 3.7, ManifestFlushPolicy): of the chunks that *)
(* a process has committed, the manifests that may survive it miss what the  *)
(* executor holds and less than a batch, or a batch while that is written.   *)
LossIsBounded ==
  pc \in Alive =>
    \A m \in survivors \ {0} :
      Cardinality({c \in ran : docs[m].chunks[c] # "done"})
        <= Concurrency + (IF pc = "wait" THEN ChunkBatchSize - 1 ELSE ChunkBatchSize)

(* The committed chunks of a run are of one schema and one major version,    *)
(* those that the user of the process that runs now has in mind, however     *)
(* many processes and releases made them.                                    *)
OneOrigin ==
  pc \in Alive =>
    \A c \in Chunks : \A origin \in sink[c] :
      /\ origin.major = release[1]
      /\ given # NotGiven => origin.schema = given

(* No manifest holds a secret, and no number of writes and resumes loses     *)
(* what the sink needs besides: plain options and names of variables.        *)
OptionsSurvive ==
  /\ \A m \in DOMAIN docs : docs[m].sink.options \cap (SecretKeys \ EnvKeys) = {}
  /\ pc \in Alive => (OptionKeys \ SecretKeys) \cup EnvKeys \subseteq manifest.sink_options

(* However often it is stopped, a run ends with a durable manifest of all    *)
(* its chunks, if its user comes back for it.                                *)
RunEnds ==
  <>[](/\ pc = "ended" /\ acked = current /\ survivors = {current}
       /\ docs[current].status = Verdict(docs[current].chunks)
       /\ \A c \in Chunks : docs[current].chunks[c] = "done" => sink[c] # {})
=============================================================================
