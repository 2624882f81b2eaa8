--------------------------- MODULE RunRecordProofs --------------------------
(***************************************************************************)
(* Theorems of RunRecord for any plan, policy, releases, schemas, options, *)
(* and any number of ends of a process and power losses: its types, that   *)
(* no manifest claims a chunk that is not committed, how much a manifest   *)
(* misses, that data have one origin, and what becomes of the options.     *)
(*                                                                         *)
(* All but the types follow from three facts that are inductive only       *)
(* together with where the process is: what the results not yet recorded   *)
(* say is true (ClaimInv), the manifests on disk, the one in memory and    *)
(* the data agree on schema and major version (OriginInv), and what a      *)
(* manifest on disk misses of the one in memory has been counted (LossInv).*)
(***************************************************************************)
EXTENDS RunRecord, FiniteSetTheorems, TLAPS

Jsons == [dataipsum_version : Releases, schema_sha256 : Hashes, status : Statuses,
          chunks : [Chunks -> ChunkStatuses], sink : [options : SUBSET OptionKeys]]

RegisterInv ==
  /\ current \in 0..MaxWrites
  /\ survivors \in SUBSET (0..current)
  /\ current \in survivors
  /\ reading = IF pc = "read" THEN current ELSE 0
  /\ pc \in {"read", "sync", "return"} => current # 0
  /\ pc = "return" => survivors = {current}
  /\ docs \in [survivors \ {0} -> Jsons]

MemoryInv ==
  /\ sink \in [Chunks -> SUBSET Origins]
  /\ pc \in Alive \cup {"stopped", "read", "ended"}
  /\ given \in Hashes \cup {NotGiven}
  /\ release \in Releases
  /\ manifest \in Manifests
  /\ todo \in SUBSET Chunks
  /\ results \in SUBSET (Chunks \X ResultStatuses)
  /\ ran \in SUBSET Chunks
  /\ stops \in 0..MaxStops

(* Each chunk given to the executor is to run, held, or counted. *)
CountInv ==
  /\ unflushed \in Nat
  /\ IsFiniteSet(results)
  /\ unflushed + Cardinality(todo) + Cardinality(results) <= Cardinality(Chunks)

Types == RegisterInv /\ MemoryInv /\ CountInv

-----------------------------------------------------------------------------
(* Manifests and their JSON are in their types, and back from JSON a         *)
(* manifest is the same but for the secrets among its options.               *)
LEMMA StatusesOfResults == ResultStatuses \subseteq ChunkStatuses /\ "pending" \in ChunkStatuses
BY DEF ChunkStatuses

(* The verdict on the chunks is a status of a manifest. *)
LEMMA VerdictType == ASSUME NEW chunks PROVE Verdict(chunks) \in Statuses
BY DEF Verdict, Statuses

(* generate begins with a manifest of the right shape. *)
LEMMA NewManifestType ==
  ASSUME NEW document \in SchemaDocuments, NEW version \in Releases
  PROVE  /\ NewManifest(document, version) \in Manifests
         /\ NewManifest(document, version).schema_sha256 = SchemaSha256(document)
         /\ NewManifest(document, version).dataipsum_version = version
         /\ NewManifest(document, version).sink_options = OptionKeys
         /\ \A c \in Chunks : NewManifest(document, version).chunks[c] = "pending"
BY StatusesOfResults DEF NewManifest, Manifests, Hashes, SchemaSha256, Statuses

(* So is the memory of a process that does not run. *)
LEMMA IdleMemory == AnyRelease \in Releases /\ AnyManifest \in Manifests
<1>1. PICK call \in GenerateCalls : TRUE
  BY RunRecordAssumption
<1>2. call.schema \in SchemaDocuments /\ call.release \in Releases
  BY <1>1, RunRecordAssumption
<1>3. QED
  BY <1>2, NewManifestType DEF AnyRelease, AnyManifest

(* What is written has the shape of a document. *)
LEMMA ToJsonType ==
  ASSUME NEW m \in Manifests
  PROVE  /\ ToJson(m) \in Jsons
         /\ ToJson(m).chunks = m.chunks
         /\ ToJson(m).schema_sha256 = m.schema_sha256
         /\ ToJson(m).dataipsum_version = m.dataipsum_version
         /\ ToJson(m).sink.options = SanitizeSinkOptions(m.sink_options)
BY DEF ToJson, Jsons, Manifests, SanitizeSinkOptions

(* What is read back has the shape of a manifest. *)
LEMMA FromJsonType ==
  ASSUME NEW j \in Jsons
  PROVE  /\ FromJson(j) \in Manifests
         /\ FromJson(j).chunks = j.chunks
         /\ FromJson(j).schema_sha256 = j.schema_sha256
         /\ FromJson(j).dataipsum_version = j.dataipsum_version
         /\ FromJson(j).sink_options = j.sink.options
BY DEF FromJson, Jsons, Manifests

-----------------------------------------------------------------------------
(* Sets of chunks, which the loss is counted with, are finite. *)
LEMMA FiniteChunks ==
  /\ IsFiniteSet(Chunks)
  /\ Cardinality(Chunks) \in Nat
  /\ \A S \in SUBSET Chunks : /\ IsFiniteSet(S) /\ Cardinality(S) \in Nat
                              /\ Cardinality(S) <= Cardinality(Chunks)
BY RunRecordAssumption, FS_Subset, FS_CardinalityType

(* No manifest, no process: every variable has its type. *)
LEMMA TypesInitially == Init => Types
<1> SUFFICES ASSUME Init PROVE Types
  OBVIOUS
<1>1. RegisterInv
  BY RunRecordAssumption DEF Init, RegisterInv, Register!Init, Register!None
<1>2. MemoryInv
  BY RunRecordAssumption, IdleMemory DEF Init, MemoryInv, Alive
<1>3. CountInv
  BY FS_EmptySet, FiniteChunks DEF Init, CountInv
<1>4. QED
  BY <1>1, <1>2, <1>3 DEF Types

(* The register holds what docs describes, and nothing newer than current. *)
LEMMA RegisterStep == Types /\ [Next]_vars => RegisterInv'
<1> SUFFICES ASSUME Types, [Next]_vars PROVE RegisterInv'
  OBVIOUS
<1> USE DEF RegisterInv, register
<1>0. RegisterInv /\ MemoryInv
  BY DEF Types
<1>1. CASE Generate
  BY <1>0, <1>1 DEF Generate
<1>2. CASE \E call \in ResumeCalls : StartResume(call)
  <2>1. PICK call \in ResumeCalls : StartResume(call)
    BY <1>2
  <2>2. /\ reading' = current /\ current # 0 /\ pc' = "read"
        /\ UNCHANGED <<current, survivors, docs>>
    BY <2>1 DEF StartResume, Register!StartRead
  <2>3. QED
    BY <1>0, <2>2
<1>3. CASE RefuseResume \/ Resume
  <2>1. reading' = 0 /\ pc' \in {"stopped", "write", "wait"} /\ UNCHANGED <<current, survivors, docs>>
    BY <1>3 DEF RefuseResume, Resume, LoseMemory, Register!FinishRead, Register!None
  <2>2. QED
    BY <1>0, <2>1
<1>4. CASE Execute
  BY <1>0, <1>4 DEF Execute, RunChunk
<1>5. CASE \E c \in Chunks, status \in ResultStatuses : Record(c, status)
  <2>1. pc = "wait" /\ pc' \in {"write", "wait"} /\ UNCHANGED <<register, docs>>
    BY <1>5 DEF Record
  <2>2. QED
    BY <1>0, <2>1
<1>6. CASE Publish
  <2>1. /\ current' = current + 1 /\ current < MaxWrites
        /\ survivors' = survivors \cup {current + 1}
        /\ reading' = reading /\ pc = "write" /\ pc' = "sync"
        /\ docs' = [m \in (survivors \cup {current + 1}) \ {0} |->
                      IF m = current + 1 THEN ToJson(manifest) ELSE docs[m]]
    BY <1>6 DEF Publish, Register!Publish
  <2>2. ToJson(manifest) \in Jsons
    BY <1>0, ToJsonType DEF MemoryInv
  <2>3. docs' \in [survivors' \ {0} -> Jsons]
    BY <1>0, <2>1, <2>2
  <2>4. current' \in 0..MaxWrites /\ survivors' \in SUBSET (0..current') /\ current' # 0
    BY <1>0, <2>1, RunRecordAssumption
  <2>5. QED
    BY <1>0, <2>1, <2>3, <2>4
<1>7. CASE Harden
  <2>1. /\ survivors' = {current} /\ current' = current /\ reading' = reading
        /\ pc = "sync" /\ pc' = "return"
        /\ docs' = [m \in {current} \ {0} |-> docs[m]]
    BY <1>7 DEF Harden, Register!Harden, Keep
  <2>2. QED
    BY <1>0, <2>1
<1>8. CASE Flushed
  <2>1. pc = "return" /\ pc' \in {"wait", "ended"} /\ UNCHANGED <<current, survivors, reading, docs>>
    BY <1>8 DEF Flushed, Register!Acknowledge
  <2>2. QED
    BY <1>0, <2>1
<1>9. CASE Stop
  <2>1. pc' = "stopped" /\ reading' = 0 /\ UNCHANGED <<current, survivors, docs>>
    BY <1>9 DEF Stop, LoseMemory, Register!FinishRead, Register!None
  <2>2. QED
    BY <1>0, <2>1
<1>10. CASE PowerLoss
  <2>1. PICK s \in survivors : current' = s /\ survivors' = {s}
    BY <1>10 DEF PowerLoss, Register!LosePower
  <2>2. pc' = "stopped" /\ reading' = 0 /\ docs' = [m \in {current'} \ {0} |-> docs[m]]
    BY <1>10 DEF PowerLoss, LoseMemory, Register!LosePower, Register!None, Keep
  <2>3. current' \in 0..MaxWrites /\ survivors' \in SUBSET (0..current')
    BY <1>0, <2>1, RunRecordAssumption
  <2>4. docs' \in [survivors' \ {0} -> Jsons]
    BY <1>0, <2>1, <2>2
  <2>5. QED
    BY <2>1, <2>2, <2>3, <2>4
<1>11. CASE UNCHANGED vars
  BY <1>0, <1>11 DEF vars
<1>12. QED
  BY <1>1, <1>2, <1>3, <1>4, <1>5, <1>6, <1>7, <1>8, <1>9, <1>10, <1>11
  DEF Next, User, Drive

(* The sink, the process and its memory keep their types. *)
LEMMA MemoryStep == Types /\ [Next]_vars => MemoryInv'
<1> SUFFICES ASSUME Types, [Next]_vars PROVE MemoryInv'
  OBVIOUS
<1> USE DEF MemoryInv, work, session, Alive
<1>0. RegisterInv /\ MemoryInv
  BY DEF Types
<1>a. LoseMemory => /\ pc' = "stopped" /\ given' = NotGiven /\ release' \in Releases
                    /\ manifest' \in Manifests /\ todo' = {} /\ results' = {} /\ ran' = {}
  BY IdleMemory DEF LoseMemory, StartCounting
<1>1. CASE Generate
  <2>1. PICK call \in GenerateCalls :
          /\ given' = SchemaSha256(call.schema) /\ release' = call.release
          /\ manifest' = NewManifest(call.schema, call.release)
    BY <1>1 DEF Generate
  <2>2. call.schema \in SchemaDocuments /\ call.release \in Releases
    BY RunRecordAssumption
  <2>3. given' \in Hashes /\ release' \in Releases /\ manifest' \in Manifests
    BY <2>1, <2>2, NewManifestType DEF Hashes, SchemaSha256
  <2>4. /\ sink' = [c \in Chunks |-> {}] /\ pc' = "write" /\ todo' = Chunks
        /\ results' = {} /\ ran' = {} /\ stops' = stops
    BY <1>1 DEF Generate, StartCounting
  <2>5. QED
    BY <1>0, <2>3, <2>4
<1>2. CASE \E call \in ResumeCalls : StartResume(call)
  <2>1. PICK call \in ResumeCalls : StartResume(call)
    BY <1>2
  <2>2. call.schema \in SchemaDocuments \cup {NotGiven} /\ call.release \in Releases
    BY RunRecordAssumption
  <2>3. given' \in Hashes \cup {NotGiven} /\ release' \in Releases
    BY <2>1, <2>2 DEF StartResume, Hashes, SchemaSha256
  <2>4. QED
    BY <1>0, <2>1, <2>3 DEF StartResume
<1>3. CASE RefuseResume
  BY <1>0, <1>3, <1>a DEF RefuseResume
<1>4. CASE Resume
  <2> DEFINE read == FromJson(docs[reading])
             left == {c \in DOMAIN read.chunks : read.chunks[c] # "done"}
             state == IF left = {} THEN Verdict(read.chunks) ELSE "running"
  <2>1. docs[reading] \in Jsons
    BY <1>0, <1>4 DEF RegisterInv, Resume
  <2>2. read \in Manifests
    BY <2>1, FromJsonType
  <2>3. state \in Statuses
    BY VerdictType DEF Statuses
  <2>4. PICK v \in {read.dataipsum_version, release} :
          manifest' = [read EXCEPT !.dataipsum_version = v, !.status = state]
    BY <1>4 DEF Resume
  <2>5. v \in Releases
    BY <1>0, <2>2 DEF Manifests
  <2>6. todo' = left /\ left \in SUBSET Chunks
    BY <1>4, <2>2 DEF Resume, Manifests
  <2>7. pc' \in {"write", "wait"} /\ results' = {} /\ ran' = {} /\ UNCHANGED <<sink, session, stops>>
    BY <1>4 DEF Resume, StartCounting
  <2> HIDE DEF read, left, state
  <2>8. manifest' \in Manifests
    BY <2>2, <2>3, <2>4, <2>5 DEF Manifests
  <2>9. QED
    BY <1>0, <2>6, <2>7, <2>8
<1>5. CASE Execute
  <2>1. PICK c \in Chunks : RunChunk(c)
    BY <1>5 DEF Execute
  <2>2. PICK status \in ResultStatuses :
          /\ WriteChunk(c, status)
          /\ results' = results \cup {<<c, status>>}
          /\ ran' = IF status = "done" THEN ran \cup {c} ELSE ran
    BY <2>1 DEF RunChunk
  <2>3. [schema |-> manifest.schema_sha256, major |-> release[1]] \in Origins
    BY <1>0 DEF Origins, Manifests
  <2>4. sink' \in [Chunks -> SUBSET Origins]
    BY <1>0, <2>2, <2>3 DEF WriteChunk, Committed
  <2>5. todo' = todo \ {c} /\ UNCHANGED <<pc, session, manifest, stops>>
    BY <2>1 DEF RunChunk
  <2>6. QED
    BY <1>0, <2>2, <2>4, <2>5
<1>6. CASE \E c \in Chunks, status \in ResultStatuses : Record(c, status)
  <2>1. PICK c \in Chunks, status \in ResultStatuses : Record(c, status)
    BY <1>6
  <2> DEFINE last   == todo = {} /\ results = {<<c, status>>}
             chunks == [manifest.chunks EXCEPT ![c] = status]
             state  == IF last THEN Verdict(chunks) ELSE "running"
  <2>2. manifest' = [manifest EXCEPT !.chunks = chunks, !.status = state]
    BY <2>1 DEF Record
  <2>3. chunks \in [Chunks -> ChunkStatuses]
    BY <1>0, StatusesOfResults DEF Manifests
  <2>4. state \in Statuses
    BY VerdictType DEF Statuses
  <2>5. /\ pc' \in {"write", "wait"} /\ results' = results \ {<<c, status>>}
        /\ UNCHANGED <<sink, todo, ran, session, stops>>
    BY <2>1 DEF Record
  <2> HIDE DEF last, chunks, state
  <2>6. manifest' \in Manifests
    BY <1>0, <2>2, <2>3, <2>4 DEF Manifests
  <2>7. QED
    BY <1>0, <2>5, <2>6
<1>7. CASE Publish \/ Harden \/ Flushed
  BY <1>0, <1>7 DEF Publish, Harden, Flushed
<1>8. CASE Stop \/ PowerLoss
  <2>1. LoseMemory /\ sink' = sink /\ stops' \in 0..MaxStops
    BY <1>0, <1>8, RunRecordAssumption DEF Stop, PowerLoss
  <2>2. QED
    BY <1>0, <1>a, <2>1
<1>9. CASE UNCHANGED vars
  BY <1>0, <1>9 DEF vars
<1>10. QED
  BY <1>1, <1>2, <1>3, <1>4, <1>5, <1>6, <1>7, <1>8, <1>9 DEF Next, User, Drive

(* A result leaves the executor when it is counted, and a chunk its tasks    *)
(* when there is a result.                                                   *)
LEMMA CountStep == Types /\ [Next]_vars => CountInv'
<1> SUFFICES ASSUME Types, [Next]_vars PROVE CountInv'
  OBVIOUS
<1> USE DEF CountInv, work, session
<1>0. MemoryInv /\ CountInv
  BY DEF Types
<1>a. /\ Cardinality(todo) \in Nat /\ Cardinality(results) \in Nat /\ Cardinality(Chunks) \in Nat
      /\ IsFiniteSet(todo)
      /\ \A S \in SUBSET Chunks : Cardinality(S) \in Nat /\ Cardinality(S) <= Cardinality(Chunks)
  BY <1>0, FiniteChunks, FS_CardinalityType DEF MemoryInv
<1>b. Cardinality({}) = 0 /\ IsFiniteSet({})
  BY FS_EmptySet
<1>1. CASE Generate
  BY <1>1, <1>a, <1>b DEF Generate, StartCounting
<1>2. CASE \E call \in ResumeCalls : StartResume(call)
  BY <1>0, <1>2 DEF StartResume
<1>3. CASE RefuseResume \/ Stop \/ PowerLoss
  BY <1>3, <1>a, <1>b DEF RefuseResume, Stop, PowerLoss, LoseMemory, StartCounting
<1>4. CASE Resume
  <2>1. results' = {} /\ unflushed' = 0
    BY <1>4 DEF Resume, StartCounting
  <2>2. todo' \in SUBSET Chunks
    BY MemoryStep DEF MemoryInv
  <2>3. QED
    BY <2>1, <2>2, <1>a, <1>b
<1>5. CASE Execute
  <2>1. PICK c \in Chunks : RunChunk(c)
    BY <1>5 DEF Execute
  <2>2. PICK status \in ResultStatuses : results' = results \cup {<<c, status>>}
    BY <2>1 DEF RunChunk
  <2>3. c \in todo /\ todo' = todo \ {c} /\ unflushed' = unflushed
    BY <2>1 DEF RunChunk
  <2>4. Cardinality(todo') = Cardinality(todo) - 1
    BY <2>3, <1>a, FS_RemoveElement
  <2>5. IsFiniteSet(results') /\ Cardinality(results') \in {Cardinality(results), Cardinality(results) + 1}
    BY <2>2, <1>0, FS_AddElement
  <2>6. QED
    BY <1>0, <1>a, <2>3, <2>4, <2>5
<1>6. CASE \E c \in Chunks, status \in ResultStatuses : Record(c, status)
  <2>1. PICK c \in Chunks, status \in ResultStatuses : Record(c, status)
    BY <1>6
  <2>2. /\ <<c, status>> \in results /\ results' = results \ {<<c, status>>}
        /\ unflushed' = unflushed + 1 /\ todo' = todo
    BY <2>1 DEF Record
  <2>3. IsFiniteSet(results') /\ Cardinality(results') = Cardinality(results) - 1
    BY <2>2, <1>0, FS_RemoveElement
  <2>4. QED
    BY <1>0, <1>a, <2>2, <2>3
<1>7. CASE Publish \/ Harden
  BY <1>0, <1>7 DEF Publish, Harden
<1>8. CASE Flushed
  <2>1. unflushed' = 0 /\ UNCHANGED <<todo, results>>
    BY <1>8 DEF Flushed
  <2>2. QED
    BY <1>0, <1>a, <2>1
<1>9. CASE UNCHANGED vars
  BY <1>0, <1>9 DEF vars
<1>10. QED
  BY <1>1, <1>2, <1>3, <1>4, <1>5, <1>6, <1>7, <1>8, <1>9 DEF Next, User, Drive

(* Register, documents, memory and counters keep their types in every step. *)
THEOREM TypeInvariance == Spec => []Types
<1>1. Types /\ [Next]_vars => Types'
  BY RegisterStep, MemoryStep, CountStep DEF Types
<1>2. QED
  BY <1>1, TypesInitially, PTL DEF Spec

(* All variables keep their types, and what is on disk reads back as a       *)
(* manifest, whatever was written and lost.                                  *)
THEOREM TypeCorrect == Spec => []TypeOK
<1>1. Types => TypeOK
  <2> SUFFICES ASSUME Types PROVE TypeOK
    OBVIOUS
  <2>0. RegisterInv /\ MemoryInv /\ CountInv
    BY DEF Types
  <2>1. current \in 0..MaxWrites /\ survivors \subseteq 0..MaxWrites
    BY <2>0, RunRecordAssumption DEF RegisterInv
  <2>2. DOMAIN docs = (survivors \cup {current}) \ {0}
    BY <2>0 DEF RegisterInv
  <2>3. \A m \in DOMAIN docs : FromJson(docs[m]) \in Manifests
    BY <2>0, FromJsonType DEF RegisterInv
  <2>4. unflushed \in 0..Cardinality(Chunks)
    <3>1. Cardinality(todo) \in Nat /\ Cardinality(results) \in Nat /\ Cardinality(Chunks) \in Nat
      BY <2>0, FiniteChunks, FS_CardinalityType DEF MemoryInv, CountInv
    <3>2. QED
      BY <2>0, <3>1 DEF CountInv
  <2>5. QED
    BY <2>0, <2>1, <2>2, <2>3, <2>4 DEF TypeOK, MemoryInv
<1>2. QED
  BY <1>1, TypeInvariance, PTL

-----------------------------------------------------------------------------
(* Facts about the steps on which the arguments below agree.                 *)

(* A manifest that may survive a step is an old one or the one in memory. *)
LEMMA DocsKept ==
  ASSUME Types, [Next]_vars, NEW m \in survivors' \ {0}
  PROVE  \/ m \in survivors \ {0} /\ docs'[m] = docs[m]
         \/ Publish /\ docs'[m] = ToJson(manifest)
<1> USE DEF register
<1>0. RegisterInv
  BY DEF Types
<1>1. CASE Publish
  BY <1>1 DEF Publish, Register!Publish
<1>2. CASE Harden
  BY <1>0, <1>2 DEF Harden, Register!Harden, Keep, RegisterInv
<1>3. CASE PowerLoss
  BY <1>0, <1>3 DEF PowerLoss, Register!LosePower, Keep, RegisterInv
<1>4. CASE ~Publish /\ ~Harden /\ ~PowerLoss
  <2>1. survivors' = survivors /\ docs' = docs
    BY <1>4 DEF Next, User, Drive, Execute, Generate, StartResume, RefuseResume, Resume, RunChunk,
      Record, Flushed, Stop, Register!StartRead, Register!FinishRead, Register!Acknowledge, vars
  <2>2. QED
    BY <2>1
<1>5. QED
  BY <1>1, <1>2, <1>3, <1>4

(* A process that resumes goes on with the manifest it has read, which is the *)
(* current one, and has checked it.                                           *)
LEMMA Resumed ==
  ASSUME Types, Resume
  PROVE  /\ current \in survivors \ {0} /\ docs[current] \in Jsons
         /\ manifest'.chunks = docs[current].chunks
         /\ manifest'.schema_sha256 = docs[current].schema_sha256
         /\ manifest'.sink_options = docs[current].sink.options
         /\ manifest'.dataipsum_version \in {docs[current].dataipsum_version, release}
         /\ docs[current].dataipsum_version[1] = release[1]
         /\ given # NotGiven => docs[current].schema_sha256 = given
         /\ todo' = {c \in Chunks : docs[current].chunks[c] # "done"}
         /\ results' = {} /\ ran' = {} /\ unflushed' = 0
         /\ UNCHANGED <<sink, session, survivors, docs>>
<1> DEFINE read == FromJson(docs[reading])
           left == {c \in DOMAIN read.chunks : read.chunks[c] # "done"}
           state == IF left = {} THEN Verdict(read.chunks) ELSE "running"
<1>1. current \in survivors \ {0} /\ reading = current /\ docs[current] \in Jsons
  BY DEF Types, RegisterInv, Resume
<1>2. /\ read \in Manifests
      /\ read.chunks = docs[current].chunks
      /\ read.schema_sha256 = docs[current].schema_sha256
      /\ read.dataipsum_version = docs[current].dataipsum_version
      /\ read.sink_options = docs[current].sink.options
  BY <1>1, FromJsonType
<1>3. PICK v \in {read.dataipsum_version, release} :
        manifest' = [read EXCEPT !.dataipsum_version = v, !.status = state]
  BY DEF Resume
<1>4. /\ ~SchemaMismatch(read.schema_sha256, given)
      /\ ~VersionMismatch(read.dataipsum_version, release)
      /\ todo' = left
      /\ UNCHANGED <<sink, session, survivors, docs>>
  BY DEF Resume, Register!FinishRead
<1>5. results' = {} /\ ran' = {} /\ unflushed' = 0
  BY DEF Resume, StartCounting
<1>6. left = {c \in Chunks : docs[current].chunks[c] # "done"}
  BY <1>2 DEF Manifests
<1> HIDE DEF read, left, state
<1>7. /\ manifest'.chunks = read.chunks /\ manifest'.schema_sha256 = read.schema_sha256
      /\ manifest'.sink_options = read.sink_options /\ manifest'.dataipsum_version = v
  BY <1>2, <1>3 DEF Manifests
<1>8. QED
  BY <1>1, <1>2, <1>3, <1>4, <1>5, <1>6, <1>7 DEF SchemaMismatch, VersionMismatch, MajorVersion

(* Recording a result changes its chunk only. *)
LEMMA Recorded ==
  ASSUME Types, NEW c \in Chunks, NEW status \in ResultStatuses, Record(c, status)
  PROVE  /\ manifest'.chunks = [manifest.chunks EXCEPT ![c] = status]
         /\ manifest'.schema_sha256 = manifest.schema_sha256
         /\ manifest'.sink_options = manifest.sink_options
         /\ manifest'.dataipsum_version = manifest.dataipsum_version
<1> DEFINE chunks == [manifest.chunks EXCEPT ![c] = status]
           last   == todo = {} /\ results = {<<c, status>>}
           state  == IF last THEN Verdict(chunks) ELSE "running"
<1>1. manifest' = [manifest EXCEPT !.chunks = chunks, !.status = state]
  BY DEF Record
<1>2. manifest \in Manifests
  BY DEF Types, MemoryInv
<1> HIDE DEF chunks, last, state
<1>3. /\ manifest'.chunks = chunks
      /\ manifest'.schema_sha256 = manifest.schema_sha256
      /\ manifest'.sink_options = manifest.sink_options
      /\ manifest'.dataipsum_version = manifest.dataipsum_version
  BY <1>1, <1>2 DEF Manifests
<1>4. QED
  BY <1>3 DEF chunks

-----------------------------------------------------------------------------
(* What the executor holds and what the manifests say has been committed.    *)
ClaimInv ==
  /\ \A c \in Chunks : <<c, "done">> \in results => sink[c] # {}
  /\ \A m \in survivors \ {0}, c \in Chunks : docs[m].chunks[c] = "done" => sink[c] # {}
  /\ pc \in Alive => \A c \in Chunks : manifest.chunks[c] = "done" => sink[c] # {}

(* Nothing that was committed is taken back, unless there is no manifest.    *)
LEMMA SinkGrows ==
  ASSUME Types, [Next]_vars, ~Generate
  PROVE  \A c \in Chunks : sink[c] # {} => sink'[c] # {}
<1>1. CASE Execute
  <2>1. PICK c \in Chunks : RunChunk(c)
    BY <1>1 DEF Execute
  <2>2. PICK status \in ResultStatuses : WriteChunk(c, status)
    BY <2>1 DEF RunChunk
  <2>3. sink \in [Chunks -> SUBSET Origins]
    BY DEF Types, MemoryInv
  <2>4. QED
    BY <2>2, <2>3 DEF WriteChunk, Committed
<1>2. CASE ~Execute
  <2>1. sink' = sink
    BY <1>2 DEF Next, User, Drive, Stop, PowerLoss, StartResume, RefuseResume, Resume, Record,
      Publish, Harden, Flushed, vars, work
  <2>2. QED
    BY <2>1
<1>3. QED
  BY <1>1, <1>2

(* generate finds no manifest, and neither data nor results remain. *)
LEMMA NothingBefore ==
  ASSUME RegisterInv, Generate
  PROVE  /\ survivors = {0} /\ survivors' = survivors
         /\ results' = {} /\ sink' = [c \in Chunks |-> {}]
<1>1. /\ current = 0 /\ UNCHANGED register
      /\ results' = {} /\ sink' = [c \in Chunks |-> {}]
  BY DEF Generate, StartCounting
<1>2. (\A m \in survivors : m \in 0..0) /\ 0 \in survivors
  BY <1>1 DEF RegisterInv
<1>3. survivors = {0}
  <2>1. \A m \in 0..0 : m = 0
    OBVIOUS
  <2>2. QED
    BY <1>2, <2>1
<1>4. QED
  BY <1>1, <1>3 DEF register

(* Only a record of a committed chunk adds a claim, and only a write copies it. *)
LEMMA ClaimStep == Types /\ ClaimInv /\ [Next]_vars => ClaimInv'
<1> SUFFICES ASSUME Types, ClaimInv, [Next]_vars PROVE ClaimInv'
  OBVIOUS
<1> USE DEF ClaimInv, work, Alive
<1>0. RegisterInv /\ MemoryInv
  BY DEF Types
<1>1. CASE Generate
  <2>1. survivors = {0} /\ survivors' = survivors /\ results' = {}
    BY <1>0, <1>1, NothingBefore
  <2>2. PICK call \in GenerateCalls : manifest' = NewManifest(call.schema, call.release)
    BY <1>1 DEF Generate
  <2>3. call.schema \in SchemaDocuments /\ call.release \in Releases
    BY RunRecordAssumption
  <2>4. \A c \in Chunks : manifest'.chunks[c] = "pending"
    BY <2>2, <2>3, NewManifestType
  <2>5. QED
    BY <2>1, <2>4
<1>2. CASE ~Generate
  <2>0. \A c \in Chunks : sink[c] # {} => sink'[c] # {}
    BY <1>2, SinkGrows
  <2>1. \A c \in Chunks : <<c, "done">> \in results' => sink'[c] # {}
    <3>1. CASE Execute
      <4>1. PICK d \in Chunks : RunChunk(d)
        BY <3>1 DEF Execute
      <4>2. PICK status \in ResultStatuses :
              WriteChunk(d, status) /\ results' = results \cup {<<d, status>>}
        BY <4>1 DEF RunChunk
      <4>3. status = "done" => sink'[d] # {}
        BY <1>0, <4>2 DEF WriteChunk, Committed, MemoryInv
      <4>4. QED
        BY <2>0, <4>2, <4>3
    <3>2. CASE ~Execute
      <4>1. results' \subseteq results
        BY <1>2, <3>2 DEF Next, User, Drive, Stop, PowerLoss, StartResume, RefuseResume, Resume,
          Record, Publish, Harden, Flushed, LoseMemory, StartCounting, vars
      <4>2. QED
        BY <2>0, <4>1
    <3>3. QED
      BY <3>1, <3>2
  <2>2. ASSUME NEW m \in survivors' \ {0}, NEW c \in Chunks, docs'[m].chunks[c] = "done"
        PROVE  sink'[c] # {}
    <3>1. CASE m \in survivors \ {0} /\ docs'[m] = docs[m]
      BY <2>0, <2>2, <3>1
    <3>2. CASE Publish /\ docs'[m] = ToJson(manifest)
      <4>1. manifest.chunks[c] = "done" /\ pc \in Alive
        BY <1>0, <2>2, <3>2, ToJsonType DEF MemoryInv, Publish
      <4>2. QED
        BY <2>0, <4>1
    <3>3. QED
      BY <3>1, <3>2, DocsKept
  <2>3. ASSUME pc' \in Alive, NEW c \in Chunks, manifest'.chunks[c] = "done"
        PROVE  sink'[c] # {}
    <3>1. CASE Resume
      BY <2>0, <2>3, <3>1, Resumed
    <3>2. CASE \E d \in Chunks, status \in ResultStatuses : Record(d, status)
      <4>1. PICK d \in Chunks, status \in ResultStatuses : Record(d, status)
        BY <3>2
      <4>2. pc = "wait" /\ <<d, status>> \in results
        BY <4>1 DEF Record
      <4>3. manifest.chunks \in [Chunks -> ChunkStatuses]
        BY <1>0 DEF MemoryInv, Manifests
      <4>4. IF c = d THEN status = "done" ELSE manifest.chunks[c] = "done"
        <5>1. manifest'.chunks = [manifest.chunks EXCEPT ![d] = status]
          BY <4>1, Recorded
        <5>2. manifest'.chunks[c] = IF c = d THEN status ELSE manifest.chunks[c]
          BY <4>3, <5>1
        <5>3. QED
          BY <2>3, <5>2
      <4>5. QED
        BY <2>0, <4>2, <4>4
    <3>3. CASE RefuseResume \/ Stop \/ PowerLoss \/ \E call \in ResumeCalls : StartResume(call)
      BY <2>3, <3>3 DEF RefuseResume, Stop, PowerLoss, StartResume, LoseMemory
    <3>4. CASE Execute \/ Publish \/ Harden \/ Flushed \/ UNCHANGED vars
      <4>1. manifest' = manifest /\ pc \in Alive
        BY <2>3, <3>4 DEF Execute, RunChunk, Publish, Harden, Flushed, vars
      <4>2. QED
        BY <2>0, <2>3, <4>1
    <3>5. QED
      BY <1>2, <3>1, <3>2, <3>3, <3>4 DEF Next, User, Drive
  <2>4. QED
    BY <2>1, <2>2, <2>3
<1>3. QED
  BY <1>1, <1>2

(* A manifest that may be found claims no chunk whose data are not           *)
(* committed, for any plan, policy and order of results, and however often   *)
(* processes and machine stop: resume leaves out nothing that is missing.    *)
THEOREM ClaimsAreTrue == Spec => []NothingOverclaimed
<1>1. Init => ClaimInv
  BY DEF Init, ClaimInv, Register!Init, Register!None, Alive
<1>2. Types /\ ClaimInv => NothingOverclaimed
  BY DEF ClaimInv, NothingOverclaimed, Types, RegisterInv
<1>3. QED
  BY <1>1, <1>2, TypeInvariance, ClaimStep, PTL DEF Spec
-----------------------------------------------------------------------------
(* What is on disk and in the sink is all of one schema and major version.   *)
Agree(schema, major) ==
  /\ \A m \in survivors \ {0} :
       docs[m].schema_sha256 = schema /\ docs[m].dataipsum_version[1] = major
  /\ \A c \in Chunks : \A origin \in sink[c] : origin.schema = schema /\ origin.major = major

OriginInv ==
  /\ \E schema, major : Agree(schema, major)
  /\ pc \in Alive =>
       /\ Agree(manifest.schema_sha256, release[1])
       /\ manifest.dataipsum_version[1] = release[1]
       /\ given # NotGiven => manifest.schema_sha256 = given

(* The process in progress does not change what its manifest is about. *)
LEMMA SameRun ==
  ASSUME Types, [Next]_vars, pc \in Alive, pc' \in Alive
  PROVE  /\ manifest'.schema_sha256 = manifest.schema_sha256
         /\ manifest'.dataipsum_version = manifest.dataipsum_version
         /\ manifest'.sink_options = manifest.sink_options
         /\ UNCHANGED <<given, release>>
<1> USE DEF session, Alive
<1>1. CASE \E c \in Chunks, status \in ResultStatuses : Record(c, status)
  BY <1>1, Recorded DEF Record
<1>2. CASE Execute \/ Publish \/ Harden \/ Flushed \/ UNCHANGED vars
  BY <1>2 DEF Execute, RunChunk, Publish, Harden, Flushed, vars
<1>3. CASE User \/ Stop \/ PowerLoss
  BY <1>3 DEF User, Generate, StartResume, RefuseResume, Resume, Stop, PowerLoss, LoseMemory
<1>4. QED
  BY <1>1, <1>2, <1>3 DEF Next, Drive

(* A resume that is not refused agrees with what was committed before it. *)
LEMMA OriginStep == Types /\ OriginInv /\ [Next]_vars => OriginInv'
<1> SUFFICES ASSUME Types, OriginInv, [Next]_vars PROVE OriginInv'
  OBVIOUS
<1> USE DEF OriginInv
<1>0. RegisterInv /\ MemoryInv
  BY DEF Types
<1>1. CASE Generate
  <2>1. /\ survivors' = {0} /\ sink' = [c \in Chunks |-> {}]
    BY <1>0, <1>1, NothingBefore
  <2>2. Agree(manifest.schema_sha256, release[1])'
    BY <2>1 DEF Agree
  <2>3. PICK call \in GenerateCalls :
          /\ given' = SchemaSha256(call.schema) /\ release' = call.release
          /\ manifest' = NewManifest(call.schema, call.release)
    BY <1>1 DEF Generate
  <2>4. call.schema \in SchemaDocuments /\ call.release \in Releases
    BY RunRecordAssumption
  <2>5. manifest'.schema_sha256 = given' /\ manifest'.dataipsum_version = release'
    BY <2>3, <2>4, NewManifestType
  <2>6. QED
    BY <2>2, <2>5
<1>2. CASE Resume
  <2>1. PICK schema, major : Agree(schema, major)
    OBVIOUS
  <2>2. Agree(schema, major)'
    BY <1>2, <2>1, Resumed DEF Agree
  <2>3. schema = manifest'.schema_sha256 /\ major = release'[1]
    BY <1>2, <2>1, Resumed DEF Agree, session
  <2>4. Agree(manifest.schema_sha256, release[1])'
    BY <2>2, <2>3 DEF Agree
  <2>5. manifest'.dataipsum_version[1] = release'[1]
    BY <1>2, Resumed DEF session
  <2>6. given' # NotGiven => manifest'.schema_sha256 = given'
    BY <1>2, Resumed DEF session
  <2>7. QED
    BY <2>4, <2>5, <2>6
<1>3. CASE pc \in Alive /\ ~Generate /\ ~Resume
  <2>0. PICK s, r : s = manifest.schema_sha256 /\ r = release[1]
    OBVIOUS
  <2>1. Agree(s, r) /\ manifest.dataipsum_version[1] = r
    BY <1>3, <2>0
  <2>2. ASSUME NEW m \in survivors' \ {0}
        PROVE  docs'[m].schema_sha256 = s /\ docs'[m].dataipsum_version[1] = r
    BY <1>0, <2>0, <2>1, <2>2, DocsKept, ToJsonType DEF Agree, MemoryInv
  <2>3. ASSUME NEW c \in Chunks, NEW origin \in sink'[c]
        PROVE  origin.schema = s /\ origin.major = r
    <3>1. CASE Execute
      <4>1. PICK d \in Chunks : RunChunk(d)
        BY <3>1 DEF Execute
      <4>2. PICK status \in ResultStatuses : WriteChunk(d, status)
        BY <4>1 DEF RunChunk
      <4>3. origin \in sink[c] \/ origin = [schema |-> s, major |-> r]
        BY <1>0, <2>0, <2>3, <4>2 DEF WriteChunk, Committed, MemoryInv
      <4>4. QED
        BY <2>1, <4>3 DEF Agree
    <3>2. CASE ~Execute
      <4>1. sink' = sink
        BY <1>3, <3>2 DEF Next, User, Drive, Stop, PowerLoss, StartResume, RefuseResume, Record,
          Publish, Harden, Flushed, vars, work
      <4>2. QED
        BY <2>1, <2>3, <4>1 DEF Agree
    <3>3. QED
      BY <3>1, <3>2
  <2>4. Agree(s, r)'
    BY <2>2, <2>3 DEF Agree
  <2>5. pc' \in Alive =>
          /\ manifest'.schema_sha256 = s /\ release'[1] = r
          /\ manifest'.dataipsum_version[1] = r
          /\ given' # NotGiven => s = given'
    BY <1>3, <2>0, <2>1, SameRun
  <2>7. pc' \in Alive => Agree(manifest.schema_sha256, release[1])'
    BY <2>4, <2>5 DEF Agree
  <2>8. QED
    BY <2>4, <2>5, <2>7
<1>4. CASE pc \notin Alive /\ ~Generate /\ ~Resume
  <2>1. PICK schema, major : Agree(schema, major)
    OBVIOUS
  <2>2. sink' = sink /\ ~Publish /\ pc' \notin Alive
    BY <1>4 DEF Next, User, Drive, Execute, RunChunk, Record, Publish, Harden, Flushed, Stop, PowerLoss,
      StartResume, RefuseResume, LoseMemory, vars, work, Alive
  <2>3. Agree(schema, major)'
    BY <2>1, <2>2, DocsKept DEF Agree
  <2>4. QED
    BY <2>2, <2>3
<1>5. QED
  BY <1>1, <1>2, <1>3, <1>4

(* However many processes and releases contribute to a run, its data are of  *)
(* one schema and one major version, the ones that each of them was told.    *)
THEOREM DataHaveOneOrigin == Spec => []OneOrigin
<1>1. Init => OriginInv
  <2> SUFFICES ASSUME Init PROVE OriginInv
    OBVIOUS
  <2>1. Agree(0, 0)
    BY DEF Init, Agree, Register!Init, Register!None
  <2>2. pc \notin Alive
    BY DEF Init, Alive
  <2>3. QED
    BY <2>1, <2>2 DEF OriginInv
<1>2. OriginInv => OneOrigin
  BY DEF OriginInv, OneOrigin, Agree
<1>3. QED
  BY <1>1, <1>2, TypeInvariance, OriginStep, PTL DEF Spec
-----------------------------------------------------------------------------
(* Sanitising what has been sanitised changes nothing, so that reading a     *)
(* manifest and writing it again keeps the options.                          *)
Needed == (OptionKeys \ SecretKeys) \cup EnvKeys

OptionInv ==
  /\ \A m \in survivors \ {0} : /\ Needed \subseteq docs[m].sink.options
                                /\ docs[m].sink.options \cap (SecretKeys \ EnvKeys) = {}
  /\ pc \in Alive => Needed \subseteq manifest.sink_options

(* Options only lose secrets, and only on their way into a document. *)
LEMMA OptionStep == Types /\ OptionInv /\ [Next]_vars => OptionInv'
<1> SUFFICES ASSUME Types, OptionInv, [Next]_vars PROVE OptionInv'
  OBVIOUS
<1> USE DEF OptionInv
<1>1. ASSUME NEW m \in survivors' \ {0}
      PROVE  /\ Needed \subseteq docs'[m].sink.options
             /\ docs'[m].sink.options \cap (SecretKeys \ EnvKeys) = {}
  <2>1. CASE m \in survivors \ {0} /\ docs'[m] = docs[m]
    BY <2>1
  <2>2. CASE Publish /\ docs'[m] = ToJson(manifest)
    <3>1. Needed \subseteq manifest.sink_options /\ manifest \in Manifests
      BY <2>2 DEF Publish, Alive, Types, MemoryInv
    <3>2. docs'[m].sink.options = SanitizeSinkOptions(manifest.sink_options)
      BY <2>2, <3>1, ToJsonType
    <3>3. QED
      BY <3>1, <3>2 DEF SanitizeSinkOptions, Needed
  <2>3. QED
    BY <1>1, <2>1, <2>2, DocsKept
<1>2. ASSUME pc' \in Alive PROVE Needed \subseteq manifest'.sink_options
  <2>1. CASE Generate
    <3>1. PICK call \in GenerateCalls : manifest' = NewManifest(call.schema, call.release)
      BY <2>1 DEF Generate
    <3>2. call.schema \in SchemaDocuments /\ call.release \in Releases
      BY RunRecordAssumption
    <3>3. manifest'.sink_options = OptionKeys
      BY <3>1, <3>2, NewManifestType
    <3>4. QED
      BY <3>3, RunRecordAssumption DEF Needed
  <2>2. CASE Resume
    BY <2>2, Resumed
  <2>3. CASE ~Generate /\ ~Resume
    <3>1. pc \in Alive
      BY <1>2, <2>3 DEF Next, User, Drive, Execute, RunChunk, Record, Publish, Harden, Flushed, Stop,
        PowerLoss, StartResume, RefuseResume, LoseMemory, vars, Alive
    <3>2. QED
      BY <1>2, <3>1, SameRun
  <2>4. QED
    BY <2>1, <2>2, <2>3
<1>3. QED
  BY <1>1, <1>2

(* No manifest on disk holds a secret of the sink's options, and no number   *)
(* of writes and resumes loses a plain option or the name of a variable.     *)
THEOREM OptionsAreKept == Spec => []OptionsSurvive
<1>1. Init => OptionInv
  BY DEF Init, OptionInv, Register!Init, Register!None, Alive
<1>2. Types /\ OptionInv => OptionsSurvive
  BY DEF OptionInv, OptionsSurvive, Needed, Types, RegisterInv
<1>3. QED
  BY <1>1, <1>2, TypeInvariance, OptionStep, PTL DEF Spec

-----------------------------------------------------------------------------
(* A chunk has one result at a time, and what it says is what was done.      *)
OnceInv ==
  /\ \A c \in todo : c \notin ran /\ \A status : <<c, status>> \notin results
  /\ \A c \in Chunks, status \in ResultStatuses :
       <<c, status>> \in results /\ status # "done" => c \notin ran
  /\ pc \in Alive => \A c \in todo : manifest.chunks[c] # "done"
  /\ pc \in Alive => \A c \in ran : manifest.chunks[c] = "done" \/ <<c, "done">> \in results

(* A chunk is to be run, held by the executor or recorded: never two of them. *)
LEMMA OnceStep == Types /\ OnceInv /\ [Next]_vars => OnceInv'
<1> SUFFICES ASSUME Types, OnceInv, [Next]_vars PROVE OnceInv'
  OBVIOUS
<1> USE DEF OnceInv, work, Alive
<1>0. MemoryInv
  BY DEF Types
<1>1. CASE Generate
  <2>1. results' = {} /\ ran' = {} /\ todo' = Chunks
    BY <1>1 DEF Generate, StartCounting
  <2>2. PICK call \in GenerateCalls : manifest' = NewManifest(call.schema, call.release)
    BY <1>1 DEF Generate
  <2>3. call.schema \in SchemaDocuments /\ call.release \in Releases
    BY RunRecordAssumption
  <2>4. \A c \in Chunks : manifest'.chunks[c] = "pending"
    BY <2>2, <2>3, NewManifestType
  <2>5. QED
    BY <2>1, <2>4
<1>2. CASE Resume
  BY <1>2, Resumed
<1>3. CASE Execute
  <2>1. PICK c \in Chunks : RunChunk(c)
    BY <1>3 DEF Execute
  <2>2. PICK status \in ResultStatuses :
          /\ results' = results \cup {<<c, status>>}
          /\ ran' = IF status = "done" THEN ran \cup {c} ELSE ran
    BY <2>1 DEF RunChunk
  <2>3. c \in todo /\ todo' = todo \ {c} /\ manifest' = manifest /\ pc' = pc
    BY <2>1 DEF RunChunk
  <2>4. QED
    BY <2>2, <2>3
<1>4. CASE \E c \in Chunks, status \in ResultStatuses : Record(c, status)
  <2>1. PICK c \in Chunks, status \in ResultStatuses : Record(c, status)
    BY <1>4
  <2>2. /\ <<c, status>> \in results /\ results' = results \ {<<c, status>>}
        /\ todo' = todo /\ ran' = ran /\ pc = "wait"
    BY <2>1 DEF Record
  <2>3. c \notin todo /\ (status # "done" => c \notin ran)
    BY <2>2
  <2>4. \A d \in Chunks : manifest'.chunks[d] = IF d = c THEN status ELSE manifest.chunks[d]
    <3>1. manifest'.chunks = [manifest.chunks EXCEPT ![c] = status]
      BY <2>1, Recorded
    <3>2. manifest.chunks \in [Chunks -> ChunkStatuses]
      BY <1>0 DEF MemoryInv, Manifests
    <3>3. QED
      BY <3>1, <3>2
  <2>5. ASSUME NEW d \in ran PROVE manifest'.chunks[d] = "done" \/ <<d, "done">> \in results'
    <3>1. d \in Chunks
      BY <1>0 DEF MemoryInv
    <3>2. manifest.chunks[d] = "done" \/ <<d, "done">> \in results
      BY <2>2
    <3>3. CASE d = c
      BY <2>3, <2>4, <3>1, <3>3
    <3>4. CASE d # c
      BY <2>2, <2>4, <3>1, <3>2, <3>4
    <3>5. QED
      BY <3>3, <3>4
  <2>6. \A d \in todo : manifest'.chunks[d] # "done"
    BY <1>0, <2>2, <2>3, <2>4 DEF MemoryInv
  <2>7. QED
    BY <2>2, <2>5, <2>6
<1>5. CASE RefuseResume \/ Stop \/ PowerLoss
  BY <1>5 DEF RefuseResume, Stop, PowerLoss, LoseMemory, StartCounting
<1>6. CASE \E call \in ResumeCalls : StartResume(call)
  BY <1>6 DEF StartResume
<1>7. CASE Publish \/ Harden \/ Flushed \/ UNCHANGED vars
  BY <1>7 DEF Publish, Harden, Flushed, vars
<1>8. QED
  BY <1>1, <1>2, <1>3, <1>4, <1>5, <1>6, <1>7 DEF Next, User, Drive
-----------------------------------------------------------------------------
(* Chunks of this process that the manifest in memory has and m has not: no  *)
(* more than the policy has been told of since the last flush.               *)
Unwritten(m) == {c \in ran : manifest.chunks[c] = "done" /\ docs[m].chunks[c] # "done"}

LossInv ==
  pc \in Alive =>
    /\ Cardinality(results) <= Concurrency
    /\ IF pc = "wait" THEN unflushed < ChunkBatchSize ELSE unflushed <= ChunkBatchSize
    /\ pc \in {"sync", "return"} => docs[current].chunks = manifest.chunks
    /\ \A m \in survivors \ {0} : Cardinality(Unwritten(m)) <= unflushed

(* What a manifest misses can be counted. *)
LEMMA UnwrittenFinite ==
  ASSUME Types
  PROVE  \A m : IsFiniteSet(Unwritten(m)) /\ Cardinality(Unwritten(m)) \in Nat
<1>1. \A m : Unwritten(m) \in SUBSET Chunks
  BY DEF Types, MemoryInv, Unwritten
<1>2. QED
  BY <1>1, FiniteChunks

(* A record makes a manifest miss one chunk more, and counts one more. *)
LEMMA LossOfRecord ==
  ASSUME Types, OnceInv, LossInv, Types', NEW c \in Chunks, NEW status \in ResultStatuses,
         Record(c, status)
  PROVE  LossInv'
<1> USE DEF Alive
<1>1. /\ pc = "wait" /\ <<c, status>> \in results /\ results' = results \ {<<c, status>>}
      /\ unflushed' = unflushed + 1 /\ ran' = ran
      /\ UNCHANGED <<survivors, docs>>
  BY DEF Record, register
<1>2. manifest'.chunks = [manifest.chunks EXCEPT ![c] = status]
      /\ manifest.chunks \in [Chunks -> ChunkStatuses] /\ ran \subseteq Chunks
  BY Recorded DEF Types, MemoryInv, Manifests
<1>3. unflushed \in Nat /\ unflushed < ChunkBatchSize /\ ChunkBatchSize \in Nat
  BY <1>1, RunRecordAssumption DEF LossInv, Types, CountInv
<1>4. Cardinality(results') <= Concurrency
  <2>1. IsFiniteSet(results) /\ Cardinality(results) \in Nat
    BY FS_CardinalityType DEF Types, CountInv
  <2>2. Cardinality(results') = Cardinality(results) - 1
    BY <1>1, <2>1, FS_RemoveElement
  <2>3. QED
    BY <1>1, <2>1, <2>2, RunRecordAssumption DEF LossInv
<1>5. pc' \in {"write", "wait"} /\ (pc' = "wait" => unflushed' < ChunkBatchSize)
  <2> DEFINE last == todo = {} /\ results = {<<c, status>>}
  <2>1. PICK seconds \in 0..IntervalSeconds :
          pc' = IF ShouldFlush(unflushed + 1, seconds, last) THEN "write" ELSE "wait"
    BY DEF Record
  <2>2. ~ShouldFlush(unflushed + 1, seconds, last) => unflushed + 1 < ChunkBatchSize
    BY <1>3 DEF ShouldFlush
  <2> HIDE DEF last
  <2>3. QED
    BY <1>1, <2>1, <2>2
<1>6. ASSUME NEW m \in survivors' \ {0}
      PROVE  Cardinality(Unwritten(m))' <= unflushed'
  <2>1. Unwritten(m)' \subseteq Unwritten(m) \cup {c}
    BY <1>1, <1>2 DEF Unwritten
  <2>2. IsFiniteSet(Unwritten(m)) /\ Cardinality(Unwritten(m)) \in Nat
    BY UnwrittenFinite
  <2>3. /\ IsFiniteSet(Unwritten(m) \cup {c})
        /\ Cardinality(Unwritten(m) \cup {c}) \in {Cardinality(Unwritten(m)), Cardinality(Unwritten(m)) + 1}
    BY <2>2, FS_AddElement
  <2>4. Cardinality(Unwritten(m)') <= Cardinality(Unwritten(m) \cup {c}) /\ Cardinality(Unwritten(m)') \in Nat
    BY <2>1, <2>3, FS_Subset, FS_CardinalityType
  <2>5. Cardinality(Unwritten(m)) <= unflushed
    BY <1>1, <1>6 DEF LossInv
  <2>6. QED
    BY <1>1, <1>3, <2>2, <2>3, <2>4, <2>5
<1>7. QED
  BY <1>1, <1>3, <1>4, <1>5, <1>6 DEF LossInv

(* Where a process begins, nothing of it is missing. *)
LEMMA LossAtStart ==
  ASSUME results' = {}, ran' = {}, unflushed' = 0, pc' \in {"write", "wait"}
  PROVE  LossInv'
<1>1. \A m : Unwritten(m)' = {}
  BY DEF Unwritten
<1>2. \A m \in survivors' \ {0} : Cardinality(Unwritten(m))' <= unflushed'
  BY <1>1, FS_EmptySet
<1>3. /\ unflushed' + 0 <= ChunkBatchSize
      /\ unflushed' < ChunkBatchSize
  BY RunRecordAssumption
<1>4. Cardinality(results') = 0 /\ Cardinality(results') <= Concurrency
  BY FS_EmptySet, RunRecordAssumption
<1>5. QED
  BY <1>2, <1>3, <1>4 DEF LossInv, Alive

(* Every step keeps the count of what is missed. *)
LEMMA LossStep == Types /\ Types' /\ OnceInv /\ LossInv /\ [Next]_vars => LossInv'
<1> SUFFICES ASSUME Types, Types', OnceInv, LossInv, [Next]_vars PROVE LossInv'
  OBVIOUS
<1> USE DEF Alive, work
<1>0. RegisterInv /\ MemoryInv /\ CountInv
  BY DEF Types
<1>1. CASE Generate
  BY <1>1, LossAtStart DEF Generate, StartCounting
<1>2. CASE Resume
  <2>1. pc' \in {"write", "wait"}
    BY <1>2 DEF Resume
  <2>2. QED
    BY <1>2, <2>1, Resumed, LossAtStart
<1>3. CASE Execute
  <2>1. PICK c \in Chunks : RunChunk(c)
    BY <1>3 DEF Execute
  <2>2. PICK status \in ResultStatuses :
          /\ results' = results \cup {<<c, status>>}
          /\ ran' = IF status = "done" THEN ran \cup {c} ELSE ran
    BY <2>1 DEF RunChunk
  <2>3. /\ c \in todo /\ pc \in Alive /\ Cardinality(results) < Concurrency
        /\ UNCHANGED <<pc, manifest, unflushed, docs, survivors, current>>
    BY <2>1 DEF RunChunk, register
  <2>4. manifest.chunks[c] # "done"
    BY <2>3 DEF OnceInv
  <2>5. \A m : Unwritten(m)' = Unwritten(m)
    BY <2>2, <2>3, <2>4 DEF Unwritten
  <2>6. Cardinality(results') \in {Cardinality(results), Cardinality(results) + 1}
    BY <1>0, <2>2, FS_AddElement DEF CountInv
  <2>7. Cardinality(results) \in Nat
    BY <1>0, FS_CardinalityType DEF CountInv
  <2>8. Cardinality(results') <= Concurrency
    BY <2>3, <2>6, <2>7, RunRecordAssumption
  <2>9. QED
    BY <2>3, <2>5, <2>8 DEF LossInv
<1>4. CASE \E c \in Chunks, status \in ResultStatuses : Record(c, status)
  BY <1>4, LossOfRecord
<1>5. CASE Publish
  <2>1. /\ pc = "write" /\ pc' = "sync" /\ current' = current + 1
        /\ survivors' = survivors \cup {current + 1}
        /\ docs' = [m \in (survivors \cup {current + 1}) \ {0} |->
                      IF m = current + 1 THEN ToJson(manifest) ELSE docs[m]]
        /\ UNCHANGED <<manifest, unflushed, ran, results>>
    BY <1>5 DEF Publish, Register!Publish
  <2>2. ToJson(manifest).chunks = manifest.chunks
    BY <1>0, ToJsonType DEF MemoryInv
  <2>3. current' # 0 /\ docs'[current'] = ToJson(manifest)
    BY <1>0, <2>1 DEF RegisterInv
  <2>4. ASSUME NEW m \in survivors' \ {0} PROVE Cardinality(Unwritten(m))' <= unflushed'
    <3>1. CASE m = current'
      <4>1. Unwritten(m)' = {}
        BY <2>1, <2>2, <2>3, <3>1 DEF Unwritten
      <4>2. QED
        BY <1>0, <2>1, <4>1, FS_EmptySet DEF CountInv
    <3>2. CASE m # current'
      <4>1. m \in survivors \ {0} /\ docs'[m] = docs[m]
        BY <2>1, <2>4, <3>2
      <4>2. Unwritten(m)' = Unwritten(m)
        BY <2>1, <4>1 DEF Unwritten
      <4>3. QED
        BY <2>1, <4>1, <4>2 DEF LossInv
    <3>3. QED
      BY <3>1, <3>2
  <2>5. QED
    BY <2>1, <2>2, <2>3, <2>4 DEF LossInv
<1>6. CASE Harden
  <2>1. /\ pc = "sync" /\ pc' = "return" /\ current' = current /\ survivors' = {current}
        /\ docs' = [m \in {current} \ {0} |-> docs[m]]
        /\ UNCHANGED <<manifest, unflushed, ran, results>>
    BY <1>6 DEF Harden, Register!Harden, Keep
  <2>2. current \in survivors \ {0} /\ docs'[current] = docs[current]
    BY <1>0, <2>1 DEF RegisterInv
  <2>3. Unwritten(current)' = Unwritten(current)
    BY <2>1, <2>2 DEF Unwritten
  <2>4. QED
    BY <2>1, <2>2, <2>3 DEF LossInv
<1>7. CASE Flushed
  <2>1. /\ pc = "return" /\ pc' \in {"wait", "ended"} /\ unflushed' = 0
        /\ UNCHANGED <<current, survivors, docs, manifest, ran, results>>
    BY <1>7 DEF Flushed, Register!Acknowledge
  <2>2. survivors = {current} /\ docs[current].chunks = manifest.chunks
    BY <1>0, <2>1 DEF RegisterInv, LossInv
  <2>3. Unwritten(current)' = {}
    BY <2>1, <2>2 DEF Unwritten
  <2>4. QED
    BY <2>1, <2>2, <2>3, FS_EmptySet, RunRecordAssumption DEF LossInv
<1>8. CASE RefuseResume \/ Stop \/ PowerLoss \/ \E call \in ResumeCalls : StartResume(call)
  BY <1>8 DEF RefuseResume, Stop, PowerLoss, StartResume, LoseMemory, LossInv
<1>9. CASE UNCHANGED vars
  <2>1. \A m : Unwritten(m)' = Unwritten(m)
    BY <1>9 DEF vars, Unwritten
  <2>2. QED
    BY <1>9, <2>1 DEF vars, register, LossInv
<1>10. QED
  BY <1>1, <1>2, <1>3, <1>4, <1>5, <1>6, <1>7, <1>8, <1>9 DEF Next, User, Drive

(* A crash at any moment loses what the executor holds and less than a       *)
(* batch, or a batch while it is written, for any plan, policy, concurrency  *)
(* and history of stops.                                                     *)
THEOREM LossesAreBounded == Spec => []LossIsBounded
<1>1. Init => OnceInv /\ LossInv
  BY DEF Init, OnceInv, LossInv, Alive
<1>2. Types /\ OnceInv /\ LossInv => LossIsBounded
  <2> SUFFICES ASSUME Types, OnceInv, LossInv, pc \in Alive, NEW m \in survivors \ {0}
               PROVE  Cardinality({c \in ran : docs[m].chunks[c] # "done"})
                        <= Concurrency + (IF pc = "wait" THEN ChunkBatchSize - 1 ELSE ChunkBatchSize)
    BY DEF LossIsBounded
  <2> DEFINE missed == {c \in ran : docs[m].chunks[c] # "done"}
             held   == {c \in ran : <<c, "done">> \in results}
             f      == [c \in held |-> <<c, "done">>]
  <2>1. missed \subseteq Unwritten(m) \cup held
    BY DEF OnceInv, Unwritten
  <2>2. IsFiniteSet(results) /\ Cardinality(results) \in Nat /\ Cardinality(results) <= Concurrency
    BY FS_CardinalityType DEF Types, CountInv, LossInv
  <2>3. f \in Injection(held, results)
    BY DEF Injection, IsInjective
  <2>4. IsFiniteSet(held) /\ Cardinality(held) \in Nat /\ Cardinality(held) <= Cardinality(results)
    BY <2>2, <2>3, FS_Injection, FS_CardinalityType
  <2>5. IsFiniteSet(Unwritten(m)) /\ Cardinality(Unwritten(m)) \in Nat /\ Cardinality(Unwritten(m)) <= unflushed
    BY UnwrittenFinite DEF LossInv
  <2> HIDE DEF missed, held, f
  <2>6. /\ IsFiniteSet(Unwritten(m) \cup held)
        /\ Cardinality(Unwritten(m) \cup held) <= Cardinality(Unwritten(m)) + Cardinality(held)
    <3>1. /\ IsFiniteSet(Unwritten(m) \cup held)
          /\ Cardinality(Unwritten(m) \cup held) =
               Cardinality(Unwritten(m)) + Cardinality(held) - Cardinality(Unwritten(m) \cap held)
      BY <2>4, <2>5, FS_Union
    <3>2. Cardinality(Unwritten(m) \cap held) \in Nat
      BY <2>4, FS_Subset, FS_CardinalityType
    <3>3. QED
      BY <2>4, <2>5, <3>1, <3>2
  <2>7. Cardinality(missed) <= Cardinality(Unwritten(m) \cup held)
        /\ Cardinality(missed) \in Nat /\ Cardinality(Unwritten(m) \cup held) \in Nat
    BY <2>1, <2>6, FS_Subset, FS_CardinalityType
  <2>8. unflushed \in Nat /\ unflushed <= IF pc = "wait" THEN ChunkBatchSize - 1 ELSE ChunkBatchSize
    BY RunRecordAssumption DEF LossInv, Types, CountInv
  <2>9. Cardinality(missed) <= Concurrency + (IF pc = "wait" THEN ChunkBatchSize - 1 ELSE ChunkBatchSize)
    BY <2>2, <2>4, <2>5, <2>6, <2>7, <2>8, RunRecordAssumption
  <2>10. QED
    BY <2>9 DEF missed
<1>3. QED
  BY <1>1, <1>2, TypeInvariance, OnceStep, LossStep, PTL DEF Spec
=============================================================================
