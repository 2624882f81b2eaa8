------------------------ MODULE ManifestStoreProofs ------------------------
(***************************************************************************)
(* Theorems of ManifestStore for every number of writes: the type          *)
(* invariant, the integrity and the durability of _manifest.json, and the  *)
(* implementation of ManifestRegister.                                     *)
(*                                                                         *)
(* Neither safety invariant is inductive: both depend on how far the call  *)
(* in progress has come.  WholeInv says that an inode is flushed and       *)
(* fsynced before a directory names it _manifest.json; OrderInv says that  *)
(* every directory a power loss may leave is older than the call in        *)
(* progress until os.replace, and not older than the acknowledged call.    *)
(***************************************************************************)
EXTENDS ManifestStore, TLAPS

BeforeReplace == {"mkdir", "open", "write", "fsync", "replace"}
AfterReplace  == {"open_dir", "fsync_dir", "return"}

CallNumbered == pc # "idle" => cur # None

WholeInv ==
  /\ \A d \in onDisk : d.final # None => d.final \in full \cap durable
  /\ opened # None => opened \in full \cap durable
  /\ pc \in {"fsync", "replace"} => cur \in full
  /\ pc = "replace" => cur \in durable
  /\ seen # Torn

OrderInv ==
  /\ dir \in onDisk
  /\ \A d \in onDisk : d.final <= cur
  /\ \A d \in onDisk : acked <= d.final
  /\ \A d \in onDisk : d.final # None => d.exists
  /\ pc \in {"open", "write", "fsync", "replace"} => dir.exists
  /\ pc \in BeforeReplace => \A d \in onDisk : d.final < cur
  /\ pc \in AfterReplace => dir.final = cur
  /\ pc = "return" => onDisk = {dir}

Inv == TypeOK /\ CallNumbered /\ WholeInv /\ OrderInv

-----------------------------------------------------------------------------
(* The directory operations of a call give a directory. *)
LEMMA DirectoryOperations ==
  ASSUME NEW d \in Directories, NEW k \in Writes
  PROVE  /\ [d EXCEPT !.exists = TRUE] \in Directories
         /\ [d EXCEPT !.temps = @ \cup {k}] \in Directories
         /\ [d EXCEPT !.final = k, !.temps = @ \ {k}] \in Directories
BY DEF Directories

(* The file-system, writer and reader variables keep their types: every      *)
(* system call of write_manifest_atomic, and every crash, leaves a directory *)
(* and an outcome that the module describes.                                 *)
THEOREM TypeCorrect == Spec => [](TypeOK /\ CallNumbered)
<1>1. Init => TypeOK /\ CallNumbered
  BY MaxWritesAssumption
  DEF Init, TypeOK, CallNumbered, NoDirectory, Directories, Steps, Outcomes, None, Writes, Torn
<1>2. TypeOK /\ CallNumbered /\ [Next]_vars => TypeOK' /\ CallNumbered'
  <2> SUFFICES ASSUME TypeOK, CallNumbered, [Next]_vars PROVE TypeOK' /\ CallNumbered'
    OBVIOUS
  <2> USE DEF TypeOK, CallNumbered, Steps, Outcomes, fsVars, readerVars, writerVars
  <2>0. pc # "idle" => cur \in Writes
    OBVIOUS
  <2>1. CASE CallWrite
    <3>1. cur + 1 \in Writes
      BY <2>1, MaxWritesAssumption DEF CallWrite, Writes, None
    <3>2. dir.final \in {None} \cup Writes
      BY DEF Directories
    <3>3. cur + 1 # None
      BY <3>1 DEF Writes, None
    <3>4. QED
      BY <2>1, <3>1, <3>2, <3>3 DEF CallWrite
  <2>2. CASE Mkdir
    BY <2>0, <2>2, DirectoryOperations DEF Mkdir, ChangeDirectory
  <2>3. CASE OpenTmp
    BY <2>0, <2>3, DirectoryOperations DEF OpenTmp, ChangeDirectory
  <2>4. CASE WriteAndFlush
    BY <2>0, <2>4 DEF WriteAndFlush
  <2>5. CASE FsyncFile
    BY <2>0, <2>5 DEF FsyncFile
  <2>6. CASE Replace
    BY <2>0, <2>6, DirectoryOperations DEF Replace, ChangeDirectory
  <2>7. CASE OpenDir \/ FsyncDir \/ ReturnOk
    BY <2>7 DEF OpenDir, FsyncDir, ReturnOk
  <2>8. CASE FailWithOSError
    BY <2>0, <2>8 DEF FailWithOSError
  <2>9. CASE FailWithOtherError \/ KillWriter
    BY <2>9 DEF FailWithOtherError, KillWriter
  <2>10. CASE OpenManifest
    BY <2>10 DEF OpenManifest, Directories
  <2>11. CASE ReadManifest
    BY <2>11 DEF ReadManifest, Content
  <2>12. CASE PowerLoss
    BY <2>12 DEF PowerLoss
  <2>13. CASE UNCHANGED vars
    BY <2>13 DEF vars
  <2>14. QED
    BY <2>1, <2>2, <2>3, <2>4, <2>5, <2>6, <2>7, <2>8, <2>9, <2>10, <2>11, <2>12, <2>13
    DEF Next, Write, Read
<1>3. QED
  BY <1>1, <1>2, PTL DEF Spec

LEMMA WholeInitially == Init => WholeInv
BY MaxWritesAssumption DEF Init, WholeInv, NoDirectory, None, Torn

(* An inode is named _manifest.json only when it is whole and durable. *)
LEMMA WholeStep == Inv /\ [Next]_vars => WholeInv'
<1> SUFFICES ASSUME Inv, [Next]_vars PROVE WholeInv'
  OBVIOUS
<1> USE DEF Inv, WholeInv, fsVars, readerVars, writerVars
<1>1. CASE CallWrite \/ OpenDir \/ ReturnOk \/ FailWithOtherError \/ KillWriter
  BY <1>1 DEF CallWrite, OpenDir, ReturnOk, FailWithOtherError, KillWriter
<1>2. CASE Mkdir
  BY <1>2 DEF Mkdir, ChangeDirectory, OrderInv, TypeOK, Directories
<1>3. CASE OpenTmp
  BY <1>3 DEF OpenTmp, ChangeDirectory, OrderInv, TypeOK, Directories
<1>4. CASE WriteAndFlush
  BY <1>4 DEF WriteAndFlush
<1>5. CASE FsyncFile
  BY <1>5 DEF FsyncFile
<1>6. CASE Replace
  <2> DEFINE d0 == [dir EXCEPT !.final = cur, !.temps = @ \ {cur}]
  <2>1. d0.final = cur
    BY DEF TypeOK, Directories
  <2>2. onDisk' = onDisk \cup {d0}
    BY <1>6 DEF Replace, ChangeDirectory
  <2>3. cur \in full \cap durable
    BY <1>6 DEF Replace
  <2> HIDE DEF d0
  <2>4. QED
    BY <1>6, <2>1, <2>2, <2>3 DEF Replace
<1>7. CASE FsyncDir
  BY <1>7 DEF FsyncDir, OrderInv
<1>8. CASE FailWithOSError
  <2>1. full \subseteq full' /\ durable' = durable /\ pc' = "idle"
    BY <1>8 DEF FailWithOSError
  <2>2. QED
    BY <1>8, <2>1 DEF FailWithOSError
<1>9. CASE OpenManifest
  BY <1>9 DEF OpenManifest, OrderInv
<1>10. CASE ReadManifest
  <2>1. opened # Torn
    BY MaxWritesAssumption DEF TypeOK, Torn, None, Writes
  <2>2. seen' = opened
    BY <1>10 DEF ReadManifest, Content
  <2>3. QED
    BY <1>10, <2>1, <2>2 DEF ReadManifest
<1>11. CASE PowerLoss
  BY <1>11 DEF PowerLoss
<1>12. CASE UNCHANGED vars
  BY <1>12 DEF vars
<1>13. QED
  BY <1>1, <1>2, <1>3, <1>4, <1>5, <1>6, <1>7, <1>8, <1>9, <1>10, <1>11, <1>12
  DEF Next, Write, Read

LEMMA OrderInitially == Init => OrderInv
BY DEF Init, OrderInv, NoDirectory, None, BeforeReplace, AfterReplace

(* Until os.replace every state of the directory is older than the call in *)
(* progress; from the acknowledgement on none is older than it.            *)
LEMMA OrderStep == Inv /\ [Next]_vars => OrderInv'
<1> SUFFICES ASSUME Inv, [Next]_vars PROVE OrderInv'
  OBVIOUS
<1> USE DEF Inv, OrderInv, CallNumbered, BeforeReplace, AfterReplace, fsVars, readerVars, writerVars
<1>a. cur \in Nat /\ acked \in Nat /\ \A d \in onDisk : d.final \in Nat
  BY MaxWritesAssumption DEF TypeOK, Directories, Writes, None
<1>1. CASE CallWrite
  BY <1>1, <1>a DEF CallWrite
<1>2. CASE Mkdir
  <2>1. CASE dir.exists
    BY <1>2, <2>1 DEF Mkdir
  <2>2. CASE ~dir.exists
    <3> DEFINE d0 == [dir EXCEPT !.exists = TRUE]
    <3>1. d0.final = dir.final /\ d0.exists
      BY DEF TypeOK, Directories
    <3>2. dir' = d0 /\ onDisk' = onDisk \cup {d0}
      BY <1>2, <2>2 DEF Mkdir, ChangeDirectory
    <3> HIDE DEF d0
    <3>3. QED
      BY <1>2, <3>1, <3>2 DEF Mkdir
  <2>3. QED
    BY <2>1, <2>2
<1>3. CASE OpenTmp
  <2> DEFINE d0 == [dir EXCEPT !.temps = @ \cup {cur}]
  <2>1. d0.final = dir.final /\ d0.exists = dir.exists
    BY DEF TypeOK, Directories
  <2>2. dir' = d0 /\ onDisk' = onDisk \cup {d0}
    BY <1>3 DEF OpenTmp, ChangeDirectory
  <2> HIDE DEF d0
  <2>3. QED
    BY <1>3, <2>1, <2>2 DEF OpenTmp
<1>4. CASE WriteAndFlush
  BY <1>4 DEF WriteAndFlush
<1>5. CASE FsyncFile
  BY <1>5 DEF FsyncFile
<1>6. CASE Replace
  <2> DEFINE d0 == [dir EXCEPT !.final = cur, !.temps = @ \ {cur}]
  <2>1. d0.final = cur /\ d0.exists = dir.exists
    BY DEF TypeOK, Directories
  <2>2. dir' = d0 /\ onDisk' = onDisk \cup {d0}
    BY <1>6 DEF Replace, ChangeDirectory
  <2> HIDE DEF d0
  <2>3. acked <= cur
    BY <1>a
  <2>4. QED
    BY <1>6, <1>a, <2>1, <2>2, <2>3 DEF Replace
<1>7. CASE OpenDir
  BY <1>7 DEF OpenDir
<1>8. CASE FsyncDir
  BY <1>8 DEF FsyncDir
<1>9. CASE ReturnOk
  BY <1>9, <1>a DEF ReturnOk
<1>10. CASE FailWithOSError \/ FailWithOtherError \/ KillWriter
  BY <1>10 DEF FailWithOSError, FailWithOtherError, KillWriter
<1>11. CASE Read
  BY <1>11 DEF Read, OpenManifest, ReadManifest
<1>12. CASE PowerLoss
  BY <1>12 DEF PowerLoss
<1>13. CASE UNCHANGED vars
  BY <1>13 DEF vars
<1>14. QED
  BY <1>1, <1>2, <1>3, <1>4, <1>5, <1>6, <1>7, <1>8, <1>9, <1>10, <1>11, <1>12, <1>13
  DEF Next, Write

(* The parts of the inductive invariant hold together. *)
THEOREM Invariance == Spec => []Inv
<1>1. Init => WholeInv /\ OrderInv
  BY WholeInitially, OrderInitially
<1>2. TypeOK /\ CallNumbered /\ WholeInv /\ OrderInv /\ [Next]_vars => WholeInv' /\ OrderInv'
  BY WholeStep, OrderStep DEF Inv
<1>3. QED
  BY <1>1, <1>2, TypeCorrect, PTL DEF Spec, Inv

(* No process and no power loss ever finds part of a manifest under the name *)
(* _manifest.json: flush and fsync come before os.replace.                   *)
THEOREM Integrity == Spec => []NeverTorn
<1>1. Inv => NeverTorn
  BY DEF Inv, WholeInv, OrderInv, NeverTorn
<1>2. QED
  BY <1>1, Invariance, PTL

(* A manifest whose write was acknowledged is there after any later error, *)
(* crash or power loss, or a later one is: fsync of the directory comes    *)
(* before the return.                                                      *)
THEOREM Durability == Spec => []AcknowledgedSurvives
<1>1. Inv => AcknowledgedSurvives
  <2> SUFFICES ASSUME Inv, acked # None
               PROVE  dir.exists /\ dir.final >= acked /\ ~GenerateAccepts
    BY DEF AcknowledgedSurvives
  <2>1. acked <= dir.final /\ dir.final \in Nat /\ acked \in Nat
    BY MaxWritesAssumption DEF Inv, OrderInv, TypeOK, Directories, Writes, None
  <2>2. dir.final # None
    BY <2>1 DEF None
  <2>3. QED
    BY <2>1, <2>2 DEF Inv, OrderInv, GenerateAccepts
<1>2. QED
  BY <1>1, Invariance, PTL

(* The temporary file of the call in progress has left the directory once    *)
(* os.replace has returned, and the acknowledged call is an earlier one.     *)
LitterInv ==
  /\ OnlyFailuresLitter
  /\ pc \in AfterReplace => cur \notin dir.temps

(* A call that returned leaves no temporary file, whatever happens to later  *)
(* calls and whatever a power loss brings back (manifest.py 290-294).        *)
THEOREM NoLitter == Spec => []OnlyFailuresLitter
<1>1. Init => LitterInv
  BY DEF Init, LitterInv, OnlyFailuresLitter, NoDirectory, AfterReplace
<1>2. Inv /\ LitterInv /\ [Next]_vars => LitterInv'
  <2> SUFFICES ASSUME Inv, LitterInv, [Next]_vars PROVE LitterInv'
    OBVIOUS
  <2> USE DEF LitterInv, OnlyFailuresLitter, AfterReplace
  <2>1. CASE CallWrite \/ WriteAndFlush \/ FsyncFile \/ OpenDir \/ FailWithOSError
             \/ FailWithOtherError \/ KillWriter \/ Read \/ UNCHANGED vars
    BY <2>1 DEF CallWrite, WriteAndFlush, FsyncFile, OpenDir, FailWithOSError,
      FailWithOtherError, KillWriter, Read, OpenManifest, ReadManifest, vars, fsVars,
      writerVars, readerVars
  <2>2. CASE Mkdir
    <3>1. [dir EXCEPT !.exists = TRUE].temps = dir.temps
      BY DEF Inv, TypeOK, Directories
    <3>2. QED
      BY <2>2, <3>1 DEF Mkdir, ChangeDirectory
  <2>3. CASE OpenTmp
    <3> DEFINE d0 == [dir EXCEPT !.temps = @ \cup {cur}]
    <3>1. d0.temps = dir.temps \cup {cur}
      BY DEF Inv, TypeOK, Directories
    <3>2. acked # cur
      <4>1. acked <= dir.final /\ dir.final < cur
        BY <2>3 DEF Inv, OrderInv, OpenTmp, BeforeReplace
      <4>2. acked \in Nat /\ dir.final \in Nat /\ cur \in Nat
        BY MaxWritesAssumption DEF Inv, TypeOK, Directories, Writes, None
      <4>3. QED
        BY <4>1, <4>2
    <3>3. dir' = d0 /\ onDisk' = onDisk \cup {d0} /\ acked' = acked /\ pc' = "write"
      BY <2>3 DEF OpenTmp, ChangeDirectory
    <3> HIDE DEF d0
    <3>4. QED
      BY <3>1, <3>2, <3>3
  <2>4. CASE Replace
    <3> DEFINE d0 == [dir EXCEPT !.final = cur, !.temps = @ \ {cur}]
    <3>1. d0.temps = dir.temps \ {cur}
      BY DEF Inv, TypeOK, Directories
    <3>2. dir' = d0 /\ onDisk' = onDisk \cup {d0} /\ acked' = acked /\ cur' = cur
      BY <2>4 DEF Replace, ChangeDirectory
    <3> HIDE DEF d0
    <3>3. QED
      BY <3>1, <3>2
  <2>5. CASE FsyncDir
    BY <2>5 DEF FsyncDir
  <2>6. CASE ReturnOk
    BY <2>6 DEF ReturnOk, fsVars, Inv, OrderInv
  <2>7. CASE PowerLoss
    BY <2>7 DEF PowerLoss
  <2>8. QED
    BY <2>1, <2>2, <2>3, <2>4, <2>5, <2>6, <2>7 DEF Next, Write
<1>3. LitterInv => OnlyFailuresLitter
  BY DEF LitterInv
<1>4. QED
  BY <1>1, <1>2, <1>3, Invariance, PTL DEF Spec

-----------------------------------------------------------------------------
(* Under the mapping of Register every step is a step of ManifestRegister. *)

LEMMA WholeContent ==
  ASSUME Inv
  PROVE  /\ \A d \in onDisk : Content(d.final) = d.final
         /\ Content(dir.final) = dir.final
         /\ Content(opened) = opened
BY DEF Inv, WholeInv, OrderInv, Content

(* The values a power loss may leave, without the detour over Content. *)
Finals == {d.final : d \in onDisk}

LEMMA SimpleMapping ==
  ASSUME Inv
  PROVE  {Content(d.final) : d \in onDisk} = Finals
BY WholeContent DEF Finals

LEMMA MappedStep == Inv /\ Inv' /\ [Next]_vars => [Register!Next]_(Register!vars)
<1> SUFFICES ASSUME Inv, Inv', [Next]_vars PROVE [Register!Next]_(Register!vars)
  OBVIOUS
<1>1. /\ Content(dir.final) = dir.final
      /\ {Content(d.final) : d \in onDisk} = Finals
      /\ Content(opened) = opened
  BY WholeContent, SimpleMapping
<1>2. /\ Content(dir.final)' = dir'.final
      /\ {Content(d.final) : d \in onDisk}' = Finals'
      /\ Content(opened)' = opened'
  <2>1. /\ \A d \in onDisk' : Content(d.final)' = d.final
        /\ Content(dir.final)' = dir'.final
        /\ Content(opened)' = opened'
    BY DEF Inv, WholeInv, OrderInv, Content
  <2>2. QED
    BY <2>1 DEF Finals, Content
<1> DEFINE Unchanged == /\ dir'.final = dir.final /\ Finals' = Finals
                        /\ acked' = acked /\ opened' = opened /\ seen' = seen
<1>3. Unchanged => UNCHANGED Register!vars
  BY <1>1, <1>2 DEF Register!vars
<1> USE DEF fsVars, readerVars, writerVars
<1>4. CASE CallWrite \/ WriteAndFlush \/ FsyncFile \/ OpenDir \/ FailWithOSError
           \/ FailWithOtherError \/ KillWriter \/ UNCHANGED vars
  BY <1>3, <1>4 DEF CallWrite, WriteAndFlush, FsyncFile, OpenDir, FailWithOSError,
                    FailWithOtherError, KillWriter, vars, Finals
<1>5. CASE Mkdir
  <2>1. Unchanged
    <3>1. CASE dir.exists
      BY <1>5, <3>1 DEF Mkdir, Finals
    <3>2. CASE ~dir.exists
      <4> DEFINE d0 == [dir EXCEPT !.exists = TRUE]
      <4>1. d0.final = dir.final /\ dir \in onDisk
        BY DEF Inv, OrderInv, TypeOK, Directories
      <4>2. dir' = d0 /\ onDisk' = onDisk \cup {d0}
        BY <1>5, <3>2 DEF Mkdir, ChangeDirectory
      <4> HIDE DEF d0
      <4>3. QED
        BY <1>5, <4>1, <4>2 DEF Mkdir, Finals
    <3>3. QED
      BY <3>1, <3>2
  <2>2. QED
    BY <1>3, <2>1
<1>6. CASE OpenTmp
  <2> DEFINE d0 == [dir EXCEPT !.temps = @ \cup {cur}]
  <2>1. d0.final = dir.final /\ dir \in onDisk
    BY DEF Inv, OrderInv, TypeOK, Directories
  <2>2. dir' = d0 /\ onDisk' = onDisk \cup {d0}
    BY <1>6 DEF OpenTmp, ChangeDirectory
  <2> HIDE DEF d0
  <2>3. Unchanged
    BY <1>6, <2>1, <2>2 DEF OpenTmp, Finals
  <2>4. QED
    BY <1>3, <2>3
<1>7. CASE Replace
  <2> DEFINE d0 == [dir EXCEPT !.final = cur, !.temps = @ \ {cur}]
  <2>1. d0.final = cur
    BY DEF Inv, TypeOK, Directories
  <2>2. dir' = d0 /\ onDisk' = onDisk \cup {d0}
    BY <1>7 DEF Replace, ChangeDirectory
  <2> HIDE DEF d0
  <2>3. cur \in Writes
    BY <1>7 DEF Replace, Inv, TypeOK, CallNumbered
  <2>4. cur > dir.final /\ \A s \in Finals : cur > s
    BY <1>7, MaxWritesAssumption
    DEF Replace, Inv, TypeOK, OrderInv, BeforeReplace, Finals, Directories, Writes, None
  <2>5. dir'.final = cur /\ Finals' = Finals \cup {cur}
    BY <2>1, <2>2 DEF Finals
  <2>6. Register!Publish(cur)
    BY <1>1, <1>2, <1>7, <2>4, <2>5 DEF Register!Publish, Replace
  <2>7. QED
    BY <2>3, <2>6 DEF Register!Next, Register!Manifests, Writes
<1>8. CASE FsyncDir
  <2>1. Finals' = {dir.final}
    BY <1>8 DEF FsyncDir, Finals
  <2>2. Register!Harden
    BY <1>1, <1>2, <1>8, <2>1 DEF Register!Harden, FsyncDir
  <2>3. QED
    BY <2>2 DEF Register!Next
<1>9. CASE ReturnOk
  <2>1. Finals = {dir.final} /\ dir.final = cur
    BY <1>9 DEF ReturnOk, Inv, OrderInv, AfterReplace, Finals
  <2>2. Register!Acknowledge
    BY <1>1, <1>2, <1>9, <2>1 DEF Register!Acknowledge, ReturnOk, Finals
  <2>3. QED
    BY <2>2 DEF Register!Next
<1>10. CASE OpenManifest
  <2>1. Register!StartRead
    BY <1>1, <1>2, <1>10 DEF Register!StartRead, OpenManifest, Finals, Register!None, None
  <2>2. QED
    BY <2>1 DEF Register!Next
<1>11. CASE ReadManifest
  <2>1. Register!FinishRead
    BY <1>1, <1>2, <1>11 DEF Register!FinishRead, ReadManifest, Finals, Register!None, None
  <2>2. QED
    BY <2>1 DEF Register!Next
<1>12. CASE PowerLoss
  <2>1. PICK d \in onDisk : dir' = d /\ onDisk' = {d}
    BY <1>12 DEF PowerLoss
  <2>2. d.final \in Finals /\ dir'.final = d.final /\ Finals' = {d.final}
    BY <2>1 DEF Finals
  <2>3. opened' = None /\ acked' = acked /\ seen' = seen
    BY <1>12 DEF PowerLoss
  <2>4. Register!LosePower
    BY <1>1, <1>2, <2>2, <2>3 DEF Register!LosePower, Register!None, None
  <2>5. QED
    BY <2>4 DEF Register!Next
<1>13. QED
  BY <1>4, <1>5, <1>6, <1>7, <1>8, <1>9, <1>10, <1>11, <1>12 DEF Next, Write, Read

(* write_manifest_atomic and read_manifest, system call by system call and   *)
(* with crashes, implement an atomic register that is durable when a write   *)
(* is acknowledged.                                                          *)
THEOREM Refinement == Spec => ImplementsRegister
<1>1. Init => Register!Init
  BY DEF Init, Register!Init, Content, NoDirectory, None, Register!None
<1>2. Inv /\ Inv' /\ [Next]_vars => [Register!Next]_(Register!vars)
  BY MappedStep
<1>3. QED
  BY <1>1, <1>2, Invariance, PTL DEF Spec, ImplementsRegister, Register!Spec
=============================================================================
