-------------------------- MODULE ArtifactsProofs --------------------------
(***************************************************************************)
(* Which artifacts SDK and worker end up with, for any set of releases and *)
(* whatever is installed while they open them.                             *)
(***************************************************************************)
EXTENDS Artifacts, TLAPS

Data == {Torn} \cup Releases \cup {Circuit[r] : r \in Releases}

ArtifactsType ==
    /\ disk \in [FileNames \cup {"manifest"} -> Data]
    /\ sdk \in [pc : {"manifest", "acir", "ccs", "pk", "vk", "open", "failed"},
                release : Data, program : Data]
    /\ worker \in [pc : {"none", "manifest", "check", "acir", "ccs", "pk", "vk", "ready",
                         "accepted", "failed"},
                   release : Releases, checked : SUBSET FileNames, loaded : [FileNames -> Data]]
    /\ touched \in BOOLEAN /\ replaced \in BOOLEAN /\ answered \in BOOLEAN

(* What the SDK knows at each step of opening. *)
SdkPinned ==
    /\ sdk.pc \notin {"manifest", "failed"} => sdk.release = SdkRelease
    /\ sdk.pc \in {"ccs", "pk", "vk", "open"} => sdk.program = Circuit[SdkRelease]

(* The second reading, file by file. *)
Loaded(name) ==
    \/ name = "acir" /\ worker.pc \in {"ccs", "pk", "vk", "ready", "accepted"}
    \/ name = "ccs" /\ worker.pc \in {"pk", "vk", "ready", "accepted"}
    \/ name = "pk" /\ worker.pc \in {"vk", "ready", "accepted"}
    \/ name = "vk" /\ worker.pc \in {"ready", "accepted"}

Verified == worker.pc \in {"acir", "ccs", "pk", "vk", "ready", "accepted"}

(* What the worker knows of its own files. *)
WorkerPinned ==
    /\ worker.pc # "none" => sdk.pc = "open"
    /\ worker.pc = "manifest" => worker.checked = {}
    /\ worker.pc = "accepted" => Id[worker.release] = Id[SdkRelease]
    /\ Loaded("acir") => worker.loaded["acir"] = Circuit[worker.release]
    /\ answered => worker.pc \in {"none", "accepted"}
    /\ answered /\ worker.pc = "accepted" => ProofVerifies

(* And, while nothing is installed, of those on disk. *)
WorkerQuiet ==
    ~touched =>
        /\ worker.pc = "check" => \A name \in worker.checked : ChecksumMatches(name, worker.release)
        /\ Verified => \A name \in FileNames : ChecksumMatches(name, worker.release)
        /\ \A name \in FileNames :
              Loaded(name) => worker.loaded[name] = Contents(name, worker.release)

(* While the manifest stays, SDK and worker agree on more than its ID: both
   compared it with their own. *)
ManifestShared ==
    ~replaced =>
        /\ sdk.pc \notin {"manifest", "failed"} => disk["manifest"] = SdkRelease
        /\ worker.pc \notin {"none", "manifest", "failed"} => worker.release = SdkRelease

ArtifactsInv == ArtifactsType /\ SdkPinned /\ WorkerPinned /\ WorkerQuiet /\ ManifestShared

(* What a file should hold is data. *)
LEMMA ContentsType ==
    ASSUME NEW name \in FileNames, NEW release \in Releases
    PROVE  Contents(name, release) \in Data
BY DEF Contents, Data

(* Nobody has opened anything. *)
LEMMA ArtifactsInit == Init => ArtifactsInv
<1> SUFFICES ASSUME Init PROVE ArtifactsInv
  OBVIOUS
<1>1. PICK r \in Releases :
        disk = [name \in FileNames \cup {"manifest"} |-> IF name = "manifest" THEN r ELSE Contents(name, r)]
  BY DEF Init
<1>2. disk \in [FileNames \cup {"manifest"} -> Data]
  BY <1>1, ContentsType DEF Data
<1>3. Nothing \in [FileNames -> Data]
  BY DEF Nothing, Data
<1>4. worker = NoWorker /\ NoWorker.pc = "none" /\ NoWorker.checked = {}
  BY DEF Init, NoWorker
<1>5. ArtifactsType
  BY <1>2, <1>3, ArtifactsAssumption DEF Init, ArtifactsType, NoWorker, Data
<1>6. SdkPinned
  BY DEF Init, SdkPinned
<1>7. WorkerPinned /\ WorkerQuiet /\ ManifestShared
  BY <1>4 DEF Init, WorkerPinned, WorkerQuiet, Loaded, Verified, ManifestShared
<1> QED BY <1>5, <1>6, <1>7 DEF ArtifactsInv

(* Installing a file changes no process. *)
LEMMA InstallKeeps ==
    ASSUME ArtifactsInv, NEW name \in FileNames \cup {"manifest"}, NEW release \in Releases,
           Install(name, release)
    PROVE  ArtifactsInv'
<1>1. PICK contents \in Data : disk' = [disk EXCEPT ![name] = contents]
  <2>1. Torn \in Data /\ (IF name = "manifest" THEN release ELSE Contents(name, release)) \in Data
    BY ContentsType DEF Data
  <2> QED BY <2>1 DEF Install
<1>2. /\ touched' = TRUE /\ sdk' = sdk /\ worker' = worker /\ answered' = answered
      /\ replaced' = (replaced \/ name = "manifest")
  BY DEF Install
<1>3. ArtifactsType'
  BY <1>1, <1>2 DEF ArtifactsInv, ArtifactsType
<1>4. SdkPinned' /\ WorkerPinned' /\ WorkerQuiet'
  BY <1>2 DEF ArtifactsInv, SdkPinned, WorkerPinned, WorkerQuiet, Loaded, ProofVerifies
<1>5. ManifestShared'
  <2>1. ~replaced' => ~replaced /\ disk'["manifest"] = disk["manifest"]
    BY <1>1, <1>2 DEF ArtifactsInv, ArtifactsType
  <2> QED BY <1>2, <2>1 DEF ArtifactsInv, ManifestShared
<1> QED BY <1>3, <1>4, <1>5 DEF ArtifactsInv

(* The SDK opens before there is a worker. *)
LEMMA SdkKeeps ==
    ASSUME ArtifactsInv, SdkOpens
    PROVE  ArtifactsInv'
<1>1. /\ disk' = disk /\ worker' = worker /\ touched' = touched /\ answered' = answered
      /\ sdk.pc # "open"
  BY DEF SdkOpens, SdkManifest, SdkProgram, SdkCheck, SdkReopen
<1>2. worker.pc = "none"
  BY <1>1 DEF ArtifactsInv, WorkerPinned
<1>3. disk["manifest"] \in Data /\ disk["acir"] \in Data
  BY DEF ArtifactsInv, ArtifactsType, FileNames
<1>4. /\ sdk' \in [pc : {"manifest", "acir", "ccs", "pk", "vk", "open", "failed"},
                   release : Data, program : Data]
      /\ SdkPinned'
  <2>1. CASE SdkManifest
    BY <2>1, <1>3 DEF SdkManifest, PinnedManifest, Fails, ArtifactsInv, ArtifactsType, SdkPinned
  <2>2. CASE SdkProgram
    BY <2>2, <1>3 DEF SdkProgram, Fails, ArtifactsInv, ArtifactsType, SdkPinned
  <2>3. CASE SdkCheck("ccs", "pk")
    BY <2>3 DEF SdkCheck, Fails, ArtifactsInv, ArtifactsType, SdkPinned
  <2>4. CASE SdkCheck("pk", "vk")
    BY <2>4 DEF SdkCheck, Fails, ArtifactsInv, ArtifactsType, SdkPinned
  <2>5. CASE SdkCheck("vk", "open")
    BY <2>5 DEF SdkCheck, Fails, ArtifactsInv, ArtifactsType, SdkPinned
  <2>6. CASE SdkReopen
    BY <2>6 DEF SdkReopen, ArtifactsInv, ArtifactsType, SdkPinned
  <2> QED BY <2>1, <2>2, <2>3, <2>4, <2>5, <2>6 DEF SdkOpens
<1>5. WorkerPinned' /\ WorkerQuiet'
  BY <1>1, <1>2 DEF ArtifactsInv, WorkerPinned, WorkerQuiet, Loaded, Verified, ChecksumMatches
<1>6. ManifestShared' /\ replaced' \in BOOLEAN
  <2>1. CASE SdkManifest
    BY <2>1, <1>1, <1>2 DEF SdkManifest, PinnedManifest, Fails, ArtifactsInv, ArtifactsType, ManifestShared
  <2>2. CASE SdkReopen
    BY <2>2, <1>1, <1>2 DEF SdkReopen, ArtifactsInv, ArtifactsType, ManifestShared
  <2>3. ASSUME replaced' = replaced, sdk.pc \notin {"manifest", "failed"}
        PROVE  ManifestShared' /\ replaced' \in BOOLEAN
    BY <2>3, <1>1, <1>2 DEF ArtifactsInv, ArtifactsType, ManifestShared
  <2>4. CASE SdkProgram \/ SdkCheck("ccs", "pk") \/ SdkCheck("pk", "vk") \/ SdkCheck("vk", "open")
    BY <2>3, <2>4 DEF SdkProgram, SdkCheck
  <2> QED BY <2>1, <2>2, <2>4 DEF SdkOpens
<1> QED BY <1>1, <1>4, <1>5, <1>6 DEF ArtifactsInv, ArtifactsType

(* The worker checks its files, and loads them. *)
LEMMA WorkerKeeps ==
    ASSUME ArtifactsInv, WorkerOpens
    PROVE  ArtifactsInv'
<1> DEFINE WorkerType == [pc : {"none", "manifest", "check", "acir", "ccs", "pk", "vk", "ready",
                                "accepted", "failed"},
                          release : Releases, checked : SUBSET FileNames,
                          loaded : [FileNames -> Data]]
           Goal == worker' \in WorkerType /\ WorkerPinned' /\ WorkerQuiet'
<1>1. /\ disk' = disk /\ sdk' = sdk /\ touched' = touched /\ answered' = answered
      /\ replaced' = replaced
      /\ worker.pc \in {"manifest", "check", "acir", "ccs", "pk", "vk"}
  BY DEF WorkerOpens, WorkerManifest, VerifyFile, LoadAcir, Read
<1>2. worker \in WorkerType /\ sdk.pc = "open" /\ ~answered
      /\ \A name \in FileNames : disk[name] \in Data
  BY <1>1 DEF ArtifactsInv, ArtifactsType, WorkerPinned
<1>3. ASSUME worker' = Fails(worker)
      PROVE  Goal
  BY <1>1, <1>2, <1>3 DEF Fails, WorkerPinned, WorkerQuiet, Loaded, Verified
<1>4. ASSUME WorkerManifest
      PROVE  Goal
  <2>1. CASE worker' = [worker EXCEPT !.pc = "check"]
    BY <2>1, <1>1, <1>2, <1>4
    DEF WorkerManifest, ManifestMatches, ArtifactsInv, WorkerPinned, WorkerQuiet, Loaded, Verified, ChecksumMatches
  <2> QED BY <2>1, <1>3, <1>4 DEF WorkerManifest
<1>5. ASSUME NEW name \in FileNames, VerifyFile(name)
      PROVE  Goal
  <2>1. CASE /\ ChecksumMatches(name, worker.release)
             /\ worker' = [worker EXCEPT !.pc = "acir"]
             /\ FileNames \subseteq worker.checked \cup {name}
    BY <2>1, <1>1, <1>2, <1>5
    DEF VerifyFile, ArtifactsInv, WorkerPinned, WorkerQuiet, Loaded, Verified, ChecksumMatches
  <2>2. CASE /\ ChecksumMatches(name, worker.release)
             /\ worker' = [worker EXCEPT !.checked = @ \cup {name}]
    BY <2>2, <1>1, <1>2, <1>5
    DEF VerifyFile, ArtifactsInv, WorkerPinned, WorkerQuiet, Loaded, Verified, ChecksumMatches
  <2> QED BY <2>1, <2>2, <1>3, <1>5 DEF VerifyFile, ToCheck
<1>6. ASSUME LoadAcir
      PROVE  Goal
  <2>1. CASE /\ disk["acir"] = Circuit[worker.release]
             /\ worker' = [worker EXCEPT !.pc = "ccs", !.loaded["acir"] = disk["acir"]]
    <3>1. "acir" \in FileNames /\ worker.pc = "acir" /\ Contents("acir", worker.release) = disk["acir"]
      BY <1>6, <2>1 DEF FileNames, LoadAcir, Contents
    <3>2. worker' \in WorkerType
      BY <2>1, <3>1, <1>2
    <3>3. /\ worker'.pc = "ccs" /\ worker'.release = worker.release
          /\ worker'.loaded = [worker.loaded EXCEPT !["acir"] = disk["acir"]]
      BY <2>1, <1>2
    <3>4. worker'.loaded["acir"] = Circuit[worker'.release]
      BY <2>1, <3>1, <3>3, <1>2
    <3>5. WorkerPinned'
      BY <3>1, <3>3, <3>4, <1>1, <1>2 DEF ArtifactsInv, WorkerPinned, Loaded, FileNames
    <3>6. WorkerQuiet'
      BY <3>1, <3>3, <1>1, <1>2
      DEF ArtifactsInv, WorkerQuiet, Loaded, Verified, ChecksumMatches
    <3> QED BY <3>2, <3>5, <3>6
  <2> QED BY <2>1, <1>3, <1>6 DEF LoadAcir, IdentityMatches
<1>7. ASSUME NEW name \in {"ccs", "pk", "vk"},
             NEW next \in {"pk", "vk", "ready"},
             <<name, next>> \in {<<"ccs", "pk">>, <<"pk", "vk">>, <<"vk", "ready">>},
             Read(name, next)
      PROVE  Goal
  <2>1. CASE worker' = [worker EXCEPT !.pc = next, !.loaded[name] = disk[name]]
    <3>1. name \in FileNames /\ worker.pc = name
      BY <1>7 DEF FileNames, Read
    <3>2. worker' \in WorkerType
      BY <2>1, <3>1, <1>2
    <3>3. /\ worker'.pc = next /\ worker'.release = worker.release
          /\ worker'.loaded = [worker.loaded EXCEPT ![name] = disk[name]]
      BY <2>1, <1>2
    <3>4. WorkerPinned'
      BY <3>1, <3>3, <1>1, <1>2, <1>7 DEF ArtifactsInv, WorkerPinned, Loaded, FileNames
    <3>5. WorkerQuiet'
      BY <3>1, <3>3, <1>1, <1>2, <1>7
      DEF ArtifactsInv, WorkerQuiet, Loaded, Verified, ChecksumMatches, FileNames
    <3> QED BY <3>2, <3>4, <3>5
  <2> QED BY <2>1, <1>3, <1>7 DEF Read
<1>8. Goal
  BY <1>4, <1>5, <1>6, <1>7 DEF WorkerOpens
<1>9. ManifestShared'
  <2>1. CASE WorkerManifest
    <3>1. \/ worker'.pc = "failed"
          \/ worker'.release = worker.release /\ disk["manifest"] = worker.release
      BY <2>1, <1>2 DEF WorkerManifest, ManifestMatches, Fails
    <3> QED BY <3>1, <1>1, <1>2 DEF ArtifactsInv, ManifestShared
  <2>2. CASE ~WorkerManifest
    <3>1. worker'.release = worker.release
      BY <2>2, <1>2 DEF WorkerOpens, VerifyFile, LoadAcir, Read, Fails
    <3>2. worker.pc \in {"check", "acir", "ccs", "pk", "vk"}
      BY <2>2 DEF WorkerOpens, VerifyFile, LoadAcir, Read
    <3> QED BY <3>1, <3>2, <1>1 DEF ArtifactsInv, ManifestShared
  <2> QED BY <2>1, <2>2
<1> QED BY <1>1, <1>8, <1>9 DEF ArtifactsInv, ArtifactsType, SdkPinned

(* The life of a worker around that. *)
LEMMA LifeKeeps ==
    ASSUME ArtifactsInv,
           (\E release \in Workers : Start(release)) \/ Handshake \/ Prove \/ WorkerExit
    PROVE  ArtifactsInv'
<1>1. Nothing \in [FileNames -> Data] /\ Workers \subseteq Releases /\ SdkRelease \in Releases
  BY ArtifactsAssumption DEF Nothing, Data
<1>2. CASE \E release \in Workers : Start(release)
  <2>1. PICK release \in Workers : Start(release)
    BY <1>2
  <2>2. /\ worker' = [NoWorker EXCEPT !.pc = "manifest", !.release = release]
        /\ disk' = disk /\ sdk' = sdk /\ replaced' = replaced
        /\ touched' = FALSE /\ answered' = FALSE /\ sdk.pc = "open"
    BY <2>1 DEF Start
  <2>3. /\ worker'.pc = "manifest" /\ worker'.checked = {}
        /\ ArtifactsType'
    BY <1>1, <2>2 DEF NoWorker, ArtifactsInv, ArtifactsType
  <2>4. SdkPinned' /\ WorkerPinned' /\ WorkerQuiet' /\ ManifestShared'
    BY <2>2, <2>3
    DEF ArtifactsInv, SdkPinned, WorkerPinned, WorkerQuiet, ManifestShared, Loaded, Verified
  <2> QED BY <2>3, <2>4 DEF ArtifactsInv
<1>3. CASE Handshake
  BY <1>1, <1>3
  DEF Handshake, ReadyMatches, Fails, ArtifactsInv, ArtifactsType, SdkPinned, WorkerPinned, WorkerQuiet,
      ManifestShared, Loaded, Verified, ChecksumMatches, ProofVerifies
<1>4. CASE Prove
  BY <1>4
  DEF Prove, ArtifactsInv, ArtifactsType, SdkPinned, WorkerPinned, WorkerQuiet, ManifestShared, Loaded,
      Verified, ChecksumMatches, ProofVerifies
<1>5. CASE WorkerExit
  BY <1>1, <1>5
  DEF WorkerExit, NoWorker, ArtifactsInv, ArtifactsType, SdkPinned, WorkerPinned, WorkerQuiet,
      ManifestShared, Loaded, Verified, ProofVerifies
<1> QED BY <1>2, <1>3, <1>4, <1>5

(* The invariant in every behaviour. *)
THEOREM ArtifactsCorrect == Spec => []ArtifactsInv
<1>1. ASSUME ArtifactsInv, [Next]_vars
      PROVE  ArtifactsInv'
  <2>1. CASE UNCHANGED vars
    BY <1>1, <2>1
    DEF vars, ArtifactsInv, ArtifactsType, SdkPinned, WorkerPinned, WorkerQuiet, ManifestShared,
        Loaded, Verified, ChecksumMatches, ProofVerifies
  <2>2. CASE Next
    BY <1>1, <2>2, InstallKeeps, SdkKeeps, WorkerKeeps, LifeKeeps DEF Next
  <2> QED BY <1>1, <2>1, <2>2
<1> QED BY <1>1, ArtifactsInit, PTL DEF Spec

(* The SDK's program is its pinned one, for any releases installed meanwhile. *)
THEOREM ProgramAlwaysPinned == Spec => []ProgramIsPinned
<1>1. ArtifactsInv => ProgramIsPinned
  BY DEF ArtifactsInv, SdkPinned, ProgramIsPinned
<1> QED BY <1>1, ArtifactsCorrect, PTL

(* A worker that opened undisturbed holds its whole release. *)
THEOREM QuietWorkersPinned == Spec => []QuietWorkerIsPinned
<1>1. ArtifactsInv => QuietWorkerIsPinned
  BY DEF ArtifactsInv, ArtifactsType, WorkerQuiet, Loaded, QuietWorkerIsPinned, FileNames
<1> QED BY <1>1, ArtifactsCorrect, PTL

(* Disturbed or not, it answers only with proofs of the circuit of its own
   manifest, one of the ID asked for; and of the SDK's circuit unless that very
   manifest was installed over, whatever releases share an ID. *)
THEOREM AnswersAlwaysFit == Spec => []AnswersFitProgram
<1>1. ArtifactsInv => AnswersFitProgram
  <2> SUFFICES ASSUME ArtifactsInv, answered, worker.pc = "accepted"
               PROVE  /\ LoadedFor(Circuit[worker.release])
                      /\ Id[worker.release] = Id[SdkRelease]
                      /\ ~replaced => LoadedFor(sdk.program)
    BY DEF AnswersFitProgram
  <2>1. LoadedFor(Circuit[worker.release]) /\ Id[worker.release] = Id[SdkRelease]
    BY DEF ArtifactsInv, WorkerPinned, Loaded, ProofVerifies, LoadedFor
  <2>2. sdk.program = Circuit[SdkRelease]
    BY DEF ArtifactsInv, SdkPinned, WorkerPinned
  <2>3. ~replaced => worker.release = SdkRelease
    BY DEF ArtifactsInv, ManifestShared
  <2> QED BY <2>1, <2>2, <2>3
<1> QED BY <1>1, ArtifactsCorrect, PTL

=============================================================================
