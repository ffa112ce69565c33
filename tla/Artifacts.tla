------------------------------ MODULE Artifacts ------------------------------
(***************************************************************************)
(* The proving artifacts: a manifest and four files on disk, opened first  *)
(* by the SDK and then by each worker it starts, while a release may be    *)
(* installed over them file by file.                                       *)
(*                                                                         *)
(* SDK and worker each compare the manifest with one compiled into them,   *)
(* and each file's checksum with the manifest.  The SDK parses the bytes   *)
(* it hashed; the worker hashes the files and then reads them again.       *)
(*                                                                         *)
(* A release is a circuit and a key setup for it.  A file holds what it    *)
(* was made from, so that equal checksums are equal contents: the ACIR and *)
(* the constraint system follow from the circuit, the keys from the setup, *)
(* and the manifest from the whole.  The ID in a manifest is chosen by     *)
(* hand: any two releases may share one.                                   *)
(***************************************************************************)
EXTENDS Integers, FiniteSets

CONSTANTS
    Releases,
    Circuit,      \* the circuit of each release; two may share one
    Id,           \* the ID in each release's manifest, with the worker's protocol
    Torn,         \* the contents of a half-written file
    SdkRelease,   \* the manifest compiled into the SDK
    Workers       \* the manifests compiled into the workers that may be installed

FileNames == {"acir", "ccs", "pk", "vk"}

Contents(name, release) == IF name \in {"acir", "ccs"} THEN Circuit[release] ELSE release

ASSUME ArtifactsAssumption ==
    /\ SdkRelease \in Releases /\ Workers \subseteq Releases
    /\ Torn \notin Releases /\ \A r \in Releases : Circuit[r] # Torn

VARIABLES
    disk,     \* [manifest, acir, ccs, pk, vk]
    sdk,      \* [pc, release, program]: the manifest read, the program parsed
    worker,   \* [pc, release, checked, loaded]
    touched,  \* ghost: something was installed since the worker began to open
    replaced, \* ghost: the manifest was, since the SDK read it
    answered  \* ghost: the worker has given a proof

vars == <<disk, sdk, worker, touched, replaced, answered>>

Nothing == [name \in FileNames |-> Torn]
NoWorker == [pc |-> "none", release |-> SdkRelease, checked |-> {}, loaded |-> Nothing]

Init ==
    /\ disk \in {[name \in FileNames \cup {"manifest"} |->
                    IF name = "manifest" THEN r ELSE Contents(name, r)] : r \in Releases}
    /\ sdk = [pc |-> "manifest", release |-> SdkRelease, program |-> Torn]
    /\ worker = NoWorker
    /\ touched = FALSE
    /\ replaced = FALSE
    /\ answered = FALSE

(* One file is replaced, or is found half-written. *)
Install(name, release) ==
    /\ disk' \in {[disk EXCEPT ![name] = contents] :
                    contents \in {Torn, IF name = "manifest" THEN release
                                        ELSE Contents(name, release)}}
    /\ touched' = TRUE
    /\ replaced' = (replaced \/ name = "manifest")
    /\ UNCHANGED <<sdk, worker, answered>>

-----------------------------------------------------------------------------
(* Artifacts::open *)

Fails(process) == [process EXCEPT !.pc = "failed"]

(* Seeded fault: the manifest on disk is believed. *)
AnyManifest(manifest) == manifest # Torn

PinnedManifest(manifest) == manifest = SdkRelease

SdkManifest ==
    /\ sdk.pc = "manifest"
    /\ sdk' = IF PinnedManifest(disk["manifest"])
              THEN [sdk EXCEPT !.pc = "acir", !.release = disk["manifest"]] ELSE Fails(sdk)
    /\ replaced' = FALSE
    /\ UNCHANGED <<disk, worker, touched, answered>>

ChecksumMatches(name, release) == disk[name] = Contents(name, release)

(* The bytes that are hashed are the bytes that are parsed; the program's own
   version and hash are compared once more. *)
SdkProgram ==
    /\ sdk.pc = "acir"
    /\ sdk' = IF ChecksumMatches("acir", sdk.release) /\ disk["acir"] = Circuit[sdk.release]
              THEN [sdk EXCEPT !.pc = "ccs", !.program = disk["acir"]] ELSE Fails(sdk)
    /\ UNCHANGED <<disk, worker, touched, replaced, answered>>

SdkCheck(name, next) ==
    /\ sdk.pc = name
    /\ sdk' = IF ChecksumMatches(name, sdk.release) THEN [sdk EXCEPT !.pc = next] ELSE Fails(sdk)
    /\ UNCHANGED <<disk, worker, touched, replaced, answered>>

(* A caller whose Veil::open failed may try again. *)
SdkReopen ==
    /\ sdk.pc = "failed"
    /\ sdk' = [sdk EXCEPT !.pc = "manifest"]
    /\ UNCHANGED <<disk, worker, touched, replaced, answered>>

SdkOpens ==
    \/ SdkManifest
    \/ SdkProgram
    \/ SdkCheck("ccs", "pk") \/ SdkCheck("pk", "vk") \/ SdkCheck("vk", "open")
    \/ SdkReopen

-----------------------------------------------------------------------------
(* openProver, in a worker of any installed release *)

Start(release) ==
    /\ sdk.pc = "open" /\ worker.pc = "none"
    /\ worker' = [NoWorker EXCEPT !.pc = "manifest", !.release = release]
    /\ touched' = FALSE
    /\ answered' = FALSE
    /\ UNCHANGED <<disk, sdk, replaced>>

(* Seeded fault: the worker goes by its own manifest, whatever the one on disk. *)
ManifestIgnored == TRUE

ManifestMatches == disk["manifest"] = worker.release

WorkerManifest ==
    /\ worker.pc = "manifest"
    /\ worker' = IF ManifestMatches
                 THEN [worker EXCEPT !.pc = "check"] ELSE Fails(worker)
    /\ UNCHANGED <<disk, sdk, touched, replaced, answered>>

(* Seeded fault: the verifying key is left out of the files to check. *)
ToCheckButVk == {"acir", "ccs", "pk"}

ToCheck == FileNames

(* In the order of a Go map, which is none. *)
VerifyFile(name) ==
    /\ worker.pc = "check" /\ name \in ToCheck \ worker.checked
    /\ worker' = IF ~ChecksumMatches(name, worker.release) THEN Fails(worker)
                 ELSE IF ToCheck \subseteq worker.checked \cup {name}
                 THEN [worker EXCEPT !.pc = "acir"]
                 ELSE [worker EXCEPT !.checked = @ \cup {name}]
    /\ UNCHANGED <<disk, sdk, touched, replaced, answered>>

(* Seeded fault: what was checked is not checked again. *)
IdentityTrusted == disk["acir"] # Torn

(* The program's own version and hash, compared after it is loaded. *)
IdentityMatches == disk["acir"] = Circuit[worker.release]

LoadAcir ==
    /\ worker.pc = "acir"
    /\ worker' = IF IdentityMatches
                 THEN [worker EXCEPT !.pc = "ccs", !.loaded["acir"] = disk["acir"]]
                 ELSE Fails(worker)
    /\ UNCHANGED <<disk, sdk, touched, replaced, answered>>

Read(name, next) ==
    /\ worker.pc = name
    /\ worker' = IF disk[name] = Torn THEN Fails(worker)
                 ELSE [worker EXCEPT !.pc = next, !.loaded[name] = disk[name]]
    /\ UNCHANGED <<disk, sdk, touched, replaced, answered>>

(* Seeded fault: Worker::start does not look at Ready. *)
AnyReady == TRUE

(* Ready carries the protocol and the ID of the manifest, no checksum. *)
ReadyMatches == Id[worker.release] = Id[SdkRelease]

Handshake ==
    /\ worker.pc = "ready"
    /\ worker' = IF ReadyMatches THEN [worker EXCEPT !.pc = "accepted"] ELSE Fails(worker)
    /\ UNCHANGED <<disk, sdk, touched, replaced, answered>>

(* prover.prove: a witness of the loaded program solves the loaded system only
   if both are of one circuit, the key must be for it, and the proof must
   verify under the loaded verifying key. *)
ProofVerifies ==
    LET loaded == worker.loaded IN
    /\ loaded["ccs"] = loaded["acir"]
    /\ Circuit[loaded["pk"]] = loaded["ccs"]
    /\ loaded["vk"] = loaded["pk"]

Prove ==
    /\ worker.pc = "accepted" /\ ProofVerifies
    /\ answered' = TRUE
    /\ UNCHANGED <<disk, sdk, worker, touched, replaced>>

WorkerExit ==
    /\ worker.pc \in {"failed", "accepted"}
    /\ worker' = NoWorker
    /\ UNCHANGED <<disk, sdk, touched, replaced, answered>>

WorkerOpens ==
    \/ WorkerManifest
    \/ \E name \in FileNames : VerifyFile(name)
    \/ LoadAcir
    \/ Read("ccs", "pk") \/ Read("pk", "vk") \/ Read("vk", "ready")

Next ==
    \/ \E name \in FileNames \cup {"manifest"}, release \in Releases : Install(name, release)
    \/ SdkOpens
    \/ \E release \in Workers : Start(release)
    \/ WorkerOpens
    \/ Handshake \/ Prove \/ WorkerExit

Spec == Init /\ [][Next]_vars

-----------------------------------------------------------------------------
(* Whatever is installed while the SDK opens its artifacts, the program it
   builds witnesses with is the one of its pinned manifest. *)
ProgramIsPinned == sdk.pc = "open" => sdk.program = Circuit[SdkRelease]

(* A worker that got ready with nothing installed meanwhile holds its pinned
   release, every file of it. *)
QuietWorkerIsPinned ==
    worker.pc \in {"ready", "accepted"} /\ ~touched =>
        \A name \in FileNames : worker.loaded[name] = Contents(name, worker.release)

(* One circuit, and one setup for it, in all that the worker loaded. *)
LoadedFor(circuit) ==
    LET loaded == worker.loaded IN
    /\ loaded["acir"] = circuit /\ loaded["ccs"] = circuit
    /\ Circuit[loaded["pk"]] = circuit
    /\ loaded["vk"] = loaded["pk"]

(* Although the worker reads its files a second time after checking them, a
   proof it gives is of the circuit its own manifest pins, and that manifest has
   the ID the SDK asked for.  It is the SDK's circuit too, whatever else the two
   releases of that ID may differ in, unless the manifest they both read was
   installed over in between: then the ID is all that tells them apart.
   (Which setup is not determined: two releases of one circuit differ in their
   keys only, and the second read of the keys is not compared with anything.) *)
AnswersFitProgram ==
    answered /\ worker.pc = "accepted" =>
        /\ LoadedFor(Circuit[worker.release])
        /\ Id[worker.release] = Id[SdkRelease]
        /\ ~replaced => LoadedFor(sdk.program)

=============================================================================
