---------------------------- MODULE ReportExport ----------------------------
(***************************************************************************)
(* Exporting one approved report version: prepare_export, render_export and *)
(* record_export_result of src/apex_forensic/application/services/report.py *)
(* and the runtime renderer of src/apex_forensic/adapters/report/runtime.py.*)
(*                                                                         *)
(* A call of "reports.export" prepares a manifest and then renders it into  *)
(* a file of the version's output directory.  Calls run in several threads  *)
(* and processes; only single statements and transactions are atomic.       *)
(* Decisions are recorded atomically here: their own races are the subject  *)
(* of ReportReview, and so is the report header that a manifest and an      *)
(* artifact are saved with.                                                 *)
(*                                                                         *)
(* The fingerprint of a manifest covers the approval and the file name and  *)
(* is UNIQUE, so the pair of both names the manifest.                       *)
(*                                                                         *)
(* A definition marked "variant" is not the code: it is the next definition *)
(* with a plausible mistake, which the properties have to notice.           *)
(***************************************************************************)
EXTENDS Naturals, Sequences

CONSTANTS
  Exporter,      (* concurrent calls                                        *)
  Filename,      (* requested file names                                    *)
  Bytes,         (* contents the renderer can produce                       *)
  Nothing,       (* no file, no bytes                                       *)
  MaxRulings,    (* bound: decisions recorded on the version                *)
  Mortal         (* the calls that can end without an answer                *)

ASSUME ExportAssumption ==
  /\ Nothing \notin Bytes
  /\ MaxRulings \in Nat
  /\ Mortal \subseteq Exporter

VARIABLES
  decisions,  (* the approval records of the version, oldest first          *)
  manifest,   (* the status of each manifest, or "none"                     *)
  artifact,   (* the rendered artifacts recorded                            *)
  file,       (* the output directory                                       *)
  export      (* what each running call knows                               *)

exportVars == <<decisions, manifest, artifact, file, export>>

-----------------------------------------------------------------------------

Manifest == (1..MaxRulings) \X Filename
FileOf(m) == m[2]

ExportStatus == {"none", "PREPARED", "CAPABILITY_UNAVAILABLE", "RENDERING",
                 "COMPLETED", "FAILED", "CANCELLED"}
Completable == {"PREPARED", "RENDERING"}

(* renderer_id: the program's own, and that of any renderer outside it. *)
Renderer == {"runtime", "external"}

(* From "opened" to "failing" a call is inside render_export. *)
Rendering == {"opened", "started", "clear", "written", "hashed", "verified", "failing"}
ExportCall == [at : {"idle", "approved", "missing", "packaged", "ready", "recording"} \cup Rendering,
               manifest : Manifest \cup {Nothing}, bytes : Bytes \cup {Nothing},
               renderer : Renderer]
Resting == [at |-> "idle", manifest |-> Nothing, bytes |-> Nothing, renderer |-> "runtime"]

Approved == decisions # <<>> /\ decisions[Len(decisions)] = "APPROVED"

ExportInit ==
  /\ decisions = <<>>
  /\ manifest = [m \in Manifest |-> "none"]
  /\ artifact = {}
  /\ file = [f \in Filename |-> Nothing]
  /\ export = [p \in Exporter |-> Resting]

GoTo(p, at) == export' = [export EXCEPT ![p].at = at]
Return(p) == export' = [export EXCEPT ![p] = Resting]

-----------------------------------------------------------------------------

(* approve and revoke_approval. *)
Decide(decision) ==
  /\ Len(decisions) < MaxRulings
  /\ decision = "REVOKED" => Approved
  /\ decisions' = Append(decisions, decision)
  /\ UNCHANGED <<manifest, artifact, file, export>>

-----------------------------------------------------------------------------
(* prepare_export *)

ApprovedOnce == \E i \in 1..Len(decisions) : decisions[i] = "APPROVED"   (* variant: any decision, not the latest *)
RequireApproved == Approved

Prepare(p, f) ==
  /\ export[p] = Resting
  /\ RequireApproved
  /\ export' = [export EXCEPT ![p] = [Resting EXCEPT !.at = "approved", !.manifest = <<Len(decisions), f>>]]
  /\ UNCHANGED <<decisions, manifest, artifact, file>>

(* An existing manifest is returned as it is; the caller renders it only    *)
(* when it is PREPARED.                                                     *)
FindManifest(p) ==
  LET status == manifest[export[p].manifest] IN
  /\ export[p].at = "approved"
  /\ CASE status = "none"     -> GoTo(p, "missing")
       [] status = "PREPARED" -> GoTo(p, "ready")
       [] OTHER               -> Return(p)
  /\ UNCHANGED <<decisions, manifest, artifact, file>>

(* create_render_package checks the latest decision again. *)
Package(p) ==
  /\ export[p].at = "missing"
  /\ RequireApproved
  /\ GoTo(p, "packaged")
  /\ UNCHANGED <<decisions, manifest, artifact, file>>

(* UNIQUE(manifest_fingerprint). *)
SaveManifest(p) ==
  LET m == export[p].manifest IN
  /\ export[p].at = "packaged"
  /\ manifest[m] = "none"
  /\ \/ /\ manifest' = [manifest EXCEPT ![m] = "PREPARED"]
        /\ GoTo(p, "ready")
     \/ /\ manifest' = [manifest EXCEPT ![m] = "CAPABILITY_UNAVAILABLE"]
        /\ Return(p)
  /\ UNCHANGED <<decisions, artifact, file>>

-----------------------------------------------------------------------------
(* render_export *)

OpenManifest(p) ==
  /\ export[p].at = "ready"
  /\ manifest[export[p].manifest] = "PREPARED"
  /\ GoTo(p, "opened")
  /\ UNCHANGED <<decisions, manifest, artifact, file>>

(* The status is written over whatever it has become since it was read. *)
Unavailable(p) ==
  /\ export[p].at = "opened"
  /\ manifest' = [manifest EXCEPT ![export[p].manifest] = "CAPABILITY_UNAVAILABLE"]
  /\ Return(p)
  /\ UNCHANGED <<decisions, artifact, file>>

StartRender(p) ==
  /\ export[p].at = "opened"
  /\ manifest' = [manifest EXCEPT ![export[p].manifest] = "RENDERING"]
  /\ GoTo(p, "started")
  /\ UNCHANGED <<decisions, artifact, file>>

(* validate_package and the renderer can reject the content; the second     *)
(* destination.exists() of _write_output refuses to overwrite.              *)
RenderOrRefuse(p) ==
  /\ export[p].at = "started"
  /\ \/ GoTo(p, "failing")
     \/ /\ file[FileOf(export[p].manifest)] = Nothing
        /\ GoTo(p, "clear")
  /\ UNCHANGED <<decisions, manifest, artifact, file>>

(* os.replace, or an error while writing. *)
WriteOutput(p) ==
  /\ export[p].at = "clear"
  /\ \/ /\ GoTo(p, "failing")
        /\ UNCHANGED file
     \/ \E b \in Bytes :
          /\ file' = [file EXCEPT ![FileOf(export[p].manifest)] = b]
          /\ GoTo(p, "written")
  /\ UNCHANGED <<decisions, manifest, artifact>>

(* The digest is computed from what is read back. *)
HashOutput(p) ==
  /\ export[p].at = "written"
  /\ export' = [export EXCEPT ![p].at = "hashed", ![p].bytes = file[FileOf(export[p].manifest)]]
  /\ UNCHANGED <<decisions, manifest, artifact, file>>

VerifyOutput(p) ==
  /\ export[p].at = "hashed"
  /\ GoTo(p, IF file[FileOf(export[p].manifest)] = export[p].bytes THEN "verified" ELSE "failing")
  /\ UNCHANGED <<decisions, manifest, artifact, file>>

-----------------------------------------------------------------------------
(* record_export_result *)

OpenResult(p) ==
  /\ export[p].at = "verified"
  /\ GoTo(p, IF manifest[export[p].manifest] \in Completable THEN "recording" ELSE "failing")
  /\ UNCHANGED <<decisions, manifest, artifact, file>>

Record(c) == [manifest |-> c.manifest, bytes |-> c.bytes, renderer |-> c.renderer]

(* Artifact and status in one transaction; UNIQUE(artifact_fingerprint). *)
SaveStatusOnly(p) ==   (* variant: the status is committed, the artifact is left to a later statement *)
  /\ export[p].at = "recording"
  /\ Record(export[p]) \notin artifact
  /\ manifest' = [manifest EXCEPT ![export[p].manifest] = "COMPLETED"]
  /\ Return(p)
  /\ UNCHANGED <<decisions, artifact, file>>
SaveArtifact(p) ==
  /\ export[p].at = "recording"
  /\ Record(export[p]) \notin artifact
  /\ artifact' = artifact \cup {Record(export[p])}
  /\ manifest' = [manifest EXCEPT ![export[p].manifest] = "COMPLETED"]
  /\ Return(p)
  /\ UNCHANGED <<decisions, file>>

(* "except ReportError" of render_export. *)
FailQuietly(p) ==   (* variant: the error is returned and not recorded *)
  /\ export[p].at = "failing"
  /\ Return(p)
  /\ UNCHANGED <<decisions, manifest, artifact, file>>
FailRender(p) ==
  /\ export[p].at = "failing"
  /\ manifest' = [manifest EXCEPT ![export[p].manifest] = "FAILED"]
  /\ Return(p)
  /\ UNCHANGED <<decisions, artifact, file>>

(* The result of a renderer outside the program, recorded by an operator. *)
ReportFailure(m) ==
  /\ manifest[m] # "none"
  /\ \E status \in {"FAILED", "CANCELLED"} : manifest' = [manifest EXCEPT ![m] = status]
  /\ UNCHANGED <<decisions, artifact, file, export>>

ReportOutput(p, m) ==
  /\ export[p] = Resting
  /\ manifest[m] \in Completable
  /\ \E b \in Bytes :
       export' = [export EXCEPT ![p] =
         [at |-> "recording", manifest |-> m, bytes |-> b, renderer |-> "external"]]
  /\ UNCHANGED <<decisions, manifest, artifact, file>>

-----------------------------------------------------------------------------

(* The checks that end a call with an error and change nothing. *)
Refused(p) ==
  LET c == export[p] IN
  \/ c.at = "missing" /\ ~RequireApproved
  \/ c.at = "packaged" /\ manifest[c.manifest] # "none"
  \/ c.at = "ready" /\ manifest[c.manifest] # "PREPARED"
  \/ c.at = "recording" /\ Record(c) \in artifact

Refuse(p) ==
  /\ Refused(p)
  /\ Return(p)
  /\ UNCHANGED <<decisions, manifest, artifact, file>>

(* The process dies, or an exception that is no ReportError leaves the call. *)
Die(p) ==
  /\ p \in Mortal
  /\ export[p] # Resting
  /\ Return(p)
  /\ UNCHANGED <<decisions, manifest, artifact, file>>

Continue(p) ==
  \/ FindManifest(p) \/ Package(p) \/ SaveManifest(p)
  \/ OpenManifest(p) \/ Unavailable(p) \/ StartRender(p)
  \/ RenderOrRefuse(p) \/ WriteOutput(p) \/ HashOutput(p) \/ VerifyOutput(p)
  \/ OpenResult(p) \/ SaveArtifact(p) \/ FailRender(p) \/ Refuse(p)

ExportNext ==
  \/ \E decision \in {"APPROVED", "REVOKED"} : Decide(decision)
  \/ \E p \in Exporter : Continue(p) \/ Die(p)
  \/ \E p \in Exporter, f \in Filename : Prepare(p, f)
  \/ \E p \in Exporter, m \in Manifest : ReportOutput(p, m)
  \/ \E m \in Manifest : ReportFailure(m)

ExportSpec == ExportInit /\ [][ExportNext]_exportVars

(* A running call is a thread of its own that waits for nothing. *)
FairExportSpec == ExportSpec /\ \A p \in Exporter : WF_exportVars(Continue(p))

-----------------------------------------------------------------------------

(* Rows, files and calls keep their types; a call past its first check has  *)
(* a manifest, and one that records an output has its bytes.                *)
ExportTypeOK ==
  /\ decisions \in Seq({"APPROVED", "REVOKED"}) /\ Len(decisions) <= MaxRulings
  /\ manifest \in [Manifest -> ExportStatus]
  /\ artifact \subseteq [manifest : Manifest, bytes : Bytes, renderer : Renderer]
  /\ file \in [Filename -> Bytes \cup {Nothing}]
  /\ export \in [Exporter -> ExportCall]
  /\ \A p \in Exporter : export[p].at # "idle" => export[p].manifest \in Manifest
  /\ \A p \in Exporter : export[p].at \in {"verified", "recording"} => export[p].bytes \in Bytes

(* A manifest names an approval, not a revocation or a later decision, and  *)
(* every artifact belongs to such a manifest, although the approval is read *)
(* several steps before the manifest is saved.                              *)
ManifestNamesApproval ==
  /\ \A m \in Manifest : manifest[m] # "none" =>
       m[1] <= Len(decisions) /\ decisions[m[1]] = "APPROVED"
  /\ \A a \in artifact : manifest[a.manifest] # "none"

(* An export shown as COMPLETED has the artifact with its hash, whichever   *)
(* call, retry or operator completed it and whichever died.                 *)
CompletedHasArtifact ==
  \A m \in Manifest : manifest[m] = "COMPLETED" => \E a \in artifact : a.manifest = m

(* No export stays RENDERING that a call is rendering which does not die,    *)
(* whatever other calls, operators and deaths do to its status and its file. *)
RenderingEnds ==
  \A p \in Exporter \ Mortal, m \in Manifest :
    (manifest[m] = "RENDERING" /\ export[p].manifest = m /\ export[p].at \in Rendering)
      ~> manifest[m] # "RENDERING"
=============================================================================
