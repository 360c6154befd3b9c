---------------------------- MODULE ArtifactCatalog ----------------------------
(***************************************************************************)
(* v2 control plane: what a run publishes.  A broker stages the bytes of   *)
(* an upload, commits them as an object under a fresh identifier, then     *)
(* records a version that names the object in the catalog; when the second *)
(* step reports an error it deletes the object.  The two stores share no   *)
(* transaction, answers get lost, processes die, and stored bytes decay.   *)
(* A reader takes the version from the catalog, then the object, and       *)
(* serves the bytes once they have the digest the version records.         *)
(*                                                                         *)
(* The run's adapter uploads what the agent authored, one after the other, *)
(* then the run's own output; it tells the role of each in an event and    *)
(* stops at the first that fails.  The page of the run picks its primary   *)
(* output from the catalog and those events.                               *)
(*                                                                         *)
(* An object is "good" (the bytes that were digested), "bad" or "none".    *)
(***************************************************************************)
EXTENDS Integers, Sequences, FiniteSets

CONSTANTS
    Plans,          \* what a run uploads: sequences of [route, kind, media, caps, text, size]
    MaxFaults       \* bound: lost answers, failures, crashes and decays

VARIABLES
    plan,       \* the uploads of this run; the n-th has identifier n
    objects,    \* object store: per id "none", "good" or "bad"
    rows,       \* catalog: per id the presentation recorded, or NoRow
    upload,     \* per id the broker's progress and what the adapter was told
    roles,      \* per id the role its artifact.created event tells, or ""
    page,       \* the reader: [id, served]
    faults      \* faults so far: per id the set of things that went wrong

vars == <<plan, objects, rows, upload, roles, page, faults>>

Ids == 1..Len(plan)

Kinds == {"document", "code", "single_page_html", "svg", "diagram",
          "interactive_component"}
Media == {"text/markdown", "text/html", "image/svg+xml", "application/json",
          "application/javascript", "text/plain", "application/octet-stream", "run-output"}
Texts == {"short", "long", "markup"}    \* up to 2000, up to 4000, holds "<" or ">"
SetMin(S) == CHOOSE i \in S : \A j \in S : i <= j
NoRow == [kind |-> "", renderer |-> ""]
Stages == {"free", "put", "catalog", "delete", "created", "refused", "failed", "dead"}
Faults == {"putAnswer", "catalog", "catalogAnswer", "delete", "crash", "decay"}

TypeOK ==
    /\ plan \in Plans /\ objects \in [Ids -> {"none", "good", "bad"}]
    /\ rows \in [Ids -> [kind : Kinds \cup {""}, renderer : STRING]]
    /\ upload \in [Ids -> Stages] /\ roles \in [Ids -> {"", "primary", "supporting"}]
    /\ page \in [id : Ids \cup {0}, served : {"", "good", "bad", "withheld"}]
    /\ faults \in [Ids -> SUBSET Faults]

----------------------------------------------------------------------------
(* Presentation: which content kinds a media type can be shown as.         *)

IsText(mt) == mt \in {"text/markdown", "text/html", "text/plain"}
IsJSON(mt) == mt \in {"application/json", "run-output"}

DefaultRenderer(kind, mt) ==
    CASE kind = "document" ->
           IF mt = "text/markdown" THEN "markdown"
           ELSE IF IsText(mt) \/ IsJSON(mt) THEN "plain_text" ELSE ""
      [] kind = "code" ->
           IF IsText(mt) \/ IsJSON(mt) \/ mt = "application/javascript" THEN "code" ELSE ""
      [] kind = "single_page_html" -> IF mt = "text/html" THEN "safe_html" ELSE ""
      [] kind = "svg" -> IF mt = "image/svg+xml" THEN "safe_svg" ELSE ""
      [] kind = "diagram" -> IF mt = "image/svg+xml" THEN "safe_svg"
                             ELSE IF IsText(mt) THEN "diagram" ELSE ""
      [] kind = "interactive_component" ->
           IF mt = "text/html" THEN "sandboxed_component" ELSE ""

InferPresentation(mt) ==
    CASE mt = "text/markdown" -> [kind |-> "document", renderer |-> "markdown"]
      [] mt = "text/html" -> [kind |-> "single_page_html", renderer |-> "safe_html"]
      [] mt = "image/svg+xml" -> [kind |-> "svg", renderer |-> "safe_svg"]
      [] mt \in {"application/json", "application/javascript"} ->
           [kind |-> "code", renderer |-> "code"]
      [] OTHER -> [kind |-> "document", renderer |-> "plain_text"]

\* The renderers a content kind admits.
RendererIsValid(p) ==
    p.renderer \in CASE p.kind = "document" -> {"plain_text", "markdown"}
                     [] p.kind = "code" -> {"plain_text", "code"}
                     [] p.kind = "single_page_html" -> {"safe_html"}
                     [] p.kind = "svg" -> {"safe_svg"}
                     [] p.kind = "diagram" -> {"diagram", "safe_svg"}
                     [] p.kind = "interactive_component" -> {"sandboxed_component"}
                     [] OTHER -> {}

SecurityIsValid(caps, kind) ==
    /\ "sandboxed_scripts" \in caps => kind = "interactive_component"
    /\ "external_calls" \in caps => "network" \in caps

\* The summary of the preview is the description, and is held to the preview's limit.
ManifestIsValid(p, req) ==
    RendererIsValid(p) /\ SecurityIsValid(req.caps, p.kind) /\ req.text = "short"

\* NewRunOutput: the version's presentation, or nothing when it refuses.
NewRunOutput(req) ==
    LET p == IF req.kind = "" THEN InferPresentation(req.media)
             ELSE [kind |-> req.kind, renderer |-> DefaultRenderer(req.kind, req.media)]
    IN  IF p.renderer # "" /\ ManifestIsValid(p, req) THEN <<p>> ELSE <<>>

\* PublishDescriptor.validate makes the version it will publish once, before any byte is stored.
DescriptorIsValid(req) ==
    SecurityIsValid(req.caps, req.kind) /\ NewRunOutput(req) # <<>>

----------------------------------------------------------------------------
Init ==
    /\ plan \in Plans
    /\ objects = [i \in Ids |-> "none"] /\ rows = [i \in Ids |-> NoRow]
    /\ upload = [i \in Ids |-> "free"] /\ roles = [i \in Ids |-> ""]
    /\ page = [id |-> 0, served |-> ""] /\ faults = [i \in Ids |-> {}]

FaultCount == Cardinality({f \in Ids \X Faults : f[2] \in faults[f[1]]})
Hurts(i, f) == FaultCount < MaxFaults /\ faults' = [faults EXCEPT ![i] = @ \cup {f}]
Fine == UNCHANGED faults
Goes(i, stage) == upload' = [upload EXCEPT ![i] = stage]
Keep == UNCHANGED <<plan, roles, page>>

\* The two handlers: the run's own output by PUT, anything else by POST with a descriptor.
Accepts(req) ==
    /\ IF req.route = "upload" THEN req.media = "run-output" ELSE DescriptorIsValid(req)
    /\ req.size = "fits"

Receive(i) ==
    /\ upload[i] = "free" /\ (i > 1 => roles[i - 1] # "")
    /\ Goes(i, IF Accepts(plan[i]) THEN "put" ELSE "refused")
    /\ UNCHANGED <<objects, rows>> /\ Keep /\ Fine

\* Store.Put: the object is there, or an error is returned with the object absent or, when
\* only the answer or the removal of the staging file failed, left behind.
PutObject(i) ==
    /\ upload[i] = "put"
    /\ \/ objects' = [objects EXCEPT ![i] = "good"] /\ Goes(i, "catalog") /\ Fine
       \/ /\ objects' \in {objects, [objects EXCEPT ![i] = "good"]}
          /\ Goes(i, "refused") /\ Hurts(i, "putAnswer")
    /\ UNCHANGED rows /\ Keep

\* publishArtifact: the catalog's transaction commits and says so, commits and the answer is
\* lost, or fails; a version that cannot be made is an error too.
PutArtifactVersion(i) ==
    LET p == NewRunOutput(plan[i]) IN
    /\ upload[i] = "catalog"
    /\ \/ p = <<>> /\ Goes(i, "delete") /\ Fine /\ UNCHANGED rows
       \/ p # <<>> /\ rows' = [rows EXCEPT ![i] = p[1]] /\ Goes(i, "created") /\ Fine
       \/ p # <<>> /\ Goes(i, "delete") /\ Hurts(i, "catalog") /\ UNCHANGED rows
       \/ /\ p # <<>> /\ rows' = [rows EXCEPT ![i] = p[1]]
          /\ Goes(i, "delete") /\ Hurts(i, "catalogAnswer")
    /\ UNCHANGED objects /\ Keep

\* The object is taken back in a context that outlives the request, best effort.
DeleteObject(i) ==
    /\ upload[i] = "delete" /\ Goes(i, "failed")
    /\ \/ objects' = [objects EXCEPT ![i] = "none"] /\ Fine
       \/ UNCHANGED objects /\ Hurts(i, "delete")
    /\ UNCHANGED rows /\ Keep

Crash(i) ==
    /\ upload[i] \in {"put", "catalog", "delete"}
    /\ Goes(i, "dead") /\ Hurts(i, "crash")
    /\ UNCHANGED <<objects, rows>> /\ Keep

Decay(i) ==
    /\ objects[i] = "good" /\ objects' = [objects EXCEPT ![i] = "bad"]
    /\ Hurts(i, "decay") /\ UNCHANGED <<rows, upload>> /\ Keep

\* The adapter tells the role of a version once its upload is answered: the first authored
\* one is the primary output, the others and the run's own output support it.
EmitCreated(i) ==
    /\ upload[i] = "created" /\ roles[i] = ""
    /\ roles' = [roles EXCEPT ![i] = IF i = 1 /\ plan[i].route = "publish" THEN "primary"
                                                                        ELSE "supporting"]
    /\ UNCHANGED <<plan, objects, rows, upload, page>> /\ Fine

\* stageVerifiedArtifact: every byte is digested before the first one is sent.
StageVerifiedArtifact(content) == IF content = "good" THEN "good" ELSE "withheld"

\* The reader takes a version from the catalog ...
OpenVersion(i) ==
    /\ rows[i] # NoRow /\ page.id = 0 /\ page' = [id |-> i, served |-> ""]
    /\ UNCHANGED <<plan, objects, rows, upload, roles>> /\ Fine

\* ... then the object it names; what it finds is answered, or an error is.
Serve ==
    /\ page.id # 0 /\ page.served = ""
    /\ page' = [page EXCEPT !.served = StageVerifiedArtifact(objects[page.id])]
    /\ UNCHANGED <<plan, objects, rows, upload, roles>> /\ Fine

Next ==
    \/ \E i \in Ids : \/ Receive(i) \/ PutObject(i) \/ PutArtifactVersion(i) \/ DeleteObject(i)
                      \/ EmitCreated(i) \/ Crash(i) \/ Decay(i) \/ OpenVersion(i)
    \/ Serve

----------------------------------------------------------------------------
(* The page of a run: which of its versions is the primary output.         *)

\* The version shown as primary among the run's versions, in the order of their creation.  A
\* version without a role is taken for primary when none before it is and its title does not
\* say "run output", which no title of an upload does; without any, the first one is shown.
PrimaryOutput(outputs) ==
    LET named == {i \in outputs : roles[i] \in {"primary", ""}}
    IN  IF outputs = {} THEN 0 ELSE SetMin(IF named = {} THEN outputs ELSE named)

----------------------------------------------------------------------------
\* A client that was told "created" has a version in the catalog, and the object it names was
\* not taken away: the cleanup after a failed catalog step (handler.go:112-119) touches only
\* uploads that are answered with an error.
CreatedIsPublished ==
    \A i \in Ids : upload[i] = "created" => rows[i] # NoRow /\ objects[i] # "none"

\* Nothing is left over silently.  When an upload has been answered, an object without a
\* version, or a version without an object, is the trace of a named failure: a lost answer, a
\* cleanup that failed, a crash.  A failed catalog step alone leaves neither.
NoResidueWithoutFault ==
    \A i \in Ids : upload[i] \in {"created", "refused", "failed"} =>
        /\ objects[i] # "none" /\ rows[i] = NoRow => faults[i] \cap {"putAnswer", "delete"} # {}
        /\ rows[i] # NoRow /\ objects[i] = "none" => "catalogAnswer" \in faults[i]

\* The bytes a reader receives are the bytes whose digest the catalog records, however the
\* object changed or vanished between the two reads (httpapi.go:919-948).
ServedIsPublished == page.served \in {"", "good", "withheld"}

\* No byte of an upload is stored that the catalog then refuses for what the request says: the
\* checks before the store (publish_handler.go:32-53) are as strict as the ones after it.
StoredIsPresentable ==
    \A i \in Ids : objects[i] # "none" => NewRunOutput(plan[i]) # <<>>

\* The page of a run that uploaded everything shows the output the run calls primary, or its
\* only output (httpapi.go:809-917), whatever roles were missing while it ran.
PageShowsTheAnswer ==
    (\A i \in Ids : roles[i] # "") =>
        LET shown == PrimaryOutput({i \in Ids : rows[i] # NoRow})
        IN  \A i \in Ids : roles[i] = "primary" => shown = i
=============================================================================
