------------------------ MODULE FindingCorroboration ------------------------
(***************************************************************************)
(* How the findings of the critic become blocking or stay advisory         *)
(* (v3/internal/findingcorroboration).  Everything about a finding but its *)
(* ID (path, source range, rule) is its place; everything in a typed       *)
(* payload but the outcomes the code reads is whether it is well formed.   *)
(* A digest is "content" when it is that of the evidence it is stored in.  *)
(* A refusal is the result <<>>, a decision the result <<r>>.              *)
(***************************************************************************)
EXTENDS Integers, Sequences, FiniteSets, SequencesExt

CONSTANTS MaxFindings, MaxEvidence

Classes == {"reproduction", "static", "symbol-graph", "policy", "model-assertion"}

ById(s) == SortSeq(s, LAMBDA l, r : l.id < r.id)

NoDuplicate(s, Key(_)) == \A i, j \in DOMAIN s : Key(s[i]) = Key(s[j]) => i = j

------------------------------------------------------------------------------
(* The input *)

validateFinding(finding) == finding.wellFormed

(* Exactly one payload, of the evidence's class, whose two outcomes agree  *)
(* where the code compares them.                                           *)
validatePayloadShape(evidence) ==
    Cardinality(evidence.payloads) = 1 /\ \A p \in evidence.payloads : p.kind = evidence.class

validatePayload(p) ==
    p.wellFormed /\ (p.kind \in {"static", "symbol-graph"} => p.outcome[1] = p.outcome[2])

validateEvidence(evidence) ==
    /\ evidence.class \in Classes /\ evidence.immutable
    /\ validatePayloadShape(evidence)
    /\ \A p \in evidence.payloads : validatePayload(p)
    /\ evidence.digest = "content"

sameBinding(finding, binding) == finding.id = binding.finding /\ finding.place = binding.place

MutantNormalizeInput(input) ==
    /\ Len(input.findings) <= MaxFindings /\ Len(input.evidence) <= MaxEvidence
    /\ \A i \in DOMAIN input.findings : validateFinding(input.findings[i])
    /\ NoDuplicate(input.findings, LAMBDA f : f.id)
    /\ \A i \in DOMAIN input.evidence :
          /\ validateEvidence(input.evidence[i])
          /\ \E j \in DOMAIN input.findings : input.findings[j].id = input.evidence[i].binding.finding
    /\ NoDuplicate(input.evidence, LAMBDA e : e.id)
    /\ NoDuplicate(input.evidence, LAMBDA e : e.artifact)

normalizeInput(input) ==
    /\ Len(input.findings) <= MaxFindings /\ Len(input.evidence) <= MaxEvidence
    /\ \A i \in DOMAIN input.findings : validateFinding(input.findings[i])
    /\ NoDuplicate(input.findings, LAMBDA f : f.id)
    /\ \A i \in DOMAIN input.evidence :
          /\ validateEvidence(input.evidence[i])
          /\ \E j \in DOMAIN input.findings : sameBinding(input.findings[j], input.evidence[i].binding)
    /\ NoDuplicate(input.evidence, LAMBDA e : e.id)
    /\ NoDuplicate(input.evidence, LAMBDA e : e.artifact)

------------------------------------------------------------------------------
(* The result *)

PayloadOf(evidence) == CHOOSE p \in evidence.payloads : TRUE

evidenceCorroborates(evidence) ==
    LET outcome == PayloadOf(evidence).outcome
    IN  \/ evidence.class \in {"reproduction", "static", "symbol-graph"} /\ outcome[1] /\ outcome[2]
        \/ evidence.class = "policy" /\ outcome[1]

Validated(item) == item.class # "model-assertion" /\ item.deterministic /\ item.independent

(* The route of one item, and of a finding from those of its evidence.     *)
EvidenceRoute(item) ==
    IF Validated(item) /\ item.corroborates THEN "blocking" ELSE "advisory"

FindingRoute(items) ==
    IF \E i \in DOMAIN items : EvidenceRoute(items[i]) = "blocking" THEN "blocking" ELSE "advisory"

advisoryReason(items) ==
    CASE items = << >> -> "no evidence"
      [] \E i \in DOMAIN items : items[i].class = "model-assertion" -> "model assertion"
      [] OTHER -> "no corroboration"

DecideEvidence(e) ==
    LET item == [id |-> e.id, class |-> e.class, deterministic |-> e.deterministic,
                 independent |-> e.independent, corroborates |-> evidenceCorroborates(e)]
    IN  item @@ [route |-> EvidenceRoute(item)]

CountIn(findings, Test(_)) ==
    Cardinality({p \in (DOMAIN findings) \X (1..MaxEvidence) :
                    p[2] \in DOMAIN findings[p[1]].evidence /\ Test(findings[p[1]].evidence[p[2]])})

CountsOf(findings) ==
    [total |-> Len(findings),
     blocking |-> Cardinality({f \in DOMAIN findings : FindingRoute(findings[f].evidence) = "blocking"}),
     advisory |-> Cardinality({f \in DOMAIN findings : FindingRoute(findings[f].evidence) = "advisory"}),
     deterministic |-> CountIn(findings, Validated),
     corroborating |-> CountIn(findings, LAMBDA i : Validated(i) /\ i.corroborates),
     assertions |-> CountIn(findings, LAMBDA i : i.class = "model-assertion")]

(* Whether a result is one the routing could have produced.                *)
normalizeResult(result) ==
    LET findings == result.findings
        all == FlattenSeq([f \in DOMAIN findings |-> findings[f].evidence])
    IN  /\ Len(findings) <= MaxFindings /\ Len(all) <= MaxEvidence
        /\ NoDuplicate(findings, LAMBDA f : f.id)
        /\ NoDuplicate(all, LAMBDA e : e.id)
        /\ \A i \in DOMAIN all :
              /\ all[i].class \in Classes
              /\ all[i].route = EvidenceRoute(all[i])
              /\ ~(all[i].class = "model-assertion" /\ all[i].corroborates)
        /\ \A f \in DOMAIN findings : findings[f].route = FindingRoute(findings[f].evidence)
        /\ result.counts = CountsOf(findings)

Corroborate(input) ==
    LET ofFinding(f) == ById(SelectSeq(input.evidence, LAMBDA e : e.binding.finding = f.id))
        decide(f) == LET items == [i \in DOMAIN ofFinding(f) |-> DecideEvidence(ofFinding(f)[i])]
                     IN  [id |-> f.id, evidence |-> items, route |-> FindingRoute(items),
                          reason |-> IF FindingRoute(items) = "blocking" THEN "corroborated"
                                     ELSE advisoryReason(items)]
        sorted == ById(input.findings)
        findings == [i \in DOMAIN sorted |-> decide(sorted[i])]
        result == [findings |-> findings, counts |-> CountsOf(findings)]
    IN  IF normalizeInput(input) /\ normalizeResult(result) THEN <<result>> ELSE << >>

------------------------------------------------------------------------------
(* What the routing promises *)

(* What it takes to block: evidence bound to this very finding, immutable, *)
(* deterministic and independent of the model, whose own payload shows the *)
(* finding.                                                                *)
IsEarned(finding, evidence) ==
    \E i \in DOMAIN evidence :
        LET e == evidence[i]
        IN  /\ e.binding = [finding |-> finding.id, place |-> finding.place]
            /\ e.immutable /\ e.digest = "content" /\ e.deterministic /\ e.independent
            /\ \E p \in e.payloads :
                  /\ e.payloads = {p} /\ p.kind = e.class /\ p.wellFormed /\ p.outcome[1]
                  /\ \/ p.kind \in {"reproduction", "static", "symbol-graph"} /\ p.outcome[2]
                     \/ p.kind = "policy"

(* A finding blocks exactly when it is earned, in whatever order findings  *)
(* and evidence arrive; a model's own assertion never makes one block.     *)
RoutesAreEarned(input) ==
    LET result == Corroborate(input)
    IN  /\ result = Corroborate([findings |-> Reverse(input.findings), evidence |-> Reverse(input.evidence)])
        /\ result # << >> =>
              \A i \in DOMAIN input.findings : \E j \in DOMAIN result[1].findings :
                  /\ result[1].findings[j].id = input.findings[i].id
                  /\ (result[1].findings[j].route = "blocking") <=> IsEarned(input.findings[i], input.evidence)

==============================================================================
