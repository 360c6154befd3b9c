--------------------------- MODULE PolicyContract ---------------------------
(***************************************************************************)
(* The policy contract (v3/internal/policycontract) and its execution      *)
(* (v3/internal/policyexec).  The resolved policies are compiled once to a *)
(* manifest; the broker's self-checks and the verifier's Gate checks are   *)
(* two projections of the decoded manifest, and both run their scripts     *)
(* through the same executor.                                              *)
(*                                                                         *)
(* A rule is named by a number, 0 standing for a malformed ID.  A script   *)
(* is a path, a sequence of characters, and its contents; its digest is    *)
(* its contents, "" being no file.  A manifest is its own digest.  An      *)
(* error is <<>>, a value <<v>>.                                           *)
(***************************************************************************)
EXTENDS Integers, Sequences, FiniteSets, SequencesExt

CONSTANTS MaxPolicies, MaxRulesPerPolicy, MaxTotalRules

Script(check) == check # << >>

------------------------------------------------------------------------------
(* Compiling *)

validateRuleShape(rule) ==
    /\ rule.id # 0 /\ rule.severity \in {"blocking", "advisory"}
    /\ rule.severity = "blocking" => Script(rule.check)
    /\ Script(rule.check) => rule.check[1].supported /\ rule.check[1].path # << >>

RulesOf(policies) == FlattenSeq([i \in DOMAIN policies |-> policies[i].rules])

Distinct(s, Key(_)) == \A i, j \in DOMAIN s : Key(s[i]) = Key(s[j]) => i = j

normalizePolicyInput(input) ==
    /\ input.base # "" /\ input.spec # ""
    /\ Len(input.policies) <= MaxPolicies
    /\ Distinct(input.policies, LAMBDA p : p.name)
    /\ \A i \in DOMAIN input.policies : Len(input.policies[i].rules) \in 1..MaxRulesPerPolicy
    /\ \A i \in DOMAIN RulesOf(input.policies) : validateRuleShape(RulesOf(input.policies)[i])
    /\ Distinct(RulesOf(input.policies), LAMBDA r : r.id)
    /\ Len(RulesOf(input.policies)) <= MaxTotalRules

(* The loader answers with a base, a path, a kind, bytes and a digest; all *)
(* must be those of the file asked for.                                    *)
loadScript(loader, base, path) ==
    LET loaded == loader[path]
    IN  IF /\ loaded.base = base /\ loaded.path = path /\ loaded.kind = "regular"
           /\ loaded.bytes # "" /\ loaded.digest = loaded.bytes
          THEN <<loaded.bytes>> ELSE << >>

contextPackOutputPath(id, path) == <<id, path>>

compileRule(loader, base, rule) ==
    LET path == rule.check[1].path
        body == loadScript(loader, base, path)
    IN  IF ~Script(rule.check) THEN <<[id |-> rule.id, severity |-> rule.severity, script |-> << >>]>>
        ELSE IF body = << >> THEN << >>
        ELSE <<[id |-> rule.id, severity |-> rule.severity,
                script |-> <<[path |-> path, output |-> contextPackOutputPath(rule.id, path),
                              digest |-> body[1]]>>]>>

failureMode(severity) == IF severity = "blocking" THEN "reject" ELSE "advisory"

makeManifest(input, rules) ==
    [base |-> input.base, spec |-> input.spec,
     rules |-> [i \in DOMAIN rules |->
        [id |-> rules[i].id, severity |-> rules[i].severity,
         mode |-> failureMode(rules[i].severity), script |-> rules[i].script]]]

Compile(input, loader) ==
    LET raw == SortSeq(RulesOf(input.policies), LAMBDA l, r : l.id < r.id)
        compiled == [i \in DOMAIN raw |-> compileRule(loader, input.base, raw[i])]
    IN  IF normalizePolicyInput(input) /\ \A i \in DOMAIN compiled : compiled[i] # << >>
          THEN LET rules == [i \in DOMAIN compiled |-> compiled[i][1]]
               IN  <<[rules |-> rules, manifest |-> makeManifest(input, rules)]>>
          ELSE << >>

------------------------------------------------------------------------------
(* The manifest read back, and its projections *)

DecodeManifest(m) ==
    LET r == m.rules
    IN  IF /\ m.base # "" /\ m.spec # "" /\ Len(r) <= MaxTotalRules
           /\ \A i \in DOMAIN r :
                 /\ r[i].id # 0 /\ r[i].severity \in {"blocking", "advisory"}
                 /\ i > 1 => r[i - 1].id < r[i].id
                 /\ r[i].mode = failureMode(r[i].severity)
                 /\ Script(r[i].script) =>
                       /\ r[i].script[1].path # << >> /\ r[i].script[1].digest # ""
                       /\ r[i].script[1].output = contextPackOutputPath(r[i].id, r[i].script[1].path)
          THEN <<[rules |-> [i \in DOMAIN r |-> [id |-> r[i].id, severity |-> r[i].severity, script |-> r[i].script]],
                  manifest |-> m]>>
          ELSE << >>

checkDescriptor(rule, contract) ==
    [contract |-> contract, id |-> rule.id, severity |-> rule.severity,
     blocking |-> rule.severity = "blocking", mode |-> failureMode(rule.severity), script |-> rule.script]

SelfChecks(c) == [i \in DOMAIN c.rules |-> checkDescriptor(c.rules[i], c.manifest)]

GateChecks(c) ==
    [i \in DOMAIN c.rules |->
        [check |-> checkDescriptor(c.rules[i], c.manifest), rejects |-> c.rules[i].severity = "blocking"]]

ValidateGateChecks(checks) ==
    /\ Len(checks) <= MaxTotalRules
    /\ \A i \in DOMAIN checks :
          LET check == checks[i].check
          IN  /\ check.id # 0 /\ (i > 1 => checks[i - 1].check.id < check.id)
              /\ check.severity \in {"blocking", "advisory"} /\ check.mode \in {"reject", "advisory"}
              /\ check.blocking = (check.severity = "blocking") /\ checks[i].rejects = check.blocking
              /\ Script(check.script) =>
                    /\ check.script[1].path # << >> /\ check.script[1].digest # ""
                    /\ check.script[1].output = contextPackOutputPath(check.id, check.script[1].path)

------------------------------------------------------------------------------
(* Execution *)

(* What the executor reads at a resolved place, and what running it gives: *)
(* exits maps the contents of a script to an exit code, or to <<>> when it *)
(* cannot be run (the deadline, a missing interpreter).                    *)
Observe(check, body, exits) ==
    LET none == [id |-> check.id, contract |-> check.contract, script |-> "", exit |-> << >>, skipped |-> FALSE]
    IN  IF ~Script(check.script) THEN [none EXCEPT !.skipped = TRUE]
        ELSE IF body = "" \/ body # check.script[1].digest THEN none
        ELSE [none EXCEPT !.script = body, !.exit = exits[body]]

Verified(check, body, exits) ==
    Script(check.script) => body # "" /\ body = check.script[1].digest /\ exits[body] # << >>

(* Run: the observations in order, and whether every script could be run.  *)
RunChecks(checks, read, exits) ==
    [observations |-> [i \in DOMAIN checks |-> Observe(checks[i], read[i], exits)],
     failed |-> \E i \in DOMAIN checks : ~Verified(checks[i], read[i], exits)]

(* The broker reads the copy in the ContextPack, the verifier the file of  *)
(* the untouched base checkout.                                            *)
PolicyCheck(c, ids, pack, exits) ==
    LET chosen == SelectSeq(SelfChecks(c), LAMBDA k : ids = {} \/ k.id \in ids)
    IN  RunChecks(chosen, [i \in DOMAIN chosen |->
            IF Script(chosen[i].script) THEN pack[chosen[i].script[1].output] ELSE ""], exits)

runPolicyChecks(gateChecks, base, exits) ==
    RunChecks([i \in DOMAIN gateChecks |-> gateChecks[i].check],
              [i \in DOMAIN gateChecks |->
                 IF Script(gateChecks[i].check.script) THEN base[gateChecks[i].check.script[1].path] ELSE ""], exits)

------------------------------------------------------------------------------
(* What the contract promises *)

(* A contract that compiles is read back as it was compiled, the order of  *)
(* the policies does not matter, every rule of the input keeps its         *)
(* severity and the base's script, and the agent's own check of a rule     *)
(* (on the ContextPack's copy) says what the verifier's will say.          *)
ProjectionsAgree(input, loader, base, exits) ==
    LET c == Compile(input, loader)
        rules == RulesOf(input.policies)
        pack == [o \in {contextPackOutputPath(rules[i].id, rules[i].check[1].path) :
                            i \in {k \in DOMAIN rules : Script(rules[k].check)}} |-> base[o[2]]]
    IN  c # << >> =>
          /\ DecodeManifest(c[1].manifest) = c
          /\ ValidateGateChecks(GateChecks(c[1]))
          /\ Compile([input EXCEPT !.policies = Reverse(@)], loader) = c
          /\ \A i \in DOMAIN rules : \E j \in DOMAIN c[1].rules :
                /\ c[1].rules[j].id = rules[i].id
                /\ (GateChecks(c[1])[j].rejects) <=> (rules[i].severity = "blocking")
                /\ Script(rules[i].check) => c[1].rules[j].script[1].digest = base[rules[i].check[1].path]
          /\ PolicyCheck(c[1], {}, pack, exits) = runPolicyChecks(GateChecks(c[1]), base, exits)

==============================================================================
