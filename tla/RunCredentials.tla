--------------------------- MODULE RunCredentials ---------------------------
(***************************************************************************)
(* The credentials of one run: pinning its source through the GitHub App   *)
(* (githubapp, runplan.PinSource), planning its work Sandbox               *)
(* (runplan.PlanWork), and the immutable per-phase Secret both phases      *)
(* mount (runsecret.Materialize), filled with a clone token, the broker's  *)
(* credentials and a scoped object-store lease (artifactauth, its STS      *)
(* minter).  Two reconciles of the run may overlap; the operator may       *)
(* rotate sources, change its configuration or restart at any step.        *)
(*                                                                         *)
(* Time is counted in ticks.  GitHub, STS and the API server are external. *)
(***************************************************************************)
EXTENDS Naturals, FiniteSets

CONSTANTS
    Workers,    \* concurrent reconciles
    Runs,       \* the resolved runs considered, as records of RunSpecs
    TTL,        \* ArtifactCredentialTTL
    MaxShutdown,\* MaxShutdownDuration
    TokenLife,  \* lifetime of an installation token, at least TTL
    MaxClock,   \* bound on the clock
    MaxFaults   \* bound on crashes, outages and operator interventions

VARIABLES
    clock,
    run,      \* the AgentRun: its resolved inputs, its phase, the start of verification
    config,   \* the operator's configuration: a skills token or none
    source,   \* the source Secrets of the system namespace
    secret,   \* the per-run Secret of each phase, <<>> before it is created
    child,    \* the Sandbox of each phase, <<>> before it is created
    work,     \* what each reconcile is doing
    faults

vars == <<clock, run, config, source, secret, child, work, faults>>

Phases == {"work", "verify"}
App == "app"                          \* Config.GitHubAppSecret
Sources == {App, "model", "skills-token"}         \* the Secrets of the system namespace
SourceStates == {"unusable", "first", "second"}   \* unusable: absent, or without its key
Usable(s) == s # "unusable"

RunSpecs ==
  [refs : SUBSET {App, "model"}, publish : {"", App, "model"}, mode : {"none", "pull-request"},
   skills : BOOLEAN, timeout : Nat, verifyTimeout : Nat]

LeaseKeys == {"access-key-id", "secret-access-key", "session-token"}
Idle == [pc |-> "idle", phase |-> "work", at |-> 0, keys |-> {}, token |-> 0, held |-> {},
         issued |-> 0, lease |-> 0, short |-> 0]

-----------------------------------------------------------------------------
(***************************************************************************)
(* Answers of GitHub, and what the code makes of them.                     *)
(***************************************************************************)
\* An installation-token or commit request ends with one of these.
Answers == {"ok", "notFound", "denied", "wide", "limited", "down", "slow", "reset",
            "canceled", "redirected", "garbled", "stale"}

\* classifyHTTPStatus and the transport branches of Mint and ResolveCommit.
ClassifyHTTPStatus(answer) ==
  CASE answer = "notFound"            -> "not-found"
    [] answer = "denied"              -> "unauthorized"
    [] answer = "limited"             -> "rate-limited"
    [] answer = "down"                -> "server"
    [] answer = "slow"                -> "timeout"
    [] answer = "reset"               -> "transport"
    [] answer = "canceled"            -> "canceled"
    [] answer = "redirected"          -> "configuration"
    [] OTHER                          -> "none"

\* validateTokenResponse with classifySentinel: a token that reaches further
\* than the profile is unauthorized, an unreadable or expired one configuration.
ValidateTokenResponse(answer) ==
  CASE answer = "wide"                -> "unauthorized"
    [] answer \in {"garbled", "stale"} -> "configuration"
    [] OTHER                          -> "none"

ClassOf(answer) ==
  LET class == ClassifyHTTPStatus(answer)
  IN  IF class # "none" THEN class ELSE ValidateTokenResponse(answer)

IsPermanentClass(class) ==
  class \in {"invalid-reference", "not-found", "unauthorized", "configuration"}

\* readAppCredentials: an absent or malformed App Secret is configuration.
AppCredentials == Usable(source[App])

-----------------------------------------------------------------------------
(***************************************************************************)
(* What the factory refuses before it touches a credential.                *)
(***************************************************************************)
BoundedTimeout(t) == t > 0 /\ t <= MaxShutdown

ValidatePublishRefs(r) ==
  /\ r.mode = "pull-request" => r.publish = App
  /\ r.mode = "none" => r.publish = ""
  /\ App \notin r.refs

MutantFits(r, phase) ==
  BoundedTimeout(IF phase = "work" THEN r.timeout ELSE r.verifyTimeout)

\* PlanWork and MaterializeVerifyCredentials: the phase must fit in the lease.
FitsLease(r, phase) ==
  LET t == IF phase = "work" THEN r.timeout ELSE r.verifyTimeout
  IN  BoundedTimeout(t) /\ t <= TTL

\* makeLayout: refuses a skills token for an agent without skills, and the
\* publish credential among the projected ones.
LayoutIsValid(r, phase) ==
  phase = "work" => (config => r.skills) /\ r.publish \notin r.refs

Layout(r, phase) ==
  {"clone-token"} \cup LeaseKeys
    \cup (IF phase = "work" THEN r.refs ELSE {})
    \cup (IF phase = "work" /\ config THEN {"skills-token"} ELSE {})

Plannable(r, phase) ==
  /\ phase = "work" => ValidatePublishRefs(r)
  /\ FitsLease(r, phase)
  /\ LayoutIsValid(r, phase)

\* validateExisting: the contract covers the exact key set.  Owner, digest and
\* phase are those of the run by the Secret's name, which is derived from both.
ValidateExisting(s, keys) == s.keys = keys

-----------------------------------------------------------------------------
TypeOK ==
  /\ clock \in 0..MaxClock
  /\ run \in [spec : Runs, phase : {"New", "Denied", "Pending", "Cloning", "Capturing", "Verifying", "Verified"},
              started : 0..MaxClock]
  /\ config \in BOOLEAN
  /\ source \in [Sources -> SourceStates]
  /\ \A p \in Phases : secret[p] = <<>> \/ DOMAIN secret[p] = 1..1
  /\ \A p \in Phases : child[p] = <<>> \/ DOMAIN child[p] = 1..1
  /\ faults \in 0..MaxFaults

Init ==
  /\ clock = 0
  /\ \E r \in Runs, phase \in {"New", "Capturing"} : run = [spec |-> r, phase |-> phase, started |-> 0]
  /\ config \in BOOLEAN
  /\ source = [s \in Sources |-> "first"]
  /\ secret = [p \in Phases |-> <<>>]
  /\ child = [p \in Phases |-> <<>>]
  /\ work = [w \in Workers |-> Idle]
  /\ faults = 0

Fault == faults < MaxFaults /\ faults' = faults + 1

\* GitHub, STS and the API server answer as they should, or a fault is spent.
MayAnswer(ok) == IF ok THEN UNCHANGED faults ELSE Fault

\* What remains of an attempt whose Secret exists.
Materialized(w) ==
  [Idle EXCEPT !.pc = "ensure", !.phase = work[w].phase, !.at = work[w].at, !.keys = work[w].keys]

Step(w, new) == work' = [work EXCEPT ![w] = new]
GiveUp(w) == Step(w, Idle)

-----------------------------------------------------------------------------
(***************************************************************************)
(* Admission: the base branch is resolved with a clone-read token.  A      *)
(* permanent class denies the run, anything else is retried.               *)
(***************************************************************************)
PinSource(w) ==
  /\ work[w].pc = "idle" /\ run.phase = "New"
  /\ \E answer \in Answers :
       LET class == IF AppCredentials THEN ClassOf(answer) ELSE "configuration"
       IN  /\ MayAnswer(answer = "ok")
           /\ run' = [run EXCEPT !.phase = CASE class = "none" -> "Pending"
                                             [] IsPermanentClass(class) -> "Denied"
                                             [] OTHER -> "New"]
  /\ UNCHANGED <<clock, config, source, secret, child, work>>

(***************************************************************************)
(* PlanWork and MaterializeVerifyCredentials.                              *)
(***************************************************************************)
\* The plan's clock is read before any credential is minted; the verify
\* phase plans from the recorded start of verification.
Begin(w) ==
  /\ work[w].pc = "idle"
  /\ \E p \in Phases :
       /\ run.phase = (IF p = "work" THEN "Pending" ELSE "Verifying")
       /\ Plannable(run.spec, p) /\ AppCredentials
       /\ Step(w, [Idle EXCEPT !.pc = "get", !.phase = p, !.keys = Layout(run.spec, p),
                               !.at = IF p = "work" THEN clock ELSE run.started])
  /\ UNCHANGED <<clock, run, config, source, secret, child, faults>>

\* The named GET of the destination Secret, first or after a lost create race.
Get(w) ==
  /\ work[w].pc \in {"get", "reget"}
  /\ LET existing == secret[work[w].phase]
     IN  CASE existing # <<>> /\ ValidateExisting(existing[1], work[w].keys) ->
                Step(w, Materialized(w))
           [] existing # <<>> -> GiveUp(w)
           [] existing = <<>> /\ work[w].pc = "get" -> Step(w, [work[w] EXCEPT !.pc = "mint"])
           [] OTHER -> GiveUp(w)
  /\ UNCHANGED <<clock, run, config, source, secret, child, faults>>

\* MintReadOnlyContentsToken: any answer but a valid token ends the attempt.
MintCloneToken(w) ==
  /\ work[w].pc = "mint"
  /\ \E answer \in {"ok", "down"} :
       /\ MayAnswer(answer = "ok")
       /\ IF answer = "ok"
            THEN Step(w, [work[w] EXCEPT !.pc = "copy", !.token = clock + TokenLife])
            ELSE GiveUp(w)
  /\ UNCHANGED <<clock, run, config, source, secret, child>>

\* One named GET per source, the skills token's included; a missing source or one
\* without its key fails.
\* With all of them, Issuer.Issue reads its clock before it asks the provider.
CopySources(w) ==
  /\ work[w].pc = "copy"
  /\ LET missing == {r \in work[w].keys \cap Sources : r \notin {h[1] : h \in work[w].held}}
     IN  IF missing = {}
           THEN Step(w, [work[w] EXCEPT !.pc = "assume", !.issued = clock])
           ELSE \E r \in missing :
                  IF Usable(source[r])
                    THEN Step(w, [work[w] EXCEPT !.held = @ \cup {<<r, source[r]>>}])
                    ELSE GiveUp(w)
  /\ UNCHANGED <<clock, run, config, source, secret, child, faults>>

\* resultFromMint: a lease that outlives issued + TTL is refused, so a tick
\* between the two clock readings costs the attempt.
ResultFromMint(issued, expires) == expires > issued /\ expires <= issued + TTL

\* STS AssumeRole asks for TTL and takes what it is granted, which may be less; a
\* lease whose answer is lost stays minted.
AssumeRole(w) ==
  /\ work[w].pc = "assume"
  /\ \E answered \in BOOLEAN, granted \in 1..TTL :
       /\ MayAnswer(answered /\ granted = TTL)
       /\ IF answered /\ ResultFromMint(work[w].issued, clock + granted)
            THEN Step(w, [work[w] EXCEPT !.pc = "create", !.lease = clock + granted,
                                         !.short = TTL - granted])
            ELSE GiveUp(w)
  /\ UNCHANGED <<clock, run, config, source, secret, child>>

\* Create, or AlreadyExists and a second look.  The answer may be lost.
CreateSecret(w) ==
  /\ work[w].pc = "create"
  /\ IF secret[work[w].phase] # <<>>
       THEN /\ Step(w, [Materialized(w) EXCEPT !.pc = "reget"])
            /\ UNCHANGED <<secret, faults>>
       ELSE /\ secret' = [secret EXCEPT ![work[w].phase] =
                 <<[keys |-> work[w].keys, token |-> work[w].token, lease |-> work[w].lease,
                    short |-> work[w].short, values |-> work[w].held, minted |-> work[w].token - TokenLife]>>]
            /\ \E answered \in BOOLEAN :
                 /\ MayAnswer(answered)
                 /\ IF answered THEN Step(w, Materialized(w)) ELSE GiveUp(w)
  /\ UNCHANGED <<clock, run, config, source, child>>

\* The Sandbox is created with the deadline of this plan, or the existing one
\* is compared with it; then the status records the child.
EnsureChild(w) ==
  /\ work[w].pc = "ensure"
  /\ LET p == work[w].phase
         timeout == IF p = "work" THEN run.spec.timeout ELSE run.spec.verifyTimeout
         plan == [shutdown |-> work[w].at + timeout, planned |-> work[w].at, mounts |-> work[w].keys]
     IN  /\ child' = IF child[p] = <<>> THEN [child EXCEPT ![p] = <<plan>>] ELSE child
         /\ run' = [run EXCEPT !.phase =
              IF child'[p] # <<plan>> THEN @
              ELSE CASE @ = "Pending"   /\ p = "work"   -> "Cloning"
                     [] @ = "Verifying" /\ p = "verify" -> "Verified"
                     [] OTHER -> @]
  /\ GiveUp(w)
  /\ UNCHANGED <<clock, config, source, secret, faults>>

-----------------------------------------------------------------------------
(***************************************************************************)
(* The rest of the run and of the world.                                   *)
(***************************************************************************)
\* The patch is saved and verification begins at the recorded time.  The phases
\* from Cloning to Capturing are AgentRun's: a behaviour begins on either side.
StartVerification ==
  /\ run.phase = "Capturing"
  /\ run' = [run EXCEPT !.phase = "Verifying", !.started = clock]
  /\ UNCHANGED <<clock, config, source, secret, child, work, faults>>

Tick ==
  /\ clock < MaxClock
  /\ clock' = clock + 1
  /\ UNCHANGED <<run, config, source, secret, child, work, faults>>

\* The operator rotates a source Secret; another key of the App changes nothing.
Rotate ==
  /\ \E s \in Sources \ {App} : source[s] = "first" /\ source' = [source EXCEPT ![s] = "second"]
  /\ UNCHANGED <<clock, run, config, secret, child, work, faults>>

\* A source Secret is removed or damaged, and put right again.
Damage ==
  /\ Fault
  /\ \E s \in Sources : source' = [source EXCEPT ![s] = "unusable"]
  /\ UNCHANGED <<clock, run, config, secret, child, work>>

Restore ==
  /\ \E s \in Sources : ~Usable(source[s]) /\ source' = [source EXCEPT ![s] = "second"]
  /\ UNCHANGED <<clock, run, config, secret, child, work, faults>>

\* A restart with another configuration ends every reconcile.
Reconfigure ==
  /\ Fault
  /\ config' = ~config
  /\ work' = [w \in Workers |-> Idle]
  /\ UNCHANGED <<clock, run, source, secret, child>>

\* A restart, or a request to the API server that fails.
Crash(w) ==
  /\ Fault
  /\ work[w].pc # "idle" /\ GiveUp(w)
  /\ UNCHANGED <<clock, run, config, source, secret, child>>

Plan(w) ==
  \/ Begin(w) \/ Get(w) \/ MintCloneToken(w) \/ CopySources(w)
  \/ AssumeRole(w) \/ CreateSecret(w) \/ EnsureChild(w)

Next ==
  \/ \E w \in Workers : PinSource(w) \/ Plan(w) \/ Crash(w)
  \/ StartVerification \/ Tick \/ Rotate \/ Damage \/ Restore \/ Reconfigure

-----------------------------------------------------------------------------
(***************************************************************************)
(* Properties.                                                             *)
(***************************************************************************)
\* How long after its credentials were minted a Sandbox was planned.
Late(s, c) == IF c.planned > s.minted THEN c.planned - s.minted ELSE 0

\* A Sandbox ends before its credentials expire, except for two delays that its
\* deadline may exceed them by and for no more: what STS cut from the lease it was
\* asked for, and the time since the credentials were minted when a later attempt
\* plans the Sandbox over a Secret that exists.  The verify Sandbox never has the
\* second one: its deadline counts from the recorded start (runplan.go:395, :501,
\* verify_driver.go:89).
CredentialsOutliveSandbox ==
  \A p \in Phases :
    child[p] # <<>> =>
      /\ secret[p] # <<>>
      /\ LET s == secret[p][1]
             c == child[p][1]
         IN  /\ c.shutdown <= s.lease + s.short + Late(s, c)
             /\ c.shutdown <= s.token + Late(s, c)
             /\ p = "verify" => Late(s, c) = 0

\* Every key a Sandbox mounts exists in the Secret it mounts, whatever the
\* races between reconciles and the configuration changes between attempts
\* (runsecret.go:333-370, validateExisting).
MountsExist ==
  \A p \in Phases : child[p] # <<>> => child[p][1].mounts = secret[p][1].keys

\* The App credential that can write to the repository is projected into no
\* run, whichever way the run publishes (runplan.go:719, runsecret.go:524).
WriteCredentialStaysOut ==
  \A p \in Phases : secret[p] # <<>> => App \notin {v[1] : v \in secret[p][1].values}
=============================================================================
