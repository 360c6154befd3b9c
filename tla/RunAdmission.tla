----------------------------- MODULE RunAdmission -----------------------------
(***************************************************************************)
(* v2 control plane: definitions are applied, a run is created and its     *)
(* workflow started.  Several callers send one create request each and     *)
(* send it again until the answer is final; every step between two         *)
(* accesses of the store or the engine may be the last one of a request    *)
(* (the server stops, the connection is lost).  The store is Memory or     *)
(* PostgreSQL, the engine the local one (which needs PostgreSQL) or        *)
(* Temporal.                                                               *)
(*                                                                         *)
(* One agent with its sandbox profile stands for the definitions.  A       *)
(* revision is its content and the digest of a revision is the pair of     *)
(* name and content.  One project; request bodies are well formed.         *)
(***************************************************************************)
EXTENDS Integers, Sequences, FiniteSets

CONSTANTS
    Callers,            \* concurrent callers
    Requests,           \* what they may ask: [id, key, digest, input, by]
    Contents,           \* contents of a definition
    MaxApplies,         \* bound: definitions applied after the first revision
    MaxFaults           \* bound: requests that are cut off, failed store or engine calls

VARIABLES
    setup,      \* [store, engine]: how agw-server was started
    defs,       \* the revisions of each definition, the current one last
    runs,       \* the runs table, by id
    flows,      \* the started workflows, by workflow id
    audits,     \* the audit table: <<principal, action, decision>>
    caller,     \* per caller: its request and how far the current attempt got
    faults

vars == <<setup, defs, runs, flows, audits, caller, faults>>

Names == {"agent", "profile"}
Ids == {"x", "run-k", "run-random"}
NoRun == [digest |-> 0, key |-> "", by |-> ""]
NoFlow == [revision |-> 0, agent |-> 0, profile |-> 0, input |-> 0]
Runs == [digest : Contents, key : {"", "k"}, by : {"editor", "viewer"}]
Flows == [revision : Contents, agent : Contents, profile : Contents, input : {1, 2}]
Setups == {<<"memory", "temporal">>, <<"postgres", "temporal">>, <<"postgres", "local">>}
Stages == {"idle", "insert", "recover", "compile", "contract", "start", "done", "refused"}

Range(s) == {s[i] : i \in 1..Len(s)}
Current(name) == defs[name][Len(defs[name])]

TypeOK ==
    /\ setup \in Setups
    /\ defs \in [Names -> Seq(Contents)]
    /\ runs \in [Ids -> Runs \cup {NoRun}]
    /\ flows \in [Ids -> Flows \cup {NoFlow}]
    /\ audits \subseteq {"editor", "viewer"} \X {"apply", "run"} \X {"allowed", "denied"}
    /\ caller \in [Callers -> [req : Requests, at : Stages, run : Ids \cup {""},
                               manifest : Flows \cup {NoFlow}]]
    /\ faults \in 0..MaxFaults

----------------------------------------------------------------------------
\* Authorize: the roles of the instance, for the two actions of this module.
Authorize(who, action) == action \in {"apply", "run"} /\ who = "editor"

\* ServeHTTP records the decision; an allowed request that cannot be recorded is refused.
Audit(who, action) ==
    LET decision == IF Authorize(who, action) THEN "allowed" ELSE "denied"
    IN audits' = audits \cup {<<who, action, decision>>}

Goes(c, stage, run) == [caller[c] EXCEPT !.at = stage, !.run = run]
Ends(c, stage) == [caller[c] EXCEPT !.at = stage, !.manifest = NoFlow]

\* PUT of a definition.  PostgreSQL stores a digest once per project, so content that
\* was applied before and replaced cannot be applied again there.
Applies(name, content) ==
    /\ Current(name) # content
    /\ setup[1] = "postgres" => content \notin Range(defs[name])

ApplyResource(name, content) ==
    /\ Len(defs["agent"]) + Len(defs["profile"]) < MaxApplies + 2
    /\ Applies(name, content)
    /\ Audit("editor", "apply")
    /\ defs' = [defs EXCEPT ![name] = Append(@, content)]
    /\ UNCHANGED <<setup, runs, flows, caller, faults>>

\* The id of the run that is about to be created.
RunID(req) == IF req.id # "" THEN req.id ELSE IF req.key # "" THEN "run-k" ELSE "run-random"

WithKey(key) == {id \in Ids : key # "" /\ runs[id] # NoRun /\ runs[id].key = key}

NewRun(req) == [digest |-> req.digest, key |-> req.key, by |-> req.by]

\* CreateRun looks for the key before it stores a row; Memory looks at the id first.
FindByKey(req) ==
    IF setup[1] = "memory" /\ runs[RunID(req)] # NoRun THEN {} ELSE WithKey(req.key)

\* POST of a run, as far as the lookup of the idempotency key.  Memory's CreateRun holds
\* its lock from here to InsertRun.
Receive(c) ==
    LET req == caller[c].req IN
    /\ caller[c].at = "idle"
    /\ setup[1] = "memory" => \A d \in Callers : caller[d].at # "insert"
    /\ Audit(req.by, "run")
    /\ \/ /\ ~Authorize(req.by, "run")
          /\ caller' = [caller EXCEPT ![c] = Ends(c, "refused")]
       \/ /\ Authorize(req.by, "run")
          /\ IF FindByKey(req) = {} THEN caller' = [caller EXCEPT ![c] = Goes(c, "insert", RunID(req))]
             ELSE \E id \in FindByKey(req) : caller' = [caller EXCEPT ![c] = Goes(c, "compile", id)]
    /\ UNCHANGED <<setup, defs, runs, flows, faults>>

\* What the primary key and the unique idempotency key refuse.
Taken(req) == runs[RunID(req)] # NoRun \/ WithKey(req.key) # {}

\* The row is stored.  Memory refuses a known id with ErrConflict; PostgreSQL fails the
\* statement and with it the request (500).
InsertRun(c) ==
    LET req == caller[c].req IN
    /\ caller[c].at = "insert"
    /\ \/ /\ ~Taken(req)
          /\ runs' = [runs EXCEPT ![RunID(req)] = NewRun(req)]
          /\ caller' = [caller EXCEPT ![c] = Goes(c, "compile", RunID(req))]
       \/ /\ Taken(req) /\ UNCHANGED runs
          /\ caller' = [caller EXCEPT ![c] =
                 IF setup[1] = "memory" THEN Goes(c, "recover", RunID(req)) ELSE Ends(c, "idle")]
    /\ UNCHANGED <<setup, defs, flows, audits, faults>>

\* After ErrConflict: the run under this id is taken when it has the same key.
Recover(c) ==
    LET req == caller[c].req IN
    /\ caller[c].at = "recover"
    /\ caller' = [caller EXCEPT ![c] =
           IF req.key # "" /\ runs[RunID(req)].key = req.key
           THEN Goes(c, "compile", RunID(req)) ELSE Ends(c, "refused")]
    /\ UNCHANGED <<setup, defs, runs, flows, audits, faults>>

MutantMatches(run) == TRUE

\* The applied revision is the one the run was created for.
Matches(run) == Current("agent") = run.digest

Manifest(req) == [revision |-> Current("agent"), agent |-> Current("agent"),
                  profile |-> Current("profile"), input |-> req.input]

\* CompileRun: the definition the run names is read ...
CompileRun(c) ==
    /\ caller[c].at = "compile"
    /\ caller' = [caller EXCEPT ![c] =
           IF ~Matches(runs[caller[c].run]) THEN Ends(c, "idle")
           ELSE [@ EXCEPT !.at = "contract", !.manifest = Manifest(caller[c].req)]]
    /\ UNCHANGED <<setup, defs, runs, flows, audits, faults>>

\* ... and read again, with what it refers to, for the contract of its step.
CompileAgentExecution(c) ==
    /\ caller[c].at = "contract"
    /\ caller' = [caller EXCEPT ![c].at = "start", ![c].manifest.agent = Current("agent"),
                                ![c].manifest.profile = Current("profile")]
    /\ UNCHANGED <<setup, defs, runs, flows, audits, faults>>

\* Enqueue accepts a second start only with the manifest and the input of the first.
Same(stored, manifest) == stored = manifest

\* The engine's StartRun.  Temporal refuses a second workflow of the same id, which the
\* starter takes for success; any error is told as 503.
StartRun(c) ==
    LET id == caller[c].run
        stored == IF flows[id] = NoFlow THEN caller[c].manifest ELSE flows[id]
        ok == setup[2] = "temporal" \/ Same(stored, caller[c].manifest) IN
    /\ caller[c].at = "start"
    /\ flows' = [flows EXCEPT ![id] = stored]
    /\ caller' = [caller EXCEPT ![c] = Ends(c, IF ok THEN "done" ELSE "idle")]
    /\ UNCHANGED <<setup, defs, runs, audits, faults>>

\* A call that fails, or a server that stops, in the middle of a request.
CutOff(c) ==
    /\ caller[c].at \notin {"idle", "done", "refused"} /\ faults < MaxFaults
    /\ setup[1] = "memory" => caller[c].at # "insert"
    /\ faults' = faults + 1
    /\ \/ UNCHANGED <<runs, flows>>
       \/ /\ caller[c].at = "insert" /\ ~Taken(caller[c].req)
          /\ runs' = [runs EXCEPT ![RunID(caller[c].req)] = NewRun(caller[c].req)]
          /\ UNCHANGED flows
       \/ /\ caller[c].at = "start" /\ flows[caller[c].run] = NoFlow
          /\ flows' = [flows EXCEPT ![caller[c].run] = caller[c].manifest]
          /\ UNCHANGED runs
    /\ caller' = [caller EXCEPT ![c] = Ends(c, "idle")]
    /\ UNCHANGED <<setup, defs, audits>>

Init ==
    /\ setup \in Setups
    /\ defs = [n \in Names |-> <<1>>]
    /\ runs = [id \in Ids |-> NoRun]
    /\ flows = [id \in Ids |-> NoFlow]
    /\ audits = {}
    /\ caller \in [Callers -> [req : Requests, at : {"idle"}, run : {""}, manifest : {NoFlow}]]
    /\ faults = 0

Attempt(c) ==
    \/ Receive(c)
    \/ InsertRun(c)
    \/ Recover(c)
    \/ CompileRun(c)
    \/ CompileAgentExecution(c)
    \/ StartRun(c)

Next ==
    \/ \E c \in Callers : Attempt(c) \/ CutOff(c)
    \/ \E n \in Names, v \in Contents : ApplyResource(n, v)

----------------------------------------------------------------------------
\* Callers with one idempotency key share one run: the table holds at most one run per
\* key, and everyone answered under the key was given that run.
OneRunPerKey ==
    /\ Cardinality(WithKey("k")) <= 1
    /\ \A c \in Callers : caller[c].at = "done" /\ caller[c].req.key = "k" =>
           WithKey("k") = {caller[c].run}

\* Nothing changes without a record of who was allowed to change it: every run and every
\* later revision has its audit entry.
ChangesAreAudited ==
    /\ \A id \in Ids : runs[id] # NoRun =>
           <<runs[id].by, "run", "allowed">> \in audits /\ Authorize(runs[id].by, "run")
    /\ (\E n \in Names : Len(defs[n]) > 1) => <<"editor", "apply", "allowed">> \in audits

\* The content old of the agent was applied before new, or is new.
NotOlder(old, new) ==
    \E i, j \in 1..Len(defs["agent"]) :
        i <= j /\ defs["agent"][i] = old /\ defs["agent"][j] = new

\* A caller is told that its run exists only when a workflow carries it.  The workflow is
\* labelled with the revision the run was created for.  Its agent step was compiled from that
\* revision or, because the definition is read again for the step's contract
\* (starter.go:177-183, 250), from one applied after it: never from an older one.
AnsweredIsStarted ==
    \A c \in Callers : caller[c].at = "done" =>
        LET id == caller[c].run IN
        /\ runs[id] # NoRun /\ flows[id] # NoFlow
        /\ flows[id].revision = runs[id].digest
        /\ NotOlder(runs[id].digest, flows[id].agent)

\* The local engine never confirms a start whose input is not the one it stored.
LocalReplayMatches ==
    setup[2] = "local" =>
        \A c \in Callers : caller[c].at = "done" => flows[caller[c].run].input = caller[c].req.input

\* What keeps a keyed caller out for good: a definition that has moved on, or a run under
\* its key that was asked for or compiled differently.
Moved(c) ==
    LET id == IF WithKey("k") = {} THEN RunID(caller[c].req) ELSE CHOOSE i \in WithKey("k") : TRUE IN
    \/ runs[id] # NoRun /\ runs[id] # NewRun(caller[c].req)
    \/ Current("agent") # caller[c].req.digest
    \/ /\ flows[id] # NoFlow /\ setup[2] = "local"
       /\ flows[id] # Manifest(caller[c].req)

\* A caller entitled to an answer, and one that has it or cannot have it.
Entitled(c) == caller[c].req.key = "k" /\ Authorize(caller[c].req.by, "run")
Served(c) == caller[c].at \in {"done", "refused"} \/ Moved(c)
=============================================================================
