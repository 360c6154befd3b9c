---------------------------- MODULE RuntimeStream ----------------------------
(***************************************************************************)
(* The runtime event stream of a run, from the agent to its completion     *)
(* record.  The agent posts numbered frames to the broker's runtime        *)
(* handler; the collector stores every frame and then an index entry for   *)
(* its number; when the process has exited the stream is read back, or     *)
(* taken from the collector, and one immutable completion record written.  *)
(* A stream that has no terminal frame by then, or contradicts the exit    *)
(* code, fails the run for good.  Controllers may finalize at once, the    *)
(* pod may be replaced or lost, and an answer of the store may be lost     *)
(* with the object stored at once, later, or never.                        *)
(*                                                                         *)
(* A frame is its number, its body and its kind.  Objects are never        *)
(* overwritten: a put of an existing key reads it and compares.            *)
(***************************************************************************)
EXTENDS Integers, FiniteSets, Sequences, SequencesExt

CONSTANTS
    Controllers,  \* finalizing workers
    Bodies,       \* bodies of frames the agent sends
    Sent,         \* bound: the frames the agent may send
    Redacted,     \* [Bodies -> Bodies]: what is left of a body in the store
    MaxSeq,       \* bound: length of a stream
    MaxFaults,    \* bound: lost answers of the store
    MaxRestarts   \* bound: broker processes after the first

Terminal == {"completed", "failed"}
Frame == [seq : 1..MaxSeq, body : Bodies, kind : {"event"} \cup Terminal]

ASSUME StreamAssumption ==
    /\ MaxSeq \in Nat \ {0} /\ MaxFaults \in Nat /\ MaxRestarts \in Nat
    /\ Redacted \in [Bodies -> Bodies] /\ Sent \subseteq Frame

VARIABLES
    frames,      \* stored frame objects
    index,       \* the stored index: the frames it refers to, one per number
    manifests,   \* stored stream manifests
    completion,  \* the stored completion record
    late,        \* puts whose sender gave up and that may still arrive
    exit,        \* the process: "running", its exit code, or "gone" with its pod
    failed,      \* the run was failed for want of a completion record
    waiter,      \* a process waiter reports the exit to the broker
    broker,      \* the broker: handler and collector
    control,     \* per controller: its finalization
    faults, restarts,
    acked,       \* history: frames acknowledged to the agent, as stored
    exits        \* history: exit codes of the run's processes

store == <<frames, index, manifests, completion, late>>
vars == <<store, exit, failed, waiter, broker, control, faults, restarts, acked, exits>>

None == <<>>

NewBroker ==
    [at |-> "idle", frame |-> None, stream |-> <<>>, accepted |-> {}, fatal |-> FALSE,
     exited |-> FALSE, completion |-> None]

Ready == [at |-> "idle", stream |-> <<>>, code |-> "zero"]

Init ==
    /\ frames = {} /\ index = {} /\ manifests = {} /\ completion = None /\ late = {}
    /\ exit = "running" /\ failed = FALSE /\ exits = {} /\ waiter \in BOOLEAN
    /\ broker = NewBroker /\ control = [w \in Controllers |-> Ready]
    /\ faults = 0 /\ restarts = 0 /\ acked = {}

-----------------------------------------------------------------------------
(***************************************************************************)
(* The store.                                                              *)
(***************************************************************************)

Object(kind, value) == [kind |-> kind, value |-> value]

\* What is stored under the key of an object already, if anything.
Existing(o) ==
    CASE o.kind = "frame"    -> frames \cap {o.value}
      [] o.kind = "index"    -> {f \in index : f.seq = o.value.seq}
      [] o.kind = "manifest" -> manifests \cap {o.value}
      [] OTHER               -> IF completion = None THEN {} ELSE {completion}

\* A conditional put creates the object if its key is free.
Create(o) ==
    /\ frames' = frames \cup (IF o.kind = "frame" THEN {o.value} ELSE {})
    /\ index' = IF o.kind = "index" /\ Existing(o) = {} THEN index \cup {o.value} ELSE index
    /\ manifests' = manifests \cup (IF o.kind = "manifest" THEN {o.value} ELSE {})
    /\ completion' = IF o.kind = "completion" /\ Existing(o) = {} THEN o.value ELSE completion

Lost == faults < MaxFaults /\ faults' = faults + 1

(***************************************************************************)
(* putImmutable: stored, or there already with the same bytes; a different *)
(* object is a conflict; an error proves nothing.                          *)
(***************************************************************************)
Put(o, ok, conflict, ambiguous) ==
    \/ Existing(o) \subseteq {o.value} /\ Create(o) /\ ok /\ UNCHANGED <<late, faults>>
    \/ ~(Existing(o) \subseteq {o.value}) /\ conflict /\ UNCHANGED <<store, faults>>
    \/ Lost /\ ambiguous /\ UNCHANGED <<frames, index, manifests, completion, late>>
    \/ Lost /\ ambiguous /\ Create(o) /\ UNCHANGED late
    \/ Lost /\ ambiguous /\ late' = late \cup {o} /\ UNCHANGED <<frames, index, manifests, completion>>

\* A put whose sender gave up arrives.
LatePut(o) ==
    /\ late' = late \ {o}
    /\ Create(o)
    /\ UNCHANGED <<exit, failed, waiter, broker, control, faults, restarts, acked, exits>>

-----------------------------------------------------------------------------
(***************************************************************************)
(* The broker: one request at a time under the handler's mutex.            *)
(***************************************************************************)

\* What Accept stores of a frame, after redaction.
Stored(f) == [f EXCEPT !.body = Redacted[@]]

EndsIn(stream) == IF stream = <<>> THEN "event" ELSE Last(stream).kind

\* Collector.Accept up to the store: the next number, nothing after a terminal
\* frame or after the exit.
Accepts(f) ==
    /\ ~broker.exited
    /\ EndsIn(broker.stream) \notin Terminal
    /\ f.seq = Len(broker.stream) + 1

\* The same frame, byte for byte, as the one accepted under its number.
Replays(f) == f \in broker.accepted

\* The agent gets the answer if it still runs.
Acknowledge(f) == acked' = IF exit = "running" THEN acked \cup {Stored(f)} ELSE acked

Reject == broker' = [broker EXCEPT !.fatal = TRUE, !.at = "idle", !.frame = None]

\* handleEvent.
Event(f) ==
    /\ exit = "running" /\ broker.at = "idle" /\ ~broker.fatal
    /\ \/ Replays(f) /\ Acknowledge(f) /\ UNCHANGED broker
       \/ ~Replays(f) /\ Accepts(f) /\ broker' = [broker EXCEPT !.at = "frame", !.frame = f] /\ UNCHANGED acked
       \/ ~Replays(f) /\ ~Accepts(f) /\ Reject /\ UNCHANGED acked
    /\ UNCHANGED <<store, exit, failed, waiter, control, faults, restarts, exits>>

\* A frame that does not parse, is too large or belongs to another run.
BadEvent ==
    /\ exit = "running" /\ broker.at = "idle" /\ ~broker.fatal
    /\ Reject
    /\ UNCHANGED <<store, exit, failed, waiter, control, faults, restarts, acked, exits>>

\* persistFrameLocked: the frame first.
PutFrame ==
    /\ broker.at = "frame"
    /\ Put(Object("frame", Stored(broker.frame)), broker' = [broker EXCEPT !.at = "index"], Reject, Reject)
    /\ UNCHANGED <<exit, failed, waiter, control, restarts, acked, exits>>

\* Mutant: a frame is acknowledged although its index entry may be missing.
MutantPutIndex ==
    /\ broker.at = "index"
    /\ LET f == broker.frame
           taken == /\ broker' = [broker EXCEPT !.at = "idle", !.frame = None, !.stream = Append(@, Stored(f)),
                                                !.accepted = @ \cup {f}]
                    /\ Acknowledge(f)
       IN  Put(Object("index", Stored(f)), taken, taken, taken)
    /\ UNCHANGED <<exit, failed, waiter, control, restarts, exits>>

\* Then its index entry, after which the frame is part of the stream.
PutIndex ==
    /\ broker.at = "index"
    /\ LET f == broker.frame
           taken == /\ broker' = [broker EXCEPT !.at = "idle", !.frame = None, !.stream = Append(@, Stored(f)),
                                                !.accepted = @ \cup {f}]
                    /\ Acknowledge(f)
           refused == Reject /\ UNCHANGED acked
       IN  Put(Object("index", Stored(f)), taken, refused, refused)
    /\ UNCHANGED <<exit, failed, waiter, control, restarts, exits>>

\* A run.completed frame contradicts a failed process.
Consistent(stream, code) ==
    /\ EndsIn(stream) \in Terminal
    /\ EndsIn(stream) = "completed" => code = "zero"

\* The record of a stream.
Record(stream) == [kind |-> EndsIn(stream), stream |-> stream]

\* handleProcessExit, where a waiter is attached: a repeated report gets the
\* remembered answer, and any failure is fatal.
ProcessExit ==
    /\ waiter /\ exit \in {"zero", "nonzero"} /\ broker.at = "idle" /\ ~broker.exited /\ ~broker.fatal
    /\ broker' = IF Consistent(broker.stream, exit)
                 THEN [broker EXCEPT !.exited = TRUE, !.at = "manifest"]
                 ELSE [broker EXCEPT !.exited = TRUE, !.fatal = TRUE]
    /\ UNCHANGED <<store, exit, failed, waiter, control, faults, restarts, acked, exits>>

\* finalizeLocked: the manifest, then the record.
PutManifest ==
    /\ broker.at = "manifest"
    /\ Put(Object("manifest", broker.stream), broker' = [broker EXCEPT !.at = "completion"], Reject, Reject)
    /\ UNCHANGED <<exit, failed, waiter, control, restarts, acked, exits>>

PutCompletion ==
    /\ broker.at = "completion"
    /\ LET r == Record(broker.stream)
       IN  Put(Object("completion", r), broker' = [broker EXCEPT !.at = "idle", !.completion = r], Reject, Reject)
    /\ UNCHANGED <<exit, failed, waiter, control, restarts, acked, exits>>

-----------------------------------------------------------------------------
(***************************************************************************)
(* The controllers: FinalizeObservedExit.                                  *)
(***************************************************************************)

Set(w, r) == control' = [control EXCEPT ![w] = r]

\* The run is still Working and has no record.  The exit code is read off the pod; a
\* Sandbox that is over without one fails the run.
Finalize(w) ==
    /\ control[w].at = "idle" /\ exit # "running" /\ completion = None /\ ~failed
    /\ IF exit = "gone" THEN failed' = TRUE /\ UNCHANGED control
       ELSE Set(w, [Ready EXCEPT !.at = "scan", !.code = exit]) /\ UNCHANGED failed
    /\ UNCHANGED <<store, exit, waiter, broker, faults, restarts, acked, exits>>

\* The entry with the next number, if there is one.
NextEntry(stream) == {f \in index : f.seq = Len(stream) + 1}

\* Mutant: the entry that is missing ends the stream.
MutantScan(w) ==
    LET s == control[w].stream IN
    /\ control[w].at = "scan"
    /\ IF NextEntry(s) = {} /\ s # <<>> /\ (EndsIn(s) = "completed" => control[w].code = "zero")
       THEN Set(w, [control[w] EXCEPT !.at = "manifest"])
       ELSE IF NextEntry(s) = {} THEN Set(w, Ready)
       ELSE \E f \in NextEntry(s) : Set(w, [control[w] EXCEPT !.stream = Append(s, f)])
    /\ UNCHANGED <<store, exit, failed, waiter, broker, faults, restarts, acked, exits>>

\* failRun, and the end of the attempt; the write of the status may be lost.
Fails(w) ==
    /\ Set(w, Ready)
    /\ \/ failed' = TRUE /\ UNCHANGED faults
       \/ Lost /\ UNCHANGED failed

\* Mutant: a store that does not answer has no entry.
MutantFailScan(w) ==
    LET s == control[w].stream IN
    /\ control[w].at = "scan"
    /\ \/ EndsIn(s) \notin Terminal /\ (NextEntry(s) = {} \/ faults < MaxFaults) /\ Fails(w)
       \/ /\ EndsIn(s) \notin Terminal
          /\ \E f \in NextEntry(s) : Set(w, [control[w] EXCEPT !.stream = Append(s, f)])
          /\ UNCHANGED <<faults, failed>>
       \/ /\ EndsIn(s) \in Terminal /\ NextEntry(s) = {}
          /\ IF Consistent(s, control[w].code)
             THEN Set(w, [control[w] EXCEPT !.at = "manifest"]) /\ UNCHANGED <<faults, failed>>
             ELSE Fails(w)
    /\ UNCHANGED <<store, exit, waiter, broker, restarts, acked, exits>>

(***************************************************************************)
(* The stream is read entry by entry.  A missing entry before a terminal   *)
(* frame, or a contradicting exit code, fails the run, and no other        *)
(* attempt is made; an entry after the terminal frame or an unreadable     *)
(* object ends this attempt, to be made again.                             *)
(***************************************************************************)
Scan(w) ==
    LET s == control[w].stream IN
    /\ control[w].at = "scan"
    /\ \/ EndsIn(s) \notin Terminal /\ NextEntry(s) = {} /\ Fails(w)
       \/ /\ EndsIn(s) \notin Terminal
          /\ \E f \in NextEntry(s) : Set(w, [control[w] EXCEPT !.stream = Append(s, f)])
          /\ UNCHANGED <<faults, failed>>
       \/ /\ EndsIn(s) \in Terminal
          /\ IF NextEntry(s) = {} /\ ~Consistent(s, control[w].code) THEN Fails(w)
             ELSE /\ Set(w, IF NextEntry(s) = {} THEN [control[w] EXCEPT !.at = "manifest"] ELSE Ready)
                  /\ UNCHANGED <<faults, failed>>
       \/ Lost /\ Set(w, Ready) /\ UNCHANGED failed
    /\ UNCHANGED <<store, exit, waiter, broker, restarts, acked, exits>>

ControlManifest(w) ==
    /\ control[w].at = "manifest"
    /\ Put(Object("manifest", control[w].stream), Set(w, [control[w] EXCEPT !.at = "completion"]), Set(w, Ready),
           Set(w, Ready))
    /\ UNCHANGED <<exit, failed, waiter, broker, restarts, acked, exits>>

ControlCompletion(w) ==
    /\ control[w].at = "completion"
    /\ Put(Object("completion", Record(control[w].stream)), Set(w, Ready), Set(w, Ready), Set(w, Ready))
    /\ UNCHANGED <<exit, failed, waiter, broker, restarts, acked, exits>>

-----------------------------------------------------------------------------
Exit(code) ==
    /\ exit = "running"
    /\ exit' = code /\ exits' = exits \cup {code}
    /\ UNCHANGED <<store, failed, waiter, broker, control, faults, restarts, acked>>

\* The put a broker that ends may have sent.
InFlight ==
    CASE broker.at = "index" -> {Object("index", Stored(broker.frame))}
      [] broker.at = "completion" -> {Object("completion", Record(broker.stream))}
      [] OTHER -> {}

\* The pod is removed, running or not, and its exit code with it.
Vanish ==
    /\ exit # "gone" /\ Lost
    /\ exit' = "gone" /\ broker' = NewBroker
    /\ late' \in {late, late \cup InFlight}
    /\ UNCHANGED <<frames, index, manifests, completion, failed, waiter, control, restarts, acked, exits>>

\* The pod is created again: a new broker and a new agent process.
Restart ==
    /\ restarts < MaxRestarts /\ ~failed
    /\ restarts' = restarts + 1
    /\ exit' = "running" /\ broker' = NewBroker
    /\ late' \in {late, late \cup InFlight}
    /\ UNCHANGED <<frames, index, manifests, completion, failed, waiter, control, faults, acked, exits>>

Controller(w) == Finalize(w) \/ Scan(w) \/ ControlManifest(w) \/ ControlCompletion(w)

Next ==
    \/ \E f \in Sent : Event(f)
    \/ BadEvent \/ PutFrame \/ PutIndex \/ ProcessExit \/ PutManifest \/ PutCompletion
    \/ \E w \in Controllers : Controller(w)
    \/ \E o \in late : LatePut(o)
    \/ \E code \in {"zero", "nonzero"} : Exit(code)
    \/ Vanish \/ Restart

(***************************************************************************)
(* A run that is Working is reconciled again and again, and a              *)
(* controller that started a step ends it.                                 *)
(***************************************************************************)
Spec == Init /\ [][Next]_vars /\ \A w \in Controllers : WF_vars(Controller(w))

-----------------------------------------------------------------------------
(***************************************************************************)
(* Properties.                                                             *)
(***************************************************************************)

\* Every variable keeps its type.
TypeOK ==
    /\ frames \subseteq Frame /\ index \subseteq Frame /\ acked \subseteq Frame
    /\ \A t \in manifests : \A i \in DOMAIN t : t[i] \in Frame /\ t[i].seq = i
    /\ exit \in {"running", "zero", "nonzero", "gone"} /\ failed \in BOOLEAN /\ exits \subseteq {"zero", "nonzero"}
    /\ waiter \in BOOLEAN /\ faults \in 0..MaxFaults /\ restarts \in 0..MaxRestarts
    /\ broker.at \in {"idle", "frame", "index", "manifest", "completion"} /\ broker.accepted \subseteq Frame
    /\ \A w \in Controllers : control[w].at \in {"idle", "scan", "manifest", "completion"}
    /\ Cardinality({f.seq : f \in index}) = Cardinality(index)

\* Whatever processes wrote it and whatever was lost or late, the index is a
\* stream: no number is missing below another, and nothing follows a terminal
\* frame.  A new collector starts at one and is only let past entries it agrees with.
IndexIsAStream ==
    \A f \in index :
        /\ \A n \in 1..(f.seq - 1) : \E g \in index : g.seq = n
        /\ f.kind \in Terminal => \A g \in index : g.seq <= f.seq

\* Every index entry has its frame: persistFrameLocked stores the frame first.
EntriesResolve == index \subseteq frames

\* A frame that was acknowledged to the agent, by any broker process, is in the
\* stream, and in no other form: handleEvent answers 204 only after Accept.
AcknowledgedIsStored == acked \subseteq index

\* The stored stream is what the agent was told it is.
StreamIsKept == IndexIsAStream /\ EntriesResolve /\ AcknowledgedIsStored

\* The completion record describes the whole stream of the run, then and at any
\* later time, whoever wrote it.
CompletionIsTheStream ==
    completion # None =>
        /\ ToSet(completion.stream) = index
        /\ completion.kind \in Terminal /\ completion.kind = Last(completion.stream).kind

\* The record refers to a manifest that is stored: WriteJSONL can follow it.
CompletionResolves == completion # None => completion.stream \in manifests

\* A run is recorded as completed only after a process of it exited with zero.
CompletedMeansExitZero == completion # None /\ completion.kind = "completed" => "zero" \in exits

\* The completion record is true of the stream, of its objects and of the process.
CompletionIsTrue == CompletionIsTheStream /\ CompletionResolves /\ CompletedMeansExitZero

\* The agent was told that its terminal frame is stored, and its process has exited in
\* agreement with it; the run was not failed for a process that was replaced.
EndIsAgreed ==
    /\ exit \in {"zero", "nonzero"} /\ restarts = MaxRestarts /\ ~failed
    /\ \E f \in acked : f.kind = "failed" \/ (f.kind = "completed" /\ exit = "zero")
    /\ \A w \in Controllers : control[w].at = "idle" \/ control[w].code = exit

\* A stream whose terminal frame was acknowledged and whose process has exited in
\* agreement with it gets its completion record, unless the pod is lost: a run is failed
\* for want of a terminal frame only when none was acknowledged, and a failure of the
\* store leaves FinalizeObservedExit to be repeated (agentrun.go:537-545).
EndedIsRecorded == EndIsAgreed ~> (completion # None \/ exit = "gone")

=============================================================================
