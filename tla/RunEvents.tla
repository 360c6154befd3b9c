------------------------------- MODULE RunEvents -------------------------------
(***************************************************************************)
(* v2 control plane: the status of one run, its event log and a client     *)
(* that follows the log.  Writers are workers of the engine, which change  *)
(* the status and log the change in one transaction, and request handlers, *)
(* which append events.  In Memory an append is one step.  In PostgreSQL the     *)
(* sequence number is drawn when the row is inserted and the row is seen   *)
(* when its transaction commits; a status change locks the run's row       *)
(* (FOR UPDATE) and the foreign key of an inserted event needs that row    *)
(* shared until its transaction ends.                                      *)
(*                                                                         *)
(* The client reads a first page of at most Limit events after the         *)
(* sequence it names, then the server polls for it.  The connection may    *)
(* break; the client comes back with the last sequence it has.             *)
(***************************************************************************)
EXTENDS Integers, Sequences, FiniteSets, SequencesExt, RunStatuses

CONSTANTS
    Engines,            \* workers that change the status
    Appenders,          \* request handlers that append one event each
    Statuses,           \* statuses the engine uses in this instance
    Limit,              \* events of the first page (defaultPageSize)
    MaxChanges,         \* bound: status changes
    MaxBreaks           \* bound: connections that break

VARIABLES
    store,      \* "memory" or "postgres"
    status,     \* the committed status of the run
    changes,    \* history: the statuses in the order they were committed
    next,       \* next sequence number to draw
    log,        \* committed events: [seq, kind], kind "event" or a status
    tx,         \* open transactions: per writer [at, seq, to]
    client      \* [open, last, sent, got, asked]: see Connect

vars == <<store, status, changes, next, log, tx, client>>

Writers == Appenders \cup Engines
NoTx == [at |-> "none", seq |-> 0, to |-> ""]
Closed == [open |-> FALSE, last |-> 0, sent |-> <<>>, got |-> {}, breaks |-> 0]

TypeOK ==
    /\ store \in {"memory", "postgres"} /\ status \in Statuses
    /\ changes \in Seq(Statuses) /\ next \in Nat
    /\ log \subseteq [seq : Nat, kind : Statuses \cup {"event"}]
    /\ tx \in [Writers -> [at : {"none", "locked", "waiting", "inserted", "done"},
                           seq : Nat, to : Statuses \cup {""}]]
    /\ client \in [open : BOOLEAN, last : Nat, sent : Seq(Nat), got : SUBSET Nat,
                   breaks : 0..MaxBreaks]

----------------------------------------------------------------------------
\* The run's row can be taken: FOR UPDATE against everyone, shared against FOR UPDATE.
RowIsFree(w) ==
    \A o \in Writers \ {w} :
        /\ tx[o].at # "locked"
        /\ w \in Engines => tx[o].at # "inserted"

\* SetRunStatus of Memory, and AppendEvent: one locked step.
Record(kind) == log' = log \cup {[seq |-> next, kind |-> kind]} /\ next' = next + 1

SetStatusMemory(to) ==
    /\ store = "memory" /\ Len(changes) < MaxChanges
    /\ status # to /\ ValidRunTransition(status, to)
    /\ Record(to) /\ status' = to /\ changes' = Append(changes, to)
    /\ UNCHANGED <<store, tx, client>>

AppendMemory(w) ==
    /\ store = "memory" /\ tx[w].at = "none"
    /\ Record("event") /\ tx' = [tx EXCEPT ![w].at = "done"]
    /\ UNCHANGED <<store, status, changes, client>>

\* SetRunStatus of PostgreSQL: the row is locked and the transition judged, ...
LockRun(w, to) ==
    /\ store = "postgres" /\ Len(changes) < MaxChanges
    /\ tx[w].at = "none" /\ RowIsFree(w)
    /\ status # to /\ ValidRunTransition(status, to)
    /\ tx' = [tx EXCEPT ![w] = [NoTx EXCEPT !.at = "locked", !.to = to]]
    /\ UNCHANGED <<store, status, changes, next, log, client>>

\* ... the row updated and the event inserted, ...
InsertStatusEvent(w) ==
    /\ tx[w].at = "locked" /\ tx[w].seq = 0
    /\ tx' = [tx EXCEPT ![w].seq = next] /\ next' = next + 1
    /\ UNCHANGED <<store, status, changes, log, client>>

\* ... and both become visible.
CommitStatus(w) ==
    /\ tx[w].at = "locked" /\ tx[w].seq # 0
    /\ status' = tx[w].to /\ changes' = Append(changes, tx[w].to)
    /\ log' = log \cup {[seq |-> tx[w].seq, kind |-> tx[w].to]}
    /\ tx' = [tx EXCEPT ![w] = NoTx]
    /\ UNCHANGED <<store, next, client>>

\* AppendEvent of PostgreSQL: the row is inserted, its foreign key waits for the run's
\* row, the transaction commits.
InsertEvent(w) ==
    /\ store = "postgres" /\ tx[w].at = "none"
    /\ tx' = [tx EXCEPT ![w] = [NoTx EXCEPT !.at = "waiting", !.seq = next]] /\ next' = next + 1
    /\ UNCHANGED <<store, status, changes, log, client>>

CheckForeignKey(w) ==
    /\ tx[w].at = "waiting" /\ RowIsFree(w)
    /\ tx' = [tx EXCEPT ![w].at = "inserted"]
    /\ UNCHANGED <<store, status, changes, next, log, client>>

CommitEvent(w) ==
    /\ tx[w].at = "inserted"
    /\ log' = log \cup {[seq |-> tx[w].seq, kind |-> "event"]}
    /\ tx' = [tx EXCEPT ![w] = [NoTx EXCEPT !.at = "done"]]
    /\ UNCHANGED <<store, status, changes, next, client>>

----------------------------------------------------------------------------
\* ListEvents: the committed sequences after one, in order.
ListEvents(after) == SetToSortSeq({e.seq : e \in {x \in log : x.seq > after}}, <)

\* writeEvents returns the last sequence it wrote, 0 when there was none.
WriteEvents(c, events) ==
    [c EXCEPT !.sent = @ \o events, !.got = @ \cup ToSet(events),
              !.last = IF events = <<>> THEN 0 ELSE Last(events)]

MutantFirstPage(after) ==
    LET all == ListEvents(after)
    IN SelectSeq(all, LAMBDA s : s + Limit > Len(all))

\* handleEvents cuts the first page to the limit.
FirstPage(after) == SubSeq(ListEvents(after), 1, IF Len(ListEvents(after)) < Limit
                                                 THEN Len(ListEvents(after)) ELSE Limit)

MaxGot == IF client.got = {} THEN 0 ELSE CHOOSE n \in client.got : \A m \in client.got : m <= n

\* A client connects with the last sequence it has (Last-Event-ID); the server's cursor
\* starts at what the first page wrote.
Connect ==
    /\ ~client.open
    /\ client' = WriteEvents([client EXCEPT !.open = TRUE, !.sent = <<>>], FirstPage(MaxGot))
    /\ UNCHANGED <<store, status, changes, next, log, tx>>

\* The poll of an open stream.
Poll ==
    /\ client.open /\ ListEvents(client.last) # <<>>
    /\ client' = WriteEvents(client, ListEvents(client.last))
    /\ UNCHANGED <<store, status, changes, next, log, tx>>

Break ==
    /\ client.open /\ client.breaks < MaxBreaks
    /\ client' = [client EXCEPT !.open = FALSE, !.breaks = @ + 1]
    /\ UNCHANGED <<store, status, changes, next, log, tx>>

Init ==
    /\ store \in {"memory", "postgres"} /\ status = "Pending" /\ changes = <<>>
    /\ next = 1 /\ log = {} /\ tx = [w \in Writers |-> NoTx] /\ client = Closed

Write ==
    \/ \E to \in Statuses : SetStatusMemory(to) \/ (\E w \in Engines : LockRun(w, to))
    \/ \E w \in Engines : InsertStatusEvent(w) \/ CommitStatus(w)
    \/ \E w \in Appenders : AppendMemory(w) \/ InsertEvent(w) \/ CheckForeignKey(w) \/ CommitEvent(w)

Next == Write \/ Connect \/ Poll \/ Break

----------------------------------------------------------------------------
\* The log tells the life of the run: the status events in the order of their sequence
\* numbers are the changes in the order they took effect, and the last one is the status.
LogTellsTheRun ==
    LET told == SetToSortSeq({e \in log : e.kind # "event"}, LAMBDA a, b : a.seq < b.seq) IN
    /\ [i \in 1..Len(told) |-> told[i].kind] = changes
    /\ changes # <<>> => status = Last(changes)

\* A stream never passes a status change by: when it has written a sequence number, every
\* status event with a smaller one has been written (an appended event may be passed by).
StatusIsNeverSkipped ==
    \A e \in log : e.kind # "event" /\ client.open /\ e.seq <= client.last => e.seq \in client.got

\* One connection is given each event once and in order.
OrderedStream ==
    \A i, j \in 1..Len(client.sent) : i < j => client.sent[i] < client.sent[j]

\* The run is over, and the client has been told.
Over == status \in Terminal
Told == \E e \in log : e.kind \in Terminal /\ e.seq \in client.got
=============================================================================
