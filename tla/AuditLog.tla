------------------------------ MODULE AuditLog ------------------------------
(***************************************************************************)
(* The audit log of one node (internal/audit, internal/service/audit*.go,  *)
(* handleAuditAppend of internal/raft/handlers.go): concurrent requests    *)
(* record entries that are hashed into a chain and signed, a bounded queue *)
(* forwards them, and clients export and verify the chain.                 *)
(*                                                                         *)
(* A record reads the latest hash, hashes and signs its entry, and then    *)
(* appends it; the state machine hashes the entry again, after the entry   *)
(* that then is the latest, and keeps the signature.  A hash is the        *)
(* sequence of contents it covers, so that equal hashes have equal input;  *)
(* a signature is the hash that was signed.  A signing key is configured.  *)
(***************************************************************************)
EXTENDS Naturals, Sequences, FiniteSets, Functions, TLC

CONSTANTS
    Recorders,    \* the goroutines that record
    QueueSize,    \* defaultForwardQueueSize
    MaxRecords    \* how many records are begun

VARIABLES
    entries,      \* the stored entries, in the order they were appended
    recorder,     \* what each goroutine is doing
    queue,        \* the sink's channel
    fate,         \* what became of entries at the sink: sent, failed, dropped, lost
    export,       \* the last export a client got: its head, and the records begun since
    begun,        \* records begun so far; also the clock
    overlapped    \* two records were under way at once

auditVars == <<entries, recorder, queue, fate, export, begun, overlapped>>

Resting == [at |-> "idle", ts |-> 0, prev |-> <<>>, exporting |-> FALSE, head |-> <<>>]

NoExport == [held |-> FALSE, head |-> <<>>, others |-> FALSE]

AuditInit ==
    /\ entries = <<>>
    /\ recorder = [r \in Recorders |-> Resting]
    /\ queue = <<>>
    /\ fate = [sent |-> {}, failed |-> {}, dropped |-> {}, lost |-> {}]
    /\ export = NoExport
    /\ begun = 0
    /\ overlapped = FALSE

----------------------------------------------------------------------------
\* A hash that leaves out the hash before it.
Unchained(prev, content) == <<content>>

computeHash(prev, content) == Append(prev, content)

LatestHash(log) == IF log = <<>> THEN <<>> ELSE log[Len(log)].hash

\* The contents of an entry: its timestamp and whatever else is recorded.
Content(ts) == [ts |-> ts, what |-> "recorded"]

InRecord(r) == recorder[r].at = "append"

\* Record up to Append: now is read after the latest hash.
Begin(r, rec) ==
    /\ begun < MaxRecords
    /\ begun' = begun + 1
    /\ recorder' = [recorder EXCEPT ![r] =
          [rec EXCEPT !.at = "append", !.ts = begun + 1, !.prev = LatestHash(entries)]]
    /\ overlapped' = (overlapped \/ \E q \in Recorders \ {r} : InRecord(q))

\* A request that records, or AuditExportService.Verify, which answers first.
Record(r) ==
    /\ recorder[r].at = "idle"
    /\ Begin(r, recorder[r])
    /\ export' = [export EXCEPT !.others = @ \/ export.held]
    /\ UNCHANGED <<entries, queue, fate>>

\* audit.Service.Export: the list, and then the head it signs ...
ExportHead(r) ==
    /\ recorder[r].at = "idle"
    /\ begun < MaxRecords
    /\ recorder' = [recorder EXCEPT ![r].at = "exported", ![r].exporting = TRUE,
                                    ![r].head = LatestHash(entries)]
    /\ UNCHANGED <<entries, queue, fate, export, begun, overlapped>>

\* ... and AuditExportService.Export records that it exported.
RecordExport(r) ==
    /\ recorder[r].at = "exported"
    /\ Begin(r, recorder[r])
    /\ UNCHANGED <<entries, queue, fate, export>>

Answered(r) ==
    IF recorder[r].exporting
    THEN export' = [held |-> TRUE, head |-> recorder[r].head,
                    others |-> \E q \in Recorders \ {r} : recorder[q].at # "idle"]
    ELSE UNCHANGED export

\* handleAuditAppend; an error of Append is returned, and every caller drops it.
AppendEntry(r) ==
    /\ InRecord(r)
    /\ \/ /\ LET content == Content(recorder[r].ts)
             IN  entries' = Append(entries,
                    [content |-> content,
                     hash |-> computeHash(LatestHash(entries), content),
                     signature |-> computeHash(recorder[r].prev, content)])
          /\ recorder' = [recorder EXCEPT ![r].at = "forward"]
          /\ UNCHANGED export
       \/ /\ recorder' = [recorder EXCEPT ![r] = Resting]
          /\ Answered(r)
          /\ UNCHANGED entries
    /\ UNCHANGED <<queue, fate, begun, overlapped>>

\* Forwarding that takes a full queue's oldest entry away.
ForwardEvicting(r) ==
    /\ recorder[r].at = "forward"
    /\ queue' = Append(IF Len(queue) < QueueSize THEN queue ELSE Tail(queue), recorder[r].ts)
    /\ recorder' = [recorder EXCEPT ![r] = Resting]
    /\ Answered(r)
    /\ UNCHANGED <<entries, fate, begun, overlapped>>

forwardEntry(r) ==
    /\ recorder[r].at = "forward"
    /\ IF Len(queue) < QueueSize
       THEN queue' = Append(queue, recorder[r].ts) /\ UNCHANGED fate
       ELSE fate' = [fate EXCEPT !.dropped = @ \cup {recorder[r].ts}] /\ UNCHANGED queue
    /\ recorder' = [recorder EXCEPT ![r] = Resting]
    /\ Answered(r)
    /\ UNCHANGED <<entries, begun, overlapped>>

\* One turn of the sink's worker: sent once, never again.
worker ==
    /\ queue # <<>>
    /\ \E how \in {"sent", "failed"} : fate' = [fate EXCEPT ![how] = @ \cup {Head(queue)}]
    /\ queue' = Tail(queue)
    /\ UNCHANGED <<entries, recorder, export, begun, overlapped>>

\* The process dies; the log is replicated, the queue is not.
DieForwarding ==
    /\ queue # <<>> \/ \E q \in Recorders : recorder[q].at = "forward"
    /\ fate' = [fate EXCEPT !.lost = @ \cup Range(queue) \cup
          {recorder[q].ts : q \in {q \in Recorders : recorder[q].at = "forward"}}]
    /\ queue' = <<>>
    /\ recorder' = [q \in Recorders |-> Resting]
    /\ UNCHANGED <<entries, export, begun, overlapped>>

AuditRequest(r) == ExportHead(r) \/ RecordExport(r)

AuditNext ==
    \/ worker
    \/ \E r \in Recorders :
          Record(r) \/ AuditRequest(r) \/ AppendEntry(r) \/ forwardEntry(r)
    \/ DieForwarding

AuditSpec == AuditInit /\ [][AuditNext]_auditVars

----------------------------------------------------------------------------
\* List with OrderAsc: by timestamp, entries with equal ones by id.
List(log) == SortSeq(log, LAMBDA a, b : a.content.ts < b.content.ts)

\* Verify's walk over the entries.
ChainVerdict(log) ==
    LET listed == List(log)
        before(i) == IF i = 1 THEN <<>> ELSE listed[i - 1].hash
    IN  IF \E i \in 1..Len(listed) :
              listed[i].hash # computeHash(before(i), listed[i].content)
        THEN "hash mismatch"
        ELSE IF \E i \in 1..Len(listed) : listed[i].signature # listed[i].hash
             THEN "signature mismatch"
             ELSE IF LatestHash(log) # LatestHash(listed)
                  THEN "head mismatch"
                  ELSE "valid"

\* Verify with the signature of an export's head.
Verify(log, head) ==
    ChainVerdict(log) = "valid" /\ log # <<>> /\ LatestHash(log) = head

TakenOut(log, i) == SubSeq(log, 1, i - 1) \o SubSeq(log, i + 1, Len(log))
Edited(log, i) == [log EXCEPT ![i].content.what = "edited"]

\* Verify of a log in which one entry's contents were changed, or one entry but
\* the last was taken out, never answers valid, whatever the concurrency of the
\* records was; and the log without its last entry is not valid for an export
\* that was made when that entry was the last.
EditsAreNoticed ==
    \A i \in 1..Len(entries) :
       /\ ChainVerdict(Edited(entries, i)) # "valid"
       /\ i < Len(entries) => ChainVerdict(TakenOut(entries, i)) # "valid"
       /\ i = Len(entries) => ~Verify(TakenOut(entries, i), LatestHash(entries))

\* A log whose records never overlapped verifies: failed appends, lost forwards
\* and restarts leave a chain that Verify accepts.
QuietLogVerifies == ~overlapped => ChainVerdict(entries) = "valid"

\* Verify tells a changed log from one that nobody touched (Service.Verify,
\* handleAuditAppend).
VerifyTells == EditsAreNoticed /\ QuietLogVerifies

\* Every stored entry is, for the forwarding sink, in exactly one place: with the
\* request that will hand it over, in the queue, sent, failed, dropped because the
\* queue was full, or lost in a crash; and nothing is anywhere that is not stored.
EachForwardedOnce ==
    LET places == <<Range(queue), fate.sent, fate.failed, fate.dropped, fate.lost,
                    {recorder[r].ts : r \in {r \in Recorders : recorder[r].at = "forward"}}>>
    IN  /\ UNION Range(places) = {entries[i].content.ts : i \in 1..Len(entries)}
        /\ \A i, j \in DOMAIN places : i # j => places[i] \cap places[j] = {}

\* An export that was answered, with nobody else recording since it was begun,
\* is accepted by Verify.
FreshExportVerifies ==
    (export.held /\ export.head # <<>> /\ ~export.others /\ ~overlapped
        /\ \A r \in Recorders : recorder[r].at = "idle")
       => Verify(entries, export.head)

=============================================================================
