----------------------------- MODULE Ingestion -----------------------------
(***************************************************************************)
(* The detector's consumer (detector/consumer.py): it polls records off    *)
(* the Kafka topics, writes them in batches and only then commits their    *)
(* offsets.  "Write, make durable, then advance offsets. That order is the *)
(* contract."  Crashes, rebalances and producers' retries replay records;  *)
(* the store's primary key makes a replayed event count once.              *)
(*                                                                         *)
(* A batch is written in one transaction, so a crash inside the write is a *)
(* crash before it.                                                        *)
(***************************************************************************)
EXTENDS Naturals, Sequences, FiniteSets

CONSTANTS
  Partition,    \* partitions of the consumed topics
  Good,         \* event ids whose records normalise
  Refused,      \* records the normaliser refuses: InvalidEvent, UnknownShape
  Unstorable,   \* records that normalise to a row the table's NOT NULLs refuse
  Poison,       \* records on which it raises anything else
  BrokerError,  \* what a poll returns for an error the broker reports
  BatchSize,
  MaxLog,       \* bound: records in a partition
  MaxFaults     \* bound: crashes, stops, rebalances and broker errors

VARIABLES
  log,        \* each partition's records, in order
  committed,  \* each partition's committed offset: records 1..committed are read
  position,   \* where the next poll of each partition reads
  batch,      \* consume's batch
  pending,    \* KafkaSource._pending: each partition's last offset in it, or 0
  rows,       \* rows stored for each good event
  dead,       \* dead_letter rows for each refused record
  errors,     \* dead_letter rows for broker errors
  pc,         \* where consume is
  stopping,   \* the stop event
  faults

store == <<rows, dead, errors>>
vars  == <<log, committed, position, batch, pending, store, pc, stopping, faults>>

Event == Good \cup Refused \cup Unstorable \cup Poison
Entry == [part : Partition, offset : Nat \ {0}]
Item  == Entry \cup {BrokerError}

ASSUME IngestionAssumption ==
  /\ BrokerError \notin Entry
  /\ Good \cap (Refused \cup Unstorable \cup Poison) = {}
  /\ Refused \cap (Unstorable \cup Poison) = {} /\ Unstorable \cap Poison = {}
  /\ BatchSize \in Nat \ {0}
  /\ MaxLog \in Nat /\ MaxFaults \in Nat

Init ==
  /\ log = [p \in Partition |-> <<>>]
  /\ committed = [p \in Partition |-> 0]
  /\ position = [p \in Partition |-> 0]
  /\ batch = <<>>
  /\ pending = [p \in Partition |-> 0]
  /\ rows = [e \in Good |-> 0]
  /\ dead = [e \in Refused |-> 0]
  /\ errors = 0
  /\ pc = "poll"
  /\ stopping = FALSE
  /\ faults = 0

\* The entries of the batch, and how often it holds an event.
Entries == {k \in DOMAIN batch : batch[k] # BrokerError}
EventAt(k) == log[batch[k].part][batch[k].offset]
Copies(e) == Cardinality({k \in Entries : EventAt(k) = e})
Holds(S) == \E k \in Entries : EventAt(k) \in S

-----------------------------------------------------------------------------
(* Producers: at least once, so an event may be anywhere, and twice *)

Produce(p, e) ==
  /\ Len(log[p]) < MaxLog
  /\ log' = [log EXCEPT ![p] = Append(@, e)]
  /\ UNCHANGED <<committed, position, batch, pending, store, pc, stopping, faults>>

-----------------------------------------------------------------------------
(* consume: one poll, and the flush in its two durable steps *)

\* A batch that is full is written
Take(item) ==
  /\ batch' = Append(batch, item)
  /\ pc' = IF Len(batch') >= BatchSize THEN "write" ELSE "poll"

Poll(p) ==
  /\ pc = "poll" /\ ~stopping
  /\ position[p] < Len(log[p])
  /\ position' = [position EXCEPT ![p] = @ + 1]
  /\ pending' = [pending EXCEPT ![p] = position[p] + 1]
  /\ Take([part |-> p, offset |-> position[p] + 1])
  /\ UNCHANGED <<log, committed, store, stopping, faults>>

PollError ==
  /\ pc = "poll" /\ ~stopping /\ faults < MaxFaults
  /\ Take(BrokerError)
  /\ faults' = faults + 1
  /\ UNCHANGED <<log, committed, position, pending, store, stopping>>

\* The poll times out: what there is of a batch is flushed.
\* (Mutant: a quiet topic waits for a full batch.)
PollNoneFull ==
  /\ pc = "poll" /\ ~stopping /\ Len(batch) >= BatchSize
  /\ pc' = "write"
  /\ UNCHANGED <<log, committed, position, batch, pending, store, stopping, faults>>
PollNone ==
  /\ pc = "poll" /\ ~stopping /\ batch # <<>>
  /\ pc' = "write"
  /\ UNCHANGED <<log, committed, position, batch, pending, store, stopping, faults>>

\* The stop event is seen: the last flush drains what was polled.
\* (Mutant: the loop is left without it.)
LeaveAtOnce ==
  /\ pc = "poll" /\ stopping
  /\ pc' = "stopped"
  /\ UNCHANGED <<log, committed, position, batch, pending, store, stopping, faults>>
Leave ==
  /\ pc = "poll" /\ stopping
  /\ pc' = IF batch = <<>> THEN "stopped" ELSE "write"
  /\ UNCHANGED <<log, committed, position, batch, pending, store, stopping, faults>>

\* INSERT OR IGNORE on the event id; it ignores an unstorable row as well, and
\* counts it as a duplicate. (Mutant: a plain INSERT with no key.)
PlainInsert(e) == rows[e] + Copies(e)
InsertOrIgnore(e) == IF Holds({e}) /\ rows[e] = 0 THEN 1 ELSE rows[e]

\* store.write_batch and connection.commit. An exception no handler names rolls
\* the whole batch back and ends the process.
WriteBatch ==
  /\ pc = "write" /\ ~Holds(Poison)
  /\ rows' = [e \in Good |-> InsertOrIgnore(e)]
  /\ dead' = [e \in Refused |-> dead[e] + Copies(e)]
  /\ errors' = errors + Cardinality(DOMAIN batch \ Entries)
  /\ pc' = "offsets"
  /\ UNCHANGED <<log, committed, position, batch, pending, stopping, faults>>

Forget == batch' = <<>> /\ pending' = [p \in Partition |-> 0]

WriteRaises ==
  /\ pc = "write" /\ Holds(Poison)
  /\ Forget
  /\ pc' = "down"
  /\ UNCHANGED <<log, committed, position, store, stopping, faults>>

\* KafkaSource.commit stores the offsets of everything pending, in order, so a
\* partition's last one decides; then the batch is cleared.
CommitOffsets ==
  /\ pc = "offsets"
  /\ committed' = [p \in Partition |-> IF pending[p] = 0 THEN committed[p] ELSE pending[p]]
  /\ Forget
  /\ pc' = "poll"
  /\ UNCHANGED <<log, position, store, stopping, faults>>

\* The container's restart policy, or the operator: a new consumer reads from
\* the committed offsets. (Mutant: from the end of the topic.)
Latest(p) == Len(log[p])
Resumed(p) == committed[p]

Start ==
  /\ pc \in {"down", "stopped"}
  /\ position' = [p \in Partition |-> Resumed(p)]
  /\ pc' = "poll"
  /\ stopping' = FALSE
  /\ UNCHANGED <<log, committed, batch, pending, store, faults>>

ConsumerStep ==
  \/ \E p \in Partition : Poll(p)
  \/ PollNone \/ Leave \/ WriteBatch \/ WriteRaises \/ CommitOffsets \/ Start

-----------------------------------------------------------------------------
(* The environment *)

Running == {"poll", "write", "offsets"}

Signal ==
  /\ pc \in Running /\ ~stopping /\ faults < MaxFaults
  /\ stopping' = TRUE
  /\ faults' = faults + 1
  /\ UNCHANGED <<log, committed, position, batch, pending, store, pc>>

Crash ==
  /\ pc \in Running /\ faults < MaxFaults
  /\ Forget
  /\ pc' = "down"
  /\ faults' = faults + 1
  /\ UNCHANGED <<log, committed, position, store, stopping>>

\* The group rebalances: the partitions come back at their committed offsets
\* while the batch in memory still holds what was read beyond them.
Rebalance ==
  /\ pc \in Running /\ faults < MaxFaults /\ position # committed
  /\ position' = committed
  /\ faults' = faults + 1
  /\ UNCHANGED <<log, committed, batch, pending, store, pc, stopping>>

Next ==
  \/ \E p \in Partition, e \in Event : Produce(p, e)
  \/ ConsumerStep \/ PollError
  \/ Signal \/ Crash \/ Rebalance

Spec == Init /\ [][Next]_vars

\* The loop runs, a poll delivers what the broker holds, and a stopped or dead
\* process is started again.
FairSpec == Spec /\ WF_vars(ConsumerStep)

-----------------------------------------------------------------------------
(* Properties *)

\* Every variable in its type; a flush has something to write, and the batch is
\* never larger than its bound.
TypeOK ==
  /\ log \in [Partition -> Seq(Event)]
  /\ committed \in [Partition -> Nat]
  /\ position \in [Partition -> Nat]
  /\ pending \in [Partition -> Nat]
  /\ batch \in Seq(Item) /\ Len(batch) <= BatchSize
  /\ pc \notin {"write", "offsets"} => Len(batch) < BatchSize
  /\ pc = "write" => batch # <<>>
  /\ rows \in [Good -> Nat]
  /\ dead \in [Refused -> Nat]
  /\ errors \in Nat
  /\ pc \in Running \cup {"down", "stopped"}
  /\ stopping \in BOOLEAN
  /\ faults \in Nat

\* A record is handled when it is counted or dead-lettered.
Handled(e) == (e \in Good /\ rows[e] > 0) \/ (e \in Refused /\ dead[e] > 0)

\* An offset is acknowledged only for what is durable: whatever crashes,
\* replays or rebalances came between, no record below a committed offset is
\* missing from the store ("Committing before this line would turn a crash into
\* lost attempts", detector/consumer.py:190).
NothingLost ==
  \A p \in Partition : committed[p] <= Len(log[p]) /\
    \A o \in 1..committed[p] : Handled(log[p][o])

\* A clean stop leaves nothing it has read unwritten ("a stop drains what was
\* already polled rather than dropping it", detector/consumer.py:170).
StopDrains ==
  pc = "stopped" =>
    \A p \in Partition : \A o \in 1..position[p] : Handled(log[p][o])

\* At-least-once delivery, with retries and replays, is counted exactly once.
Published == {e \in Good : \E p \in Partition : \E o \in DOMAIN log[p] : log[p][o] = e}
Counting == INSTANCE ExactlyOnceCounting
              WITH Event <- Good, published <- Published, counted <- rows
CountsExactlyOnce == Counting!Spec

\* Everything a producer has published is handled in the end, through crashes,
\* stops and rebalances, unless a poison record is published with it.
Poisoned == \E p \in Partition : \E o \in DOMAIN log[p] : log[p][o] \in Poison
EverythingHandled ==
  \A p \in Partition, o \in 1..MaxLog :
    o <= Len(log[p]) ~> Poisoned \/ (o <= Len(log[p]) /\ Handled(log[p][o]))

=============================================================================
