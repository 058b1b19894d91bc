-------------------------- MODULE Ingestion_proofs --------------------------
(* Theorems about Ingestion, for every value of its constants. *)
EXTENDS Ingestion, FiniteSetTheorems, TLAPS

\* The group of variables most UNCHANGED clauses name.
USE DEF store

\* A batch is finite, so counting in it gives a number.
LEMMA CountsAreNumbers ==
  ASSUME batch \in Seq(Item)
  PROVE  /\ \A e : Copies(e) \in Nat
         /\ Cardinality(DOMAIN batch \ Entries) \in Nat
<1>1. IsFiniteSet(DOMAIN batch)
  BY FS_Interval
<1>2. \A S \in SUBSET DOMAIN batch : Cardinality(S) \in Nat
  BY <1>1, FS_Subset, FS_CardinalityType
<1>3. \A e : {k \in Entries : EventAt(k) = e} \in SUBSET DOMAIN batch
  BY DEF Entries
<1>4. QED BY <1>2, <1>3 DEF Copies

\* What an item of the batch that is no broker error is.
LEMMA EntriesAreEntries ==
  ASSUME batch \in Seq(Item), NEW k \in Entries
  PROVE  batch[k] \in Entry /\ batch[k].part \in Partition /\ batch[k].offset \in Nat \ {0}
BY DEF Entries, Item, Entry

\* Taking an item fills the batch up to its bound.
LEMMA TakeType ==
  ASSUME TypeOK, pc = "poll", NEW item \in Item, Take(item)
  PROVE  /\ batch' \in Seq(Item) /\ Len(batch') <= BatchSize
         /\ pc' \notin {"write", "offsets"} => Len(batch') < BatchSize
         /\ pc' = "write" => batch' # <<>>
         /\ pc' \in {"poll", "write"}
BY IngestionAssumption DEF TypeOK, Take

LEMMA NoBatch == <<>> \in Seq(Item) /\ Len(<<>>) < BatchSize
BY IngestionAssumption

\* Every step keeps the types.
LEMMA TypeStep ==
  ASSUME TypeOK, [Next]_vars
  PROVE  TypeOK'
<1>1. ASSUME NEW p \in Partition, NEW e \in Event, Produce(p, e) PROVE TypeOK'
  BY <1>1 DEF Produce, TypeOK
<1>2. ASSUME NEW p \in Partition, Poll(p) PROVE TypeOK'
  <2> DEFINE item == [part |-> p, offset |-> position[p] + 1]
  <2>1. item \in Item
    BY DEF TypeOK, Item, Entry
  <2>2. Take(item) /\ pc = "poll"
    BY <1>2 DEF Poll
  <2> HIDE DEF item
  <2>3. /\ batch' \in Seq(Item) /\ Len(batch') <= BatchSize
        /\ pc' \notin {"write", "offsets"} => Len(batch') < BatchSize
        /\ pc' = "write" => batch' # <<>>
        /\ pc' \in {"poll", "write"}
    BY <2>1, <2>2, TakeType
  <2>4. QED BY <1>2, <2>3 DEF Poll, TypeOK, Running
<1>3. CASE PollError
  <2>1. BrokerError \in Item
    BY DEF Item
  <2>2. Take(BrokerError) /\ pc = "poll"
    BY <1>3 DEF PollError
  <2>3. /\ batch' \in Seq(Item) /\ Len(batch') <= BatchSize
        /\ pc' \notin {"write", "offsets"} => Len(batch') < BatchSize
        /\ pc' = "write" => batch' # <<>>
        /\ pc' \in {"poll", "write"}
    BY <2>1, <2>2, TakeType
  <2>4. QED BY <1>3, <2>3 DEF PollError, TypeOK, Running
<1>4. CASE PollNone \/ Leave
  BY <1>4 DEF PollNone, Leave, TypeOK, Running
<1>5. CASE WriteBatch
  <2>1. rows' \in [Good -> Nat]
    BY <1>5 DEF WriteBatch, InsertOrIgnore, TypeOK
  <2>2. dead' \in [Refused -> Nat] /\ errors' \in Nat
    BY <1>5, CountsAreNumbers DEF WriteBatch, TypeOK
  <2>3. QED BY <1>5, <2>1, <2>2 DEF WriteBatch, TypeOK, Running
<1>6. CASE WriteRaises \/ Crash
  <2>1. batch' \in Seq(Item) /\ Len(batch') < BatchSize
    BY <1>6, NoBatch DEF WriteRaises, Crash, Forget
  <2>2. QED
    BY <1>6, <2>1, IngestionAssumption DEF WriteRaises, Crash, Forget, TypeOK, Running
<1>7. CASE CommitOffsets
  <2>1. batch' \in Seq(Item) /\ Len(batch') < BatchSize
    BY <1>7, NoBatch DEF CommitOffsets, Forget
  <2>2. QED BY <1>7, <2>1, IngestionAssumption DEF CommitOffsets, Forget, TypeOK, Running
<1>8. CASE Start
  BY <1>8 DEF Start, Resumed, TypeOK, Running
<1>9. CASE Signal \/ Rebalance
  <2>1. stopping' \in BOOLEAN
    BY <1>9, Zenon DEF Signal, Rebalance, TypeOK
  <2>2. CASE Signal
    BY <2>1, <2>2 DEF Signal, TypeOK, Running
  <2>3. CASE Rebalance
    BY <2>1, <2>3 DEF Rebalance, TypeOK, Running
  <2>4. QED BY <1>9, <2>2, <2>3
<1>10. CASE UNCHANGED vars
  BY <1>10 DEF vars, TypeOK
<1>11. QED
  BY <1>1, <1>2, <1>3, <1>4, <1>5, <1>6, <1>7, <1>8, <1>9, <1>10 DEF Next, ConsumerStep

LEMMA TypeInit == Init => TypeOK
<1> SUFFICES ASSUME Init PROVE TypeOK
  OBVIOUS
<1>1. log \in [Partition -> Seq(Event)]
  BY DEF Init
<1>2. batch \in Seq(Item) /\ Len(batch) < BatchSize
  BY NoBatch DEF Init
<1>3. stopping \in BOOLEAN
  BY Zenon DEF Init
<1>4. QED BY <1>1, <1>2, <1>3, IngestionAssumption DEF Init, TypeOK, Running

\* Types, for any events, partitions, batch size and faults.
THEOREM TypeCorrect == Spec => []TypeOK
BY TypeInit, TypeStep, PTL DEF Spec

-----------------------------------------------------------------------------
(* Nothing is lost: the invariant behind the commit order. *)

InBatch(p, o) == \E k \in Entries : batch[k].part = p /\ batch[k].offset = o

\* A record is safe if it is in the store, or in the batch still to be written.
Safe(p, o) == Handled(log[p][o]) \/ InBatch(p, o)

\* Offsets point into the log.
OffsetsExist ==
  /\ \A p \in Partition : committed[p] <= Len(log[p]) /\ position[p] <= Len(log[p])
  /\ \A k \in Entries : batch[k].offset <= Len(log[batch[k].part])

\* What is pending is in the batch, and so is all that was read before it and
\* is not in the store.
Covered ==
  /\ \A p \in Partition : \A o \in 1..committed[p] : Handled(log[p][o])
  /\ pc # "down" => \A p \in Partition : \A o \in 1..position[p] : Safe(p, o)
  /\ \A p \in Partition : pending[p] # 0 => InBatch(p, pending[p])
  /\ \A k \in Entries : \A o \in 1..batch[k].offset : Safe(batch[k].part, o)

\* Between the two durable steps the whole batch is in the store, and a process
\* that is not running has none.
Durable ==
  /\ pc = "offsets" => \A k \in Entries : Handled(EventAt(k))
  /\ pc \in {"down", "stopped"} => batch = <<>>

IndInv == TypeOK /\ OffsetsExist /\ Covered /\ Durable

LEMMA InvInit == Init => IndInv
<1> SUFFICES ASSUME Init PROVE IndInv
  OBVIOUS
<1>1. Entries = {}
  BY DEF Init, Entries
<1>2. \A p \in Partition : Len(log[p]) = 0 /\ committed[p] = 0 /\ position[p] = 0 /\ pending[p] = 0
  BY DEF Init
<1>3. OffsetsExist /\ Covered /\ Durable
  BY <1>1, <1>2 DEF Init, OffsetsExist, Covered, Durable
<1>4. QED BY <1>3, TypeInit DEF IndInv

\* A producer appends: nothing that was in a log moves.
LEMMA LogGrows ==
  ASSUME TypeOK, NEW p \in Partition, NEW e \in Event, Produce(p, e)
  PROVE  \A q \in Partition :
           /\ Len(log[q]) \in Nat /\ Len(log'[q]) \in Nat
           /\ Len(log[q]) <= Len(log'[q])
           /\ \A o \in 1..Len(log[q]) : log'[q][o] = log[q][o]
BY DEF Produce, TypeOK

LEMMA InvProduce ==
  ASSUME IndInv, NEW p \in Partition, NEW e \in Event, Produce(p, e)
  PROVE  OffsetsExist' /\ Covered' /\ Durable'
<1> USE DEF IndInv
<1>1. UNCHANGED <<committed, position, batch, pending, rows, dead, pc>>
  BY DEF Produce
<1>2. Entries' = Entries
  BY <1>1 DEF Entries
<1>3. \A k \in Entries :
        /\ batch[k].part \in Partition /\ batch[k].offset \in Nat \ {0}
        /\ batch[k].offset <= Len(log[batch[k].part])
  BY EntriesAreEntries DEF TypeOK, OffsetsExist
<1>4. \A q \in Partition : committed[q] \in Nat /\ position[q] \in Nat
        /\ committed[q] <= Len(log[q]) /\ position[q] <= Len(log[q])
  BY DEF TypeOK, OffsetsExist
<1>5. \A x : Handled(x)' <=> Handled(x)
  BY <1>1 DEF Handled
<1>6. ASSUME NEW q \in Partition, NEW o \in 1..Len(log[q])
      PROVE  (Handled(log[q][o]) => Handled(log[q][o])') /\ (Safe(q, o) => Safe(q, o)')
  <2>1. log'[q][o] = log[q][o]
    BY LogGrows
  <2>2. Handled(log[q][o]) => Handled(log[q][o])'
    BY <1>1, <2>1 DEF Handled
  <2>3. QED BY <1>1, <1>2, <2>2 DEF Safe, InBatch
<1>7. OffsetsExist'
  <2>1. \A q \in Partition : committed'[q] <= Len(log'[q]) /\ position'[q] <= Len(log'[q])
    BY <1>1, <1>4, LogGrows
  <2>2. \A k \in Entries : batch'[k].offset <= Len(log'[batch'[k].part])
    <3> SUFFICES ASSUME NEW k \in Entries PROVE batch[k].offset <= Len(log'[batch[k].part])
      BY <1>1
    <3> QED BY <1>3, LogGrows
  <2>3. QED BY <1>2, <2>1, <2>2 DEF OffsetsExist
<1>8. Covered'
  <2>1. ASSUME NEW q \in Partition, NEW o \in 1..committed'[q] PROVE Handled(log[q][o])'
    BY <1>1, <1>4, <1>6, LogGrows, <2>1 DEF Covered
  <2>2. ASSUME pc' # "down", NEW q \in Partition, NEW o \in 1..position'[q] PROVE Safe(q, o)'
    BY <1>1, <1>4, <1>6, LogGrows, <2>2 DEF Covered
  <2>3. ASSUME NEW q \in Partition, pending'[q] # 0 PROVE InBatch(q, pending[q])'
    BY <1>1, <1>2, <2>3 DEF Covered, InBatch
  <2>4. ASSUME NEW k \in Entries', NEW o \in 1..batch'[k].offset PROVE Safe(batch[k].part, o)'
    <3>1. PICK q \in Partition : q = batch[k].part
      BY <1>2, <1>3
    <3>2. o \in 1..Len(log[q]) /\ Safe(q, o)
      BY <1>1, <1>2, <1>3, <3>1, LogGrows DEF Covered
    <3>3. Safe(q, o)'
      BY <1>6, <3>2
    <3>4. QED BY <1>1, <3>1, <3>3 DEF Safe, InBatch
  <2>5. QED BY <2>1, <2>2, <2>3, <2>4 DEF Covered
<1>9. Durable'
  <2>1. ASSUME pc' = "offsets", NEW k \in Entries' PROVE Handled(EventAt(k))'
    <3>1. EventAt(k)' = EventAt(k)
      BY <1>1, <1>2, <1>3, LogGrows DEF EventAt
    <3>2. QED BY <1>1, <1>2, <2>1, <3>1 DEF Durable, Handled
  <2>2. QED BY <1>1, <2>1 DEF Durable
<1>10. QED BY <1>7, <1>8, <1>9

\* Steps that leave the batch, the store and the logs alone, and read nothing
\* beyond what was read, keep the invariant.
LEMMA InvKept ==
  ASSUME IndInv, UNCHANGED <<log, committed, batch, pending, rows, dead>>,
         pc' \notin {"offsets", "down"} \/ pc' = pc,
         pc' = "stopped" => batch = <<>>,
         \/ position' = position /\ (pc = "down" => pc' = "down")
         \/ \A p \in Partition : position'[p] = committed[p]
  PROVE  OffsetsExist' /\ Covered' /\ Durable'
<1> USE DEF IndInv
<1>1. Entries' = Entries
  BY DEF Entries
<1>2. \A p \in Partition : committed[p] \in Nat /\ position[p] \in Nat /\ Len(log[p]) \in Nat
  BY DEF TypeOK
<1>3. OffsetsExist'
  BY <1>1, <1>2 DEF OffsetsExist
<1>4. ASSUME pc' # "down", NEW p \in Partition, NEW o \in 1..position'[p] PROVE Safe(p, o)'
  <2>1. o \in 1..committed[p] \/ (pc # "down" /\ o \in 1..position[p])
    BY <1>4
  <2>2. Safe(p, o)
    BY <2>1 DEF Covered, Safe
  <2>3. QED BY <1>1, <2>2 DEF Safe, InBatch, Handled
<1>5. Covered'
  BY <1>1, <1>4 DEF Covered, Safe, InBatch, Handled
<1>6. Durable'
  BY <1>1 DEF Durable, Handled, EventAt
<1>7. QED BY <1>3, <1>5, <1>6

\* A poll puts the next record in the batch.
LEMMA InvPoll ==
  ASSUME IndInv, NEW q \in Partition, Poll(q)
  PROVE  OffsetsExist' /\ Covered' /\ Durable'
<1> USE DEF IndInv
<1>0. PICK next \in Nat, n \in Nat : next = position[q] + 1 /\ n = Len(batch)
  BY DEF TypeOK
<1>1. batch' = Append(batch, [part |-> q, offset |-> next]) /\ UNCHANGED <<log, committed, rows, dead>>
  BY <1>0 DEF Poll, Take
<1>2. next \in Nat \ {0} /\ next <= Len(log[q]) /\ pc = "poll"
  BY <1>0 DEF Poll, TypeOK
<1>3. [part |-> q, offset |-> next] \in Entry
  BY <1>2 DEF Entry
<1>5. /\ batch'[n + 1] = [part |-> q, offset |-> next]
      /\ DOMAIN batch' = (DOMAIN batch) \cup {n + 1}
      /\ \A k \in DOMAIN batch : batch'[k] = batch[k]
  <2> DEFINE item == [part |-> q, offset |-> next]
  <2>1. item \in Item /\ batch \in Seq(Item) /\ batch' = Append(batch, item)
    BY <1>1, <1>3 DEF TypeOK, Item
  <2> HIDE DEF item
  <2>2. /\ batch'[n + 1] = item
        /\ DOMAIN batch' = (DOMAIN batch) \cup {n + 1}
        /\ \A k \in DOMAIN batch : batch'[k] = batch[k]
    BY <1>0, <2>1
  <2>3. QED BY <2>2 DEF item
<1>4. Entries' = Entries \cup {n + 1} /\ \A k \in Entries : batch'[k] = batch[k]
  <2>1. batch'[n + 1] # BrokerError
    BY <1>3, <1>5, IngestionAssumption
  <2>2. QED BY <1>5, <2>1 DEF Entries
<1>6. \A p, o : InBatch(p, o) => InBatch(p, o)'
  BY <1>4 DEF InBatch
<1>7. InBatch(q, next)'
  BY <1>4, <1>5 DEF InBatch
<1>8. \A p, o : Safe(p, o) => Safe(p, o)'
  BY <1>1, <1>6 DEF Safe, Handled
<1>9. position' = [position EXCEPT ![q] = next] /\ pending' = [pending EXCEPT ![q] = next]
      /\ pc' \notin {"offsets", "down", "stopped"}
  BY <1>0 DEF Poll, Take
<1>10. \A o \in 1..next : Safe(q, o)'
  <2>1. ASSUME NEW o \in 1..next PROVE Safe(q, o)'
    <3>1. o \in 1..position[q] \/ o = next
      BY <1>0, <1>2 DEF TypeOK
    <3>2. Safe(q, next)'
      BY <1>7 DEF Safe
    <3>3. QED BY <1>2, <1>8, <3>1, <3>2 DEF Covered
  <2>2. QED BY <2>1
<1>11. OffsetsExist'
  <2>1. \A p \in Partition : committed'[p] <= Len(log'[p]) /\ position'[p] <= Len(log'[p])
    BY <1>1, <1>2, <1>9 DEF OffsetsExist, TypeOK
  <2>2. \A k \in Entries : batch'[k].offset <= Len(log'[batch'[k].part])
    BY <1>1, <1>4 DEF OffsetsExist
  <2>3. batch'[n + 1].offset <= Len(log'[batch'[n + 1].part])
    BY <1>1, <1>2, <1>5
  <2>4. QED BY <1>4, <2>1, <2>2, <2>3 DEF OffsetsExist
<1>12. Covered'
  <2>1. ASSUME NEW p \in Partition, NEW o \in 1..position'[p] PROVE Safe(p, o)'
    BY <1>2, <1>8, <1>9, <1>10, <2>1 DEF Covered, TypeOK
  <2>2. ASSUME NEW p \in Partition, pending'[p] # 0 PROVE InBatch(p, pending[p])'
    <3>1. CASE p = q
      BY <1>7, <1>9, <3>1 DEF TypeOK, InBatch
    <3>2. CASE p # q
      <4>1. pending'[p] = pending[p]
        BY <1>9, <3>2 DEF TypeOK
      <4>2. InBatch(p, pending[p])
        BY <2>2, <4>1 DEF Covered
      <4>3. QED BY <1>4, <4>1, <4>2 DEF InBatch
    <3>3. QED BY <3>1, <3>2
  <2>3. ASSUME NEW k \in Entries', NEW o \in 1..batch'[k].offset PROVE Safe(batch[k].part, o)'
    <3>1. CASE k = n + 1
      BY <1>5, <1>10, <3>1 DEF Safe, InBatch
    <3>2. CASE k \in Entries
      <4>1. batch'[k] = batch[k] /\ Safe(batch[k].part, o)
        BY <1>4, <3>2 DEF Covered
      <4>2. QED BY <1>8, <4>1 DEF Safe, InBatch
    <3>3. QED BY <1>4, <3>1, <3>2
  <2>4. QED BY <1>1, <2>1, <2>2, <2>3 DEF Covered, Handled
<1>13. Durable'
  BY <1>9 DEF Durable
<1>14. QED BY <1>11, <1>12, <1>13

\* A broker error joins the batch and moves no offset.
LEMMA InvPollError ==
  ASSUME IndInv, PollError
  PROVE  OffsetsExist' /\ Covered' /\ Durable'
<1> USE DEF IndInv
<1>1. batch' = Append(batch, BrokerError) /\ pc' \notin {"offsets", "down", "stopped"} /\ pc = "poll"
      /\ UNCHANGED <<log, committed, position, pending, rows, dead>>
  BY DEF PollError, Take
<1>2. Entries' = Entries /\ \A k \in Entries : batch'[k] = batch[k]
  BY <1>1 DEF Entries, TypeOK
<1>3. \A p, o : (InBatch(p, o) <=> InBatch(p, o)') /\ (Safe(p, o) <=> Safe(p, o)')
  BY <1>1, <1>2 DEF InBatch, Safe, Handled
<1>4. OffsetsExist' /\ Durable'
  BY <1>1, <1>2 DEF OffsetsExist, Durable
<1>5. \A k \in Entries : \A o : Safe(batch[k].part, o) <=> Safe(batch[k].part, o)'
  BY <1>1, <1>2 DEF Safe, InBatch, Handled
<1>6. \A p \in Partition : InBatch(p, pending[p]) <=> InBatch(p, pending[p])'
  BY <1>1, <1>2 DEF InBatch
<1>7. \A p \in Partition : \A o \in 1..committed[p] : Handled(log[p][o])'
  BY <1>1 DEF Covered, Handled
<1>8. Covered'
  BY <1>1, <1>2, <1>3, <1>5, <1>6, <1>7 DEF Covered
<1>9. QED BY <1>4, <1>8

\* The write puts the whole batch in the store, and takes nothing out of it.
LEMMA InvWrite ==
  ASSUME Unstorable = {}, IndInv, WriteBatch
  PROVE  OffsetsExist' /\ Covered' /\ Durable'
<1> USE DEF IndInv
<1>1. UNCHANGED <<log, committed, position, batch, pending>> /\ pc = "write" /\ pc' = "offsets"
  BY DEF WriteBatch
<1>2. Entries' = Entries /\ \A k : EventAt(k)' = EventAt(k)
  BY <1>1 DEF Entries, EventAt
<1>3. \A e : Copies(e) \in Nat
  BY CountsAreNumbers DEF TypeOK
<1>4. ASSUME NEW e, Handled(e) PROVE Handled(e)'
  BY <1>3, <1>4 DEF Handled, WriteBatch, InsertOrIgnore, TypeOK
<1>5. ASSUME NEW k \in Entries PROVE Handled(EventAt(k))'
  <2>1. PICK e : e = EventAt(k)
    OBVIOUS
  <2>2. e \in Good \cup Refused
    <3>1. batch[k].part \in Partition /\ batch[k].offset \in 1..Len(log[batch[k].part])
      BY EntriesAreEntries DEF TypeOK, OffsetsExist
    <3>2. e \in Event
      BY <2>1, <3>1 DEF TypeOK, EventAt
    <3>3. QED BY <2>1, <3>2 DEF WriteBatch, Holds, Event
  <2>3. CASE e \in Good
    <3>1. Holds({e})
      BY <2>1 DEF Holds
    <3>2. rows'[e] > 0
      BY <2>3, <3>1 DEF WriteBatch, InsertOrIgnore, TypeOK
    <3>3. QED BY <1>2, <2>1, <2>3, <3>2 DEF Handled
  <2>4. CASE e \in Refused
    <3> DEFINE S == {j \in Entries : EventAt(j) = e}
    <3>1. S # {} /\ S \in SUBSET DOMAIN batch /\ IsFiniteSet(DOMAIN batch)
      BY <2>1, FS_Interval DEF Entries, TypeOK
    <3>2. Cardinality(S) \in Nat /\ Cardinality(S) # 0
      BY <3>1, FS_Subset, FS_CardinalityType, FS_EmptySet
    <3>3. Copies(e) > 0
      BY <3>2 DEF Copies
    <3>4. dead'[e] > 0
      BY <1>3, <2>4, <3>3 DEF WriteBatch, TypeOK
    <3>5. QED BY <1>2, <2>1, <2>4, <3>4 DEF Handled
  <2>5. QED BY <2>2, <2>3, <2>4
<1>6. ASSUME NEW p, NEW o, Safe(p, o) PROVE Safe(p, o)'
  <2>1. PICK e : e = log[p][o]
    OBVIOUS
  <2>2. Handled(e) => Handled(e)'
    BY <1>4
  <2>3. Handled(log[p][o]) => Handled(log[p][o])'
    BY <1>1, <2>1, <2>2 DEF Handled
  <2>4. QED BY <1>1, <1>2, <1>6, <2>3 DEF Safe, InBatch
<1>7. OffsetsExist'
  BY <1>1, <1>2 DEF OffsetsExist
<1>8. Durable'
  BY <1>1, <1>2, <1>5 DEF Durable, Handled
<1>9. Covered'
  <2>1. ASSUME NEW p \in Partition, NEW o \in 1..committed'[p] PROVE Handled(log[p][o])'
    <3>1. PICK e : e = log[p][o]
      OBVIOUS
    <3>2. Handled(e)'
      BY <1>1, <1>4, <2>1, <3>1 DEF Covered
    <3>3. QED BY <1>1, <3>1, <3>2 DEF Handled
  <2>2. ASSUME NEW p \in Partition, NEW o \in 1..position'[p] PROVE Safe(p, o)'
    BY <1>1, <1>6, <2>2 DEF Covered
  <2>3. ASSUME NEW p \in Partition, pending'[p] # 0 PROVE InBatch(p, pending[p])'
    BY <1>1, <1>2, <2>3 DEF Covered, InBatch
  <2>4. ASSUME NEW k \in Entries', NEW o \in 1..batch'[k].offset PROVE Safe(batch[k].part, o)'
    <3>1. PICK p : p = batch[k].part
      OBVIOUS
    <3>2. Safe(p, o)'
      BY <1>1, <1>2, <1>6, <2>4, <3>1 DEF Covered
    <3>3. QED BY <1>1, <3>1, <3>2 DEF Safe, InBatch
  <2>5. QED BY <2>1, <2>2, <2>3, <2>4 DEF Covered
<1>10. QED BY <1>7, <1>8, <1>9

\* Clearing the batch is safe once all of it is in the store, or when the process
\* will read it again.
LEMMA InvClear ==
  ASSUME IndInv, CommitOffsets \/ WriteRaises \/ Crash
  PROVE  OffsetsExist' /\ Covered' /\ Durable'
<1> USE DEF IndInv
<1>1. /\ UNCHANGED <<log, position, rows, dead>> /\ batch' = <<>>
      /\ pending' = [p \in Partition |-> 0] /\ pc' \in {"poll", "down"}
  BY DEF CommitOffsets, WriteRaises, Crash, Forget
<1>2. Entries' = {}
  BY <1>1 DEF Entries
<1>3. CASE CommitOffsets
  <2>1. \A p \in Partition : \A o : InBatch(p, o) => Handled(log[p][o])
    BY <1>3 DEF CommitOffsets, Durable, InBatch, EventAt
  <2>2. \A p \in Partition : \A o : Safe(p, o) => Handled(log[p][o])'
    BY <1>1, <2>1 DEF Safe, Handled
  <2>3. \A p \in Partition : committed'[p] = IF pending[p] = 0 THEN committed[p] ELSE pending[p]
    BY <1>3 DEF CommitOffsets
  <2>4. \A p \in Partition : pending[p] # 0 =>
          pending[p] <= Len(log[p]) /\ \A o \in 1..pending[p] : Safe(p, o)
    <3>1. ASSUME NEW p \in Partition, pending[p] # 0
          PROVE  pending[p] <= Len(log[p]) /\ \A o \in 1..pending[p] : Safe(p, o)
      <4>1. PICK k \in Entries : batch[k].part = p /\ batch[k].offset = pending[p]
        BY <3>1 DEF Covered, InBatch
      <4>2. QED BY <4>1 DEF Covered, OffsetsExist
    <3>2. QED BY <3>1
  <2>5. OffsetsExist'
    BY <1>1, <1>2, <2>3, <2>4 DEF OffsetsExist
  <2>6. ASSUME NEW p \in Partition, NEW o \in 1..committed'[p] PROVE Handled(log[p][o])'
    <3>1. CASE pending[p] = 0
      BY <1>1, <2>3, <2>6, <3>1 DEF Covered, Handled
    <3>2. CASE pending[p] # 0
      BY <2>2, <2>3, <2>4, <2>6, <3>2
    <3>3. QED BY <3>1, <3>2
  <2>7. ASSUME NEW p \in Partition, NEW o \in 1..position'[p] PROVE Safe(p, o)'
    <3>1. Safe(p, o)
      BY <1>1, <1>3, <2>7 DEF Covered, CommitOffsets
    <3>2. QED BY <2>2, <3>1 DEF Safe
  <2>8. Covered'
    BY <1>1, <1>2, <2>6, <2>7 DEF Covered
  <2>9. Durable'
    BY <1>1, <1>3 DEF Durable, CommitOffsets
  <2>10. QED BY <2>5, <2>8, <2>9
<1>4. CASE WriteRaises \/ Crash
  <2>1. committed' = committed /\ pc' = "down"
    BY <1>4 DEF WriteRaises, Crash
  <2>2. QED BY <1>1, <1>2, <2>1 DEF OffsetsExist, Covered, Durable, Handled
<1>5. QED BY <1>3, <1>4

\* The invariant holds in every state, as long as every record can be stored or
\* refused.
LEMMA Inductive ==
  ASSUME Unstorable = {}
  PROVE  Spec => []IndInv
<1>1. IndInv /\ [Next]_vars => IndInv'
  <2> SUFFICES ASSUME IndInv, [Next]_vars PROVE IndInv'
    OBVIOUS
  <2>1. TypeOK'
    BY TypeStep DEF IndInv
  <2>2. CASE PollNone \/ Leave \/ Signal \/ Rebalance \/ Start \/ UNCHANGED vars
    <3>1. /\ UNCHANGED <<log, committed, batch, pending, rows, dead>>
          /\ pc' \notin {"offsets", "down"} \/ pc' = pc
          /\ pc' = "stopped" => batch = <<>>
      BY <2>2 DEF PollNone, Leave, Signal, Rebalance, Start, vars, IndInv, Durable
    <3>2. \/ position' = position /\ (pc = "down" => pc' = "down")
          \/ \A p \in Partition : position'[p] = committed[p]
      BY <2>2 DEF PollNone, Leave, Signal, Rebalance, Start, Resumed, Running, vars
    <3>3. QED BY <2>1, <3>1, <3>2, InvKept DEF IndInv
  <2>3. ASSUME NEW p \in Partition, NEW e \in Event, Produce(p, e) PROVE IndInv'
    BY <2>1, <2>3, InvProduce DEF IndInv
  <2>4. ASSUME NEW p \in Partition, Poll(p) PROVE IndInv'
    BY <2>1, <2>4, InvPoll DEF IndInv
  <2>5. CASE PollError
    BY <2>1, <2>5, InvPollError DEF IndInv
  <2>6. CASE WriteBatch
    BY <2>1, <2>6, InvWrite DEF IndInv
  <2>7. CASE CommitOffsets \/ WriteRaises \/ Crash
    BY <2>1, <2>7, InvClear DEF IndInv
  <2>8. QED BY <2>2, <2>3, <2>4, <2>5, <2>6, <2>7 DEF Next, ConsumerStep
<1>2. QED BY <1>1, InvInit, PTL DEF Spec

\* No committed offset covers a record that is not in the store, wherever the
\* consumer crashes, is stopped or loses its partitions.
THEOREM NoLoss ==
  ASSUME Unstorable = {}
  PROVE  Spec => []NothingLost
<1>1. IndInv => NothingLost
  BY DEF IndInv, OffsetsExist, Covered, NothingLost
<1>2. QED BY <1>1, Inductive, PTL

\* A clean stop has written all it read.
THEOREM StopIsClean ==
  ASSUME Unstorable = {}
  PROVE  Spec => []StopDrains
<1>1. IndInv => StopDrains
  <2> SUFFICES ASSUME IndInv, pc = "stopped",
                      NEW p \in Partition, NEW o \in 1..position[p]
               PROVE  Handled(log[p][o])
    BY DEF StopDrains
  <2>1. ~InBatch(p, o)
    BY DEF IndInv, Durable, InBatch, Entries
  <2>2. QED BY <2>1 DEF IndInv, Covered, Safe
<1>2. QED BY <1>1, Inductive, PTL

-----------------------------------------------------------------------------
(* Ingestion implements ExactlyOnceCounting. Every record the batch names is *)
(* in the log, whatever kinds of record there are.                          *)

RefInv == TypeOK /\ OffsetsExist /\ \A p \in Partition : pending[p] <= Len(log[p])

LEMMA RefInductive == Spec => []RefInv
<1>1. Init => RefInv
  <2> SUFFICES ASSUME Init PROVE RefInv
    OBVIOUS
  <2>1. Entries = {}
    BY DEF Init, Entries
  <2>2. \A p \in Partition : Len(log[p]) = 0 /\ committed[p] = 0 /\ position[p] = 0 /\ pending[p] = 0
    BY DEF Init
  <2>3. QED BY <2>1, <2>2, TypeInit DEF RefInv, OffsetsExist
<1>2. RefInv /\ [Next]_vars => RefInv'
  <2> SUFFICES ASSUME RefInv, [Next]_vars PROVE RefInv'
    OBVIOUS
  <2> USE DEF RefInv
  <2>1. TypeOK'
    BY TypeStep
  <2>2. ASSUME NEW p \in Partition, NEW e \in Event, Produce(p, e) PROVE RefInv'
    <3>1. UNCHANGED <<committed, position, batch, pending>> /\ Entries' = Entries
      BY <2>2 DEF Produce, Entries
    <3>2. \A q \in Partition : /\ committed[q] \in Nat /\ position[q] \in Nat /\ pending[q] \in Nat
                               /\ Len(log[q]) \in Nat /\ Len(log'[q]) \in Nat
                               /\ Len(log[q]) <= Len(log'[q])
      BY <2>2, LogGrows DEF TypeOK
    <3>3. \A k \in Entries : batch[k].part \in Partition /\ batch[k].offset \in Nat
      BY EntriesAreEntries DEF TypeOK
    <3>4. \A q \in Partition : /\ committed'[q] <= Len(log'[q])
                               /\ position'[q] <= Len(log'[q])
                               /\ pending'[q] <= Len(log'[q])
      BY <3>1, <3>2 DEF OffsetsExist
    <3>5. \A k \in Entries : batch[k].offset <= Len(log'[batch[k].part])
      BY <3>2, <3>3 DEF OffsetsExist
    <3>6. OffsetsExist'
      BY <3>1, <3>4, <3>5 DEF OffsetsExist
    <3>7. QED BY <2>1, <3>4, <3>6
  <2>3. ASSUME NEW q \in Partition, Poll(q) PROVE RefInv'
    <3>1. PICK next \in Nat, n \in Nat : next = position[q] + 1 /\ n = Len(batch)
      BY DEF TypeOK
    <3> DEFINE item == [part |-> q, offset |-> next]
    <3>2. batch \in Seq(Item) /\ batch' = Append(batch, item) /\ item \in Item
      BY <2>3, <3>1 DEF Poll, Take, TypeOK, Item, Entry
    <3>3. /\ UNCHANGED <<log, committed>> /\ next <= Len(log[q])
          /\ position' = [position EXCEPT ![q] = next] /\ pending' = [pending EXCEPT ![q] = next]
      BY <2>3, <3>1 DEF Poll, TypeOK
    <3> HIDE DEF item
    <3>4. \A k \in Entries' : k = n + 1 \/ (k \in Entries /\ batch'[k] = batch[k])
      BY <3>1, <3>2 DEF Entries
    <3>5. batch'[n + 1] = item /\ item.part = q /\ item.offset = next
      <4>1. batch'[n + 1] = item
        BY <3>1, <3>2
      <4>2. QED BY <4>1 DEF item
    <3>6. \A k \in Entries' : batch'[k].offset <= Len(log'[batch'[k].part])
      BY <3>3, <3>4, <3>5 DEF OffsetsExist
    <3>7. \A p \in Partition : committed'[p] <= Len(log'[p]) /\ position'[p] <= Len(log'[p])
                               /\ pending'[p] <= Len(log'[p])
      BY <3>3 DEF OffsetsExist, TypeOK
    <3>8. QED BY <2>1, <3>6, <3>7 DEF OffsetsExist
  <2>4. CASE PollError
    <3>1. /\ UNCHANGED <<log, committed, position, pending>>
          /\ batch \in Seq(Item) /\ batch' = Append(batch, BrokerError)
      BY <2>4 DEF PollError, Take, TypeOK
    <3>2. \A k \in Entries' : k \in Entries /\ batch'[k] = batch[k]
      BY <3>1 DEF Entries
    <3>3. QED BY <2>1, <3>1, <3>2 DEF OffsetsExist
  <2>5. CASE WriteBatch \/ PollNone \/ Leave \/ Signal \/ UNCHANGED vars
    <3>1. UNCHANGED <<log, committed, position, batch, pending>>
      BY <2>5 DEF WriteBatch, PollNone, Leave, Signal, vars
    <3>2. QED BY <2>1, <3>1 DEF OffsetsExist, Entries
  <2>6. CASE CommitOffsets \/ WriteRaises \/ Crash
    <3>1. /\ UNCHANGED <<log, position>> /\ Entries' = {}
          /\ pending' = [p \in Partition |-> 0]
          /\ \A p \in Partition : committed'[p] \in {committed[p], pending[p]}
      BY <2>6 DEF CommitOffsets, WriteRaises, Crash, Forget, Entries
    <3>2. \A p \in Partition : Len(log[p]) \in Nat /\ pending'[p] = 0
      BY <3>1 DEF TypeOK
    <3>3. \A p \in Partition : committed'[p] <= Len(log'[p]) /\ position'[p] <= Len(log'[p])
      BY <3>1 DEF OffsetsExist
    <3>4. QED BY <2>1, <3>1, <3>2, <3>3 DEF OffsetsExist
  <2>7. CASE Start \/ Rebalance
    <3>1. /\ UNCHANGED <<log, committed, batch, pending>>
          /\ \A p \in Partition : position'[p] = committed[p]
      BY <2>7 DEF Start, Rebalance, Resumed
    <3>2. QED BY <2>1, <3>1 DEF OffsetsExist, Entries
  <2>8. QED BY <2>2, <2>3, <2>4, <2>5, <2>6, <2>7 DEF Next, ConsumerStep
<1>3. QED BY <1>1, <1>2, PTL DEF Spec

\* At-least-once delivery is counted exactly once, for any logs, batches, faults
\* and record kinds.
THEOREM Refines == Spec => CountsExactlyOnce
<1>1. Init => Counting!Init
  BY DEF Init, Counting!Init, Published
<1>2. RefInv /\ RefInv' /\ [Next]_vars => [Counting!Next]_(Counting!vars)
  <2> SUFFICES ASSUME RefInv, [Next]_vars PROVE [Counting!Next]_(Counting!vars)
    OBVIOUS
  <2> USE DEF RefInv
  <2>1. ASSUME NEW p \in Partition, NEW e \in Event, Produce(p, e)
        PROVE  [Counting!Next]_(Counting!vars)
    <3>1. rows' = rows
      BY <2>1 DEF Produce
    <3>2. log' = [log EXCEPT ![p] = Append(log[p], e)] /\ log[p] \in Seq(Event)
      BY <2>1 DEF Produce, TypeOK
    <3>3. PICK n \in Nat : n = Len(log[p])
      BY <3>2
    <3>4. log'[p] = Append(log[p], e) /\ \A q \in Partition \ {p} : log'[q] = log[q]
      BY <3>2 DEF TypeOK
    <3>5. /\ DOMAIN log'[p] = DOMAIN log[p] \cup {n + 1}
          /\ log'[p][n + 1] = e /\ \A o \in DOMAIN log[p] : log'[p][o] = log[p][o]
      BY <3>2, <3>3, <3>4
    <3>6. ASSUME NEW x \in Good
          PROVE  x \in Published' <=> x \in Published \/ x = e
      <4>1. x \in Published' <=> \E q \in Partition : \E o \in DOMAIN log'[q] : log'[q][o] = x
        BY DEF Published
      <4>2. x \in Published <=> \E q \in Partition : \E o \in DOMAIN log[q] : log[q][o] = x
        BY DEF Published
      <4>3. (\E o \in DOMAIN log'[p] : log'[p][o] = x) <=> (\E o \in DOMAIN log[p] : log[p][o] = x) \/ x = e
        BY <3>5
      <4>4. QED BY <3>4, <4>1, <4>2, <4>3
    <3>7. Published \subseteq Good /\ Published' \subseteq Good
      BY DEF Published
    <3>8. Published' = IF e \in Good THEN Published \cup {e} ELSE Published
      BY <3>6, <3>7
    <3>9. QED BY <3>1, <3>8 DEF Counting!Next, Counting!Publish, Counting!vars
  <2>2. CASE WriteBatch
    <3> DEFINE first == {e \in Good : Holds({e}) /\ rows[e] = 0}
    <3>1. first \in SUBSET Published
      <4>1. ASSUME NEW e \in first PROVE e \in Published
        <5>1. PICK k \in Entries : EventAt(k) = e
          BY DEF Holds
        <5>2. batch[k].part \in Partition /\ batch[k].offset \in DOMAIN log[batch[k].part]
          BY EntriesAreEntries DEF TypeOK, OffsetsExist
        <5>3. QED BY <5>1, <5>2 DEF Published, EventAt
      <4>2. QED BY <4>1
    <3>2. rows' = [e \in Good |-> IF e \in first THEN 1 ELSE rows[e]]
      BY <2>2 DEF WriteBatch, InsertOrIgnore
    <3>3. Published' = Published
      BY <2>2 DEF WriteBatch, Published
    <3>4. Counting!Count(first)
      BY <3>2, <3>3 DEF Counting!Count
    <3>5. QED BY <3>1, <3>4 DEF Counting!Next
  <2>3. CASE UNCHANGED <<log, rows>>
    BY <2>3 DEF Published, Counting!vars
  <2>4. QED
    BY <2>1, <2>2, <2>3
    DEF Next, ConsumerStep, Poll, PollError, PollNone, Leave, WriteRaises, CommitOffsets, Start,
        Signal, Crash, Rebalance, Forget, Take, vars
<1>3. QED
  BY <1>1, <1>2, RefInductive, PTL DEF Spec, CountsExactlyOnce, Counting!Spec

=============================================================================
