-------------------------- MODULE Escalation_proofs --------------------------
(***************************************************************************)
(* Proofs about Escalation: it is type correct, a channel fires at most    *)
(* once per incident, a watch stays silent, no run in flight is paged, and *)
(* a channel fires only for a band the incident has been measured in. They *)
(* hold for any number of incidents and requests, however many of the      *)
(* requests and runs die.                                                  *)
(***************************************************************************)
EXTENDS Escalation, TLAPS

USE EscalationAssumption DEF rowVars, runVars, store, locals, request

(***************************************************************************)
(* Type correctness.                                                       *)
(***************************************************************************)
LEMMA ChannelsForType ==
  ASSUME NEW s \in Severity
  PROVE  /\ ChannelsFor(s) \subseteq Channel
         /\ "slack" \in ChannelsFor(s) => s \in {"high", "critical"}
         /\ "phone" \in ChannelsFor(s) => s = "critical"
  BY DEF ChannelsFor, Channel

LEMMA InitType == Init => TypeOK
  BY DEF Init, TypeOK, Unrecorded

\* A request that ends leaves typed locals.
LEMMA ForgetType ==
  ASSUME TypeOK, NEW r \in Reader, Forget(r), pc' = [pc EXCEPT ![r] = "idle"]
  PROVE  /\ pc' \in [Reader -> {"idle", "read", "check", "claim", "fire"}]
         /\ seen' \in [Reader -> Seen \cup {None}]
         /\ \A q \in Reader : pc'[q] = "idle" <=> seen'[q] = None
         /\ todo' \in [Reader -> SUBSET Channel]
         /\ outcome' \in [Reader -> [Channel -> Status \cup {None}]]
<1>1. Unrecorded \in [Channel -> Status \cup {None}]
  BY DEF Unrecorded
<1> QED
  BY <1>1 DEF Forget, TypeOK

\* What a row's writer leaves behind is typed.
LEMMA WriteType ==
  ASSUME TypeOK, NEW i \in Incident, NEW s \in State, NEW v \in Severity,
         Write(i, s, v), changes' \in Nat
  PROVE  TypeOK'
  BY DEF TypeOK, Write, Row

\* So is what the daemon does to a row.
LEMMA MoveType ==
  ASSUME TypeOK, NEW i \in Incident, Known(i), NEW s \in State, Move(i, s)
  PROVE  /\ row' \in [Incident -> Row \cup {None}]
         /\ row'[i] = [state |-> s, severity |-> row[i].severity]
         /\ \A j \in Incident \ {i} : row'[j] = row[j]
  BY DEF TypeOK, Move, Known, Row

LEMMA NextType == TypeOK /\ [Next]_vars => TypeOK'
<1> SUFFICES ASSUME TypeOK, [Next]_vars PROVE TypeOK'
  OBVIOUS
<1>1. ASSUME NEW i \in Incident, NEW s \in Severity, SaveIncident(i, s) PROVE TypeOK'
  <2>1. InState(i, State \ {"watching"}) => row[i].state \in State
    BY DEF InState
  <2> QED
    BY <1>1, <2>1, WriteType DEF SaveIncident, State, Claimable, TypeOK
<1>2. ASSUME NEW i \in Incident, SaveWatch(i) PROVE TypeOK'
  BY <1>2, WriteType DEF SaveWatch, State, Claimable, Severity, TypeOK
<1>3. ASSUME NEW i \in Incident, CloseRow(i) PROVE TypeOK'
  <2>1. row[i].severity \in Severity
    BY <1>3 DEF CloseRow, Live, InState, Known, TypeOK, Row
  <2> QED
    BY <1>3, <2>1, WriteType DEF CloseRow, State, Claimable, TypeOK
<1>4. CASE StoreResult
  <2> DEFINE i == run.id
  <2>1. i \in Incident
    BY <1>4 DEF StoreResult, TypeOK, Run
  <2>2. row' \in [Incident -> Row \cup {None}]
    BY <1>4, <2>1, MoveType DEF StoreResult, InState, State, Claimable, TypeOK
  <2> QED
    BY <1>4, <2>1, <2>2 DEF StoreResult, TypeOK
<1>a. ASSUME NEW i \in Incident, PollRow(i) PROVE TypeOK'
  <2>1. [id |-> i, read |-> row[i].state, claimed |-> FALSE] \in Run
    BY <1>a DEF PollRow, InState, Run
  <2> QED
    BY <1>a, <2>1 DEF PollRow, TypeOK
<1>b. CASE ClaimRow
  <2> DEFINE i == run.id
  <2>1. i \in Incident /\ run \in Run
    BY <1>b DEF ClaimRow, TypeOK, Run
  <2>2. row' \in [Incident -> Row \cup {None}]
    BY <1>b, <2>1, MoveType DEF ClaimRow, InState, State, TypeOK
  <2>3. lease' \in [Incident -> Claimable \cup {None}]
    <3>1. CASE InState(i, Claimable) /\ lease[i] = None
      <4>1. row[i].state \in Claimable /\ lease' = [lease EXCEPT ![i] = row[i].state]
        BY <1>b, <3>1 DEF ClaimRow, InState
      <4> QED
        BY <4>1 DEF TypeOK
    <3>2. CASE ~(InState(i, Claimable) /\ lease[i] = None)
      BY <1>b, <3>2 DEF ClaimRow, TypeOK
    <3> QED
      BY <3>1, <3>2
  <2>4. run' \in Run \cup {None}
    BY <1>b, <2>1 DEF ClaimRow, Run
  <2> QED
    BY <1>b, <2>2, <2>3, <2>4 DEF ClaimRow, TypeOK
<1>c. CASE DaemonDies
  BY <1>c DEF DaemonDies, TypeOK
<1>d. ASSUME NEW i \in Incident, Reclaim(i) PROVE TypeOK'
  <2>1. lease[i] \in Claimable /\ Known(i)
    BY <1>d DEF Reclaim, Reclaimable, InState, TypeOK
  <2>2. row' \in [Incident -> Row \cup {None}]
    BY <1>d, <2>1, MoveType DEF Reclaim, State
  <2> QED
    BY <1>d, <2>2 DEF Reclaim, TypeOK
<1>5. ASSUME NEW i \in Incident, Acknowledge(i) PROVE TypeOK'
  BY <1>5 DEF Acknowledge, TypeOK
<1>6. ASSUME NEW i \in Incident, NEW r \in Reader, ReadRow(r, i) PROVE TypeOK'
  <2>1. [id |-> i, state |-> row[i].state, severity |-> row[i].severity, result |-> FALSE] \in Seen
    BY <1>6 DEF ReadRow, Known, TypeOK, Row, Seen
  <2> QED
    BY <1>6, <2>1 DEF ReadRow, Goto, TypeOK
<1>e. ASSUME NEW r \in Reader, ReadResult(r) PROVE TypeOK'
  <2>1. seen[r] \in Seen
    BY <1>e DEF ReadResult, Goto, TypeOK
  <2>2. ReadsResult(seen[r].id) \in BOOLEAN
    BY <2>1 DEF ReadsResult, Seen, TypeOK
  <2>3. seen' \in [Reader -> Seen \cup {None}] /\ seen'[r] # None
    BY <1>e, <2>1, <2>2 DEF ReadResult, Seen, TypeOK
  <2>4. \A q \in Reader \ {r} : seen'[q] = seen[q]
    BY <1>e DEF ReadResult, TypeOK
  <2> QED
    BY <1>e, <2>3, <2>4 DEF ReadResult, Goto, TypeOK
<1>7. ASSUME NEW r \in Reader, Check(r) PROVE TypeOK'
  <2>1. seen[r] \in Seen
    BY <1>7 DEF Check, TypeOK
  <2>2. ChannelsFor(seen[r].severity) \subseteq Channel
    BY <2>1, ChannelsForType DEF Seen
  <2> DEFINE unfired == IF Escalatable(seen[r].state) /\ seen[r].result
                        THEN ChannelsFor(seen[r].severity) \ Recorded(seen[r].id) ELSE {}
  <2>3. unfired \subseteq Channel
    BY <2>2
  <2>4. CASE unfired = {}
    <3>1. Forget(r) /\ pc' = [pc EXCEPT ![r] = "idle"]
      BY <1>7, <2>4 DEF Check
    <3> QED
      BY <1>7, <3>1, ForgetType DEF Check, TypeOK
  <2>5. CASE unfired # {}
    <3>1. /\ pc[r] = "check" /\ pc' = [pc EXCEPT ![r] = "claim"]
          /\ todo' = [todo EXCEPT ![r] = unfired]
          /\ UNCHANGED <<seen, outcome>>
      BY <1>7, <2>5 DEF Check
    <3>2. UNCHANGED <<rowVars, runVars, store, fired, crashes>>
      BY <1>7 DEF Check
    <3> HIDE DEF unfired
    <3>3. todo' \in [Reader -> SUBSET Channel]
      BY <2>3, <3>1 DEF TypeOK
    <3>4. pc' \in [Reader -> {"idle", "read", "check", "claim", "fire"}]
      BY <3>1 DEF TypeOK
    <3>5. \A q \in Reader : pc'[q] = "idle" <=> seen'[q] = None
      BY <3>1 DEF TypeOK
    <3> QED
      BY <3>1, <3>2, <3>3, <3>4, <3>5 DEF TypeOK, rowVars, store
  <2> QED
    BY <2>4, <2>5
<1>8. ASSUME NEW r \in Reader, ClaimChannels(r) PROVE TypeOK'
  <2>1. seen[r] \in Seen /\ seen[r].id \in Incident
    BY <1>8 DEF ClaimChannels, TypeOK, Seen
  <2>2. Won(seen[r].id, todo[r]) \subseteq Channel
    BY <2>1 DEF Won, TypeOK
  <2>3. claimed' \in [Incident -> SUBSET Channel]
    BY <1>8, <2>1, <2>2 DEF ClaimChannels, TypeOK
  <2>4. CASE Won(seen[r].id, todo[r]) = {}
    <3>1. Forget(r) /\ pc' = [pc EXCEPT ![r] = "idle"]
      BY <1>8, <2>4 DEF ClaimChannels
    <3> QED
      BY <1>8, <2>3, <3>1, ForgetType DEF ClaimChannels, TypeOK
  <2>5. CASE Won(seen[r].id, todo[r]) # {}
    <3>1. /\ pc' = [pc EXCEPT ![r] = "fire"]
          /\ todo' = [todo EXCEPT ![r] = Won(seen[r].id, todo[r])]
          /\ UNCHANGED <<seen, outcome>>
      BY <1>8, <2>5 DEF ClaimChannels
    <3> QED
      BY <1>8, <2>2, <2>3, <3>1 DEF ClaimChannels, TypeOK
  <2> QED
    BY <2>4, <2>5
<1>9. ASSUME NEW r \in Reader, NEW c \in Channel, NEW st \in Status, Fire(r, c, st) PROVE TypeOK'
  <2>1. seen[r] \in Seen /\ seen[r].id \in Incident
    BY <1>9 DEF Fire, TypeOK, Seen
  <2>2. Enqueued(seen[r].id) \in {"none", "ringing", "acknowledged"}
    BY <2>1 DEF Enqueued, TypeOK
  <2>3. \/ UNCHANGED call
        \/ call' = [call EXCEPT ![seen[r].id] = Enqueued(seen[r].id)]
    BY <1>9 DEF Fire
  <2>4. call' \in [Incident -> {"none", "ringing", "acknowledged"}]
    BY <2>1, <2>2, <2>3 DEF TypeOK
  <2>5. fired' \in [Incident -> [Channel -> Nat]]
    BY <1>9, <2>1 DEF Fire, TypeOK
  <2>6. outcome' \in [Reader -> [Channel -> Status \cup {None}]]
    BY <1>9 DEF Fire, TypeOK
  <2> QED
    BY <1>9, <2>4, <2>5, <2>6 DEF Fire, TypeOK
<1>10. ASSUME NEW r \in Reader, Record(r) PROVE TypeOK'
  <2>1. seen[r] \in Seen /\ seen[r].id \in Incident
    BY <1>10 DEF Record, Goto, TypeOK, Seen
  <2> QED
    BY <1>10, <2>1 DEF Record, Goto, Forget, Unrecorded, TypeOK
<1>11. ASSUME NEW r \in Reader, Crash(r) PROVE TypeOK'
  BY <1>11 DEF Crash, Forget, Unrecorded, TypeOK
<1>12. CASE UNCHANGED vars
  BY <1>12 DEF vars, TypeOK
<1> QED
  BY <1>1, <1>2, <1>3, <1>4, <1>5, <1>6, <1>7, <1>8, <1>9, <1>10, <1>11, <1>12,
     <1>a, <1>b, <1>c, <1>d, <1>e
  DEF Next, ReaderStep

\* Every variable holds what its table or local can hold, and a reader works on
\* a row exactly while it is inside a request.
THEOREM TypeCorrect == Spec => []TypeOK
  BY InitType, NextType, PTL DEF Spec

(***************************************************************************)
(* A channel fires at most once.  A channel some request still has to fire *)
(* is claimed, has not been fired, and is no other request's to fire; the  *)
(* claims only grow, so nothing is won twice.                              *)
(***************************************************************************)
Firing(r, i, c) == pc[r] = "fire" /\ seen[r].id = i /\ c \in todo[r]

WonIsFresh ==
  \A r \in Reader, i \in Incident, c \in Channel :
    Firing(r, i, c) => c \in claimed[i] /\ fired[i][c] = 0

OneWinner ==
  \A r, q \in Reader, i \in Incident, c \in Channel :
    Firing(r, i, c) /\ Firing(q, i, c) => r = q

FiredIsClaimed ==
  \A i \in Incident, c \in Channel : fired[i][c] > 0 => c \in claimed[i]

FireInv == TypeOK /\ WonIsFresh /\ OneWinner /\ FiredIsClaimed /\ FiresAtMostOnce

LEMMA InitFire == Init => FireInv
<1> SUFFICES ASSUME Init PROVE FireInv
  OBVIOUS
<1>1. TypeOK
  BY InitType
<1> QED
  BY <1>1 DEF Init, FireInv, WonIsFresh, OneWinner, FiredIsClaimed, FiresAtMostOnce, Firing

\* Nothing but a won claim, a firing or a request's end touches what it fires.
LEMMA FireFrame ==
  ASSUME FireInv, TypeOK', UNCHANGED <<claimed, fired>>,
         \A r \in Reader, i \in Incident, c \in Channel : Firing(r, i, c)' => Firing(r, i, c)
  PROVE  FireInv'
  BY DEF FireInv, WonIsFresh, OneWinner, FiredIsClaimed, FiresAtMostOnce

LEMMA NextFire == FireInv /\ [Next]_vars => FireInv'
<1> SUFFICES ASSUME FireInv, [Next]_vars PROVE FireInv'
  OBVIOUS
<1>t. TypeOK /\ TypeOK'
  BY NextType DEF FireInv
<1>1. ASSUME NEW i \in Incident, NEW s \in Severity, SaveIncident(i, s) PROVE FireInv'
  BY <1>1, <1>t, FireFrame DEF SaveIncident, Write, Firing
<1>2. ASSUME NEW i \in Incident, SaveWatch(i) PROVE FireInv'
  BY <1>2, <1>t, FireFrame DEF SaveWatch, Write, Firing
<1>3. ASSUME NEW i \in Incident, CloseRow(i) PROVE FireInv'
  BY <1>3, <1>t, FireFrame DEF CloseRow, Write, Firing
<1>4. CASE StoreResult
  BY <1>4, <1>t, FireFrame DEF StoreResult, Firing
<1>a. ASSUME NEW i \in Incident, PollRow(i) \/ Reclaim(i) PROVE FireInv'
  BY <1>a, <1>t, FireFrame DEF PollRow, Reclaim, Firing
<1>b. CASE ClaimRow
  BY <1>b, <1>t, FireFrame DEF ClaimRow, Firing
<1>c. CASE DaemonDies
  BY <1>c, <1>t, FireFrame DEF DaemonDies, Firing
<1>5. ASSUME NEW i \in Incident, Acknowledge(i) PROVE FireInv'
  BY <1>5, <1>t, FireFrame DEF Acknowledge, Firing
<1>6. ASSUME NEW i \in Incident, NEW r \in Reader, ReadRow(r, i) PROVE FireInv'
  BY <1>6, <1>t, FireFrame DEF ReadRow, Goto, Firing, TypeOK
<1>d. ASSUME NEW r \in Reader, ReadResult(r) PROVE FireInv'
  BY <1>d, <1>t, FireFrame DEF ReadResult, Goto, Firing, TypeOK
<1>7. ASSUME NEW r \in Reader, Check(r) PROVE FireInv'
  <2>1. pc'[r] # "fire" /\ UNCHANGED <<claimed, fired>>
    BY <1>7, <1>t DEF Check, TypeOK
  <2>2. \A q \in Reader \ {r} : pc'[q] = pc[q] /\ seen'[q] = seen[q] /\ todo'[q] = todo[q]
    BY <1>7, <1>t DEF Check, Forget, TypeOK
  <2> QED
    BY <1>t, <2>1, <2>2, FireFrame DEF Firing
<1>8. ASSUME NEW r \in Reader, ClaimChannels(r) PROVE FireInv'
  <2> DEFINE i == seen[r].id
             won == Won(i, todo[r])
  <2>1. i \in Incident
    BY <1>8, <1>t DEF ClaimChannels, TypeOK, Seen
  <2>2. /\ claimed' = [claimed EXCEPT ![i] = @ \cup won]
        /\ UNCHANGED fired
        /\ won \cap claimed[i] = {}
    BY <1>8 DEF ClaimChannels, Won
  <2>3. ASSUME NEW q \in Reader, NEW j \in Incident, NEW c \in Channel, Firing(q, j, c)'
        PROVE  \/ q # r /\ Firing(q, j, c)
               \/ q = r /\ j = i /\ c \in won
    BY <1>8, <1>t, <2>3 DEF ClaimChannels, Forget, Firing, TypeOK
  <2>4. ASSUME NEW q \in Reader, NEW c \in Channel, Firing(q, i, c) PROVE c \notin won
    BY <2>1, <2>2, <2>4 DEF FireInv, WonIsFresh
  <2>5. ASSUME NEW j \in Incident, NEW c \in Channel PROVE c \in claimed[j] => c \in claimed'[j]
    BY <1>t, <2>2 DEF TypeOK
  <2>6. WonIsFresh'
    <3> SUFFICES ASSUME NEW q \in Reader, NEW j \in Incident, NEW c \in Channel, Firing(q, j, c)'
                 PROVE  c \in claimed'[j] /\ fired'[j][c] = 0
      BY DEF WonIsFresh
    <3>1. CASE q # r /\ Firing(q, j, c)
      BY <3>1, <2>2, <2>5 DEF FireInv, WonIsFresh
    <3>2. CASE q = r /\ j = i /\ c \in won
      <4>1. c \in claimed'[j]
        BY <3>2, <1>t, <2>1, <2>2 DEF TypeOK
      <4>2. fired[j][c] \in Nat /\ ~(fired[j][c] > 0)
        BY <3>2, <1>t, <2>1, <2>2 DEF FireInv, FiredIsClaimed, TypeOK
      <4> QED
        BY <4>1, <4>2, <2>2
    <3> QED
      BY <2>3, <3>1, <3>2
  <2>7. OneWinner'
    BY <2>1, <2>3, <2>4 DEF FireInv, OneWinner
  <2>8. FiredIsClaimed' /\ FiresAtMostOnce'
    BY <2>2, <2>5 DEF FireInv, FiredIsClaimed, FiresAtMostOnce
  <2> QED
    BY <1>t, <2>6, <2>7, <2>8 DEF FireInv
<1>9. ASSUME NEW r \in Reader, NEW c \in Channel, NEW st \in Status, Fire(r, c, st) PROVE FireInv'
  <2> DEFINE i == seen[r].id
  <2>1. i \in Incident /\ Firing(r, i, c)
    BY <1>9, <1>t DEF Fire, TypeOK, Seen, Firing
  <2>2. c \in claimed[i] /\ fired[i][c] = 0
    BY <2>1 DEF FireInv, WonIsFresh
  <2>3. UNCHANGED claimed
    BY <1>9 DEF Fire
  <2>4. ASSUME NEW j \in Incident, NEW d \in Channel
        PROVE  fired'[j][d] = IF j = i /\ d = c THEN 1 ELSE fired[j][d]
    BY <1>9, <1>t, <2>1, <2>2 DEF Fire, TypeOK
  <2>5. ASSUME NEW q \in Reader, NEW j \in Incident, NEW d \in Channel, Firing(q, j, d)'
        PROVE  Firing(q, j, d) /\ ~(q = r /\ d = c)
    BY <1>9, <1>t, <2>5 DEF Fire, Firing, TypeOK
  <2>6. WonIsFresh'
    <3> SUFFICES ASSUME NEW q \in Reader, NEW j \in Incident, NEW d \in Channel, Firing(q, j, d)'
                 PROVE  d \in claimed'[j] /\ fired'[j][d] = 0
      BY DEF WonIsFresh
    <3>1. Firing(q, j, d) /\ ~(q = r /\ d = c)
      BY <2>5
    <3>2. ~(j = i /\ d = c)
      BY <2>1, <3>1 DEF FireInv, OneWinner
    <3> QED
      BY <2>3, <2>4, <3>1, <3>2 DEF FireInv, WonIsFresh
  <2>7. OneWinner'
    BY <2>5 DEF FireInv, OneWinner
  <2>8. FiredIsClaimed' /\ FiresAtMostOnce'
    BY <2>2, <2>3, <2>4 DEF FireInv, FiredIsClaimed, FiresAtMostOnce
  <2> QED
    BY <1>t, <2>6, <2>7, <2>8 DEF FireInv
<1>10. ASSUME NEW r \in Reader, Record(r) PROVE FireInv'
  BY <1>10, <1>t, FireFrame DEF Record, Goto, Forget, Firing, TypeOK
<1>11. ASSUME NEW r \in Reader, Crash(r) PROVE FireInv'
  BY <1>11, <1>t, FireFrame DEF Crash, Forget, Firing, TypeOK
<1>12. CASE UNCHANGED vars
  BY <1>12, <1>t, FireFrame DEF vars, Firing
<1> QED
  BY <1>1, <1>2, <1>3, <1>4, <1>5, <1>6, <1>7, <1>8, <1>9, <1>10, <1>11, <1>12,
     <1>a, <1>b, <1>c, <1>d
  DEF Next, ReaderStep

\* A channel fires at most once per incident, ever.
THEOREM FiresOnce == Spec => []FiresAtMostOnce
<1>1. FireInv => FiresAtMostOnce
  BY DEF FireInv
<1> QED
  BY <1>1, InitFire, NextFire, PTL DEF Spec

(***************************************************************************)
(* A watch is silent, and a channel fires only for a band the row has been *)
(* measured in.  The rows requests work on are stale, and a row may even   *)
(* fall back to watching; but `reached` only grows, so that what a request *)
(* has read of a row that may escalate stays reached.                      *)
(***************************************************************************)
MayEscalate(i) == Known(i) /\ row[i].state # "watching"

\* What the row is now has been reached.
RowIsReached == \A i \in Incident : MayEscalate(i) => row[i].severity \in reached[i]

\* What a request has read of a row that may escalate has been, for good.
SeenIsReached ==
  \A r \in Reader :
    pc[r] # "idle" /\ seen[r].state # "watching" => seen[r].severity \in reached[seen[r].id]

\* A request past its checks works for such a row, inside its binding.
PastChecks ==
  \A r \in Reader :
    pc[r] \in {"claim", "fire"} =>
      seen[r].state # "watching" /\ todo[r] \subseteq ChannelsFor(seen[r].severity)

ClaimedWasReached ==
  \A i \in Incident : claimed[i] # {} \/ Recorded(i) # {} => reached[i] # {}

BandInv ==
  TypeOK /\ RowIsReached /\ SeenIsReached /\ PastChecks /\ ClaimedWasReached /\ BandWasReached

LEMMA InitBand == Init => BandInv
<1> SUFFICES ASSUME Init PROVE BandInv
  OBVIOUS
<1>1. TypeOK
  BY InitType
<1> QED
  BY <1>1 DEF Init, BandInv, RowIsReached, SeenIsReached, PastChecks, ClaimedWasReached,
              BandWasReached, MayEscalate, Known, Recorded, Unrecorded, Channel

\* A write of the sweep records the band it leaves the row in.
LEMMA WriteReaches ==
  ASSUME TypeOK, NEW i \in Incident, NEW s \in State, NEW v \in Severity, Write(i, s, v)
  PROVE  /\ \A j \in Incident : reached[j] \subseteq reached'[j]
         /\ RowIsReached => RowIsReached'
<1>1. /\ row'[i] = [state |-> s, severity |-> v]
      /\ \A j \in Incident \ {i} : row'[j] = row[j] /\ reached'[j] = reached[j]
      /\ reached'[i] = reached[i] \cup IF s = "watching" THEN {} ELSE {v}
  BY DEF Write, TypeOK, Row
<1> QED
  BY <1>1 DEF MayEscalate, Known, RowIsReached

\* The daemon moves a row among states; it makes none escalatable.
LEMMA MoveReaches ==
  ASSUME TypeOK, NEW i \in Incident, Known(i), NEW s \in State, Move(i, s), UNCHANGED reached,
         s # "watching" => MayEscalate(i)
  PROVE  RowIsReached => RowIsReached'
<1>1. /\ row'[i] = [state |-> s, severity |-> row[i].severity]
      /\ \A j \in Incident \ {i} : row'[j] = row[j]
  BY MoveType
<1> QED
  BY <1>1 DEF MayEscalate, Known, RowIsReached

\* No step takes a band out of a row's history or leaves a row in none of them.
LEMMA ReachedGrows ==
  ASSUME TypeOK, [Next]_vars
  PROVE  /\ \A i \in Incident : reached[i] \subseteq reached'[i]
         /\ RowIsReached => RowIsReached'
<1> DEFINE P == /\ \A i \in Incident : reached[i] \subseteq reached'[i]
                /\ RowIsReached => RowIsReached'
<1>1. ASSUME UNCHANGED <<row, reached>> PROVE P
  BY <1>1 DEF MayEscalate, Known, RowIsReached
<1>3. ASSUME NEW i \in Incident, NEW v \in Severity, SaveIncident(i, v) PROVE P
  <2>1. InState(i, State \ {"watching"}) => row[i].state \in State
    BY DEF InState
  <2> QED
    BY <1>3, <2>1, WriteReaches DEF SaveIncident, State, Claimable
<1>4. ASSUME NEW i \in Incident, SaveWatch(i) PROVE P
  BY <1>4, WriteReaches DEF SaveWatch, State, Claimable, Severity
<1>5. ASSUME NEW i \in Incident, CloseRow(i) PROVE P
  <2>1. row[i].severity \in Severity
    BY <1>5 DEF CloseRow, Live, InState, Known, TypeOK, Row
  <2> QED
    BY <1>5, <2>1, WriteReaches DEF CloseRow, State, Claimable
<1>6. CASE StoreResult
  <2> DEFINE i == run.id
  <2>1. i \in Incident /\ UNCHANGED reached
    BY <1>6 DEF StoreResult, TypeOK, Run
  <2>2. CASE InState(i, {"investigating", "watching"}) /\ Move(i, "watching")
    BY <2>1, <2>2, MoveReaches DEF InState, State, Claimable
  <2>3. CASE InState(i, {"investigating", "detected"}) /\ Move(i, "diagnosed")
    <3>1. MayEscalate(i)
      BY <2>3 DEF InState, MayEscalate
    <3> QED
      BY <2>1, <2>3, <3>1, MoveReaches DEF InState, State, Claimable
  <2>4. CASE UNCHANGED row
    BY <1>1, <2>1, <2>4
  <2> QED
    BY <1>6, <2>2, <2>3, <2>4 DEF StoreResult
<1>7. CASE ClaimRow
  <2> DEFINE i == run.id
  <2>1. i \in Incident /\ UNCHANGED reached
    BY <1>7 DEF ClaimRow, TypeOK, Run
  <2>2. CASE Known(i) /\ row[i].state = "detected" /\ Move(i, "investigating")
    <3>1. MayEscalate(i)
      BY <2>2 DEF MayEscalate
    <3> QED
      BY <2>1, <2>2, <3>1, MoveReaches DEF State
  <2>3. CASE UNCHANGED row
    BY <1>1, <2>1, <2>3
  <2> QED
    BY <1>7, <2>2, <2>3 DEF ClaimRow, InState
<1>8. ASSUME NEW i \in Incident, Reclaim(i) PROVE P
  <2>1. lease[i] \in Claimable /\ Known(i) /\ UNCHANGED reached /\ Move(i, lease[i])
    BY <1>8 DEF Reclaim, Reclaimable, InState, TypeOK
  <2>2. lease[i] # "watching" => MayEscalate(i)
    BY <1>8 DEF Reclaim, Reclaimable, InState, MayEscalate
  <2> QED
    BY <2>1, <2>2, MoveReaches DEF State
<1>9. ASSUME NEW i \in Incident, PollRow(i) \/ Acknowledge(i) \/ \E r \in Reader : ReadRow(r, i)
      PROVE  P
  BY <1>1, <1>9 DEF PollRow, Acknowledge, ReadRow
<1>10. ASSUME NEW r \in Reader, ReaderStep(r) \/ Crash(r) PROVE P
  BY <1>1, <1>10 DEF ReaderStep, ReadResult, Check, ClaimChannels, Fire, Record, Crash
<1>11. CASE DaemonDies \/ UNCHANGED vars
  BY <1>1, <1>11 DEF DaemonDies, vars
<1> QED
  BY <1>3, <1>4, <1>5, <1>6, <1>7, <1>8, <1>9, <1>10, <1>11 DEF Next

\* A step that moves no request, claims, fires and records nothing.
LEMMA BandFrame ==
  ASSUME BandInv, TypeOK', [Next]_vars, UNCHANGED <<claimed, event, fired, pc, seen, todo>>
  PROVE  BandInv'
<1>t. TypeOK
  BY DEF BandInv
<1>1. /\ \A i \in Incident : reached[i] \subseteq reached'[i]
      /\ RowIsReached'
  BY <1>t, ReachedGrows DEF BandInv
<1>2. ClaimedWasReached' /\ PastChecks' /\ BandWasReached'
  BY <1>1 DEF BandInv, ClaimedWasReached, PastChecks, BandWasReached, Recorded
<1>3. SeenIsReached'
  BY <1>t, <1>1 DEF BandInv, SeenIsReached, TypeOK, Seen
<1> QED
  BY <1>1, <1>2, <1>3 DEF BandInv

\* A step of a request leaves rows and their history alone, so only what this
\* request itself now is, has claimed, fired or recorded has to be looked at.
LEMMA BandStep ==
  ASSUME BandInv, TypeOK', NEW r \in Reader, UNCHANGED <<row, reached>>,
         \A q \in Reader \ {r} : pc'[q] = pc[q] /\ seen'[q] = seen[q] /\ todo'[q] = todo[q],
         pc'[r] # "idle" /\ seen'[r].state # "watching" =>
           seen'[r].severity \in reached[seen'[r].id],
         pc'[r] \in {"claim", "fire"} =>
           seen'[r].state # "watching" /\ todo'[r] \subseteq ChannelsFor(seen'[r].severity),
         ClaimedWasReached', BandWasReached'
  PROVE  BandInv'
<1>1. \A i : MayEscalate(i)' <=> MayEscalate(i)
  BY DEF MayEscalate, Known
<1>2. RowIsReached'
  BY <1>1 DEF BandInv, RowIsReached
<1>3. SeenIsReached'
  BY <1>1 DEF BandInv, SeenIsReached
<1>4. PastChecks'
  BY DEF BandInv, PastChecks
<1> QED
  BY <1>2, <1>3, <1>4 DEF BandInv

LEMMA NextBand == BandInv /\ [Next]_vars => BandInv'
<1> SUFFICES ASSUME BandInv, [Next]_vars PROVE BandInv'
  OBVIOUS
<1>t. TypeOK /\ TypeOK'
  BY NextType DEF BandInv
<1>1. ASSUME NEW i \in Incident, \/ \E v \in Severity : SaveIncident(i, v)
                                \/ SaveWatch(i) \/ CloseRow(i)
                                \/ PollRow(i) \/ Reclaim(i) \/ Acknowledge(i)
      PROVE  BandInv'
  BY <1>1, <1>t, BandFrame
  DEF SaveIncident, SaveWatch, CloseRow, PollRow, Reclaim, Acknowledge, Write
<1>a. CASE ClaimRow \/ StoreResult \/ DaemonDies
  BY <1>a, <1>t, BandFrame DEF ClaimRow, StoreResult, DaemonDies
<1>2. ASSUME NEW i \in Incident, NEW r \in Reader, ReadRow(r, i) PROVE BandInv'
  <2>1. /\ UNCHANGED <<row, reached, claimed, event, fired, todo>>
        /\ pc' = [pc EXCEPT ![r] = "read"]
        /\ seen' = [seen EXCEPT ![r] =
             [id |-> i, state |-> row[i].state, severity |-> row[i].severity, result |-> FALSE]]
        /\ Known(i)
    BY <1>2 DEF ReadRow, Goto
  <2>2. /\ seen'[r] = [id |-> i, state |-> row[i].state, severity |-> row[i].severity, result |-> FALSE]
        /\ pc'[r] = "read"
    BY <1>t, <2>1 DEF TypeOK
  <2>3. seen'[r].state # "watching" =>
          seen'[r].severity \in reached[seen'[r].id]
    BY <2>1, <2>2 DEF BandInv, RowIsReached, MayEscalate
  <2>4. \A q \in Reader \ {r} : pc'[q] = pc[q] /\ seen'[q] = seen[q] /\ todo'[q] = todo[q]
    BY <1>t, <2>1 DEF TypeOK
  <2>5. ClaimedWasReached' /\ BandWasReached'
    BY <2>1 DEF BandInv, ClaimedWasReached, BandWasReached, Recorded
  <2> QED
    BY <1>t, <2>1, <2>2, <2>3, <2>4, <2>5, BandStep
<1>b. ASSUME NEW r \in Reader, ReadResult(r) PROVE BandInv'
  <2>1. /\ UNCHANGED <<row, reached, claimed, event, fired, todo>>
        /\ pc[r] = "read" /\ pc'[r] = "check" /\ seen[r] \in Seen
        /\ \A q \in Reader \ {r} : pc'[q] = pc[q] /\ seen'[q] = seen[q]
    BY <1>b, <1>t DEF ReadResult, Goto, TypeOK
  <2>2. /\ seen'[r].id = seen[r].id /\ seen'[r].state = seen[r].state
        /\ seen'[r].severity = seen[r].severity
    BY <1>b, <1>t, <2>1 DEF ReadResult, Seen, TypeOK
  <2>3. ClaimedWasReached' /\ BandWasReached'
    BY <2>1 DEF BandInv, ClaimedWasReached, BandWasReached, Recorded
  <2>4. seen[r].state # "watching" => seen[r].severity \in reached[seen[r].id]
    BY <2>1 DEF BandInv, SeenIsReached
  <2> QED
    BY <1>t, <2>1, <2>2, <2>3, <2>4, BandStep
<1>3. ASSUME NEW r \in Reader, Check(r) PROVE BandInv'
  <2>1. UNCHANGED <<row, reached, claimed, event, fired>>
    BY <1>3 DEF Check
  <2>2. \A q \in Reader \ {r} : pc'[q] = pc[q] /\ seen'[q] = seen[q] /\ todo'[q] = todo[q]
    BY <1>3, <1>t DEF Check, Forget, TypeOK
  <2>3. \/ pc'[r] = "idle"
        \/ /\ pc'[r] = "claim" /\ seen'[r] = seen[r]
           /\ Escalatable(seen[r].state) /\ todo'[r] \subseteq ChannelsFor(seen[r].severity)
    <3> DEFINE unfired == IF Escalatable(seen[r].state) /\ seen[r].result
                          THEN ChannelsFor(seen[r].severity) \ Recorded(seen[r].id) ELSE {}
    <3>1. CASE unfired = {}
      BY <1>3, <1>t, <3>1 DEF Check, TypeOK
    <3>2. CASE unfired # {}
      <4>1. Escalatable(seen[r].state) /\ unfired \subseteq ChannelsFor(seen[r].severity)
        BY <3>2
      <4>2. pc' = [pc EXCEPT ![r] = "claim"] /\ todo' = [todo EXCEPT ![r] = unfired] /\ UNCHANGED seen
        BY <1>3, <3>2 DEF Check
      <4> QED
        BY <1>t, <4>1, <4>2 DEF TypeOK
    <3> QED
      BY <3>1, <3>2
  <2>4. pc'[r] # "idle" /\ seen'[r].state # "watching" =>
          seen'[r].severity \in reached[seen'[r].id]
    BY <1>3, <2>3 DEF BandInv, SeenIsReached, Check
  <2>5. ClaimedWasReached' /\ BandWasReached'
    BY <2>1 DEF BandInv, ClaimedWasReached, BandWasReached, Recorded
  <2> QED
    BY <1>t, <2>1, <2>2, <2>3, <2>4, <2>5, BandStep DEF Escalatable
<1>4. ASSUME NEW r \in Reader, ClaimChannels(r) PROVE BandInv'
  <2> DEFINE i == seen[r].id
             won == Won(i, todo[r])
  <2>1. /\ UNCHANGED <<row, reached, event, fired>>
        /\ claimed' = [claimed EXCEPT ![i] = @ \cup won]
        /\ won \subseteq todo[r]
    BY <1>4 DEF ClaimChannels, Won
  <2>2. \A q \in Reader \ {r} : pc'[q] = pc[q] /\ seen'[q] = seen[q] /\ todo'[q] = todo[q]
    BY <1>4, <1>t DEF ClaimChannels, Forget, TypeOK
  <2>3. /\ seen[r].state # "watching" /\ todo[r] \subseteq ChannelsFor(seen[r].severity)
        /\ seen[r].severity \in reached[i]
    BY <1>4 DEF ClaimChannels, BandInv, PastChecks, SeenIsReached
  <2>4. pc'[r] = "idle" \/ (pc'[r] = "fire" /\ seen'[r] = seen[r] /\ todo'[r] \subseteq todo[r])
    BY <1>4, <1>t, <2>1 DEF ClaimChannels, TypeOK
  <2>5. ClaimedWasReached'
    <3> SUFFICES ASSUME NEW j \in Incident, (claimed[j] # {} \/ Recorded(j) # {})'
                 PROVE  reached'[j] # {}
      BY DEF ClaimedWasReached
    <3>2. CASE j = i
      BY <3>2, <2>1, <2>3
    <3>3. CASE j # i
      BY <3>3, <1>t, <2>1 DEF BandInv, ClaimedWasReached, Recorded, TypeOK
    <3> QED
      BY <3>2, <3>3
  <2>6. BandWasReached'
    BY <2>1 DEF BandInv, BandWasReached
  <2> QED
    BY <1>t, <2>1, <2>2, <2>3, <2>4, <2>5, <2>6, BandStep
<1>5. ASSUME NEW r \in Reader, NEW c \in Channel, NEW st \in Status, Fire(r, c, st) PROVE BandInv'
  <2> DEFINE i == seen[r].id
  <2>1. /\ UNCHANGED <<row, reached, claimed, event, pc, seen>>
        /\ fired' = [fired EXCEPT ![i][c] = @ + 1]
        /\ todo' = [todo EXCEPT ![r] = @ \ {c}]
        /\ pc[r] = "fire" /\ c \in todo[r]
    BY <1>5 DEF Fire
  <2>2. i \in Incident /\ seen[r].severity \in Severity
    BY <1>t, <2>1 DEF TypeOK, Seen
  <2>3. /\ seen[r].state # "watching" /\ todo[r] \subseteq ChannelsFor(seen[r].severity)
        /\ seen[r].severity \in reached[i]
    BY <2>1 DEF BandInv, PastChecks, SeenIsReached
  <2>4. todo'[r] \subseteq todo[r]
    BY <1>t, <2>1 DEF TypeOK
  <2>5. \A q \in Reader \ {r} : todo'[q] = todo[q]
    BY <1>t, <2>1 DEF TypeOK
  <2>6. ClaimedWasReached'
    BY <2>1 DEF BandInv, ClaimedWasReached, Recorded
  <2>7. /\ c = "slack" => reached[i] \cap {"high", "critical"} # {}
        /\ c = "phone" => "critical" \in reached[i]
    BY <2>1, <2>2, <2>3, ChannelsForType
  <2>8. ASSUME NEW j \in Incident, NEW d \in Channel, ~(j = i /\ d = c)
        PROVE  fired'[j][d] = fired[j][d]
    BY <1>t, <2>1, <2>2, <2>8 DEF TypeOK
  <2>9. BandWasReached'
    <3>1. "slack" \in Channel /\ "phone" \in Channel
      BY DEF Channel
    <3> QED
      BY <2>1, <2>7, <2>8, <3>1 DEF BandInv, BandWasReached
  <2> QED
    BY <1>t, <2>1, <2>3, <2>4, <2>5, <2>6, <2>9, BandStep
<1>6. ASSUME NEW r \in Reader, Record(r) PROVE BandInv'
  <2> DEFINE i == seen[r].id
  <2>1. /\ UNCHANGED <<row, reached, claimed, fired>>
        /\ pc[r] = "fire" /\ pc' = [pc EXCEPT ![r] = "idle"]
    BY <1>6 DEF Record, Goto
  <2>2. reached[i] # {}
    BY <2>1 DEF BandInv, PastChecks, SeenIsReached
  <2>3. \A j \in Incident \ {i} : event'[j] = event[j]
    BY <1>6, <1>t DEF Record, TypeOK
  <2>4. \A q \in Reader \ {r} : pc'[q] = pc[q] /\ seen'[q] = seen[q] /\ todo'[q] = todo[q]
    BY <1>6, <1>t DEF Record, Goto, Forget, TypeOK
  <2>5. pc'[r] = "idle"
    BY <1>t, <2>1 DEF TypeOK
  <2>6. ClaimedWasReached'
    <3> SUFFICES ASSUME NEW j \in Incident, (claimed[j] # {} \/ Recorded(j) # {})'
                 PROVE  reached'[j] # {}
      BY DEF ClaimedWasReached
    <3>2. CASE j = i
      BY <3>2, <2>1, <2>2
    <3>3. CASE j # i
      BY <3>3, <2>1, <2>3 DEF BandInv, ClaimedWasReached, Recorded
    <3> QED
      BY <3>2, <3>3
  <2>7. BandWasReached'
    BY <2>1 DEF BandInv, BandWasReached
  <2> QED
    BY <1>t, <2>1, <2>4, <2>5, <2>6, <2>7, BandStep
<1>7. ASSUME NEW r \in Reader, Crash(r) PROVE BandInv'
  <2>1. UNCHANGED <<row, reached, claimed, event, fired>> /\ pc'[r] = "idle"
    BY <1>7, <1>t DEF Crash, TypeOK
  <2>2. \A q \in Reader \ {r} : pc'[q] = pc[q] /\ seen'[q] = seen[q] /\ todo'[q] = todo[q]
    BY <1>7, <1>t DEF Crash, Forget, TypeOK
  <2>3. ClaimedWasReached' /\ BandWasReached'
    BY <2>1 DEF BandInv, ClaimedWasReached, BandWasReached, Recorded
  <2> QED
    BY <1>t, <2>1, <2>2, <2>3, BandStep
<1>8. CASE UNCHANGED vars
  BY <1>8, <1>t, BandFrame DEF vars
<1> QED
  BY <1>1, <1>2, <1>3, <1>4, <1>5, <1>6, <1>7, <1>8, <1>a, <1>b DEF Next, ReaderStep

\* A row that has never been more than a watch has no channel claimed or recorded.
THEOREM WatchesAreSilent == Spec => []WatchIsSilent
<1>1. BandInv => WatchIsSilent
  BY DEF BandInv, ClaimedWasReached, WatchIsSilent
<1> QED
  BY <1>1, InitBand, NextBand, PTL DEF Spec

\* A channel fires only for a band the incident has been measured in.
THEOREM BandsAreReached == Spec => []BandWasReached
<1>1. BandInv => BandWasReached
  BY DEF BandInv
<1> QED
  BY <1>1, InitBand, NextBand, PTL DEF Spec

(***************************************************************************)
(* A call that fell back rings on the board: the panel's row is durable    *)
(* before the outcome is, and rings or has been acknowledged ever after.   *)
(***************************************************************************)
FellBack(r, i) == pc[r] = "fire" /\ seen[r].id = i /\ outcome[r]["phone"] = "fallback_dashboard"

FellBackRings == \A r \in Reader, i \in Incident : FellBack(r, i) => call[i] # "none"

\* A request has no outcome before it fires.
NoOutcomeYet == \A r \in Reader : pc[r] # "fire" => outcome[r] = Unrecorded

CallInv == TypeOK /\ FellBackRings /\ NoOutcomeYet /\ FallbackRings

LEMMA InitCall == Init => CallInv
<1> SUFFICES ASSUME Init PROVE CallInv
  OBVIOUS
<1>1. TypeOK
  BY InitType
<1> QED
  BY <1>1 DEF Init, CallInv, FellBackRings, FellBack, NoOutcomeYet, FallbackRings, Unrecorded, Channel, Status

\* A call, once on the panel, never leaves it.
LEMMA CallStays ==
  ASSUME TypeOK, [Next]_vars, NEW i \in Incident, call[i] # "none"
  PROVE  call'[i] # "none"
<1>1. ASSUME UNCHANGED call PROVE call'[i] # "none"
  BY <1>1
<1>2. ASSUME NEW j, NEW value, value # "none", call' = [call EXCEPT ![j] = value]
      PROVE  call'[i] # "none"
  BY <1>2 DEF TypeOK
<1>3. ASSUME NEW j \in Incident, Acknowledge(j) PROVE call'[i] # "none"
  BY <1>2, <1>3 DEF Acknowledge
<1>4. ASSUME NEW r \in Reader, NEW c \in Channel, NEW st \in Status, Fire(r, c, st)
      PROVE  call'[i] # "none"
  <2>1. Enqueued(seen[r].id) # "none"
    BY DEF Enqueued
  <2> QED
    BY <1>1, <1>2, <1>4, <2>1 DEF Fire
<1>5. ASSUME NEW j \in Incident, \/ \E v \in Severity : SaveIncident(j, v)
                                \/ SaveWatch(j) \/ CloseRow(j) \/ PollRow(j) \/ Reclaim(j)
                                \/ \E r \in Reader : ReadRow(r, j)
      PROVE  UNCHANGED call
  BY <1>5 DEF SaveIncident, SaveWatch, CloseRow, Write, PollRow, Reclaim, ReadRow
<1>6. ASSUME NEW r \in Reader,
             ReadResult(r) \/ Check(r) \/ ClaimChannels(r) \/ Record(r) \/ Crash(r)
      PROVE  UNCHANGED call
  BY <1>6 DEF ReadResult, Check, ClaimChannels, Record, Crash
<1>7. CASE ClaimRow \/ StoreResult \/ DaemonDies \/ UNCHANGED vars
  BY <1>1, <1>7 DEF ClaimRow, StoreResult, DaemonDies, vars
<1> QED
  BY <1>1, <1>3, <1>4, <1>5, <1>6, <1>7 DEF Next, ReaderStep

LEMMA NextCall == CallInv /\ [Next]_vars => CallInv'
<1> SUFFICES ASSUME CallInv, [Next]_vars PROVE CallInv'
  OBVIOUS
<1>t. TypeOK /\ TypeOK'
  BY NextType DEF CallInv
<1>c. \A i \in Incident : call[i] # "none" => call'[i] # "none"
  BY <1>t, CallStays
<1>f. "fallback_dashboard" # None /\ "phone" \in Channel
  BY DEF Channel, Status
<1>1. ASSUME UNCHANGED <<event, pc, seen, outcome>> PROVE CallInv'
  BY <1>1, <1>t, <1>c DEF CallInv, FellBackRings, FellBack, NoOutcomeYet, FallbackRings
<1>2. ASSUME NEW r \in Reader, UNCHANGED event,
             \A q \in Reader \ {r} : pc'[q] = pc[q] /\ seen'[q] = seen[q] /\ outcome'[q] = outcome[q],
             outcome'[r] = Unrecorded
      PROVE  CallInv'
  <2>1. ASSUME NEW i \in Incident, FellBack(r, i)' PROVE FALSE
    BY <1>2, <1>f, <2>1 DEF FellBack, Unrecorded
  <2>2. FellBackRings'
    BY <1>2, <1>c, <2>1 DEF CallInv, FellBackRings, FellBack
  <2>3. NoOutcomeYet' /\ FallbackRings'
    BY <1>2, <1>c DEF CallInv, NoOutcomeYet, FallbackRings, Unrecorded
  <2> QED
    BY <1>t, <2>2, <2>3 DEF CallInv
<1>3. ASSUME NEW i \in Incident, NEW r \in Reader, ReadRow(r, i) PROVE CallInv'
  BY <1>2, <1>3, <1>t DEF ReadRow, Goto, CallInv, NoOutcomeYet, TypeOK
<1>4. ASSUME NEW r \in Reader, Check(r) PROVE CallInv'
  <2>1. outcome'[r] = Unrecorded
    BY <1>4, <1>t DEF Check, Forget, CallInv, NoOutcomeYet, TypeOK
  <2> QED
    BY <1>2, <1>4, <1>t, <2>1 DEF Check, Forget, TypeOK
<1>5. ASSUME NEW r \in Reader, ClaimChannels(r) PROVE CallInv'
  <2>1. outcome'[r] = Unrecorded
    BY <1>5, <1>t DEF ClaimChannels, Forget, CallInv, NoOutcomeYet, TypeOK
  <2> QED
    BY <1>2, <1>5, <1>t, <2>1 DEF ClaimChannels, Forget, TypeOK
<1>6. ASSUME NEW r \in Reader, NEW c \in Channel, NEW st \in Status, Fire(r, c, st) PROVE CallInv'
  <2> DEFINE i == seen[r].id
  <2>1. /\ UNCHANGED <<event, pc, seen>> /\ pc[r] = "fire"
        /\ outcome' = [outcome EXCEPT ![r][c] = st]
        /\ i \in Incident
    BY <1>6, <1>t DEF Fire, TypeOK, Seen
  <2>2. st = "fallback_dashboard" => call'[i] # "none"
    <3>1. st = "fallback_dashboard" => call' = [call EXCEPT ![i] = Enqueued(i)]
      BY <1>6 DEF Fire
    <3>2. Enqueued(i) # "none"
      BY DEF Enqueued
    <3> QED
      BY <1>t, <2>1, <3>1, <3>2 DEF TypeOK
  <2>3. \A q \in Reader \ {r} : outcome'[q] = outcome[q]
    BY <1>t, <2>1 DEF TypeOK
  <2>4. outcome'[r]["phone"] = "fallback_dashboard" =>
          st = "fallback_dashboard" \/ outcome[r]["phone"] = "fallback_dashboard"
    BY <1>t, <1>f, <2>1 DEF TypeOK
  <2>5. FellBackRings'
    BY <1>c, <2>1, <2>2, <2>3, <2>4 DEF CallInv, FellBackRings, FellBack
  <2>6. NoOutcomeYet' /\ FallbackRings'
    BY <1>c, <2>1, <2>3 DEF CallInv, NoOutcomeYet, FallbackRings, Unrecorded
  <2> QED
    BY <1>t, <2>5, <2>6 DEF CallInv
<1>7. ASSUME NEW r \in Reader, Record(r) PROVE CallInv'
  <2> DEFINE i == seen[r].id
  <2>1. /\ pc[r] = "fire" /\ pc' = [pc EXCEPT ![r] = "idle"] /\ Forget(r)
        /\ i \in Incident
    BY <1>7, <1>t DEF Record, Goto, TypeOK, Seen
  <2>2. outcome'[r] = Unrecorded /\ pc'[r] = "idle"
    BY <1>t, <2>1 DEF Forget, TypeOK
  <2>3. \A q \in Reader \ {r} : pc'[q] = pc[q] /\ seen'[q] = seen[q] /\ outcome'[q] = outcome[q]
    BY <1>t, <2>1 DEF Forget, TypeOK
  <2>4. event'[i]["phone"] \in {event[i]["phone"], outcome[r]["phone"]}
    BY <1>7, <1>t, <1>f, <2>1 DEF Record, TypeOK
  <2>5. \A j \in Incident \ {i} : event'[j] = event[j]
    BY <1>7, <1>t DEF Record, TypeOK
  <2>6. FallbackRings'
    BY <1>c, <2>1, <2>4, <2>5 DEF CallInv, FallbackRings, FellBackRings, FellBack
  <2>7. FellBackRings' /\ NoOutcomeYet'
    BY <1>c, <2>2, <2>3 DEF CallInv, FellBackRings, FellBack, NoOutcomeYet, Unrecorded
  <2> QED
    BY <1>t, <2>6, <2>7 DEF CallInv
<1>8. ASSUME NEW r \in Reader, Crash(r) PROVE CallInv'
  <2>1. outcome'[r] = Unrecorded
    BY <1>8, <1>t DEF Crash, Forget, TypeOK
  <2> QED
    BY <1>2, <1>8, <1>t, <2>1 DEF Crash, Forget, TypeOK
<1>9. ASSUME NEW i \in Incident, \/ \E v \in Severity : SaveIncident(i, v)
                                \/ SaveWatch(i) \/ CloseRow(i) \/ PollRow(i) \/ Reclaim(i)
                                \/ Acknowledge(i)
      PROVE  CallInv'
  BY <1>1, <1>9 DEF SaveIncident, SaveWatch, CloseRow, PollRow, Reclaim, Acknowledge, Write
<1>10. CASE ClaimRow \/ StoreResult \/ DaemonDies \/ UNCHANGED vars
  BY <1>1, <1>10 DEF ClaimRow, StoreResult, DaemonDies, vars
<1>11. ASSUME NEW r \in Reader, ReadResult(r) PROVE CallInv'
  <2>1. outcome'[r] = Unrecorded
    BY <1>11, <1>t DEF ReadResult, Goto, CallInv, NoOutcomeYet, TypeOK
  <2> QED
    BY <1>2, <1>11, <1>t, <2>1 DEF ReadResult, Goto, TypeOK
<1> QED
  BY <1>3, <1>4, <1>5, <1>6, <1>7, <1>8, <1>9, <1>10, <1>11 DEF Next, ReaderStep

\* A recorded fallback has its call on the board's panel.
THEOREM CallsRing == Spec => []FallbackRings
<1>1. CallInv => FallbackRings
  BY DEF CallInv
<1> QED
  BY <1>1, InitCall, NextCall, PTL DEF Spec
(***************************************************************************)
(* No run in flight is paged.  A result, once stored, stays; a request has *)
(* found its row's before it goes past its checks; so what is claimed is   *)
(* claimed for an incident that has a result, whatever is in flight by     *)
(* then.                                                                   *)
(***************************************************************************)
SeenIsStored == \A r \in Reader : pc[r] # "idle" /\ seen[r].result => result[seen[r].id]

PastGate == \A r \in Reader : pc[r] \in {"claim", "fire"} => seen[r].result

GateInv == TypeOK /\ SeenIsStored /\ PastGate /\ PagesAreDiagnosed

LEMMA InitGate == Init => GateInv
<1> SUFFICES ASSUME Init PROVE GateInv
  OBVIOUS
<1>1. TypeOK
  BY InitType
<1> QED
  BY <1>1 DEF Init, GateInv, SeenIsStored, PastGate, PagesAreDiagnosed

\* Nothing takes a result back.
LEMMA ResultStays ==
  ASSUME TypeOK, [Next]_vars, NEW i \in Incident, result[i]
  PROVE  result'[i]
<1>1. CASE StoreResult
  BY <1>1 DEF StoreResult, TypeOK
<1>2. CASE UNCHANGED result
  BY <1>2
<1> QED
  BY <1>1, <1>2 DEF Next, ReaderStep, SaveIncident, SaveWatch, CloseRow, Write, PollRow, Reclaim,
     Acknowledge, ReadRow, ClaimRow, DaemonDies, ReadResult, Check, ClaimChannels, Fire, Record,
     Crash, vars

LEMMA NextGate == GateInv /\ [Next]_vars => GateInv'
<1> SUFFICES ASSUME GateInv, [Next]_vars PROVE GateInv'
  OBVIOUS
<1>t. TypeOK /\ TypeOK'
  BY NextType DEF GateInv
<1>s. \A i \in Incident : result[i] => result'[i]
  BY <1>t, ResultStays
<1>i. \A r \in Reader : pc[r] # "idle" => seen[r].id \in Incident
  BY <1>t DEF TypeOK, Seen
<1>1. ASSUME UNCHANGED <<claimed, pc, seen>> PROVE GateInv'
  BY <1>1, <1>t, <1>s, <1>i DEF GateInv, SeenIsStored, PastGate, PagesAreDiagnosed
<1>2. ASSUME NEW r \in Reader,
             \A q \in Reader \ {r} : pc'[q] = pc[q] /\ seen'[q] = seen[q],
             pc'[r] # "idle" /\ seen'[r].result => result'[seen'[r].id],
             pc'[r] \in {"claim", "fire"} => seen'[r].result,
             PagesAreDiagnosed'
      PROVE  GateInv'
  BY <1>2, <1>t, <1>s, <1>i DEF GateInv, SeenIsStored, PastGate
<1>3. ASSUME UNCHANGED claimed PROVE PagesAreDiagnosed'
  BY <1>3, <1>s DEF GateInv, PagesAreDiagnosed
<1>4. ASSUME NEW i \in Incident, NEW r \in Reader, ReadRow(r, i) PROVE GateInv'
  <2>1. /\ pc'[r] = "read" /\ ~seen'[r].result
        /\ \A q \in Reader \ {r} : pc'[q] = pc[q] /\ seen'[q] = seen[q]
    BY <1>4, <1>t DEF ReadRow, Goto, TypeOK
  <2> QED
    BY <1>2, <1>3, <1>4, <2>1 DEF ReadRow
<1>5. ASSUME NEW r \in Reader, ReadResult(r) PROVE GateInv'
  <2>1. /\ pc'[r] = "check" /\ seen[r] \in Seen
        /\ \A q \in Reader \ {r} : pc'[q] = pc[q] /\ seen'[q] = seen[q]
    BY <1>5, <1>t DEF ReadResult, Goto, TypeOK
  <2>2. seen'[r].id = seen[r].id /\ seen'[r].result = ReadsResult(seen[r].id)
    BY <1>5, <1>t, <2>1 DEF ReadResult, Seen, TypeOK
  <2>3. UNCHANGED <<claimed, result>>
    BY <1>5 DEF ReadResult
  <2> QED
    BY <1>2, <1>3, <2>1, <2>2, <2>3 DEF ReadsResult
<1>6. ASSUME NEW r \in Reader, Check(r) PROVE GateInv'
  <2>1. /\ UNCHANGED <<claimed, result>> /\ pc[r] = "check"
        /\ \A q \in Reader \ {r} : pc'[q] = pc[q] /\ seen'[q] = seen[q]
    BY <1>6, <1>t DEF Check, Forget, TypeOK
  <2>2. pc'[r] = "idle" \/ (seen'[r] = seen[r] /\ seen[r].result)
    BY <1>6, <1>t DEF Check, TypeOK
  <2>3. seen[r].result => result[seen[r].id]
    BY <2>1 DEF GateInv, SeenIsStored
  <2> QED
    BY <1>2, <1>3, <2>1, <2>2, <2>3
<1>7. ASSUME NEW r \in Reader, ClaimChannels(r) PROVE GateInv'
  <2> DEFINE i == seen[r].id
  <2>1. /\ UNCHANGED result /\ pc[r] = "claim"
        /\ claimed' = [claimed EXCEPT ![i] = @ \cup Won(i, todo[r])]
    BY <1>7 DEF ClaimChannels
  <2>2. \A q \in Reader \ {r} : pc'[q] = pc[q] /\ seen'[q] = seen[q]
    BY <1>7, <1>t DEF ClaimChannels, Forget, TypeOK
  <2>3. pc'[r] = "idle" \/ seen'[r] = seen[r]
    BY <1>7, <1>t DEF ClaimChannels, TypeOK
  <2>4. seen[r].result /\ result[i] /\ i \in Incident
    BY <1>i, <2>1 DEF GateInv, SeenIsStored, PastGate
  <2>5. \A j \in Incident \ {i} : claimed'[j] = claimed[j]
    BY <1>t, <2>1 DEF TypeOK
  <2>6. PagesAreDiagnosed'
    BY <2>1, <2>4, <2>5 DEF GateInv, PagesAreDiagnosed
  <2> QED
    BY <1>2, <2>1, <2>2, <2>3, <2>4, <2>6
<1>8. ASSUME NEW r \in Reader, Record(r) \/ Crash(r) PROVE GateInv'
  <2>1. /\ UNCHANGED claimed /\ pc'[r] = "idle"
        /\ \A q \in Reader \ {r} : pc'[q] = pc[q] /\ seen'[q] = seen[q]
    BY <1>8, <1>t DEF Record, Crash, Goto, Forget, TypeOK
  <2> QED
    BY <1>2, <1>3, <2>1
<1>9. ASSUME NEW r \in Reader, NEW c \in Channel, NEW st \in Status, Fire(r, c, st) PROVE GateInv'
  BY <1>1, <1>9 DEF Fire
<1>10. ASSUME NEW i \in Incident, \/ \E v \in Severity : SaveIncident(i, v)
                                 \/ SaveWatch(i) \/ CloseRow(i) \/ PollRow(i) \/ Reclaim(i)
                                 \/ Acknowledge(i)
       PROVE  GateInv'
  BY <1>1, <1>10 DEF SaveIncident, SaveWatch, CloseRow, PollRow, Reclaim, Acknowledge, Write
<1>11. CASE ClaimRow \/ StoreResult \/ DaemonDies \/ UNCHANGED vars
  BY <1>1, <1>11 DEF ClaimRow, StoreResult, DaemonDies, vars
<1> QED
  BY <1>4, <1>5, <1>6, <1>7, <1>8, <1>9, <1>10, <1>11 DEF Next, ReaderStep

\* A run in flight claims no channel: whatever is claimed, is for an incident
\* with a stored result.
THEOREM PagesHaveResults == Spec => []PagesAreDiagnosed
<1>1. GateInv => PagesAreDiagnosed
  BY DEF GateInv
<1> QED
  BY <1>1, InitGate, NextGate, PTL DEF Spec
=============================================================================
