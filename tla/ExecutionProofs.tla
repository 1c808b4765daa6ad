--------------------------- MODULE ExecutionProofs ---------------------------
(* Theorems about what executes work for a turn, for any tasks, callers and *)
(* crashes, any calls, batches and rounds: first about TurnLoop, then about *)
(* the runs of CodexDelegation, then about both side by side (MCExecution). *)
EXTENDS MCExecution, CodexDelegationProofs, FiniteSetTheorems

-----------------------------------------------------------------------------
(* TurnLoop.                                                                *)

Phases == {"locating", "asking", "moving", "running", "sending"} \cup Ends
SlotStatus == {"queued", "running", "skipped"} \cup Outcomes
Uploaded == {p \in Path : delivered[p] > 0}
NothingRuns == \A i \in DOMAIN slot : slot[i] # "running"
OnlyReadsRun == \A i \in DOMAIN slot : slot[i] = "running" => IsRead(batch.calls[i])

(* What the phase of a turn says of its batch: who started it, and that     *)
(* nothing of it runs any more when the model is asked again.               *)
PhaseFits ==
    /\ phase = "running" => batch.by = "scheduler"
    /\ phase = "sending" => batch.by = "server"
    /\ phase \in {"locating", "moving"} => batch.by # "scheduler"
    /\ phase = "locating" => batch = NoBatch /\ slot = <<>>
    /\ phase \notin Ends => round < MaxRounds
    /\ phase = "asking" => NothingRuns

(* What the turn takes for sent has been uploaded.                          *)
SendsAreUploads ==
    /\ sent \subseteq Uploaded
    /\ NowSent \subseteq Uploaded
    /\ phase = "done" /\ required => IsComplete(found, sent)

TurnInv ==
    /\ TurnTypeOK
    /\ PhaseFits
    /\ EffectsInOrder
    /\ BatchWritesAreAwaited
    /\ SendsAreUploads

LEMMA PathsOfSends ==
    ASSUME TurnTypeOK
    PROVE  NowSent \subseteq Path
<1> SUFFICES ASSUME NEW i \in DOMAIN slot, Kind[batch.calls[i]] = "send"
             PROVE  PathOf[batch.calls[i]] \in Path
  BY DEF NowSent
<1>1. slot \in [DOMAIN batch.calls -> SlotStatus] /\ batch.calls \in {<<>>} \cup Batches
  BY DEF TurnTypeOK, SlotStatus
<1>2. batch.calls[i] \in Call
  BY <1>1 DEF Batches
<1>3. QED
  BY <1>2, TurnAssumption

(* A step that leaves the batch as it is and moves the turn on.             *)
LEMMA TurnMovesOn ==
    ASSUME TurnInv, UNCHANGED <<mode, required, fallback, batch, slot, seen, delivered>>,
           stopping' \in BOOLEAN, round' \in 0..MaxRounds,
           found' \in SUBSET Path, sent' \subseteq sent \cup NowSent,
           phase' \in Ends \cup {"asking", phase},
           phase' \notin Ends => round' < MaxRounds,
           phase' = "asking" => NothingRuns,
           phase' \in Ends /\ batch.by = "scheduler" => OnlyReadsRun,
           phase' = "done" /\ required => IsComplete(found', sent')
    PROVE  TurnInv'
<1>1. TurnTypeOK'
  BY PathsOfSends DEF TurnInv, TurnTypeOK
<1>2. PhaseFits'
  BY DEF TurnInv, PhaseFits, NothingRuns, Ends
<1>3. EffectsInOrder'
  BY DEF TurnInv, EffectsInOrder, AllReads, AllMoves
<1>4. BatchWritesAreAwaited'
  BY DEF BatchWritesAreAwaited, OnlyReadsRun
<1>5. SendsAreUploads'
  BY DEF TurnInv, SendsAreUploads, NowSent, Uploaded
<1>6. QED
  BY <1>1, <1>2, <1>3, <1>4, <1>5 DEF TurnInv

LEMMA NobodyWritesThen ==
    ASSUME TurnInv, phase \in {"asking", "sending", "locating", "moving"}
    PROVE  batch.by = "scheduler" => OnlyReadsRun
BY DEF TurnInv, PhaseFits, NothingRuns, OnlyReadsRun

LEMMA Bounds ==
    ASSUME TurnInv
    PROVE  /\ MaxRounds \in Nat /\ MaxRounds > 0
           /\ round \in 0..MaxRounds
           /\ phase \notin Ends => round + 1 \in 0..MaxRounds
BY TurnAssumption DEF TurnInv, TurnTypeOK, PhaseFits

LEMMA ModelEndsTurn ==
    ASSUME TurnInv, (\E cs : ModelMisbehaves(cs)) \/ ModelFails
    PROVE  TurnInv'
<1>1. /\ phase = "asking" /\ phase' = "error"
      /\ UNCHANGED <<mode, required, fallback, round, batch, slot, seen, found, sent, stopping,
                     delivered>>
  BY DEF ModelMisbehaves, ModelFails, End, goal
<1>2. TurnTypeOK
  BY DEF TurnInv
<1>3. stopping' \in BOOLEAN /\ round' \in 0..MaxRounds /\ found' \in SUBSET Path
  BY <1>1, <1>2 DEF TurnTypeOK
<1>4. batch.by = "scheduler" => OnlyReadsRun
  BY <1>1, NobodyWritesThen
<1>5. QED
  BY <1>1, <1>3, <1>4, TurnMovesOn DEF Ends

LEMMA AskedAgain ==
    ASSUME TurnInv, phase \notin Ends, AskAgain
    PROVE  /\ round' \in 0..MaxRounds
           /\ phase' \in {"asking", "error"}
           /\ phase' \notin Ends => round' < MaxRounds
BY Bounds DEF AskAgain, Ends

(* The calls of an answer without those the turn has made before.           *)
LEMMA ModelCallsStep ==
    ASSUME TurnInv, NEW cs \in Batches, ModelCalls(cs)
    PROVE  TurnInv'
<1>1. PICK fresh \in SUBSET DOMAIN cs :
        \E pos \in [1..Cardinality(fresh) -> fresh], again \in BOOLEAN :
             /\ batch' = StartedBy("scheduler", [n \in DOMAIN pos |-> cs[pos[n]]], again)
             /\ slot' = [n \in DOMAIN pos |-> "queued"]
  <2> DEFINE repeated == {i \in DOMAIN cs : cs[i] \in seen \/ \E j \in 1..(i - 1) : cs[j] = cs[i]}
             kept == DOMAIN cs \ repeated
             again == \E i \in repeated : Kind[cs[i]] = "send"
  <2>1. again \in BOOLEAN /\ kept \in SUBSET DOMAIN cs
    OBVIOUS
  <2>2. PICK pos \in [1..Cardinality(kept) -> kept] :
             /\ batch' = StartedBy("scheduler", [n \in DOMAIN pos |-> cs[pos[n]]], again)
             /\ slot' = [n \in DOMAIN pos |-> "queued"]
    BY DEF ModelCalls
  <2> HIDE DEF kept, again
  <2>3. QED
    BY <2>1, <2>2
<1>2. PICK pos \in [1..Cardinality(fresh) -> fresh], again \in BOOLEAN :
             /\ batch' = StartedBy("scheduler", [n \in DOMAIN pos |-> cs[pos[n]]], again)
             /\ slot' = [n \in DOMAIN pos |-> "queued"]
  BY <1>1
<1> DEFINE calls == [n \in DOMAIN pos |-> cs[pos[n]]]
<1>3. PICK k \in 1..MaxCalls : cs \in [1..k -> Call]
  BY DEF Batches
<1>4. Cardinality(fresh) \in 0..MaxCalls
  <2>1. k \in Nat /\ MaxCalls \in Nat
    BY <1>3, TurnAssumption
  <2>2. IsFiniteSet(1..k) /\ Cardinality(1..k) = k
    BY <2>1, FS_Interval
  <2>3. fresh \in SUBSET (1..k)
    BY <1>3
  <2>4. IsFiniteSet(fresh) /\ Cardinality(fresh) <= k
    BY <2>2, <2>3, FS_Subset
  <2>5. Cardinality(fresh) \in Nat
    BY <2>4, FS_CardinalityType
  <2>6. QED
    BY <1>3, <2>1, <2>4, <2>5
<1>5. calls \in {<<>>} \cup Batches /\ DOMAIN calls = DOMAIN pos
  <2>1. calls \in [1..Cardinality(fresh) -> Call]
    BY <1>3
  <2>2. CASE Cardinality(fresh) = 0
    BY <2>1, <2>2
  <2>3. CASE Cardinality(fresh) \in 1..MaxCalls
    BY <2>1, <2>3 DEF Batches
  <2>4. QED
    BY <1>4, <2>2, <2>3
<1>6. /\ batch' = [by |-> "scheduler", calls |-> calls, again |-> again]
      /\ slot' = [n \in DOMAIN pos |-> "queued"]
      /\ seen' = seen \cup {cs[i] : i \in DOMAIN cs}
      /\ phase = "asking" /\ phase' = "running"
      /\ UNCHANGED <<mode, required, fallback, round, found, sent, stopping, delivered>>
  BY <1>2 DEF ModelCalls, StartedBy, goal
<1>7. seen' \subseteq Call
  BY <1>3, <1>6 DEF TurnInv, TurnTypeOK
<1> HIDE DEF calls
<1>8. TurnTypeOK'
  BY <1>5, <1>6, <1>7 DEF TurnInv, TurnTypeOK, Outcomes
<1>9. PhaseFits' /\ BatchWritesAreAwaited'
  BY <1>6 DEF TurnInv, PhaseFits, BatchWritesAreAwaited, Ends
<1>10. EffectsInOrder'
  BY <1>6 DEF EffectsInOrder, Outcomes
<1>11. SendsAreUploads'
  BY <1>6 DEF TurnInv, SendsAreUploads, NowSent, Uploaded
<1>12. QED
  BY <1>8, <1>9, <1>10, <1>11 DEF TurnInv

(* The server's own sends.                                                  *)
LEMMA ServerSends ==
    ASSUME TurnInv, NEW cs \in Batches, phase = "asking", phase' = "sending",
           batch' = StartedBy("server", cs, FALSE),
           slot' = [i \in DOMAIN cs |-> "running"], fallback' = TRUE,
           UNCHANGED <<mode, required, round, seen, found, sent, stopping, delivered>>
    PROVE  TurnInv'
<1>1. TurnTypeOK'
  BY DEF TurnInv, TurnTypeOK, StartedBy
<1>2. PhaseFits' /\ BatchWritesAreAwaited' /\ EffectsInOrder'
  BY DEF TurnInv, PhaseFits, BatchWritesAreAwaited, EffectsInOrder, StartedBy, Ends
<1>3. SendsAreUploads'
  BY DEF TurnInv, SendsAreUploads, NowSent, Uploaded
<1>4. QED
  BY <1>1, <1>2, <1>3 DEF TurnInv

LEMMA ModelStopsStep ==
    ASSUME TurnInv, ModelStops
    PROVE  TurnInv'
<1>1. /\ phase = "asking"
      /\ UNCHANGED <<mode, required, seen, found, sent, stopping, delivered>>
      /\ batch.by = "scheduler" => OnlyReadsRun
      /\ NothingRuns
  BY NobodyWritesThen DEF ModelStops, TurnInv, PhaseFits
<1>2. stopping' \in BOOLEAN /\ found' \in SUBSET Path /\ round \in 0..MaxRounds
  BY <1>1 DEF TurnInv, TurnTypeOK
<1>3. CASE ~required \/ IsComplete(found, sent)
  <2>1. phase' = "done" /\ UNCHANGED <<round, batch, slot, fallback>>
    BY <1>3 DEF ModelStops, End
  <2>2. IsComplete(found', sent') \/ ~required
    BY <1>1, <1>3 DEF IsComplete
  <2>3. QED
    BY <1>1, <1>2, <2>1, <2>2, TurnMovesOn DEF Ends
<1>4. CASE /\ ~(~required \/ IsComplete(found, sent))
           /\ found # {} /\ ~fallback /\ Cardinality(found) <= MaxOrchestrated
  BY <1>1, <1>4, ServerSends DEF ModelStops, End
<1>5. CASE /\ ~(~required \/ IsComplete(found, sent))
           /\ ~(found # {} /\ ~fallback /\ Cardinality(found) <= MaxOrchestrated)
  <2>1. AskAgain /\ UNCHANGED <<batch, slot, fallback>>
    BY <1>5 DEF ModelStops
  <2>2. phase \notin Ends
    BY <1>1 DEF Ends
  <2>3. /\ round' \in 0..MaxRounds /\ phase' \in {"asking", "error"}
        /\ phase' \notin Ends => round' < MaxRounds
    BY <2>1, <2>2, AskedAgain
  <2>4. QED
    BY <1>1, <1>2, <2>1, <2>3, TurnMovesOn DEF Ends
<1>6. QED
  BY <1>3, <1>4, <1>5

LEMMA EndedRunsNothing ==
    ASSUME \A i \in DOMAIN slot : Ended(i)
    PROVE  NothingRuns /\ OnlyReadsRun
BY DEF Ended, NothingRuns, OnlyReadsRun, Outcomes

LEMMA BatchEndsStep ==
    ASSUME TurnInv, BatchEnds
    PROVE  TurnInv'
<1>1. /\ phase = "running" /\ phase \notin Ends
      /\ UNCHANGED <<mode, required, fallback, batch, slot, seen, stopping, delivered>>
      /\ NothingRuns /\ OnlyReadsRun
      /\ sent' = sent \cup NowSent
  BY EndedRunsNothing DEF BatchEnds, goal, Ends
<1>2. stopping' \in BOOLEAN /\ found' \in SUBSET Path /\ round \in 0..MaxRounds
  BY <1>1 DEF TurnInv, TurnTypeOK, BatchEnds
<1>3. \/ phase' \in {"error", "clarify", "waiting"} /\ round' = round
      \/ phase' = "done" /\ IsComplete(found', sent') /\ round' = round
      \/ AskAgain
  BY DEF BatchEnds, End
<1>4. /\ round' \in 0..MaxRounds /\ phase' \in {"asking"} \cup Ends
      /\ phase' \notin Ends => round' < MaxRounds
      /\ phase' = "done" => IsComplete(found', sent')
  BY <1>1, <1>2, <1>3, AskedAgain DEF Ends
<1>5. QED
  BY <1>1, <1>2, <1>4, TurnMovesOn

LEMMA SendsEndStep ==
    ASSUME TurnInv, SendsEnd
    PROVE  TurnInv'
<1>1. /\ phase = "sending" /\ phase \notin Ends
      /\ UNCHANGED <<mode, required, fallback, batch, slot, seen, found, stopping, delivered>>
      /\ NothingRuns /\ OnlyReadsRun
      /\ sent' = sent \cup NowSent
  BY EndedRunsNothing DEF SendsEnd, goal, Ends
<1>2. stopping' \in BOOLEAN /\ found' \in SUBSET Path /\ round \in 0..MaxRounds
  BY <1>1 DEF TurnInv, TurnTypeOK
<1>3. \/ phase' = "error" /\ round' = round
      \/ phase' = "done" /\ IsComplete(found, sent') /\ round' = round
      \/ AskAgain
  BY DEF SendsEnd, End
<1>4. /\ round' \in 0..MaxRounds /\ phase' \in {"asking"} \cup Ends
      /\ phase' \notin Ends => round' < MaxRounds
      /\ phase' = "done" => IsComplete(found', sent')
  BY <1>1, <1>2, <1>3, AskedAgain DEF Ends
<1>5. QED
  BY <1>1, <1>2, <1>4, TurnMovesOn

LEMMA MoveEndsStep ==
    ASSUME TurnInv, MoveEnds
    PROVE  TurnInv'
<1>1. /\ phase = "moving" /\ phase' \in {"waiting", "answered", "error"}
      /\ UNCHANGED <<mode, required, fallback, round, batch, slot, seen, found, sent, stopping,
                     delivered>>
      /\ batch.by = "scheduler" => OnlyReadsRun
  BY NobodyWritesThen DEF MoveEnds, End, goal, TurnInv, PhaseFits
<1>2. stopping' \in BOOLEAN /\ found' \in SUBSET Path /\ round' \in 0..MaxRounds
  BY <1>1 DEF TurnInv, TurnTypeOK
<1>3. QED
  BY <1>1, <1>2, TurnMovesOn DEF Ends

(* The search for the destination ends, at times with the start of the move.*)
LEMMA LocateEndsStep ==
    ASSUME TurnInv, LocateEnds
    PROVE  TurnInv'
<1>1. /\ phase = "locating" /\ batch = NoBatch /\ slot = <<>>
      /\ UNCHANGED <<mode, required, fallback, round, seen, found, sent, stopping, delivered>>
  BY DEF LocateEnds, goal, TurnInv, PhaseFits
<1>2. /\ stopping' \in BOOLEAN /\ found' \in SUBSET Path /\ round' \in 0..MaxRounds
      /\ round' < MaxRounds
  BY <1>1 DEF TurnInv, TurnTypeOK, PhaseFits, Ends
<1>3. CASE phase' \in {"answered", "asking", "error"} /\ UNCHANGED <<batch, slot>>
  <2>1. NothingRuns /\ OnlyReadsRun
    BY <1>1 DEF NothingRuns, OnlyReadsRun
  <2>2. QED
    BY <1>1, <1>2, <1>3, <2>1, TurnMovesOn DEF Ends
<1>4. ASSUME NEW c \in Call, Kind[c] = "move", phase' = "moving",
             batch' = StartedBy("direct", <<c>>, FALSE), slot' = <<"running">>
      PROVE  TurnInv'
  <2>1. <<c>> \in Batches
    <3>1. <<c>> \in [1..1 -> Call] /\ 1 \in 1..MaxCalls
      BY TurnAssumption
    <3>2. QED
      BY <3>1 DEF Batches
  <2>2. batch' = [by |-> "direct", calls |-> <<c>>, again |-> FALSE]
    BY <1>4 DEF StartedBy
  <2>3. slot' \in [DOMAIN batch'.calls -> {"queued", "running", "skipped"} \cup Outcomes]
    <3>1. batch'.calls = <<c>>
      BY <2>2
    <3>2. DOMAIN batch'.calls = 1..1
      BY <3>1
    <3>3. slot' \in [1..1 -> {"queued", "running", "skipped"} \cup Outcomes]
      BY <1>4
    <3>4. QED
      BY <3>2, <3>3
  <2>4. TurnTypeOK'
    <3>1. batch' \in [by : {"nobody", "scheduler", "server", "direct"},
                      calls : {<<>>} \cup Batches, again : BOOLEAN]
      BY <2>1, <2>2
    <3>2. QED
      BY <1>1, <1>2, <1>4, <2>3, <3>1 DEF TurnInv, TurnTypeOK
  <2>5. PhaseFits' /\ EffectsInOrder' /\ BatchWritesAreAwaited'
    <3>1. batch'.by = "direct"
      BY <2>2
    <3>2. QED
      BY <1>2, <1>4, <3>1 DEF PhaseFits, EffectsInOrder, BatchWritesAreAwaited, Ends
  <2>6. SendsAreUploads'
    <3>1. \A i \in DOMAIN slot' : slot'[i] # "ok"
      BY <1>4
    <3>2. NowSent' = {}
      BY <3>1 DEF NowSent
    <3>3. QED
      BY <1>1, <1>4, <3>2 DEF TurnInv, SendsAreUploads, Uploaded
  <2>7. QED
    BY <2>4, <2>5, <2>6 DEF TurnInv
<1>5. QED
  BY <1>3, <1>4 DEF LocateEnds, End

(* A cancellation lets a turn go only when no write of its batch runs.      *)
LEMMA CancelStopsStep ==
    ASSUME TurnInv, CancelTurn \/ Abort
    PROVE  TurnInv'
<1>0. TurnTypeOK
  BY DEF TurnInv
<1>1. CASE CancelTurn
  <2>1. /\ phase \notin Ends /\ phase' = phase /\ stopping' \in BOOLEAN
        /\ UNCHANGED <<mode, required, fallback, round, batch, slot, seen, found, sent, delivered>>
    BY <1>1 DEF CancelTurn, goal
  <2>2. found' \in SUBSET Path /\ round' \in 0..MaxRounds /\ round' < MaxRounds
    BY <1>0, <2>1 DEF TurnInv, TurnTypeOK, PhaseFits
  <2>3. phase' = "asking" => NothingRuns
    BY <2>1 DEF TurnInv, PhaseFits
  <2>4. QED
    BY <2>1, <2>2, <2>3, TurnMovesOn DEF Ends
<1>2. CASE Abort
  <2>1. /\ phase \notin Ends /\ phase' = "aborted" /\ MayEndAborted
        /\ UNCHANGED <<mode, required, fallback, round, batch, slot, seen, found, sent, stopping,
                       delivered>>
    BY <1>2 DEF Abort, End, goal
  <2>2. stopping' \in BOOLEAN /\ found' \in SUBSET Path /\ round' \in 0..MaxRounds
    BY <1>0, <2>1 DEF TurnTypeOK
  <2>3. batch.by = "scheduler" => OnlyReadsRun
    <3>1. CASE phase = "running"
      <4>1. DOMAIN slot = DOMAIN batch.calls
        BY <1>0 DEF TurnTypeOK
      <4>2. QED
        BY <2>1, <3>1, <4>1 DEF MayEndAborted, AllReads, OnlyReadsRun
    <3>2. CASE phase # "running"
      BY <1>0, <2>1, <3>2, NobodyWritesThen DEF TurnTypeOK
    <3>3. QED
      BY <3>1, <3>2
  <2>4. QED
    BY <2>1, <2>2, <2>3, TurnMovesOn DEF Ends
<1>3. QED
  BY <1>1, <1>2

(* How far a call is changes in its slot alone.                             *)
LEMMA SlotMoves ==
    ASSUME TurnInv, NEW i \in DOMAIN slot, NEW s \in SlotStatus,
           slot' = [slot EXCEPT ![i] = s],
           UNCHANGED <<mode, required, fallback, phase, round, batch, seen, found, sent, stopping>>,
           delivered' \in [Path -> Nat], Uploaded \subseteq Uploaded',
           s = "running" => phase = "running"
    PROVE  /\ TurnTypeOK' /\ PhaseFits' /\ BatchWritesAreAwaited'
           /\ DOMAIN slot' = DOMAIN slot /\ slot'[i] = s
           /\ \A j \in DOMAIN slot : j # i => slot'[j] = slot[j]
<1>1. /\ slot \in [DOMAIN batch.calls -> SlotStatus] /\ DOMAIN slot = DOMAIN batch.calls
  BY DEF TurnInv, TurnTypeOK, SlotStatus
<1>2. slot' \in [DOMAIN batch.calls -> SlotStatus]
  BY <1>1
<1>3. TurnTypeOK'
  BY <1>2 DEF TurnInv, TurnTypeOK, SlotStatus
<1>4. /\ DOMAIN slot' = DOMAIN slot /\ slot'[i] = s
      /\ \A j \in DOMAIN slot : j # i => slot'[j] = slot[j]
  BY <1>1
<1>5. PhaseFits' /\ BatchWritesAreAwaited'
  BY <1>4 DEF TurnInv, PhaseFits, NothingRuns, BatchWritesAreAwaited, IsRead, Ends
<1>6. QED
  BY <1>3, <1>4, <1>5

(* A call that is started finds every call before it ended well.            *)
LEMMA StartCallStep ==
    ASSUME TurnInv, NEW i \in DOMAIN slot, StartCall(i)
    PROVE  TurnInv'
<1>1. /\ slot' = [slot EXCEPT ![i] = "running"] /\ slot[i] = "queued" /\ phase = "running"
      /\ UNCHANGED <<mode, required, fallback, phase, round, batch, seen, found, sent, stopping,
                     delivered>>
      /\ ~AllReads => \A j \in 1..(i - 1) : Ended(j) /\ ~Blocks(j)
  BY DEF StartCall, goal
<1>2. delivered' \in [Path -> Nat] /\ Uploaded' = Uploaded
  BY <1>1 DEF TurnInv, TurnTypeOK, Uploaded
<1>3. /\ TurnTypeOK' /\ PhaseFits' /\ BatchWritesAreAwaited'
      /\ DOMAIN slot' = DOMAIN slot /\ slot'[i] = "running"
      /\ \A j \in DOMAIN slot : j # i => slot'[j] = slot[j]
  BY <1>1, <1>2, SlotMoves DEF SlotStatus
<1>4. EffectsInOrder'
  <2>1. AllReads' = AllReads /\ AllMoves' = AllMoves
    BY <1>1 DEF AllReads, AllMoves
  <2>2. QED
    BY <1>1, <1>3, <2>1 DEF TurnInv, EffectsInOrder, Blocks, Outcomes
<1>5. SendsAreUploads'
  <2>1. NowSent' \subseteq NowSent
    BY <1>1, <1>3 DEF NowSent
  <2>2. QED
    BY <1>1, <1>2, <2>1 DEF TurnInv, SendsAreUploads, IsComplete
<1>6. QED
  BY <1>3, <1>4, <1>5 DEF TurnInv

LEMMA RefuseCallStep ==
    ASSUME TurnInv, NEW i \in DOMAIN slot, RefuseCall(i)
    PROVE  TurnInv'
<1>1. /\ slot' = [slot EXCEPT ![i] = "refused"] /\ slot[i] = "queued"
      /\ UNCHANGED <<mode, required, fallback, phase, round, batch, seen, found, sent, stopping,
                     delivered>>
  BY DEF RefuseCall, goal
<1>2. delivered' \in [Path -> Nat] /\ Uploaded' = Uploaded
  BY <1>1 DEF TurnInv, TurnTypeOK, Uploaded
<1>3. /\ TurnTypeOK' /\ PhaseFits' /\ BatchWritesAreAwaited'
      /\ DOMAIN slot' = DOMAIN slot /\ slot'[i] = "refused"
      /\ \A j \in DOMAIN slot : j # i => slot'[j] = slot[j]
  BY <1>1, <1>2, SlotMoves DEF SlotStatus, Outcomes
<1>4. EffectsInOrder'
  <2>1. AllReads' = AllReads /\ AllMoves' = AllMoves
    BY <1>1 DEF AllReads, AllMoves
  <2>2. QED
    BY <1>1, <1>3, <2>1 DEF TurnInv, EffectsInOrder, Outcomes
<1>5. SendsAreUploads'
  <2>1. NowSent' \subseteq NowSent
    BY <1>1, <1>3 DEF NowSent
  <2>2. QED
    BY <1>1, <1>2, <2>1 DEF TurnInv, SendsAreUploads, IsComplete
<1>6. QED
  BY <1>3, <1>4, <1>5 DEF TurnInv

(* A thread that ends has run behind calls that had ended well; what it has *)
(* sent is uploaded.                                                        *)
LEMMA ThreadEndsStep ==
    ASSUME TurnInv, NEW i \in DOMAIN slot, ThreadEnds(i)
    PROVE  TurnInv'
<1> DEFINE call == batch.calls[i]
<1>1. PICK answer \in AnswersTo(call) :
        /\ slot' = [slot EXCEPT ![i] = answer]
        /\ delivered' = IF Kind[call] = "send" /\ answer = "ok"
                        THEN [delivered EXCEPT ![PathOf[call]] = @ + 1]
                        ELSE delivered
  BY DEF ThreadEnds
<1>2. /\ slot[i] = "running"
      /\ UNCHANGED <<mode, required, fallback, phase, round, batch, seen, found, sent, stopping>>
  BY DEF ThreadEnds, goal
<1>3. answer \in Outcomes
  BY DEF AnswersTo, Outcomes
<1>4. Kind[call] = "send" => PathOf[call] \in Path
  <2>1. call \in Call
    BY DEF TurnInv, TurnTypeOK, Batches
  <2>2. QED
    BY <2>1, TurnAssumption
<1>5. /\ delivered' \in [Path -> Nat] /\ Uploaded \subseteq Uploaded'
      /\ Kind[call] = "send" /\ answer = "ok" => PathOf[call] \in Uploaded'
  <2>1. delivered \in [Path -> Nat]
    BY DEF TurnInv, TurnTypeOK
  <2> HIDE DEF call
  <2>2. QED
    BY <1>1, <1>4, <2>1 DEF Uploaded
<1>6. /\ TurnTypeOK' /\ PhaseFits' /\ BatchWritesAreAwaited'
      /\ DOMAIN slot' = DOMAIN slot /\ slot'[i] = answer
      /\ \A j \in DOMAIN slot : j # i => slot'[j] = slot[j]
  BY <1>1, <1>2, <1>3, <1>5, SlotMoves DEF SlotStatus, Outcomes
<1>7. EffectsInOrder'
  <2>1. AllReads' = AllReads /\ AllMoves' = AllMoves
    BY <1>2 DEF AllReads, AllMoves
  <2>2. SUFFICES ASSUME batch.by = "scheduler", ~AllReads,
                        NEW j \in DOMAIN slot, NEW m \in 1..(j - 1),
                        slot'[j] \in (Outcomes \ {"refused"}) \cup {"running"}
                 PROVE  slot'[m] \in {"ok", "ambiguous"} \/ (AllMoves /\ slot'[m] = "waiting")
    BY <1>2, <1>6, <2>1 DEF EffectsInOrder
  <2>3. slot[j] \in (Outcomes \ {"refused"}) \cup {"running"}
    BY <1>2, <1>6, <2>2
  <2>4. slot[m] \in {"ok", "ambiguous"} \/ (AllMoves /\ slot[m] = "waiting")
    BY <2>2, <2>3 DEF TurnInv, EffectsInOrder
  <2>5. m # i /\ m \in DOMAIN slot
    <3>1. PICK k \in Nat : DOMAIN slot = 1..k
      <4>1. DOMAIN slot = DOMAIN batch.calls /\ batch.calls \in {<<>>} \cup Batches
        BY DEF TurnInv, TurnTypeOK
      <4>2. DOMAIN <<>> = 1..0
        OBVIOUS
      <4>3. QED
        BY <4>1, <4>2, TurnAssumption DEF Batches
    <3>2. QED
      BY <1>2, <2>4, <3>1
  <2>6. QED
    BY <1>6, <2>4, <2>5
<1>8. SendsAreUploads'
  <2>1. NowSent' \subseteq Uploaded'
    BY <1>2, <1>5, <1>6 DEF TurnInv, SendsAreUploads, NowSent
  <2>2. QED
    BY <1>2, <1>5, <2>1 DEF TurnInv, SendsAreUploads, IsComplete
<1>9. QED
  BY <1>6, <1>7, <1>8 DEF TurnInv

LEMMA TurnStarts == TurnInit => TurnInv
<1> SUFFICES ASSUME TurnInit
             PROVE  TurnInv
  OBVIOUS
<1>0. /\ mode \in {"reply", "continuation"} /\ required \in BOOLEAN /\ round \in 0..MaxRounds
      /\ seen \subseteq Call /\ found \subseteq Path /\ sent \subseteq Path
      /\ fallback \in BOOLEAN /\ stopping \in BOOLEAN /\ delivered \in [Path -> Nat]
      /\ phase \in {"asking", "locating"}
  <2>1. MaxRounds \in Nat
    BY TurnAssumption
  <2>2. required \in BOOLEAN
    <3>1. required \in IF mode = "reply" THEN BOOLEAN ELSE {FALSE}
      BY DEF TurnInit
    <3>2. QED
      BY <3>1
  <2>3. round = 0 /\ seen = {} /\ found = {} /\ sent = {} /\ fallback = FALSE /\ stopping = FALSE
    BY DEF TurnInit
  <2>4. phase \in {"asking", "locating"} /\ mode \in {"reply", "continuation"}
    <3>1. phase \in IF mode = "reply" THEN {"asking", "locating"} ELSE {"asking"}
      BY DEF TurnInit
    <3>2. QED
      BY <3>1 DEF TurnInit
  <2>5. delivered \in [Path -> Nat]
    BY DEF TurnInit
  <2>6. round \in 0..MaxRounds
    BY <2>1, <2>3
  <2>7. fallback \in BOOLEAN /\ stopping \in BOOLEAN
    BY <2>3
  <2>8. seen \subseteq Call /\ found \subseteq Path /\ sent \subseteq Path
    BY <2>3
  <2>9. QED
    BY <2>2, <2>4, <2>5, <2>6, <2>7, <2>8
<1>1. /\ TurnTypeOK
      /\ \A i \in DOMAIN slot : slot[i] # "ok"
  <2>1. batch = [by |-> "nobody", calls |-> <<>>, again |-> FALSE] /\ slot = <<>>
    BY DEF TurnInit, NoBatch, StartedBy
  <2>2. slot \in [DOMAIN batch.calls -> {"queued", "running", "skipped"} \cup Outcomes]
    BY <2>1
  <2>3. QED
    BY <1>0, <2>1, <2>2 DEF TurnTypeOK
<1>2. PhaseFits
  BY <1>0, TurnAssumption DEF TurnInit, PhaseFits, NoBatch, StartedBy, NothingRuns, Ends
<1>3. EffectsInOrder /\ BatchWritesAreAwaited
  BY <1>0 DEF TurnInit, EffectsInOrder, BatchWritesAreAwaited, NoBatch, StartedBy, Ends
<1>4. SendsAreUploads
  <2>1. NowSent = {}
    BY <1>1 DEF NowSent
  <2>2. QED
    BY <1>0, <2>1 DEF TurnInit, SendsAreUploads
<1>5. QED
  BY <1>1, <1>2, <1>3, <1>4 DEF TurnInv

LEMMA TurnSteps == TurnInv /\ [TurnNext]_turnVars => TurnInv'
<1> SUFFICES ASSUME TurnInv, [TurnNext]_turnVars
             PROVE  TurnInv'
  OBVIOUS
<1>1. ASSUME NEW cs \in Batches, ModelCalls(cs) \/ ModelMisbehaves(cs)
      PROVE  TurnInv'
  BY <1>1, ModelCallsStep, ModelEndsTurn
<1>2. ASSUME NEW i \in DOMAIN slot, StartCall(i) \/ RefuseCall(i) \/ ThreadEnds(i)
      PROVE  TurnInv'
  BY <1>2, StartCallStep, RefuseCallStep, ThreadEndsStep
<1>3. CASE UNCHANGED turnVars
  BY <1>3 DEF turnVars, TurnInv, TurnTypeOK, PhaseFits, NothingRuns, EffectsInOrder, AllReads,
              AllMoves, BatchWritesAreAwaited, SendsAreUploads, NowSent, Uploaded
<1>4. QED
  BY <1>1, <1>2, <1>3, ModelStopsStep, ModelEndsTurn, BatchEndsStep, SendsEndStep, LocateEndsStep,
     MoveEndsStep, CancelStopsStep DEF TurnNext

(* Before the model is asked nothing is found or sent: the one call a turn  *)
(* may have made by then is a move.                                         *)
NothingSent == found = {} /\ sent = {} /\ \A p \in Path : delivered[p] = 0

BeforeModel ==
    phase \in {"locating", "moving", "answered"} =>
        NothingSent /\ \A i \in DOMAIN batch.calls : Kind[batch.calls[i]] = "move"

LEMMA BeforeModelSteps == TurnInv /\ BeforeModel /\ [TurnNext]_turnVars => BeforeModel'
<1> SUFFICES ASSUME TurnInv, BeforeModel, [TurnNext]_turnVars
             PROVE  BeforeModel'
  OBVIOUS
<1>1. ASSUME NEW cs \in Batches, ModelCalls(cs) \/ ModelMisbehaves(cs)
      PROVE  BeforeModel'
  <2>1. phase' \in {"running", "error"}
    BY <1>1 DEF ModelCalls, ModelMisbehaves, End
  <2>2. QED
    BY <2>1 DEF BeforeModel
<1>2. ASSUME NEW i \in DOMAIN slot, StartCall(i) \/ RefuseCall(i)
      PROVE  BeforeModel'
  <2>1. phase' = "running"
    BY <1>2 DEF StartCall, RefuseCall
  <2>2. QED
    BY <2>1 DEF BeforeModel
<1>3. ASSUME NEW i \in DOMAIN slot, ThreadEnds(i)
      PROVE  BeforeModel'
  <2>1. UNCHANGED <<phase, batch, found, sent>>
    BY <1>3 DEF ThreadEnds
  <2>2. Kind[batch.calls[i]] = "move" => delivered' = delivered
    BY <1>3 DEF ThreadEnds
  <2>3. i \in DOMAIN batch.calls
    BY DEF TurnInv, TurnTypeOK
  <2>4. QED
    BY <2>1, <2>2, <2>3 DEF BeforeModel, NothingSent
<1>4. CASE ModelStops \/ ModelFails \/ BatchEnds \/ SendsEnd
  <2>1. phase' \in {"done", "sending", "error", "asking", "clarify", "waiting"}
    BY <1>4 DEF ModelStops, ModelFails, BatchEnds, SendsEnd, AskAgain, End
  <2>2. QED
    BY <2>1 DEF BeforeModel
<1>5. CASE LocateEnds
  <2>1. phase = "locating" /\ UNCHANGED <<found, sent, delivered>>
    BY <1>5 DEF LocateEnds
  <2>2. CASE UNCHANGED batch
    BY <2>1, <2>2 DEF BeforeModel, NothingSent
  <2>3. ASSUME NEW c \in Call, Kind[c] = "move", batch' = StartedBy("direct", <<c>>, FALSE)
        PROVE  BeforeModel'
    <3>0. batch' = [by |-> "direct", calls |-> <<c>>, again |-> FALSE]
      BY <2>3 DEF StartedBy
    <3>1. batch'.calls = <<c>>
      BY <3>0
    <3>2. \A i \in DOMAIN batch'.calls : Kind[batch'.calls[i]] = "move"
      <4>1. DOMAIN batch'.calls = {1} /\ batch'.calls[1] = c
        BY <3>1
      <4>2. QED
        BY <2>3, <4>1
    <3>3. QED
      BY <2>1, <3>2 DEF BeforeModel, NothingSent
  <2>4. QED
    BY <1>5, <2>2, <2>3 DEF LocateEnds
<1>6. CASE MoveEnds
  <2>1. phase = "moving" /\ UNCHANGED <<batch, found, sent, delivered>>
    BY <1>6 DEF MoveEnds
  <2>2. QED
    BY <2>1 DEF BeforeModel, NothingSent
<1>7. CASE CancelTurn \/ Abort \/ UNCHANGED turnVars
  <2>1. phase' \in {phase, "aborted"} /\ UNCHANGED <<batch, found, sent, delivered>>
    BY <1>7 DEF CancelTurn, Abort, End, turnVars
  <2>2. QED
    BY <2>1 DEF BeforeModel, NothingSent
<1>8. QED
  BY <1>1, <1>2, <1>3, <1>4, <1>5, <1>6, <1>7 DEF TurnNext

(* A turn that reports its files delivered has uploaded them.               *)
LEMMA TurnInvDelivers == TurnInv /\ BeforeModel => DeliveryIsTrue
<1> SUFFICES ASSUME TurnInv, BeforeModel
             PROVE  DeliveryIsTrue
  OBVIOUS
<1>1. ASSUME phase = "done", required
      PROVE  /\ \A p \in found : delivered[p] > 0
             /\ \E p \in Path : delivered[p] > 0
  <2>1. sent # {} /\ found \subseteq sent /\ sent \subseteq Uploaded
    BY <1>1 DEF TurnInv, SendsAreUploads, IsComplete
  <2>2. QED
    BY <2>1 DEF Uploaded
<1>2. QED
  BY <1>1 DEF DeliveryIsTrue, BeforeModel, NothingSent
-----------------------------------------------------------------------------
(* CodexDelegation: what is recorded of a task is what its run does.        *)

(* A result ends its task, no run pauses, a failed task has no process and  *)
(* no start that could make one, and whoever waits for Codex is known as a  *)
(* client.                                                                  *)
Tracked(t) ==
    /\ got[t] => status[t] \in Terminal
    /\ pc[t] # "pausing"
    /\ pc[t] = "queued" => status[t] # "running"
    /\ crashes = 0 /\ status[t] \in {"queued", "running"} => pc[t] \in {"queued", "submitting"}
    /\ status[t] = "failed" => exec[t] # "live" /\ start[t] # "spawning"
    /\ at[t] # "out" => client[t]
    /\ crashes = 0 /\ exec[t] = "live" => client[t]

AllTracked == \A t \in Task : Tracked(t)

LEMMA TrackedStart == CodexInit => AllTracked
BY DEF CodexInit, Init, AllTracked, Tracked

LEMMA StepKeepsTracked ==
    ASSUME CInv, AllTracked, [CodexNext]_codexVars, NEW t \in Task
    PROVE  Tracked(t)'
<1> USE DEF AllTracked, Tracked, CInv, IInv, TypeOK, CodexTypeOK, Placed, Terminal
<1>1. ASSUME NEW u \in Task, Submit(u)
      PROVE  Tracked(t)'
  BY <1>1 DEF Submit, Enter, At, adapter, Delegate, RunQueued, Launch, Goes, Idle, executor
<1>2. ASSUME NEW u \in Task, StartSteps(u) \/ Exit(u)
      PROVE  Tracked(t)'
  BY <1>2 DEF StartSteps, Spawn, SpawnFails, Shake, Exit, Stop, adapter, vars, record, runner,
              executor
<1>3. ASSUME NEW u \in Task, StartedEvent(u) \/ ResultEvent(u)
      PROVE  Tracked(t)'
  BY <1>3, UpdatedType DEF StartedEvent, ResultEvent, Onward, At, Because, HearEvent, HearResult,
              Hears, Update, Updated, Stopped, Goes, Idle, executor
<1>4. ASSUME NEW u \in Task, StartFailed(u) \/ CallFails(u)
      PROVE  Tracked(t)'
  BY <1>4 DEF StartFailed, CallFails, At, vars, record, runner, executor
<1>5. ASSUME NEW u \in Task, NothingStarted(u)
      PROVE  Tracked(t)'
  BY <1>5 DEF NothingStarted, At, HearUnavailable, HearUnknown, Hears, Update, Updated, Goes,
              Idle, executor
<1>6. ASSUME NEW u \in Task, Closed(u)
      PROVE  Tracked(t)'
  BY <1>6, NamesAssumption DEF Closed, Told, AbortsItself, MayAbort, AbortRefused, AbortAtOnce, Verdict,
              HearEnd, HearUnavailable, HearUnknown, Hears, Update, Updated, Leaves, Goes, At, Idle,
              executor, record, runner
<1>7. ASSUME NEW u \in Task, NEW w \in Task, Retry(u, w) /\ Idle /\ UNCHANGED adapter
      PROVE  Tracked(t)'
  BY <1>7 DEF Retry, Goes, Idle, executor, adapter
<1>8. ASSUME NEW u \in Task, \/ RunRefused(u) /\ Idle /\ UNCHANGED adapter
                             \/ CancelSubmit(u) \/ CancelClose(u)
      PROVE  Tracked(t)'
  BY <1>8 DEF RunRefused, CancelSubmit, CancelClose, Cancel, Goes, At, Idle, executor, adapter,
              record
<1>9. ASSUME NEW g \in Aborter, NEW u \in Task, AbortTask(g, u)
      PROVE  Tracked(t)'
  BY <1>9 DEF AbortTask, MayAbort, AbortRefused, AbortAtOnce, AbortAsks, Verdict, Update, Updated,
              Leaves, Idle, executor, adapter, record
<1>10. ASSUME NEW g \in Aborter, NEW u \in Task, Answers(g, u)
       PROVE  Tracked(t)'
  BY <1>10 DEF Answers, AbortCloses, AbortTimesOut, AbortCancelled, AbortAnswered, AbortHangsUp,
               Seal, Verdict, Update, Updated, Leaves, StartEnds, Idle, executor, adapter, record,
               runner
<1>11. CASE CodexCrash
  BY <1>11, BoundsAssumption DEF CodexCrash, Crash, Idle, executor, record
<1>12. CASE UNCHANGED codexVars
  BY <1>12 DEF codexVars, vars, record, runner, executor, adapter
<1>13. QED
  BY <1>1, <1>2, <1>3, <1>4, <1>5, <1>6, <1>7, <1>8, <1>9, <1>10, <1>11, <1>12
     DEF CodexNext, Resumes

(* What is recorded of the tasks is true of what runs for them, with the    *)
(* Codex adapter.                                                           *)
THEOREM CodexIsTracked == CodexSpec => []RunsAreTracked
<1>1. CInv /\ AllTracked /\ [CodexNext]_codexVars => AllTracked'
  BY StepKeepsTracked DEF AllTracked
<1>2. CInv /\ AllTracked => RunsAreTracked
  <2> SUFFICES ASSUME CInv, AllTracked
               PROVE  RunsAreTracked
    OBVIOUS
  <2>1. RunningIsRun /\ LiveIsReachable
    BY DEF AllTracked, Tracked, RunningIsRun, LiveIsReachable
  <2>2. RetriedIsStopped
    BY DEF CInv, IInv, TypeOK, RepeatsAreSafe, AllTracked, Tracked, RetriedIsStopped
  <2>3. QED
    BY <2>1, <2>2 DEF RunsAreTracked
<1>3. QED
  BY CodexInductive, TrackedStart, <1>1, <1>2, PTL DEF CodexSpec

-----------------------------------------------------------------------------
(* The two side by side: each takes its own steps or none (MCExecution).    *)

LEMMA ExecutionRunsCodex == ExecutionSpec => CodexSpec
<1>1. ExecutionInit => CodexInit
  BY DEF ExecutionInit
<1>2. [ExecutionNext]_executionVars => [CodexNext]_codexVars
  BY DEF ExecutionNext, executionVars
<1>3. QED
  BY <1>1, <1>2, PTL DEF ExecutionSpec, CodexSpec

(* The inductive invariant of the turn loop holds beside the tasks.         *)
THEOREM TurnsInductive == ExecutionSpec => [](TurnInv /\ BeforeModel)
<1>1. ExecutionInit => TurnInv
  <2>1. TurnIsOver => TurnInv
    <3> SUFFICES ASSUME TurnIsOver
                 PROVE  TurnInv
      OBVIOUS
    <3>1. /\ batch = [by |-> "nobody", calls |-> <<>>, again |-> FALSE] /\ slot = <<>>
          /\ mode = "reply" /\ required = FALSE /\ phase = "done" /\ round = 0 /\ seen = {}
          /\ found = {} /\ sent = {} /\ fallback = FALSE /\ stopping = FALSE
      BY DEF TurnIsOver, NoBatch, StartedBy
    <3>2. slot \in [DOMAIN batch.calls -> SlotStatus]
      BY <3>1
    <3>3. delivered \in [Path -> Nat]
      BY DEF TurnIsOver
    <3>4. round \in 0..MaxRounds
      BY <3>1, TurnAssumption
    <3>5. required \in BOOLEAN /\ fallback \in BOOLEAN /\ stopping \in BOOLEAN
      BY <3>1
    <3>6. TurnTypeOK
      BY <3>1, <3>2, <3>3, <3>4, <3>5 DEF TurnTypeOK, SlotStatus, Ends
    <3>7. PhaseFits /\ EffectsInOrder /\ BatchWritesAreAwaited
      BY <3>1 DEF PhaseFits, EffectsInOrder, BatchWritesAreAwaited, Ends
    <3>8. SendsAreUploads
      BY <3>1 DEF SendsAreUploads, NowSent
    <3>9. QED
      BY <3>6, <3>7, <3>8 DEF TurnInv
  <2>2. QED
    BY <2>1, TurnStarts DEF ExecutionInit
<1>2. [ExecutionNext]_executionVars => [TurnNext]_turnVars
  BY DEF ExecutionNext, executionVars
<1>3. ExecutionInit => BeforeModel
  <2> SUFFICES ASSUME ExecutionInit
               PROVE  BeforeModel
    OBVIOUS
  <2>1. batch = [by |-> "nobody", calls |-> <<>>, again |-> FALSE]
    BY DEF ExecutionInit, TurnInit, TurnIsOver, NoBatch, StartedBy
  <2>2. batch.calls = <<>>
    BY <2>1
  <2>3. found = {} /\ sent = {} /\ delivered = [p \in Path |-> 0]
    BY DEF ExecutionInit, TurnInit, TurnIsOver
  <2>4. QED
    BY <2>2, <2>3 DEF BeforeModel, NothingSent
<1>4. QED
  BY <1>1, <1>2, <1>3, TurnSteps, BeforeModelSteps, PTL DEF ExecutionSpec

(* Every variable of the two has its type.                                  *)
THEOREM ExecutionTypeCorrect == ExecutionSpec => []ExecutionTypeOK
<1>1. TurnInv => TurnTypeOK
  BY DEF TurnInv
<1>2. CodexTypeOK /\ TurnTypeOK => ExecutionTypeOK
  BY DEF ExecutionTypeOK
<1>3. QED
  BY ExecutionRunsCodex, CodexTypeCorrect, TurnsInductive, <1>1, <1>2, PTL

(* The records of the tasks are true, whatever is started, answered,        *)
(* cancelled, killed or retried (DelegateManager.run, retry_task,           *)
(* CodexAdapter.abort).                                                     *)
THEOREM RunsStayTracked == ExecutionSpec => []RunsAreTracked
BY ExecutionRunsCodex, CodexIsTracked, PTL

(* A turn's effects happen in the order the model asked for, and none is    *)
(* left running when the turn has ended (ToolBatchScheduler.run).           *)
THEOREM EffectsStayOrderly == ExecutionSpec => []EffectsAreOrderly
<1>1. TurnInv => EffectsAreOrderly
  BY DEF TurnInv, EffectsAreOrderly
<1>2. QED
  BY TurnsInductive, <1>1, PTL

(* A turn that reports its files delivered has uploaded every one it found  *)
(* and at least one, and a turn answered before the model was asked, about  *)
(* a move, has uploaded none (_generate_reply, FileTaskCoordinator).        *)
THEOREM DeliveryStaysTrue == ExecutionSpec => []DeliveryIsTrue
BY TurnsInductive, TurnInvDelivers, PTL
==============================================================================
