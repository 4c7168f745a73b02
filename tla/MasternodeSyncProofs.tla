----------------------- MODULE MasternodeSyncProofs -----------------------
(***************************************************************************)
(* Proofs, for any number of peers and threads and any time limits, that   *)
(* the fields of CMasternodeSync stay well formed, and that                *)
(* SwitchToNextAsset never throws in the maintenance thread, although      *)
(* every field is written without a lock.                                  *)
(***************************************************************************)
EXTENDS MasternodeSync, SequenceTheorems, TLAPS

\* Only the maintenance thread fails the sync, in the last step of a tick.
\* From the moment it has seen that the sync has not failed, or has set the
\* state in Reset, the sync does not fail until that thread does it.
Unfailed ==
    /\ tick.pc # "idle" \/ call["tick"].step \notin {"none", "state"}
         => sync.state # "Failed"
    /\ call["tick"].step \in FailSteps => tick.pc = "idle"

\* The inductive invariant.
IInv == TypeOK /\ TickNeverThrows /\ Unfailed

\* The parts of the type invariant.
Fields == sync \in SyncFields /\ fulfilled \in Trackers

Net ==
    /\ vNodes \in Seq(Peers) /\ fDisconnect \subseteq Peers
    /\ ibd \in BOOLEAN /\ fReachedBestHeader \in BOOLEAN
    /\ late \in 0 .. MaxStall /\ events \in 0 .. MaxEvents

TickShape ==
    /\ tick \in [pc : TickSteps, rest : Seq(Peers)]
    /\ tick.pc = "idle" <=> tick.rest = <<>>

TipType == tip \in [Validators -> [pc : TipSteps, ibd : BOOLEAN, reached : BOOLEAN]]

CallRecords == [step : CallSteps, read : States \ {"Failed"}]

CallType ==
    /\ call \in [Threads -> CallRecords]
    /\ \A t \in Threads : call[t].step \in FailSteps => t = "tick"

\* The invariant, by its parts.
LEMMA Parts ==
    IInv <=> /\ Fields /\ Net /\ TickShape /\ TipType /\ CallType
             /\ thrown \subseteq Threads /\ TickNeverThrows /\ Unfailed
BY DEF IInv, TypeOK, Fields, Net, TickShape, TipType, CallType, CallRecords

\* ... and after a step.
LEMMA PartsNext ==
    IInv' <=> /\ Fields' /\ Net' /\ TickShape' /\ TipType' /\ CallType'
              /\ (thrown \subseteq Threads)' /\ TickNeverThrows' /\ Unfailed'
BY DEF IInv, TypeOK, Fields, Net, TickShape, TipType, CallType, CallRecords

-----------------------------------------------------------------------------
\* Reset writes a well-formed value into any field, and a state that is not
\* the failed one.
LEMMA ResetKeeps ==
    ASSUME NEW s \in SyncFields, NEW f \in ResetSteps,
           NEW r, r = [s EXCEPT ![f] = Cleared[f]]
    PROVE  /\ r \in SyncFields
           /\ IF f = "state" THEN r.state = "Initial" ELSE r.state = s.state
<1>1. /\ 0 \in 0 .. 2 * CheckInterval /\ 0 \in Nat /\ 0 \in 0 .. 3
      /\ NoTime \in Times(Cooldown) /\ NoTime \in Times(SleepLimit)
      /\ NoTime \in Times(StuckLimit)
  BY SyncAssumptions DEF Times
<1> HIDE DEF NoTime
<1>2. CASE f = "state"
  BY <1>2 DEF Cleared, SyncFields, States
<1>3. CASE f = "attempt"
  BY <1>1, <1>3 DEF Cleared, SyncFields
<1>4. CASE f = "bumped"
  BY <1>1, <1>4 DEF Cleared, SyncFields
<1>5. CASE f = "failure"
  BY <1>1, <1>5 DEF Cleared, SyncFields
<1>6. CASE f = "process"
  BY <1>1, <1>6 DEF Cleared, SyncFields
<1>7. CASE f = "ibdDone"
  BY <1>1, <1>7 DEF Cleared, SyncFields
<1>8. CASE f = "resync"
  BY <1>1, <1>8 DEF Cleared, SyncFields
<1> QED BY <1>2, <1>3, <1>4, <1>5, <1>6, <1>7, <1>8 DEF ResetSteps

\* BumpAssetLastTime does not change the state.
LEMMA BumpedFields ==
    ASSUME NEW s \in SyncFields
    PROVE  /\ BumpAssetLastTime(s) \in SyncFields
           /\ BumpAssetLastTime(s).state = s.state
<1>1. 0 \in 0 .. 2 * CheckInterval
  BY SyncAssumptions
<1> QED BY <1>1 DEF BumpAssetLastTime, SyncFields

\* The asset after one that has not failed has not failed.
LEMMA NextAssetState ==
    ASSUME NEW st \in States \ {"Failed"}
    PROVE  NextAsset(st) \in States \ {"Failed"}
BY DEF NextAsset, States

\* SwitchToNextAsset leaves a well-formed tracker.
LEMMA SwitchedTracker ==
    ASSUME fulfilled \in Trackers
    PROVE  ClearedRequests \in Trackers /\ MarkedFullSync \in Trackers
<1>1. 0 \in 0 .. ExpireTime /\ ExpireTime \in 0 .. ExpireTime
  BY SyncAssumptions
<1>2. ClearedRequests \in Trackers
  BY <1>1 DEF ClearedRequests, Trackers
<1>3. MarkedFullSync \in Trackers
  BY <1>1 DEF MarkedFullSync, Trackers, Requests
<1> QED BY <1>2, <1>3

\* A thread goes to a step of the shared methods; the others stay.
LEMMA GoesTo ==
    ASSUME CallType, NEW t \in Threads, NEW step \in CallSteps,
           step \in FailSteps => t = "tick", Goes(t, step)
    PROVE  /\ CallType'
           /\ call'[t].step = step
           /\ \A u \in Threads : u # t => call'[u] = call[u]
<1>1. call' = [call EXCEPT ![t] = [call[t] EXCEPT !.step = step]]
  BY DEF Goes
<1>2. [call[t] EXCEPT !.step = step] \in CallRecords
      /\ [call[t] EXCEPT !.step = step].step = step
  BY DEF CallType, CallRecords
<1> QED BY <1>1, <1>2 DEF CallType

\* The maintenance and RPC threads are threads, and no validation threads.
LEMMA ThreadNames ==
    /\ "tick" \in Threads /\ "rpc" \in Threads /\ Validators \subseteq Threads
    /\ "tick" \notin Validators
BY SyncAssumptions DEF Threads

-----------------------------------------------------------------------------
\* The initial state satisfies the invariant.
LEMMA InitIInv == Init => IInv
<1> SUFFICES ASSUME Init PROVE IInv
  OBVIOUS
<1>1. Fields /\ sync.state = "Initial"
  <2>1. 0 \in 0 .. 2 * CheckInterval
    BY SyncAssumptions
  <2>2. sync \in SyncFields /\ sync.state = "Initial"
    BY <2>1 DEF Init, Cleared, SyncFields, States, Times, NoTime
  <2>3. fulfilled \in Trackers
    BY SyncAssumptions DEF Init, Trackers
  <2> QED BY <2>2, <2>3 DEF Fields
<1>2. Net /\ TickShape
  <2>1. late \in 0 .. MaxStall /\ events \in 0 .. MaxEvents
    BY SyncAssumptions DEF Init
  <2>2. ibd \in BOOLEAN /\ fReachedBestHeader \in BOOLEAN
    BY Zenon DEF Init
  <2> QED BY <2>1, <2>2 DEF Init, Net, TickShape, TickSteps
<1>3. TipType
  BY Zenon DEF Init, TipType, TipSteps
<1>4. CallType /\ \A t \in Threads : call[t].step = "none"
  BY DEF Init, CallType, CallRecords, CallSteps, FailSteps, States
<1> QED BY <1>1, <1>2, <1>3, <1>4, Parts, ThreadNames
       DEF Init, TickNeverThrows, Unfailed, FailSteps

-----------------------------------------------------------------------------
\* A step of a shared method keeps the invariant when it leaves the fields
\* well formed, does not fail the sync in another thread than the maintenance
\* thread, and does not leave that thread behind with a failed sync.
LEMMA Calls ==
    ASSUME IInv, NEW t \in Threads, NEW step \in CallSteps,
           Goes(t, step), UNCHANGED unchangedByCall, UNCHANGED thrown, Fields',
           step \in FailSteps => t = "tick" /\ tick.pc = "idle",
           IF t = "tick"
           THEN (tick.pc # "idle" \/ step \notin {"none", "state"})
                   => sync'.state # "Failed"
           ELSE sync'.state = "Failed" => sync.state = "Failed"
    PROVE  IInv'
<1>1. /\ Net /\ TickShape /\ TipType /\ CallType /\ Unfailed
      /\ thrown \subseteq Threads /\ TickNeverThrows
  BY Parts
<1>2. Net' /\ TickShape' /\ TipType' /\ TickNeverThrows' /\ tick' = tick
      /\ (thrown \subseteq Threads)'
  BY <1>1 DEF unchangedByCall, Net, TickShape, TipType, TickNeverThrows
<1>3. /\ CallType' /\ call'[t].step = step
      /\ \A u \in Threads : u # t => call'[u] = call[u]
  BY <1>1, GoesTo
<1>4. Unfailed'
  <2>1. CASE t = "tick"
    BY <1>2, <1>3, <2>1 DEF Unfailed
  <2>2. CASE t # "tick"
    <3>1. call'["tick"] = call["tick"]
      BY <1>3, <2>2, ThreadNames
    <3> QED BY <1>1, <1>2, <2>2, <3>1 DEF Unfailed
  <2> QED BY <2>1, <2>2
<1> QED BY <1>2, <1>3, <1>4, PartsNext

\* Each step of Reset, SwitchToNextAsset and Fail keeps the invariant,
\* whichever thread takes it.
LEMMA CallIInv ==
    ASSUME IInv, NEW t \in Threads, CallStep(t)
    PROVE  IInv'
<1>1. /\ Fields /\ Net /\ TickShape /\ TipType /\ CallType /\ Unfailed
      /\ thrown \subseteq Threads /\ TickNeverThrows
  BY Parts
<1>2. /\ call[t] \in CallRecords
      /\ call[t].step \in FailSteps => t = "tick" /\ tick.pc = "idle"
      /\ t = "tick" /\ (tick.pc # "idle" \/ call[t].step \notin {"none", "state"})
           => sync.state # "Failed"
  BY <1>1 DEF CallType, Unfailed
<1>3. CASE ResetField(t)
  <2> DEFINE f == call[t].step
             step == IF f # "resync" THEN NextField[f]
                     ELSE IF t \in Validators THEN "none" ELSE "switch"
  <2>1. f \in ResetSteps
    BY <1>3 DEF ResetField
  <2>2. step \in CallSteps \ FailSteps
    BY <2>1 DEF ResetSteps, NextField, CallSteps, SwitchSteps, FailSteps
  <2>3. /\ Fields'
        /\ IF f = "state" THEN sync'.state = "Initial" ELSE sync'.state = sync.state
    BY <1>1, <1>3, <2>1, ResetKeeps DEF ResetField, Fields
  <2>4. /\ Goes(t, step) /\ UNCHANGED thrown /\ UNCHANGED unchangedByCall
    BY <1>3 DEF ResetField
  <2>5. f # "none"
    BY <2>1 DEF ResetSteps
  <2> HIDE DEF step
  <2> QED BY <1>2, <2>2, <2>3, <2>4, <2>5, Calls
<1>4. CASE SwitchThrows(t)
  <2>1. t # "tick"
    BY <1>2, <1>4 DEF SwitchThrows, At
  <2>2. "none" \in CallSteps \ FailSteps
    BY DEF CallSteps, FailSteps
  <2>3. /\ CallType'
        /\ \A u \in Threads : u # t => call'[u] = call[u]
    BY <1>1, <1>4, <2>2, GoesTo DEF SwitchThrows
  <2>4. call'["tick"] = call["tick"]
    BY <2>1, <2>3, ThreadNames
  <2>5. UNCHANGED <<sync, fulfilled>> /\ UNCHANGED unchangedByCall
        /\ thrown' = thrown \cup {t}
    BY <1>4 DEF SwitchThrows
  <2>6. Fields' /\ Net' /\ TickShape' /\ TipType' /\ Unfailed'
    BY <1>1, <2>4, <2>5
    DEF unchangedByCall, Fields, Net, TickShape, TipType, Unfailed
  <2> QED BY <1>1, <2>1, <2>3, <2>5, <2>6, PartsNext DEF TickNeverThrows
<1>5. CASE SwitchReads(t)
  <2>1. /\ sync.state \in States \ {"Failed"}
        /\ UNCHANGED <<sync, thrown>> /\ UNCHANGED unchangedByCall
    BY <1>1, <1>5 DEF SwitchReads, Fields, SyncFields
  <2>2. Fields'
    BY <1>1, <1>5, SwitchedTracker DEF SwitchReads, Fields
  <2>3. /\ CallType'
        /\ call'["tick"].step \notin FailSteps \/ call'["tick"] = call["tick"]
    <3> DEFINE c == [step |-> "write", read |-> sync.state]
    <3>1. c \in CallRecords /\ c.step = "write"
      BY <2>1 DEF CallRecords, CallSteps, SwitchSteps
    <3>2. call' = [call EXCEPT ![t] = c]
      BY <1>5 DEF SwitchReads
    <3> HIDE DEF c
    <3> QED BY <1>1, <3>1, <3>2, ThreadNames DEF CallType, FailSteps
  <2>4. Unfailed'
    BY <1>1, <1>5, <2>1, <2>3 DEF SwitchReads, Unfailed, unchangedByCall
  <2>5. Net' /\ TickShape' /\ TipType' /\ TickNeverThrows'
        /\ (thrown \subseteq Threads)'
    BY <1>1, <2>1 DEF unchangedByCall, Net, TickShape, TipType, TickNeverThrows
  <2> QED BY <2>2, <2>3, <2>4, <2>5, PartsNext
<1>6. CASE SwitchWrites(t)
  <2>1. call[t].read \in States \ {"Failed"} /\ call[t].step = "write"
    BY <1>2, <1>6 DEF CallRecords, SwitchWrites, At
  <2>2. /\ Fields'
        /\ sync'.state = sync.state \/ sync'.state # "Failed"
    <3>1. NextAsset(call[t].read) \in States \ {"Failed"}
      BY <2>1, NextAssetState
    <3> QED BY <1>1, <1>6, <3>1 DEF SwitchWrites, Fields, SyncFields
  <2>3. PICK step \in {"mark", "zero"} : Goes(t, step)
    BY <1>6 DEF SwitchWrites
  <2>4. step \in CallSteps \ FailSteps
    BY DEF CallSteps, SwitchSteps, FailSteps
  <2> QED BY <1>2, <1>6, <2>1, <2>2, <2>3, <2>4, Calls DEF SwitchWrites
<1>7. CASE SwitchMarks(t) \/ SwitchZeroes(t) \/ SwitchBumps(t)
  <2>1. PICK step \in {"zero", "bump", "none"} : Goes(t, step)
    BY <1>7 DEF SwitchMarks, SwitchZeroes, SwitchBumps
  <2>2. step \in CallSteps \ FailSteps
    BY DEF CallSteps, SwitchSteps, FailSteps
  <2>3. Fields' /\ sync'.state = sync.state
    <3>1. CASE SwitchMarks(t)
      BY <1>1, <3>1, SwitchedTracker DEF SwitchMarks, Fields
    <3>2. CASE SwitchZeroes(t)
      BY <1>1, <3>2 DEF SwitchZeroes, Fields, SyncFields
    <3>3. CASE SwitchBumps(t)
      BY <1>1, <3>3, BumpedFields DEF SwitchBumps, Fields
    <3> QED BY <1>7, <3>1, <3>2, <3>3
  <2>4. /\ call[t].step \in {"mark", "zero", "bump"}
        /\ UNCHANGED thrown /\ UNCHANGED unchangedByCall
    BY <1>7 DEF SwitchMarks, SwitchZeroes, SwitchBumps, At
  <2> QED BY <1>2, <2>1, <2>2, <2>3, <2>4, Calls
<1>8. CASE FailStamps(t)
  <2>1. call[t].step = "stamp" /\ Goes(t, "fail") /\ UNCHANGED <<fulfilled, thrown>>
        /\ UNCHANGED unchangedByCall
    BY <1>8 DEF FailStamps, At
  <2>2. Fields' /\ sync'.state = sync.state
    <3>1. 0 \in Times(Cooldown)
      BY SyncAssumptions DEF Times
    <3> QED BY <1>1, <1>8, <3>1 DEF FailStamps, Fields, SyncFields
  <2>3. {"stamp", "fail"} \subseteq FailSteps /\ "fail" \in CallSteps
    BY DEF FailSteps, CallSteps
  <2> QED BY <1>2, <2>1, <2>2, <2>3, Calls
<1>9. CASE FailWrites(t)
  <2>1. call[t].step = "fail" /\ Goes(t, "none") /\ UNCHANGED <<fulfilled, thrown>>
        /\ UNCHANGED unchangedByCall
    BY <1>9 DEF FailWrites, At
  <2>2. Fields'
    BY <1>1, <1>9 DEF FailWrites, Fields, SyncFields, States
  <2>3. "fail" \in FailSteps /\ "none" \in CallSteps \ FailSteps
    BY DEF FailSteps, CallSteps
  <2> QED BY <1>2, <2>1, <2>2, <2>3, Calls
<1> QED BY <1>3, <1>4, <1>5, <1>6, <1>7, <1>8, <1>9 DEF CallStep

-----------------------------------------------------------------------------
\* The age of a time stamp stays within its bound.
LEMMA OlderTime ==
    ASSUME NEW limit \in Nat \ {0}, NEW age \in Times(limit)
    PROVE  Older(age, limit) \in Times(limit)
BY DEF Older, Times, NoTime

\* The age of the last bump stays within two check intervals.
LEMMA OlderBumpTime ==
    ASSUME NEW age \in 0 .. 2 * CheckInterval
    PROVE  OlderBump(age) \in 0 .. 2 * CheckInterval
<1>1. CheckInterval \in Nat /\ CheckInterval > 0
  BY SyncAssumptions
<1> QED BY <1>1 DEF OlderBump

\* A step outside the tick and the shared methods that does not change the
\* state of the sync keeps the invariant if it keeps the types.
LEMMA Quiet ==
    ASSUME IInv, Fields', Net', TipType', sync'.state = sync.state,
           UNCHANGED <<tick, call, thrown>>
    PROVE  IInv'
<1>1. /\ TickShape /\ CallType /\ Unfailed
      /\ thrown \subseteq Threads /\ TickNeverThrows
  BY Parts
<1>2. /\ TickShape' /\ CallType' /\ Unfailed'
      /\ (thrown \subseteq Threads)' /\ TickNeverThrows'
  BY <1>1 DEF TickShape, CallType, Unfailed, TickNeverThrows
<1> QED BY <1>2, PartsNext

\* A disturbance uses up one of the events.
LEMMA Disturbed ==
    ASSUME events \in 0 .. MaxEvents, Disturb \/ UNCHANGED events
    PROVE  events' \in 0 .. MaxEvents
BY SyncAssumptions DEF Disturb

\* Time ages the stamps within their bounds and leaves the state alone.
LEMMA TimeIInv ==
    ASSUME IInv, TimePasses
    PROVE  IInv'
<1>1. Fields /\ Net /\ TipType
  BY Parts
<1>2. /\ OlderBump(sync.bumped) \in 0 .. 2 * CheckInterval
      /\ Older(sync.failure, Cooldown) \in Times(Cooldown)
      /\ Older(sync.process, SleepLimit) \in Times(SleepLimit)
      /\ Older(sync.ibdDone, StuckLimit) \in Times(StuckLimit)
  <2>1. /\ sync.bumped \in 0 .. 2 * CheckInterval
        /\ sync.failure \in Times(Cooldown)
        /\ sync.process \in Times(SleepLimit)
        /\ sync.ibdDone \in Times(StuckLimit)
    BY <1>1 DEF Fields, SyncFields
  <2> QED BY SMTT(30), <2>1, OlderTime, OlderBumpTime, SyncAssumptions
<1>3. sync' \in SyncFields /\ sync'.state = sync.state
  BY <1>1, <1>2 DEF TimePasses, Fields, SyncFields
<1>4. fulfilled' \in Trackers
  BY <1>1, SyncAssumptions DEF TimePasses, Fields, Trackers
<1>5. late' \in 0 .. MaxStall
  BY <1>1, SyncAssumptions DEF TimePasses, Net
<1>6. events' \in 0 .. MaxEvents
  BY <1>1, Disturbed DEF TimePasses, Net
<1>7. Net' /\ TipType'
  BY <1>1, <1>5, <1>6 DEF TimePasses, Net, TipType
<1> QED BY <1>3, <1>4, <1>7, Quiet DEF TimePasses, Fields

\* Links and the initial-download latch do not touch the sync.
LEMMA LinkIInv ==
    ASSUME IInv, (\E p \in Peers : Connect(p) \/ Disconnect(p)) \/ LeaveIBD
    PROVE  IInv'
<1>1. Fields /\ Net /\ TipType
  BY Parts
<1>2. ASSUME NEW p \in Peers, Connect(p) PROVE Net'
  BY <1>1, <1>2 DEF Connect, Net
<1>3. ASSUME NEW p \in Peers, Disconnect(p) PROVE Net'
  <2>1. vNodes' \in Seq(Peers)
    BY SMTT(30), <1>1, <1>3 DEF Disconnect, Net, RemoveAt
  <2>2. fDisconnect' \subseteq Peers /\ events' \in 0 .. MaxEvents
    BY <1>1, <1>3, Disturbed DEF Disconnect, Net
  <2> QED BY <1>1, <1>3, <2>1, <2>2 DEF Disconnect, Net
<1>4. ASSUME LeaveIBD PROVE Net'
  BY Zenon, <1>1, <1>4 DEF LeaveIBD, Net
<1>5. Net' /\ UNCHANGED <<sync, fulfilled, tick, tip, call, thrown>>
  BY <1>2, <1>3, <1>4 DEF Connect, Disconnect, LeaveIBD
<1> QED BY <1>1, <1>5, Quiet DEF Fields, TipType

\* The message handlers bump, and the RPC enters the shared methods.
LEMMA HandlerIInv ==
    ASSUME IInv,
           HeaderArrives \/ AssetDataArrives
             \/ \E c \in RpcCommands : MnSyncCommand(c)
    PROVE  IInv'
<1>1. Fields /\ Net /\ TickShape /\ TipType /\ CallType /\ Unfailed
      /\ thrown \subseteq Threads /\ TickNeverThrows
  BY Parts
<1>2. CASE HeaderArrives \/ AssetDataArrives
  <2>1. Fields' /\ sync'.state = sync.state
    BY <1>1, <1>2, BumpedFields DEF HeaderArrives, AssetDataArrives, Fields
  <2>2. events' \in 0 .. MaxEvents
    BY <1>1, <1>2, Disturbed DEF HeaderArrives, AssetDataArrives, Net
  <2>3. UNCHANGED <<vNodes, fDisconnect, ibd, fReachedBestHeader, late,
                    tick, tip, call, thrown>>
    BY <1>2 DEF HeaderArrives, AssetDataArrives
  <2>4. Net' /\ TipType'
    BY <1>1, <2>2, <2>3 DEF Net, TipType
  <2> QED BY <2>1, <2>3, <2>4, Quiet
<1>3. ASSUME NEW c \in RpcCommands, MnSyncCommand(c) PROVE IInv'
  <2>1. PICK step \in {"switch", "state"} : Goes("rpc", step)
    BY <1>3 DEF MnSyncCommand, Restart
  <2>2. step \in CallSteps \ FailSteps
    BY DEF CallSteps, ResetSteps, SwitchSteps, FailSteps
  <2>3. CallType' /\ call'["tick"] = call["tick"]
    BY <1>1, <2>1, <2>2, GoesTo, ThreadNames
  <2>4. events' \in 0 .. MaxEvents
    BY <1>1, <1>3, Disturbed DEF MnSyncCommand, Net
  <2>5. UNCHANGED <<sync, fulfilled, vNodes, fDisconnect, ibd,
                    fReachedBestHeader, tick, tip, thrown, late>>
    BY <1>3 DEF MnSyncCommand
  <2>6. Fields' /\ Net' /\ TickShape' /\ TipType' /\ Unfailed'
        /\ (thrown \subseteq Threads)' /\ TickNeverThrows'
    BY <1>1, <2>3, <2>4, <2>5
    DEF Fields, Net, TickShape, TipType, Unfailed, TickNeverThrows
  <2> QED BY <2>3, <2>6, PartsNext
<1> QED BY <1>2, <1>3

\* UpdatedBlockTip enters Reset and SwitchToNextAsset at any moment of a tick;
\* its own steps leave the state alone.
LEMMA TipIInv ==
    ASSUME IInv, NEW v \in Validators,
           (\E reached \in TipKinds : TipStart(v, reached)) \/ UpdatedBlockTip(v)
    PROVE  IInv'
<1>1. Fields /\ Net /\ TickShape /\ TipType /\ CallType /\ Unfailed
      /\ thrown \subseteq Threads /\ TickNeverThrows
  BY Parts
<1>2. CASE \E reached \in TipKinds : TipStart(v, reached)
  <2>1. PICK reached \in TipKinds : TipStart(v, reached)
    BY <1>2
  <2>2. Fields' /\ sync'.state = sync.state
    BY <1>1, <2>1, BumpedFields DEF TipStart, unchangedByTip, Fields
  <2>3. events' \in 0 .. MaxEvents
    BY <1>1, <2>1, Disturbed DEF TipStart, Net
  <2>4. TipType'
    <3>1. [pc |-> "checked", ibd |-> ibd, reached |-> reached]
            \in [pc : TipSteps, ibd : BOOLEAN, reached : BOOLEAN]
      BY Zenon, <1>1, SyncAssumptions DEF Net, TipSteps
    <3> QED BY Zenon, <1>1, <2>1, <3>1 DEF TipStart, TipType
  <2>5. Net' /\ UNCHANGED <<tick, call, thrown>>
    BY <1>1, <2>1, <2>3 DEF TipStart, unchangedByTip, Net
  <2> QED BY <2>2, <2>4, <2>5, Quiet
<1>3. CASE UpdatedBlockTip(v)
  <2>1. UNCHANGED <<sync, events>> /\ UNCHANGED unchangedByTip
    BY <1>3 DEF UpdatedBlockTip, TipInitial, TipLost, TipForgets, TipKnown, TipReached
  <2>2. PICK pc \in {"idle", "lost", "reached"} : TipTo(v, pc)
    BY <1>3 DEF UpdatedBlockTip, TipInitial, TipLost, TipForgets, TipKnown, TipReached
  <2>3. TipType'
    <3>1. pc \in TipSteps
      BY DEF TipSteps
    <3>2. [tip[v] EXCEPT !.pc = pc] \in [pc : TipSteps, ibd : BOOLEAN, reached : BOOLEAN]
      BY ZenonT(30), <1>1, <3>1 DEF TipType
    <3>3. tip' = [tip EXCEPT ![v] = [tip[v] EXCEPT !.pc = pc]]
      BY <2>2 DEF TipTo
    <3> QED BY ZenonT(30), <1>1, <3>2, <3>3 DEF TipType
  <2>4. fReachedBestHeader' \in BOOLEAN
    <3>1. tip[v].reached \in BOOLEAN
      BY Zenon, <1>1 DEF TipType
    <3> QED BY Zenon, <1>1, <1>3, <3>1
      DEF UpdatedBlockTip, TipInitial, TipLost, TipForgets, TipKnown, TipReached, Net
  <2>5. Net'
    BY <1>1, <2>1, <2>4 DEF Net, unchangedByTip
  <2>6. CASE UNCHANGED call
    BY <1>1, <2>1, <2>3, <2>5, <2>6, Quiet DEF unchangedByTip, Fields
  <2>7. ASSUME NEW step \in {"state", "switch"}, Goes(v, step) PROVE IInv'
    <3>1. step \in CallSteps \ FailSteps
      BY DEF CallSteps, ResetSteps, SwitchSteps, FailSteps
    <3>2. CallType' /\ call'["tick"] = call["tick"]
      BY <1>1, <2>7, <3>1, GoesTo, ThreadNames
    <3>3. Fields' /\ TickShape' /\ Unfailed' /\ (thrown \subseteq Threads)'
          /\ TickNeverThrows'
      BY <1>1, <2>1, <3>2
      DEF unchangedByTip, Fields, TickShape, Unfailed, TickNeverThrows
    <3> QED BY <2>3, <2>5, <3>2, <3>3, PartsNext
  <2>8. UNCHANGED call \/ Goes(v, "state") \/ Goes(v, "switch")
    BY <1>3 DEF UpdatedBlockTip, TipInitial, TipLost, TipForgets, TipKnown, TipReached
  <2> QED BY <2>6, <2>7, <2>8
<1> QED BY <1>2, <1>3

-----------------------------------------------------------------------------
\* The jumps of ProcessTick keep its shape.
LEMMA Jumps ==
    ASSUME TickShape, vNodes \in Seq(Peers)
    PROVE  /\ \A pc \in TickSteps \ {"idle"} :
                tick.pc # "idle" /\ Goto(pc) => TickShape' /\ tick'.pc = pc
           /\ EndTick => TickShape' /\ tick'.pc = "idle"
           /\ tick.pc # "idle" /\ NextNode
                => TickShape' /\ tick'.pc \in {"idle", "node"}
           /\ EnterLoop => TickShape' /\ tick'.pc \in {"idle", "node"}
<1>1. ASSUME NEW pc \in TickSteps \ {"idle"}, tick.pc # "idle", Goto(pc)
      PROVE  TickShape' /\ tick'.pc = pc
  BY <1>1 DEF TickShape, Goto
<1>2. ASSUME EndTick PROVE TickShape' /\ tick'.pc = "idle"
  BY <1>2 DEF TickShape, EndTick, TickSteps
<1>3. ASSUME tick.pc # "idle", NextNode
      PROVE  TickShape' /\ tick'.pc \in {"idle", "node"}
  <2>1. CASE Len(tick.rest) = 1
    BY <1>2, <1>3, <2>1 DEF NextNode
  <2>2. CASE Len(tick.rest) # 1
    <3> DEFINE rest == Tail(tick.rest)
    <3>1. tick.rest \in Seq(Peers) /\ tick.rest # <<>>
      BY <1>3 DEF TickShape
    <3>2. rest \in Seq(Peers) /\ Len(rest) = Len(tick.rest) - 1
      BY <3>1, HeadTailProperties
    <3>3. rest # <<>>
      <4>1. Len(tick.rest) \in Nat \ {0, 1} /\ Len(<<>>) = 0
        BY <2>2, <3>1, EmptySeq
      <4>2. Len(rest) # 0
        BY <3>2, <4>1
      <4> HIDE DEF rest
      <4> QED
        BY <4>1, <4>2
    <3>4. tick' = [pc |-> "node", rest |-> rest]
      BY <1>3, <2>2 DEF NextNode
    <3> HIDE DEF rest
    <3> QED
      BY <3>2, <3>3, <3>4 DEF TickShape, TickSteps
  <2> QED
    BY <2>1, <2>2
<1>4. ASSUME EnterLoop PROVE TickShape' /\ tick'.pc \in {"idle", "node"}
  BY <1>2, <1>4 DEF EnterLoop, TickShape, TickSteps
<1> QED
  BY <1>1, <1>2, <1>3, <1>4

\* A step of ProcessTick keeps the invariant when it keeps the types, enters
\* Fail only as it leaves the loop, and stays in the loop, or enters
\* SwitchToNextAsset, only with a sync that has not failed.
LEMMA Ticks ==
    ASSUME IInv, UNCHANGED unchangedByTick, Fields', TickShape',
           fDisconnect' \subseteq Peers, late' \in {late, 0},
           Disturb \/ UNCHANGED events, Outside("tick"), NEW step \in CallSteps,
           Goes("tick", step) \/ (UNCHANGED call /\ step = "none"),
           step \in FailSteps => tick'.pc = "idle",
           tick'.pc # "idle" \/ step \notin {"none", "state"}
             => sync'.state # "Failed"
    PROVE  IInv'
<1>1. /\ Net /\ TipType /\ CallType
      /\ thrown \subseteq Threads /\ TickNeverThrows
  BY Parts
<1>2. late' \in 0 .. MaxStall
  BY <1>1, SyncAssumptions DEF Net
<1>3. events' \in 0 .. MaxEvents
  BY <1>1, Disturbed DEF Net
<1>4. /\ Net' /\ TipType' /\ (thrown \subseteq Threads)' /\ TickNeverThrows'
  BY <1>1, <1>2, <1>3 DEF unchangedByTick, Net, TipType, TickNeverThrows
<1>5. CallType' /\ call'["tick"].step = step
  <2>1. CASE Goes("tick", step)
    BY <1>1, <2>1, GoesTo, ThreadNames
  <2>2. CASE UNCHANGED call /\ step = "none"
    BY <1>1, <2>2 DEF CallType, Outside, At
  <2> QED BY <2>1, <2>2
<1>6. Unfailed'
  BY <1>5 DEF Unfailed
<1> QED BY <1>4, <1>5, <1>6, PartsNext

\* The steps in which ProcessTick enters a shared method, and their kinds.
LEMMA Entries ==
    /\ {"none", "state", "switch"} \subseteq CallSteps \ FailSteps
    /\ "stamp" \in CallSteps
BY DEF CallSteps, ResetSteps, SwitchSteps, FailSteps

\* The body before the loop starts no loop for a failed sync.
LEMMA TickStartIInv ==
    ASSUME IInv, TickStart
    PROVE  IInv'
<1> DEFINE s == [sync EXCEPT !.process = 0]
<1>1. /\ Fields /\ Net /\ TickShape /\ vNodes \in Seq(Peers)
  BY Parts DEF Net
<1>2. /\ s \in SyncFields /\ s.state = sync.state /\ s.ibdDone = sync.ibdDone
  <2>1. 0 \in Times(SleepLimit)
    BY SyncAssumptions DEF Times
  <2> QED BY <1>1, <2>1 DEF Fields, SyncFields
<1>3. /\ UNCHANGED unchangedByTick /\ late' = 0 /\ UNCHANGED <<fulfilled, fDisconnect>>
      /\ fDisconnect \subseteq Peers /\ Outside("tick") /\ fulfilled' \in Trackers
  BY <1>1 DEF TickStart, InTick, Net, Fields
<1>4. ASSUME Goes("tick", "state") \/ UNCHANGED call, EndTick,
             Disturb \/ UNCHANGED events, sync' \in SyncFields
      PROVE  IInv'
  <2>1. Fields' /\ TickShape' /\ tick'.pc = "idle"
    BY <1>1, <1>3, <1>4, Jumps DEF Fields
  <2>2. PICK step \in {"none", "state"} :
           Goes("tick", step) \/ (UNCHANGED call /\ step = "none")
    BY <1>4
  <2> QED BY SMTT(30), <1>3, <1>4, <2>1, <2>2, Entries, Ticks
<1>5. ASSUME SyncedCheck(s), EndTick PROVE IInv'
  <2>1. CASE sync' = s /\ UNCHANGED <<call, events>>
    BY <1>2, <1>4, <1>5, <2>1
  <2>2. CASE CheckDue(s) /\ Disturb /\ Restart("tick")
             /\ sync' = [s EXCEPT !.resync = @ + 1]
    <3> HIDE DEF s
    <3>1. s.resync + 1 \in 0 .. 3
      BY <1>2, <2>2 DEF CheckDue, SyncFields
    <3>2. sync' \in SyncFields
      BY <1>2, <2>2, <3>1 DEF SyncFields
    <3> QED BY <1>4, <1>5, <2>2, <3>2 DEF Restart
  <2> QED BY <1>5, <2>1, <2>2 DEF SyncedCheck
<1>6. ASSUME s.state \notin {"Failed", "Finished"}, EnterLoop, UNCHANGED <<call, events>>,
             sync' = IF s.state = "Initial" /\ ~ibd /\ s.ibdDone = NoTime
                     THEN [s EXCEPT !.ibdDone = 0] ELSE s
      PROVE  IInv'
  <2>1. sync' \in SyncFields /\ sync'.state = s.state
    <3>1. 0 \in Times(StuckLimit)
      BY SyncAssumptions DEF Times
    <3> HIDE DEF s
    <3> QED BY <1>2, <1>6, <3>1 DEF SyncFields
  <2>2. Fields' /\ TickShape'
    BY <1>1, <1>3, <1>6, <2>1, Jumps DEF Fields
  <2> QED BY SMTT(30), <1>3, <1>6, <2>1, <2>2, Entries, Ticks
<1>7. \/ /\ Restart("tick") /\ EndTick /\ UNCHANGED <<sync, events>>
      \/ /\ Restart("tick") \/ UNCHANGED call
         /\ EndTick /\ sync' = s /\ UNCHANGED events
      \/ SyncedCheck(s) /\ EndTick
      \/ /\ s.state \notin {"Failed", "Finished"} /\ EnterLoop
         /\ UNCHANGED <<call, events>>
         /\ sync' = IF s.state = "Initial" /\ ~ibd /\ s.ibdDone = NoTime
                    THEN [s EXCEPT !.ibdDone = 0] ELSE s
  BY DEF TickStart
<1> HIDE DEF s
<1> QED BY SMTT(30), <1>1, <1>2, <1>4, <1>5, <1>6, <1>7 DEF Restart, Fields

\* A step of the loop that leaves the fields alone.
LEMMA LoopIInv ==
    ASSUME IInv, NEW step \in {"none", "switch", "stamp"},
           Goes("tick", step) \/ (UNCHANGED call /\ step = "none"),
           Outside("tick"), tick.pc # "idle", TickShape',
           step = "stamp" => tick'.pc = "idle",
           UNCHANGED <<sync, fulfilled, late, events>>,
           fDisconnect' \subseteq Peers, UNCHANGED unchangedByTick
    PROVE  IInv'
<1>1. Fields /\ Unfailed
  BY Parts
<1>2. Fields' /\ sync'.state # "Failed"
  BY <1>1 DEF Fields, Unfailed
<1>3. step \in CallSteps /\ (step \in FailSteps => step = "stamp")
  BY Entries DEF FailSteps
<1> QED BY <1>2, <1>3, Ticks

\* Asking a peer, or skipping it, does not change the state.
LEMMA AskIInv ==
    ASSUME IInv, NEW r \in Requests, AskOnce(r), tick.pc # "idle",
           Outside("tick"), UNCHANGED <<fDisconnect, call, late, events>>,
           UNCHANGED unchangedByTick
    PROVE  IInv'
<1>1. /\ Fields /\ Net /\ TickShape /\ Unfailed
      /\ vNodes \in Seq(Peers) /\ fDisconnect \subseteq Peers
  BY Parts DEF Net
<1>2. Head(tick.rest) \in Peers
  BY <1>1, HeadTailProperties DEF TickShape
<1>3. sync' \in SyncFields /\ sync'.state = sync.state
  BY <1>1 DEF AskOnce, Fields, SyncFields
<1>4. fulfilled' \in Trackers
  <2>1. ExpireTime \in 0 .. ExpireTime
    BY SyncAssumptions
  <2>2. ASSUME NEW p \in Peers PROVE AddFulfilled(p, r) \in Trackers
    BY <1>1, <2>1 DEF AddFulfilled, Fields, Trackers
  <2>3. fulfilled' = fulfilled \/ fulfilled' = AddFulfilled(Head(tick.rest), r)
    BY DEF AskOnce
  <2> QED BY SMTT(30), <1>1, <1>2, <2>2, <2>3 DEF Fields
<1>5. TickShape'
  BY <1>1, Jumps DEF AskOnce
<1>6. Fields' /\ sync'.state # "Failed"
  BY <1>1, <1>3, <1>4 DEF Fields, Unfailed
<1> QED BY SMTT(30), <1>1, <1>5, <1>6, Entries, Ticks

\* Every step of ProcessTick keeps the invariant.
LEMMA ProcessTickIInv ==
    ASSUME IInv, ProcessTick
    PROVE  IInv'
<1>1. /\ TickShape /\ Net
      /\ vNodes \in Seq(Peers) /\ fDisconnect \subseteq Peers
  BY Parts DEF Net
<1>2. CASE TickStart
  BY <1>2, TickStartIInv
<1>3. CASE TickNode
  <2>1. fDisconnect' \subseteq Peers
    <3>1. Connected \subseteq Peers
      BY <1>1 DEF Connected, ToSet
    <3> QED BY <1>1, <1>3, <3>1 DEF TickNode
  <2>2. TickShape' /\ tick.pc # "idle" /\ Outside("tick")
    BY <1>1, <1>3, Jumps DEF TickNode, InTick, TickSteps
  <2>3. PICK step \in {"none", "switch"} :
           Goes("tick", step) \/ (UNCHANGED call /\ step = "none")
    BY <1>3 DEF TickNode
  <2> QED BY SMTT(30), <1>3, <2>1, <2>2, <2>3, LoopIInv DEF TickNode
<1>4. CASE TickList \/ TickWinners
  <2>1. TickShape' /\ tick.pc # "idle" /\ Outside("tick")
    BY <1>1, <1>4, Jumps DEF TickList, TickWinners, TickAsset, InTick, TickSteps
  <2>2. UNCHANGED <<sync, fulfilled, fDisconnect, call, late, events>>
        /\ UNCHANGED unchangedByTick
    BY <1>4 DEF TickList, TickWinners, TickAsset
  <2> QED BY SMTT(30), <1>1, <2>1, <2>2, LoopIInv
<1>5. CASE TickListTimeout \/ TickWinnersTimeout
  <2>1. PICK step \in {"stamp", "switch"} :
           Goes("tick", step) /\ TickShape' /\ (step = "stamp" => tick'.pc = "idle")
    BY <1>1, <1>5, Jumps
    DEF TickListTimeout, TickWinnersTimeout, CheckSyncTimeout, InTick, TickSteps
  <2>2. tick.pc # "idle" /\ Outside("tick")
        /\ UNCHANGED <<sync, fulfilled, fDisconnect, late, events>>
        /\ UNCHANGED unchangedByTick
    BY <1>5 DEF TickListTimeout, TickWinnersTimeout, CheckSyncTimeout, InTick
  <2> QED BY SMTT(30), <1>1, <2>1, <2>2, LoopIInv
<1>6. CASE TickListAsk
  BY <1>6, AskIInv DEF TickListAsk, InTick, Requests
<1>7. CASE TickWinnersAsk
  <2>1. CASE AskOnce("payment") /\ UNCHANGED call
    BY <1>7, <2>1, AskIInv DEF TickWinnersAsk, InTick, Requests
  <2>2. CASE Goes("tick", "switch") /\ EndTick /\ UNCHANGED <<sync, fulfilled>>
    <3>1. TickShape' /\ tick.pc # "idle" /\ Outside("tick")
      BY <1>1, <1>7, <2>2, Jumps DEF TickWinnersAsk, InTick
    <3> QED BY SMTT(30), <1>1, <1>7, <2>2, <3>1, LoopIInv DEF TickWinnersAsk
  <2> QED BY <1>7, <2>1, <2>2 DEF TickWinnersAsk
<1>8. CASE TickGov
  <2>1. TickShape' /\ tick.pc # "idle" /\ Outside("tick")
    BY <1>1, <1>8, Jumps DEF TickGov, InTick
  <2>2. PICK step \in {"none", "switch"} :
           Goes("tick", step) \/ (UNCHANGED call /\ step = "none")
    BY <1>8 DEF TickGov
  <2> QED BY SMTT(30), <1>1, <1>8, <2>1, <2>2, LoopIInv DEF TickGov
<1> QED BY SMTT(30), <1>2, <1>3, <1>4, <1>5, <1>6, <1>7, <1>8 DEF ProcessTick

-----------------------------------------------------------------------------
\* The invariant holds in every reachable state of the sync.
THEOREM Invariance == Spec => []IInv
<1>1. IInv /\ [Next]_vars => IInv'
  <2> SUFFICES ASSUME IInv, [Next]_vars PROVE IInv'
    OBVIOUS
  <2>1. CASE Next
    BY SMTT(30), <2>1, TimeIInv, LinkIInv, HandlerIInv, TipIInv, ProcessTickIInv,
       CallIInv DEF Next
  <2>2. CASE UNCHANGED vars
    BY <2>2 DEF vars, IInv, TypeOK, TickNeverThrows, Unfailed
  <2> QED BY <2>1, <2>2
<1> QED BY <1>1, InitIInv, PTL DEF Spec

\* The fields of CMasternodeSync and the tracker stay well formed, and only
\* the maintenance thread fails the sync, for every set of peers and of
\* validation threads, every time limit and any number of disturbances.
THEOREM TypeCorrect == Spec => []TypeOK
BY Invariance, PTL DEF IInv

\* SwitchToNextAsset never throws in the maintenance thread, however the
\* writes of the block-tip callbacks, the message handlers and the RPC
\* interleave with it.
THEOREM MaintenanceThreadNeverThrows == Spec => []TickNeverThrows
BY Invariance, PTL DEF IInv

=============================================================================
