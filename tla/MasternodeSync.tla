--------------------------- MODULE MasternodeSync ---------------------------
(***************************************************************************)
(* The masternode synchronisation of one node (class CMasternodeSync) with *)
(* the tracker of fulfilled requests it consults.                          *)
(*                                                                         *)
(* Four kinds of thread touch the same fields, and no lock protects them:  *)
(*   - the maintenance thread runs ProcessTick (the variable tick);        *)
(*   - validation threads run UpdatedBlockTip, without cs_main (tip);      *)
(*   - an RPC thread runs the mnsync command;                              *)
(*   - message and header handlers postpone the timeout.                   *)
(* ProcessTick and UpdatedBlockTip are cut where they read syncState again *)
(* after having acted on an earlier reading.  Reset, SwitchToNextAsset and *)
(* Fail, which all these threads call, are cut at every field they write   *)
(* (the variable call), so all of this interleaves.                        *)
(*                                                                         *)
(* Time is counted in executions of ProcessTick's body.  A time stamp of   *)
(* the code is kept as the number of ticks since it was taken, and the     *)
(* stamp 0 as NoTime.  A tracker entry is kept as the ticks it still has.  *)
(***************************************************************************)
EXTENDS Integers, Sequences, FiniteSets, SequencesExt

CONSTANTS
    Validators,     \* the threads that may connect a block
    Peers,          \* the addresses the node can be connected to
    Ignored,        \* peers ProcessTick skips: masternode or inbound links
    SyncTimeout,    \* MasternodeSyncTimeoutSeconds
    Cooldown,       \* the minute of rest after a failure
    StuckLimit,     \* the ten minutes allowed in Initial once IBD is over
    SleepLimit,     \* the hour after which the node is taken to have slept
    CheckInterval,  \* MNSyncCheckInterval
    CheckWindow,    \* the six seconds in which the check of a synced node runs
    CheckEnabled,   \* bEnableMNSyncCheckAndReset
    ExpireTime,     \* nFulfilledRequestExpireTime
    MaxStall,       \* bound: ticks of time between two runs of ProcessTick
    MaxEvents,      \* bound: disturbances (tips, headers, data, lost links,
                    \* stalls, lists that are too short, commands)
    TipKinds,       \* new tips to expect: TRUE reaches the best header
    RpcCommands     \* the mnsync subcommands the operator may issue

ASSUME SyncAssumptions ==
    /\ IsFiniteSet(Peers) /\ Ignored \subseteq Peers
    /\ {"tick", "rpc"} \cap Validators = {}
    /\ {SyncTimeout, Cooldown, StuckLimit, SleepLimit, CheckInterval,
        CheckWindow, ExpireTime, MaxStall} \subseteq Nat \ {0}
    /\ SyncTimeout <= CheckInterval
    /\ MaxEvents \in Nat
    /\ CheckEnabled \in BOOLEAN
    /\ TipKinds \subseteq BOOLEAN
    /\ RpcCommands \subseteq {"next", "reset"}

VARIABLES
    sync,           \* the fields of CMasternodeSync
    fulfilled,      \* mapFulfilledRequests: ticks left, 0 when not fulfilled
    vNodes,         \* connected peers, oldest first
    fDisconnect,    \* peers flagged for disconnection
    ibd,            \* what IsInitialBlockDownload returns
    fReachedBestHeader,
    tick,           \* the maintenance thread: program counter, nodes to visit
    tip,            \* the validation threads: program counter, arguments
    call,           \* what each thread does in the methods they share
    thrown,         \* the threads in which SwitchToNextAsset threw
    late,           \* ticks of time since ProcessTick last ran
    events          \* disturbances left

vars == <<sync, fulfilled, vNodes, fDisconnect, ibd, fReachedBestHeader,
          tick, tip, call, thrown, late, events>>

Threads == Validators \cup {"tick", "rpc"}

States == {"Failed", "Initial", "Waiting", "List", "Winners", "Governance",
           "Finished"}

Requests == {"list", "payment", "full"}

NoTime == -1

TickSteps == {"idle", "node", "list", "listTimeout", "listAsk", "winners",
              "winnersTimeout", "winnersAsk", "gov"}

TipSteps == {"idle", "checked", "lost", "reached"}

\* The fields that Reset writes, in this order.
ResetSteps == {"state", "attempt", "bumped", "failure", "process", "ibdDone",
               "resync"}
SwitchSteps == {"switch", "write", "mark", "zero", "bump"}
FailSteps == {"stamp", "fail"}
CallSteps == ResetSteps \cup SwitchSteps \cup FailSteps \cup {"none"}

-----------------------------------------------------------------------------
(* The methods of CMasternodeSync that the threads share.                  *)

IsBlockchainSynced(s) ==
    s.state \in {"List", "Winners", "Governance", "Finished"}

\* Bumps are ignored once the sync has finished or failed.
BumpAssetLastTime(s) ==
    IF s.state \in {"Finished", "Failed"} THEN s ELSE [s EXCEPT !.bumped = 0]

\* The asset that follows st; Finished is left as it is.
NextAsset(st) ==
    CASE st = "Initial"    -> "Waiting"
      [] st = "Waiting"    -> "List"
      [] st = "List"       -> "Winners"
      [] st = "Winners"    -> "Governance"
      [] st = "Governance" -> "Finished"
      [] OTHER             -> st

Connected == ToSet(vNodes)

\* AddFulfilledRequest, for one peer.
AddFulfilled(p, r) == [fulfilled EXCEPT ![p][r] = ExpireTime]

HasFulfilled(p, r) == fulfilled[p][r] > 0

\* ClearFulfilledRequests: only the peers connected now are cleared.
ClearedRequests ==
    [p \in Peers |-> IF p \in Connected THEN [r \in Requests |-> 0]
                                        ELSE fulfilled[p]]

MarkedFullSync ==
    [p \in Peers |-> IF p \in Connected
                     THEN [fulfilled[p] EXCEPT !["full"] = ExpireTime]
                     ELSE fulfilled[p]]

unchangedByCall == <<vNodes, fDisconnect, ibd, fReachedBestHeader, tick, tip,
                     late, events>>

\* Thread t goes on with, or starts, a step of these methods.
At(t, step) == call[t].step = step
Goes(t, step) == call' = [call EXCEPT ![t].step = step]
Outside(t) == At(t, "none")

\* Mutant: a restart switches without the reset.
RestartUnreset(t) == Goes(t, "switch")

\* Reset, followed by SwitchToNextAsset.
Restart(t) == Goes(t, "state")

\* What the constructor and Reset write.
Cleared ==
    [state |-> "Initial", attempt |-> 0, bumped |-> 0, failure |-> NoTime,
     process |-> NoTime, ibdDone |-> NoTime, resync |-> 0]

NextField ==
    [state |-> "attempt", attempt |-> "bumped", bumped |-> "failure",
     failure |-> "process", process |-> "ibdDone", ibdDone |-> "resync"]

\* Reset: one field.  UpdatedBlockTip does not switch after it.
ResetField(t) ==
    /\ call[t].step \in ResetSteps
    /\ LET f == call[t].step IN
       /\ sync' = [sync EXCEPT ![f] = Cleared[f]]
       /\ Goes(t, IF f # "resync" THEN NextField[f]
                  ELSE IF t \in Validators THEN "none" ELSE "switch")
    /\ UNCHANGED <<fulfilled, thrown>>
    /\ UNCHANGED unchangedByCall

\* SwitchToNextAsset reads syncState, and throws when the sync has failed.
SwitchThrows(t) ==
    /\ At(t, "switch") /\ sync.state = "Failed"
    /\ thrown' = thrown \cup {t}
    /\ Goes(t, "none")
    /\ UNCHANGED <<sync, fulfilled>>
    /\ UNCHANGED unchangedByCall

SwitchReads(t) ==
    /\ At(t, "switch") /\ sync.state # "Failed"
    /\ call' = [call EXCEPT ![t] = [step |-> "write", read |-> sync.state]]
    /\ fulfilled' = IF sync.state \in {"Initial", "Waiting"} THEN ClearedRequests
                                                            ELSE fulfilled
    /\ UNCHANGED <<sync, thrown>>
    /\ UNCHANGED unchangedByCall

\* It writes the asset after the one it has read; Finished is left as it is.
SwitchWrites(t) ==
    /\ At(t, "write")
    /\ sync' = IF call[t].read = "Finished" THEN sync
               ELSE [sync EXCEPT !.state = NextAsset(call[t].read)]
    /\ Goes(t, IF call[t].read = "Governance" THEN "mark" ELSE "zero")
    /\ UNCHANGED <<fulfilled, thrown>>
    /\ UNCHANGED unchangedByCall

\* A finished sync records with whom it was done.
SwitchMarks(t) ==
    /\ At(t, "mark")
    /\ fulfilled' = MarkedFullSync
    /\ Goes(t, "zero")
    /\ UNCHANGED <<sync, thrown>>
    /\ UNCHANGED unchangedByCall

SwitchZeroes(t) ==
    /\ At(t, "zero")
    /\ sync' = [sync EXCEPT !.attempt = 0]
    /\ Goes(t, "bump")
    /\ UNCHANGED <<fulfilled, thrown>>
    /\ UNCHANGED unchangedByCall

SwitchBumps(t) ==
    /\ At(t, "bump")
    /\ sync' = BumpAssetLastTime(sync)
    /\ Goes(t, "none")
    /\ UNCHANGED <<fulfilled, thrown>>
    /\ UNCHANGED unchangedByCall

\* Fail takes the time before it sets the state.
FailStamps(t) ==
    /\ At(t, "stamp")
    /\ sync' = [sync EXCEPT !.failure = 0]
    /\ Goes(t, "fail")
    /\ UNCHANGED <<fulfilled, thrown>>
    /\ UNCHANGED unchangedByCall

FailWrites(t) ==
    /\ At(t, "fail")
    /\ sync' = [sync EXCEPT !.state = "Failed"]
    /\ Goes(t, "none")
    /\ UNCHANGED <<fulfilled, thrown>>
    /\ UNCHANGED unchangedByCall

CallStep(t) ==
    \/ ResetField(t)
    \/ SwitchThrows(t) \/ SwitchReads(t) \/ SwitchWrites(t) \/ SwitchMarks(t)
    \/ SwitchZeroes(t) \/ SwitchBumps(t)
    \/ FailStamps(t) \/ FailWrites(t)

TimedOut(s) == s.bumped > SyncTimeout

-----------------------------------------------------------------------------
Init ==
    /\ sync = Cleared
    /\ fulfilled \in [Peers -> [Requests -> {0}]]
    /\ vNodes = <<>>
    /\ fDisconnect = {}
    /\ ibd \in BOOLEAN
    /\ fReachedBestHeader = FALSE
    /\ tick = [pc |-> "idle", rest |-> <<>>]
    /\ tip = [v \in Validators |-> [pc |-> "idle", ibd |-> FALSE,
                                    reached |-> FALSE]]
    /\ call = [t \in Threads |-> [step |-> "none", read |-> "Initial"]]
    /\ thrown = {}
    /\ late = 0
    /\ events = MaxEvents

-----------------------------------------------------------------------------
(* The environment: time, links, initial block download.                   *)

Disturb == events > 0 /\ events' = events - 1

Older(age, limit) ==
    IF age = NoTime THEN NoTime ELSE IF age > limit THEN age ELSE age + 1

\* The age of nTimeLastBumped keeps its remainder modulo CheckInterval.
OlderBump(age) ==
    IF age < 2 * CheckInterval THEN age + 1 ELSE age + 1 - CheckInterval

\* Nothing is late: ProcessTick has run, and no thread is in a shared method.
OnTime ==
    /\ late = 0
    /\ \A t \in Threads : Outside(t)
    /\ \A v \in Validators : tip[v].pc = "idle"

\* A tick of time.  The body of ProcessTick takes less than a tick; that it
\* does not run for more than a tick (the machine slept), and that another
\* thread is delayed for a tick, is a disturbance.
TimePasses ==
    /\ Outside("tick") /\ tick.pc = "idle"
    /\ late < MaxStall
    /\ IF OnTime THEN UNCHANGED events ELSE Disturb
    /\ late' = late + 1
    /\ sync' = [sync EXCEPT !.bumped  = OlderBump(@),
                            !.failure = Older(@, Cooldown),
                            !.process = Older(@, SleepLimit),
                            !.ibdDone = Older(@, StuckLimit)]
    /\ fulfilled' = [p \in Peers |-> [r \in Requests |->
                        IF fulfilled[p][r] > 0 THEN fulfilled[p][r] - 1 ELSE 0]]
    /\ UNCHANGED <<vNodes, fDisconnect, ibd, fReachedBestHeader, tick, tip,
                   call, thrown>>

Connect(p) ==
    /\ p \notin Connected
    /\ vNodes' = Append(vNodes, p)
    /\ UNCHANGED <<sync, fulfilled, fDisconnect, ibd, fReachedBestHeader, tick,
                   tip, call, thrown, late, events>>

\* The socket thread drops a flagged peer; a link may also be lost.
Disconnect(p) ==
    /\ p \in Connected
    /\ IF p \in fDisconnect THEN UNCHANGED events ELSE Disturb
    /\ \E i \in DOMAIN vNodes : vNodes[i] = p /\ vNodes' = RemoveAt(vNodes, i)
    /\ fDisconnect' = fDisconnect \ {p}
    /\ UNCHANGED <<sync, fulfilled, ibd, fReachedBestHeader, tick, tip, call,
                   thrown, late>>

\* The latch of IsInitialBlockDownload: once false it remains false.
LeaveIBD ==
    /\ ibd
    /\ ibd' = FALSE
    /\ UNCHANGED <<sync, fulfilled, vNodes, fDisconnect, fReachedBestHeader,
                   tick, tip, call, thrown, late, events>>

-----------------------------------------------------------------------------
(* Message and header handlers, and the mnsync RPC.                        *)

\* AcceptedBlockHeader and NotifyHeaderTip postpone the timeout.
HeaderArrives ==
    /\ Disturb
    /\ ~IsBlockchainSynced(sync)
    /\ sync' = BumpAssetLastTime(sync)
    /\ UNCHANGED <<fulfilled, vNodes, fDisconnect, ibd, fReachedBestHeader,
                   tick, tip, call, thrown, late>>

\* A new broadcast, ping or payment vote from a peer bumps the asset.
AssetDataArrives ==
    /\ Disturb
    /\ vNodes # <<>>
    /\ sync' = BumpAssetLastTime(sync)
    /\ UNCHANGED <<fulfilled, vNodes, fDisconnect, ibd, fReachedBestHeader,
                   tick, tip, call, thrown, late>>

\* The mnsync RPC; an exception of its switch is reported to the operator.
MnSyncCommand(c) ==
    /\ Outside("rpc")
    /\ Disturb
    /\ \/ c = "next"  /\ Goes("rpc", "switch")
       \/ c = "reset" /\ Restart("rpc")
    /\ UNCHANGED <<sync, fulfilled, vNodes, fDisconnect, ibd,
                   fReachedBestHeader, tick, tip, thrown, late>>

-----------------------------------------------------------------------------
(* UpdatedBlockTip, in a validation thread v.                              *)

unchangedByTip == <<fulfilled, vNodes, fDisconnect, ibd, tick, thrown, late>>

InTip(v, pc) == Outside(v) /\ tip[v].pc = pc

TipTo(v, pc) == tip' = [tip EXCEPT ![v].pc = pc]

\* The guards and the bump; reached: the new tip is the best header.
TipStart(v, reached) ==
    /\ InTip(v, "idle")
    /\ Disturb
    /\ sync.state \notin {"Failed", "Finished"}
    /\ sync' = IF IsBlockchainSynced(sync) THEN sync
                                           ELSE BumpAssetLastTime(sync)
    /\ tip' = [tip EXCEPT ![v] = [pc |-> "checked", ibd |-> ibd,
                                  reached |-> reached]]
    /\ UNCHANGED <<fReachedBestHeader, call>>
    /\ UNCHANGED unchangedByTip

\* The initial-download branch: "switched too early".
TipInitial(v) ==
    /\ InTip(v, "checked") /\ tip[v].ibd
    /\ IF IsBlockchainSynced(sync) THEN Goes(v, "state") ELSE UNCHANGED call
    /\ TipTo(v, "idle")
    /\ UNCHANGED <<sync, fReachedBestHeader, events>>
    /\ UNCHANGED unchangedByTip

\* The tip is no longer the best header: Reset, and then the flag.
TipLost(v) ==
    /\ InTip(v, "checked") /\ ~tip[v].ibd
    /\ fReachedBestHeader /\ ~tip[v].reached
    /\ Goes(v, "state")
    /\ TipTo(v, "lost")
    /\ UNCHANGED <<sync, fReachedBestHeader, events>>
    /\ UNCHANGED unchangedByTip

TipForgets(v) ==
    /\ InTip(v, "lost")
    /\ fReachedBestHeader' = FALSE
    /\ TipTo(v, "idle")
    /\ UNCHANGED <<sync, call, events>>
    /\ UNCHANGED unchangedByTip

TipKnown(v) ==
    /\ InTip(v, "checked") /\ ~tip[v].ibd
    /\ ~fReachedBestHeader \/ tip[v].reached
    /\ fReachedBestHeader' = tip[v].reached
    /\ TipTo(v, "reached")
    /\ UNCHANGED <<sync, call, events>>
    /\ UNCHANGED unchangedByTip

\* The last test: a failed sync counts as not synced, and the switch that
\* follows throws when the sync has failed.
TipReached(v) ==
    /\ InTip(v, "reached")
    /\ IF ~IsBlockchainSynced(sync) /\ fReachedBestHeader
       THEN Goes(v, "switch") ELSE UNCHANGED call
    /\ TipTo(v, "idle")
    /\ UNCHANGED <<sync, fReachedBestHeader, events>>
    /\ UNCHANGED unchangedByTip

-----------------------------------------------------------------------------
(* ProcessTick, in the maintenance thread.                                 *)

unchangedByTick == <<vNodes, ibd, fReachedBestHeader, tip, thrown>>

InTick(pc) == Outside("tick") /\ tick.pc = pc

Goto(pc) == tick' = [tick EXCEPT !.pc = pc]

EndTick == tick' = [pc |-> "idle", rest |-> <<>>]

\* Mutant: the loop runs past the last node.
NextNodePastEnd == tick' = [pc |-> "node", rest |-> Tail(tick.rest)]

\* continue: on to the next node of the copy taken when the loop began.
NextNode ==
    IF Len(tick.rest) = 1 THEN EndTick
    ELSE tick' = [pc |-> "node", rest |-> Tail(tick.rest)]

EnterLoop ==
    IF vNodes = <<>> THEN EndTick
    ELSE tick' = [pc |-> "node", rest |-> vNodes]

\* The periodic check of a synced node is due.
CheckDue(s) ==
    /\ CheckEnabled
    /\ s.bumped > CheckInterval
    /\ s.bumped % CheckInterval < CheckWindow
    /\ s.resync < 3

\* The check of a synced node.  It has enough masternodes, or the check is not
\* due; or else the attempt is counted, and Reset sets the counter to 0.
SyncedCheck(s) ==
    \/ /\ sync' = s
       /\ UNCHANGED <<call, events>>
    \/ /\ CheckDue(s)
       /\ Disturb
       /\ sync' = [s EXCEPT !.resync = @ + 1]
       /\ Restart("tick")

\* Mutant: without a time of failure the cooldown does not end.
RestedIfStamped(s) == s.failure > Cooldown

\* A failed sync rests for the cooldown.  A Reset may have taken away the time
\* of the failure before Fail set the state: then there is no cooldown.
Rested(s) == s.failure = NoTime \/ s.failure > Cooldown

StuckInInitial(s) == s.state = "Initial" /\ ~ibd /\ s.ibdDone > StuckLimit

\* The body before the loop over the nodes.
TickStart ==
    /\ InTick("idle")
    /\ late > 0
    /\ late' = 0
    /\ \/ /\ sync.process > SleepLimit
          /\ Restart("tick")
          /\ EndTick
          /\ UNCHANGED <<sync, events>>
       \/ /\ sync.process <= SleepLimit
          /\ LET s == [sync EXCEPT !.process = 0] IN
             \/ /\ s.state = "Failed"
                /\ IF Rested(s) THEN Restart("tick") ELSE UNCHANGED call
                /\ EndTick
                /\ sync' = s
                /\ UNCHANGED events
             \/ /\ s.state = "Finished"
                /\ SyncedCheck(s)
                /\ EndTick
             \/ /\ StuckInInitial(s)
                /\ Restart("tick")
                /\ EndTick
                /\ sync' = s
                /\ UNCHANGED events
             \/ /\ s.state \notin {"Failed", "Finished"} /\ ~StuckInInitial(s)
                /\ EnterLoop
                /\ sync' = IF s.state = "Initial" /\ ~ibd /\ s.ibdDone = NoTime
                           THEN [s EXCEPT !.ibdDone = 0] ELSE s
                /\ UNCHANGED <<call, events>>
    /\ UNCHANGED <<fulfilled, fDisconnect>>
    /\ UNCHANGED unchangedByTick

\* The head of an iteration: skipped nodes, synced nodes, initial timeout.
TickNode ==
    /\ InTick("node")
    /\ LET p == Head(tick.rest) IN
       \/ /\ p \in Ignored
          /\ NextNode
          /\ UNCHANGED <<fDisconnect, call>>
       \/ /\ p \notin Ignored /\ HasFulfilled(p, "full")
          /\ fDisconnect' = fDisconnect \cup ({p} \cap Connected)
          /\ NextNode
          /\ UNCHANGED call
       \/ /\ p \notin Ignored /\ ~HasFulfilled(p, "full")
          /\ Goto("list")
          /\ IF sync.state = "Waiting" /\ TimedOut(sync)
             THEN Goes("tick", "switch") ELSE UNCHANGED call
          /\ UNCHANGED fDisconnect
    /\ UNCHANGED <<sync, fulfilled, late, events>>
    /\ UNCHANGED unchangedByTick

\* The tests "syncState == asset" and, inside, of the timeout.
TickAsset(at, asset, timeout, ask, other) ==
    /\ InTick(at)
    /\ Goto(IF sync.state # asset THEN other
            ELSE IF TimedOut(sync) THEN timeout ELSE ask)
    /\ UNCHANGED <<sync, fulfilled, fDisconnect, call, late, events>>
    /\ UNCHANGED unchangedByTick

TickList == TickAsset("list", "List", "listTimeout", "listAsk", "winners")

TickWinners == TickAsset("winners", "Winners", "winnersTimeout", "winnersAsk",
                         "gov")

\* CheckSyncTimeout once the timeout is established: fail if nobody was asked.
CheckSyncTimeout(at, pc) ==
    /\ InTick(at)
    /\ \/ sync.attempt = 0 /\ Goes("tick", "stamp") /\ EndTick
       \/ sync.attempt # 0 /\ Goes("tick", "switch") /\ Goto(pc)
    /\ UNCHANGED <<sync, fulfilled, fDisconnect, late, events>>
    /\ UNCHANGED unchangedByTick

TickListTimeout == CheckSyncTimeout("listTimeout", "listAsk")

TickWinnersTimeout == CheckSyncTimeout("winnersTimeout", "winnersAsk")

\* "only request once from each peer"
AskOnce(r) ==
    LET p == Head(tick.rest) IN
    \/ /\ HasFulfilled(p, r)
       /\ NextNode
       /\ UNCHANGED <<sync, fulfilled>>
    \/ /\ ~HasFulfilled(p, r)
       /\ fulfilled' = AddFulfilled(p, r)
       /\ sync' = [sync EXCEPT !.attempt = @ + 1]
       /\ EndTick

TickListAsk ==
    /\ InTick("listAsk")
    /\ AskOnce("list")
    /\ UNCHANGED <<fDisconnect, call, late, events>>
    /\ UNCHANGED unchangedByTick

\* Enough payment data (IsEnoughData) ends the asset; else ask this peer.
TickWinnersAsk ==
    /\ InTick("winnersAsk")
    /\ \/ sync.attempt > 1 /\ Goes("tick", "switch") /\ EndTick
          /\ UNCHANGED <<sync, fulfilled>>
       \/ AskOnce("payment") /\ UNCHANGED call
    /\ UNCHANGED <<fDisconnect, late, events>>
    /\ UNCHANGED unchangedByTick

\* Without governance tickets: the return after the test is unconditional.
TickGov ==
    /\ InTick("gov")
    /\ IF sync.state = "Governance" THEN Goes("tick", "switch")
                                    ELSE UNCHANGED call
    /\ EndTick
    /\ UNCHANGED <<sync, fulfilled, fDisconnect, late, events>>
    /\ UNCHANGED unchangedByTick

-----------------------------------------------------------------------------
ProcessTick ==
    \/ TickStart \/ TickNode \/ TickList \/ TickListTimeout \/ TickListAsk
    \/ TickWinners \/ TickWinnersTimeout \/ TickWinnersAsk \/ TickGov

UpdatedBlockTip(v) ==
    \/ TipInitial(v) \/ TipLost(v) \/ TipForgets(v) \/ TipKnown(v)
    \/ TipReached(v)

Next ==
    \/ TimePasses
    \/ \E p \in Peers : Connect(p) \/ Disconnect(p)
    \/ LeaveIBD
    \/ HeaderArrives
    \/ AssetDataArrives
    \/ \E c \in RpcCommands : MnSyncCommand(c)
    \/ \E v \in Validators : \/ \E reached \in TipKinds : TipStart(v, reached)
                             \/ UpdatedBlockTip(v)
    \/ ProcessTick
    \/ \E t \in Threads : CallStep(t)

Spec == Init /\ [][Next]_vars

\* Every thread runs, time passes, the connection manager keeps dialling, the
\* socket thread drops the peers it was told to drop and the initial download
\* ends.  Disturbances need not happen.
Fairness ==
    /\ WF_vars(ProcessTick)
    /\ \A v \in Validators : WF_vars(UpdatedBlockTip(v))
    /\ \A t \in Threads : WF_vars(CallStep(t))
    /\ WF_vars(TimePasses)
    /\ WF_vars(LeaveIBD)
    /\ \A p \in Peers : /\ WF_vars(Connect(p))
                        /\ WF_vars(p \in fDisconnect /\ Disconnect(p))

FairSpec == Spec /\ Fairness

-----------------------------------------------------------------------------
(* Properties.                                                             *)

Times(limit) == {NoTime} \cup 0 .. limit + 1

SyncFields ==
    [state : States, attempt : Nat, bumped : 0 .. 2 * CheckInterval,
     failure : Times(Cooldown), process : Times(SleepLimit),
     ibdDone : Times(StuckLimit), resync : 0 .. 3]

Trackers == [Peers -> [Requests -> 0 .. ExpireTime]]

\* The fields have the values the code can give them; the maintenance thread
\* is in its loop exactly while it has nodes to visit, and only it fails.
TypeOK ==
    /\ sync \in SyncFields
    /\ fulfilled \in Trackers
    /\ vNodes \in Seq(Peers)
    /\ fDisconnect \subseteq Peers
    /\ ibd \in BOOLEAN /\ fReachedBestHeader \in BOOLEAN
    /\ tick \in [pc : TickSteps, rest : Seq(Peers)]
    /\ tick.pc = "idle" <=> tick.rest = <<>>
    /\ tip \in [Validators -> [pc : TipSteps, ibd : BOOLEAN, reached : BOOLEAN]]
    /\ call \in [Threads -> [step : CallSteps, read : States \ {"Failed"}]]
    /\ \A t \in Threads : call[t].step \in FailSteps => t = "tick"
    /\ thrown \subseteq Threads
    /\ late \in 0 .. MaxStall
    /\ events \in 0 .. MaxEvents

\* SwitchToNextAsset never throws in the maintenance thread: whatever the
\* other threads do between a test of ProcessTick and the call it leads to,
\* the sync has not failed when SwitchToNextAsset reads syncState.
TickNeverThrows == "tick" \notin thrown

\* Once the disturbances are over, the sync finishes and stays finished.
EventuallyFinished == <>[](sync.state = "Finished")

=============================================================================
