----------------------------- MODULE Masternode -----------------------------
(***************************************************************************)
(* The entry a node keeps for another masternode (class CMasternode): its  *)
(* state, its last ping, its PoSe (proof of service) score and its ban,    *)
(* and everything in the node that changes them.                           *)
(*                                                                         *)
(* The message-handler thread takes announcements, pings and verification  *)
(* messages, the maintenance thread checks and removes entries, an         *)
(* operator may start the masternode from this wallet or clear the list,   *)
(* and the chain and the clock move on.  These hold cs_mnMgr while they    *)
(* work on the entry, so each is one step.  The threads that move the tip  *)
(* do not: CheckSameAddr collects the entries under the lock and counts    *)
(* against them after it has let go of it, and the counter is tested and   *)
(* incremented separately.  Its three steps are three actions.  (The test  *)
(* and the increment of a thread that does hold the lock stay one step:    *)
(* what a tip thread does between them has the same result when its        *)
(* test comes before both and its increment after.)                        *)
(*                                                                         *)
(* An announcement carries its signing time, version, protocol and ping; a *)
(* ping carries its signing time, which is also its hash, and the height   *)
(* of the block it is signed on.  Whether a signature is good is an input. *)
(* GetTime and GetAdjustedTime are one clock.                              *)
(***************************************************************************)
EXTENDS Integers

CONSTANTS
    StartTime, MaxTime,      \* bound: the clock
    StartHeight, MaxHeight,  \* bound: the chain
    Pings,                   \* the pings the masternode signs
    Broadcasts,              \* its announcements
    StartAliasTimes,         \* bound: when the operator may start it
    MASTERNODE_VERSION,      \* announcements of a lower version are partial
    MaxProtocol,             \* bound: PROTOCOL_VERSION
    ListSize,                \* masternodeManager.size()
    POSEBanMaxScore,
    TipThreads,              \* bound: the tip callbacks that hold the entry
    MasternodeCheckSeconds, MasternodeMinMNBSeconds, MasternodeMinMNPSeconds,
    EarlyPingSeconds,        \* MasternodeMinMNPSeconds - 60
    MasternodeExpirationSeconds, MasternodeNewStartRequiredSeconds,
    FutureSeconds,           \* a signature may be so far in the future (1 hour)
    MN_PING_HEIGHT_OFFSET, MN_PING_HEIGHT_EXPIRATION,
    NoEntry

Times == 0 .. MaxTime + FutureSeconds
Heights == 0 .. MaxHeight
Protocols == 1 .. MaxProtocol
Versions == 0 .. MASTERNODE_VERSION
NoBlock == MaxHeight + 1     \* the block of a ping signed below the offset
PingType == [sigTime : Times, block : Heights \cup {NoBlock}]
BroadcastType == [sigTime : Times, version : Versions, protocol : Protocols,
                  ping : PingType]

ASSUME MasternodeAssumptions ==
    /\ StartTime \in Nat /\ MaxTime \in Nat /\ StartTime <= MaxTime
    /\ StartHeight \in Nat /\ MaxHeight \in Nat /\ StartHeight <= MaxHeight
    /\ Pings \subseteq PingType /\ Broadcasts \subseteq BroadcastType
    /\ MASTERNODE_VERSION \in Nat /\ MaxProtocol \in Nat \ {0}
    /\ ListSize \in Nat /\ POSEBanMaxScore \in Nat \ {0}
    /\ TipThreads \in Nat
    /\ MasternodeCheckSeconds \in Nat /\ MasternodeMinMNBSeconds \in Nat
    /\ MasternodeMinMNPSeconds \in Nat /\ EarlyPingSeconds \in Nat
    /\ MasternodeExpirationSeconds \in Nat
    /\ MasternodeNewStartRequiredSeconds \in Nat
    /\ FutureSeconds \in Nat
    /\ MN_PING_HEIGHT_OFFSET \in Nat /\ MN_PING_HEIGHT_EXPIRATION \in Nat

States == {"PRE_ENABLED", "ENABLED", "EXPIRED", "OUTPOINT_SPENT",
           "UPDATE_REQUIRED", "NEW_START_REQUIRED", "POSE_BAN"}
EntryType == [state : States, sigTime : Times, version : Versions,
              protocol : Protocols, ping : PingType,
              score : -POSEBanMaxScore .. POSEBanMaxScore + TipThreads,
              banHeight : 0 .. MaxHeight + ListSize, lastChecked : Times]

ASSUME NoEntryAssumption == NoEntry \notin EntryType

VARIABLES
    mn,         \* the entry in mapMasternodes, or NoEntry
    seenPings,  \* mapSeenMasternodePing: the signing times
    now, height,
    unspent,    \* the collateral is in the UTXO set
    mnid,       \* a Pastel ID is registered with the collateral
    supported,  \* GetSupportedProtocolVersion
    listSynced, \* IsMasternodeListSynced
    listed,     \* the tip callbacks with the entry in vBan, not yet looked at
    tested      \* those that have found its score below the limit

chain == <<height, unspent, mnid, supported>>
callbacks == <<listed, tested>>
vars == <<mn, seenPings, now, height, unspent, mnid, supported, listSynced,
          listed, tested>>

Init ==
    /\ mn = NoEntry /\ seenPings = {}
    /\ now = StartTime /\ height = StartHeight
    /\ unspent = TRUE /\ mnid \in BOOLEAN
    /\ supported = 1 /\ listSynced = FALSE
    /\ listed = 0 /\ tested = 0
-----------------------------------------------------------------------------
(***************************************************************************)
(* Check: the state machine of the entry m.                                *)
(***************************************************************************)
Distance(a, b) == IF a <= b THEN b - a ELSE a - b

\* IsPingedWithin: the last ping is less than the given time away from t.
PingedWithin(m, secs, t) == Distance(t, m.ping.sigTime) < secs
IsBroadcastedWithin(m, secs) == now - m.sigTime < secs

DecrementPoSeBanScore(m) ==
    IF m.score > -POSEBanMaxScore THEN [m EXCEPT !.score = @ - 1] ELSE m
\* Mutant: without the limit.
IncrementPoSeBanScoreNoLimit(m) == [m EXCEPT !.score = @ + 1]
IncrementPoSeBanScore(m) ==
    IF m.score < POSEBanMaxScore THEN [m EXCEPT !.score = @ + 1] ELSE m
IsPoSeBannedByScore(m) == m.score >= POSEBanMaxScore

WaitingForPing(m) ==
    ~listSynced /\ ~PingedWithin(m, MasternodeMinMNPSeconds, now)

\* The state of an entry that is neither spent nor banned.
StateOf(m) ==
    LET judged == ~WaitingForPing(m)
    IN  IF m.protocol < supported THEN "UPDATE_REQUIRED"
        ELSE IF ~judged /\ m.state \in {"EXPIRED", "NEW_START_REQUIRED"}
          THEN m.state
        ELSE IF judged
                 /\ ~PingedWithin(m, MasternodeNewStartRequiredSeconds, now)
          THEN "NEW_START_REQUIRED"
        ELSE IF judged /\ ~PingedWithin(m, MasternodeExpirationSeconds, now)
          THEN "EXPIRED"
        ELSE IF PingedWithin(m, MasternodeMinMNPSeconds, m.sigTime) \/ ~mnid
          THEN "PRE_ENABLED"
        ELSE "ENABLED"

SetState(m) == [m EXCEPT !.state = StateOf(m)]

Ban(m) == [m EXCEPT !.state = "POSE_BAN", !.banHeight = height + ListSize]

\* Mutant: an entry whose ban is over keeps its score.
CheckedSameScore(m) ==
    IF m.state = "OUTPOINT_SPENT" THEN m
    ELSE IF ~unspent THEN [m EXCEPT !.state = "OUTPOINT_SPENT"]
    ELSE IF m.state = "POSE_BAN"
      THEN IF height < m.banHeight THEN m ELSE SetState(m)
    ELSE IF IsPoSeBannedByScore(m) THEN Ban(m) ELSE SetState(m)

\* Mutant: a returned collateral revives the entry.
CheckedRevives(m) ==
    IF ~unspent THEN [m EXCEPT !.state = "OUTPOINT_SPENT"]
    ELSE IF m.state = "POSE_BAN"
      THEN IF height < m.banHeight THEN m ELSE SetState(DecrementPoSeBanScore(m))
    ELSE IF IsPoSeBannedByScore(m) THEN Ban(m) ELSE SetState(m)

Checked(m) ==
    IF m.state = "OUTPOINT_SPENT" THEN m
    ELSE IF ~unspent THEN [m EXCEPT !.state = "OUTPOINT_SPENT"]
    ELSE IF m.state = "POSE_BAN"
      THEN IF height < m.banHeight THEN m ELSE SetState(DecrementPoSeBanScore(m))
    ELSE IF IsPoSeBannedByScore(m) THEN Ban(m) ELSE SetState(m)

Check(m, force) ==
    IF ~force /\ now - m.lastChecked < MasternodeCheckSeconds THEN m
    ELSE Checked([m EXCEPT !.lastChecked = now])
-----------------------------------------------------------------------------
(***************************************************************************)
(* Pings and announcements applied to the entry m.                         *)
(***************************************************************************)
IsExpired(p) == now - p.sigTime > MasternodeNewStartRequiredSeconds

\* SimpleCheck of a ping.  Whether the block is in mapBlockIndex, which also
\* holds blocks ahead of the tip and off the chain, is part of `signed'.  The
\* heights are unsigned: on a chain shorter than the expiration window the
\* difference wraps around and every ping counts as too old.
SimpleCheck(p) ==
    /\ p.sigTime <= now + FutureSeconds
    /\ p.block # NoBlock
    /\ height >= MN_PING_HEIGHT_EXPIRATION
    /\ p.block >= height - MN_PING_HEIGHT_EXPIRATION

\* Mutant: a ping is not compared with the stored one.
PingAcceptedAnyOrder(m, p, skipEarly, signed) ==
    /\ ~IsExpired(p) /\ SimpleCheck(p)
    /\ m.state # "ENABLED" \/ skipEarly
         \/ ~PingedWithin(m, EarlyPingSeconds, p.sigTime)
    /\ signed

PingAccepted(m, p, skipEarly, signed) ==
    /\ ~IsExpired(p)
    /\ p.sigTime > m.ping.sigTime
    /\ SimpleCheck(p)
    /\ m.state # "ENABLED" \/ skipEarly
         \/ ~PingedWithin(m, EarlyPingSeconds, p.sigTime)
    /\ signed

SetLastPingAndCheck(m, p, skipEarly, signed) ==
    IF PingAccepted(m, p, skipEarly, signed)
      THEN Check([m EXCEPT !.ping = p], TRUE)
      ELSE m

\* The map of seen pings after setLastPingAndCheck.
SeenAfterPing(m, p, skipEarly, signed) ==
    IF IsExpired(p) THEN seenPings \ {p.sigTime}
    ELSE IF PingAccepted(m, p, skipEarly, signed) THEN seenPings \cup {p.sigTime}
    ELSE seenPings

\* The constructor from an announcement: the ping comes along unchecked.
NewEntry(b, state) ==
    [state |-> state, sigTime |-> b.sigTime, version |-> b.version,
     protocol |-> b.protocol, ping |-> b.ping, score |-> 0, banHeight |-> 0,
     lastChecked |-> 0]

NeedUpdateFromBroadcast(m, b) ==
    /\ b.version >= m.version /\ b.version >= MASTERNODE_VERSION
    /\ b.version > m.version \/ b.sigTime >= m.sigTime

Renewed(m, b) ==
    [m EXCEPT !.sigTime = b.sigTime, !.version = b.version,
              !.protocol = b.protocol, !.score = 0, !.banHeight = 0,
              !.lastChecked = 0]

UpdatesFrom(m, b, recovery) ==
    (b.sigTime > m.sigTime \/ recovery) /\ b.version >= m.version

UpdateFromNewBroadcast(m, b, signed) ==
    SetLastPingAndCheck(Renewed(m, b), b.ping, TRUE, signed)

\* Update returns before it checks the entry: a duplicate or an older one.
UpdateIgnored(m, b, recovery) ==
    \/ m.sigTime = b.sigTime /\ ~recovery /\ b.version <= m.version
    \/ b.sigTime < m.sigTime

\* Mutant: a banned masternode is not refused.
TakesBroadcastOfBanned(m, b, recovery, signed) ==
    /\ signed
    /\ ~IsBroadcastedWithin(m, MasternodeMinMNBSeconds)
    /\ UpdatesFrom(m, b, recovery)

\* The conditions of Update and UpdateFromNewBroadcast, after the check.
TakesBroadcast(m, b, recovery, signed) ==
    /\ m.state # "POSE_BAN"
    /\ signed
    /\ ~IsBroadcastedWithin(m, MasternodeMinMNBSeconds)
    /\ UpdatesFrom(m, b, recovery)

Update(m, b, recovery, signed, pingSigned) ==
    LET c == Check(m, FALSE)
    IN  IF UpdateIgnored(m, b, recovery) THEN m
        ELSE IF TakesBroadcast(c, b, recovery, signed)
          THEN Check(UpdateFromNewBroadcast(c, b, pingSigned), TRUE)
        ELSE c

SeenAfterUpdate(m, b, recovery, signed, pingSigned) ==
    LET c == Check(m, FALSE)
    IN  IF ~UpdateIgnored(m, b, recovery) /\ TakesBroadcast(c, b, recovery, signed)
          THEN SeenAfterPing(Renewed(c, b), b.ping, TRUE, pingSigned)
          ELSE seenPings

\* SimpleCheck of an announcement.
AcceptableBroadcast(b) ==
    b.sigTime <= now + FutureSeconds /\ b.protocol >= supported

\* CheckMnbAndUpdateMasternodeList on the entry m (or none): the entry and
\* the seen pings afterwards.  A collateral with too few confirmations or of
\* another owner is part of `signed'.
Announced(m, b, recovery, signed, pingSigned) ==
    IF ~AcceptableBroadcast(b) THEN m
    ELSE IF m = NoEntry
      THEN IF unspent /\ signed
             THEN SetLastPingAndCheck(NewEntry(b, "ENABLED"), b.ping, TRUE, pingSigned)
             ELSE m
    ELSE IF NeedUpdateFromBroadcast(m, b)
      THEN Update(m, b, recovery, signed, pingSigned)
    ELSE m

SeenAfterAnnounced(m, b, recovery, signed, pingSigned) ==
    IF ~AcceptableBroadcast(b) THEN seenPings
    ELSE IF m = NoEntry
      THEN IF unspent /\ signed
             THEN SeenAfterPing(NewEntry(b, "ENABLED"), b.ping, TRUE, pingSigned)
             ELSE seenPings
    ELSE IF NeedUpdateFromBroadcast(m, b)
      THEN SeenAfterUpdate(m, b, recovery, signed, pingSigned)
    ELSE seenPings
-----------------------------------------------------------------------------
(***************************************************************************)
(* The message handler.                                                    *)
(***************************************************************************)
MNAnnounce ==
    \E b \in Broadcasts, signed, pingSigned \in BOOLEAN :
        /\ mn' = Announced(mn, b, FALSE, signed, pingSigned)
        /\ seenPings' = SeenAfterAnnounced(mn, b, FALSE, signed, pingSigned)
        /\ UNCHANGED <<now, chain, listSynced, callbacks>>

\* Mutant: the announcement may be of any age.
TooLateForPingNever(m) == FALSE

\* The entry is beyond repair by a ping: its last announcement is old too.
TooLateForPing(m) ==
    /\ m.state = "NEW_START_REQUIRED"
    /\ ~IsBroadcastedWithin(m, MasternodeExpirationSeconds)

ExpiredPing(p) ==
    /\ IsExpired(p)
    /\ seenPings' = seenPings \ {p.sigTime}
    /\ UNCHANGED mn

NewPing(p, signed) ==
    /\ ~IsExpired(p) /\ p.sigTime \notin seenPings
    /\ seenPings' = seenPings \cup {p.sigTime}
    /\ mn' = IF mn = NoEntry \/ TooLateForPing(mn) THEN mn
             ELSE SetLastPingAndCheck(mn, p, FALSE, signed)

MNPing ==
    \E p \in Pings, signed \in BOOLEAN :
        /\ ExpiredPing(p) \/ NewPing(p, signed)
        /\ UNCHANGED <<now, chain, listSynced, callbacks>>

\* A verification reply or broadcast that proves the address, or names
\* another masternode at the same address.
VerificationPassed ==
    /\ mn # NoEntry /\ mn.score > -POSEBanMaxScore
    /\ mn' = DecrementPoSeBanScore(mn)
    /\ UNCHANGED <<seenPings, now, chain, listSynced, callbacks>>

VerificationFailed ==
    /\ mn # NoEntry
    /\ mn' = IncrementPoSeBanScore(mn)
    /\ UNCHANGED <<seenPings, now, chain, listSynced, callbacks>>
-----------------------------------------------------------------------------
(***************************************************************************)
(* CheckSameAddr, on the threads that move the tip.                        *)
(***************************************************************************)
\* Under cs_mnMgr: another masternode at the same address is verified.
CheckSameAddr ==
    /\ listSynced /\ mn # NoEntry /\ mn.state \in {"PRE_ENABLED", "ENABLED"}
    /\ listed + tested < TipThreads
    /\ listed' = listed + 1
    /\ UNCHANGED <<mn, seenPings, now, chain, listSynced, tested>>

\* Without the lock: IncrementPoSeBanScore looks at the score.
TestBanScore ==
    /\ listed > 0
    /\ listed' = listed - 1
    /\ tested' = IF mn.score < POSEBanMaxScore THEN tested + 1 ELSE tested
    /\ UNCHANGED <<mn, seenPings, now, chain, listSynced>>

\* It increments what is there by then.
RaiseBanScore ==
    /\ tested > 0
    /\ tested' = tested - 1
    /\ mn' = [mn EXCEPT !.score = @ + 1]
    /\ UNCHANGED <<seenPings, now, chain, listSynced, listed>>

\* When the entry leaves the map, the callbacks hold an object that is no
\* longer the entry.
Detached(kept) ==
    IF kept = NoEntry THEN listed' = 0 /\ tested' = 0 ELSE UNCHANGED callbacks
-----------------------------------------------------------------------------
(***************************************************************************)
(* The operator's commands.                                                *)
(***************************************************************************)
\* UpdateMasternodeList: takes the announcement without its checks.
UpdateMasternodeList(b, state, pingSigned) ==
    LET updates == mn # NoEntry /\ UpdatesFrom(mn, b, FALSE)
    IN  /\ mn' = IF mn = NoEntry THEN NewEntry(b, state)
                 ELSE IF updates THEN UpdateFromNewBroadcast(mn, b, pingSigned)
                 ELSE mn
        /\ seenPings' = IF updates /\ IsExpired(b.ping)
                          THEN seenPings \ {b.ping.sigTime}
                          ELSE seenPings \cup {b.ping.sigTime}
        /\ UNCHANGED <<now, chain, listSynced, callbacks>>

\* masternode start-alias from this wallet: an announcement signed now, for a
\* collateral that is confirmed and not spent.
StartAlias ==
    LET block == IF height >= MN_PING_HEIGHT_OFFSET
                   THEN height - MN_PING_HEIGHT_OFFSET ELSE NoBlock
        b == [sigTime |-> now, version |-> MASTERNODE_VERSION,
              protocol |-> MaxProtocol,
              ping |-> [sigTime |-> now, block |-> block]]
    IN  /\ now \in StartAliasTimes /\ unspent
        /\ UpdateMasternodeList(b, IF mnid THEN "ENABLED" ELSE "PRE_ENABLED", TRUE)

\* masternodebroadcast relay fast: any announcement with a good signature.
RelayFast ==
    \E b \in Broadcasts, pingSigned \in BOOLEAN :
        UpdateMasternodeList(b, "ENABLED", pingSigned)

\* masternode clear-cache; a synced node that finds too few masternodes in its
\* list does the same.
ClearCache ==
    \E items \in (SUBSET {"MN_LIST", "SEEN_MN_PING"}) \ {{}} :
        /\ mn' = IF "MN_LIST" \in items THEN NoEntry ELSE mn
        /\ seenPings' = IF "SEEN_MN_PING" \in items THEN {} ELSE seenPings
        /\ Detached(mn')
        /\ UNCHANGED <<now, chain, listSynced>>

\* pose-ban-score increment.
IncrementMasterNodePoSeBanScore ==
    /\ mn # NoEntry
    /\ LET m == IncrementPoSeBanScore(mn)
       IN  mn' = IF IsPoSeBannedByScore(m) THEN Check(m, TRUE) ELSE m
    /\ UNCHANGED <<seenPings, now, chain, listSynced, callbacks>>
-----------------------------------------------------------------------------
(***************************************************************************)
(* The maintenance thread.                                                 *)
(***************************************************************************)
CheckAll ==
    /\ mn # NoEntry
    /\ mn' = Check(mn, FALSE)
    /\ UNCHANGED <<seenPings, now, chain, listSynced, callbacks>>

NotExpired(seen) ==
    {t \in seen : now - t <= MasternodeNewStartRequiredSeconds}

\* The entry that CheckAndRemove's first loop leaves.
Kept(m) ==
    IF m = NoEntry \/ Check(m, FALSE).state = "OUTPOINT_SPENT" THEN NoEntry
    ELSE Check(m, FALSE)

\* Enough of the nodes asked for the entry may have sent it in recovery.
CheckAndRemove ==
    /\ listSynced
    /\ \/ /\ mn' = Kept(mn)
          /\ seenPings' = NotExpired(seenPings)
       \/ \E b \in Broadcasts, signed, pingSigned \in BOOLEAN :
            /\ mn' = Announced(Kept(mn), b, TRUE, signed, pingSigned)
            /\ seenPings' = NotExpired(
                    SeenAfterAnnounced(Kept(mn), b, TRUE, signed, pingSigned))
    /\ Detached(Kept(mn))
    /\ UNCHANGED <<now, chain, listSynced>>
-----------------------------------------------------------------------------
(***************************************************************************)
(* What goes on around the entry.                                          *)
(***************************************************************************)
Tick ==
    /\ now < MaxTime /\ now' = now + 1
    /\ UNCHANGED <<mn, seenPings, chain, listSynced, callbacks>>

\* A block is connected or disconnected; it may spend the collateral, give it
\* back, register the Pastel ID or start a new protocol epoch.
NewTip ==
    /\ height' \in {height - 1, height + 1} \cap Heights
    /\ unspent' \in BOOLEAN /\ mnid' \in BOOLEAN
    /\ supported' \in supported .. MaxProtocol
    /\ UNCHANGED <<mn, seenPings, now, listSynced, callbacks>>

ListSync ==
    /\ listSynced' = ~listSynced
    /\ UNCHANGED <<mn, seenPings, now, chain, callbacks>>

Next ==
    \/ MNAnnounce \/ MNPing \/ VerificationPassed \/ VerificationFailed
    \/ CheckSameAddr \/ TestBanScore \/ RaiseBanScore
    \/ StartAlias \/ RelayFast \/ ClearCache \/ IncrementMasterNodePoSeBanScore
    \/ CheckAll \/ CheckAndRemove
    \/ Tick \/ NewTip \/ ListSync

Spec == Init /\ [][Next]_vars
-----------------------------------------------------------------------------
(***************************************************************************)
(* Properties.                                                             *)
(***************************************************************************)
\* The entry is well formed.  Its score passes the limit of the PoSe counter
\* (mnode-masternode.cpp:964) by at most one for each tip callback at work on
\* it, the increments still to come included.
TypeOK ==
    /\ mn \in EntryType \cup {NoEntry}
    /\ seenPings \subseteq Times
    /\ now \in 0 .. MaxTime /\ height \in Heights
    /\ unspent \in BOOLEAN /\ mnid \in BOOLEAN
    /\ supported \in Protocols /\ listSynced \in BOOLEAN
    /\ listed \in Nat /\ tested \in Nat /\ listed + tested <= TipThreads
    /\ IF mn = NoEntry THEN listed + tested = 0
       ELSE mn.score + tested <= POSEBanMaxScore + TipThreads

Kind(m, states) == m # NoEntry /\ m.state \in states

\* The step removes the entry.  (It may be back at once, from a recovery that
\* was under way.)
Removed == (Kept(mn) = NoEntry /\ CheckAndRemove) \/ (mn' = NoEntry /\ ClearCache)

\* A ban is served: an entry in POSE_BAN keeps its state and its height until
\* the chain has reached that height, whatever checks, pings, announcements,
\* verifications and recoveries come in between.  Only a spent collateral or
\* an operator's command (start-alias, relay fast, clear-cache) ends it sooner.
BanServed ==
    [][Kind(mn, {"POSE_BAN"})
        => \/ Kind(mn', {"POSE_BAN"}) /\ mn'.banHeight = mn.banHeight
           \/ Kind(mn', {"OUTPOINT_SPENT"})
           \/ height >= mn.banHeight
           \/ StartAlias \/ RelayFast \/ Removed]_vars

\* "Masternode still will be on the edge and can be banned back easily if it
\* keeps ignoring mnverify or connect attempts" (mnode-masternode.cpp:595): an
\* entry that comes out of a ban is not banned again by the next check.
ReleasedOnProbation ==
    [][Kind(mn, {"POSE_BAN"}) /\ Kind(mn', States \ {"POSE_BAN", "OUTPOINT_SPENT"})
        => ~IsPoSeBannedByScore(mn')]_vars

\* What holds of it when tip callbacks overrun the limit: the release takes one
\* point off (mnode-masternode.cpp:598), so what keeps an entry at the limit
\* are increments, made or still to come, of callbacks that tested the score
\* before it got there.  Without such callbacks this is ReleasedOnProbation.
ReleasedBelowOverrun ==
    [][Kind(mn, {"POSE_BAN"}) /\ Kind(mn', States \ {"POSE_BAN", "OUTPOINT_SPENT"})
        => mn'.score + tested' < POSEBanMaxScore + TipThreads]_vars

\* An entry whose collateral was spent stays in that state until it is
\* removed, also when a reorganisation gives the collateral back.
SpentIsFinal ==
    [][Kind(mn, {"OUTPOINT_SPENT"})
        => Kind(mn', {"OUTPOINT_SPENT"}) \/ Removed]_vars

\* The last ping of an entry never goes back in time, in whatever order pings,
\* announcements and recovered announcements arrive.
PingsMoveForward ==
    [][Kind(mn, States) /\ Kind(mn', States)
        => mn'.ping.sigTime >= mn.ping.sigTime \/ Removed]_vars

\* An entry in NEW_START_REQUIRED whose announcement is old takes no ping that
\* brings it back to life: that needs a newer announcement or a recovery.  (A
\* check may still revive it with a ping it took before the announcement aged.)
LateNeedsAnnouncement ==
    [][Kind(mn, {"NEW_START_REQUIRED"})
            /\ Kind(mn', {"ENABLED", "PRE_ENABLED", "EXPIRED"})
        => \/ IsBroadcastedWithin(mn, MasternodeExpirationSeconds)
           \/ mn'.sigTime > mn.sigTime \/ mn'.ping = mn.ping
           \/ CheckAndRemove]_vars
=============================================================================
