-------------------------- MODULE MasternodeProofs --------------------------
(***************************************************************************)
(* Proofs about Masternode, for any clock, chain, messages and limits.     *)
(*                                                                         *)
(* TypeOK is inductive: its bound counts the increments that tip callbacks *)
(* have tested for and not yet made.  What a check, a ping or an           *)
(* announcement may do to an entry is stated once (Follows, Outcome), and  *)
(* the action properties are read off from it for each action.             *)
(***************************************************************************)
EXTENDS Masternode, TLAPS

Live == States \ {"POSE_BAN", "OUTPOINT_SPENT"}

\* The score of r is not above that of m, or below the limit.
NotRaised(m, r) == r.score <= m.score \/ r.score < POSEBanMaxScore
Lowered(m, r) == r.score < m.score \/ r.score < POSEBanMaxScore

\* The environment's part of the type invariant.
Around ==
    /\ now \in 0 .. MaxTime /\ height \in Heights
    /\ unspent \in BOOLEAN /\ mnid \in BOOLEAN
    /\ supported \in Protocols /\ listSynced \in BOOLEAN

\* A banned entry m that becomes r.
Sentence(m, r) ==
    \/ r.state = "POSE_BAN" /\ r.banHeight = m.banHeight
    \/ r.state = "OUTPOINT_SPENT"
    \/ height >= m.banHeight /\ (r.state \in Live => Lowered(m, r))

\* What a check or a ping makes of the entry m.
Follows(m, r) ==
    /\ r \in EntryType
    /\ r.sigTime = m.sigTime
    /\ r.ping.sigTime >= m.ping.sigTime
    /\ m.state = "OUTPOINT_SPENT" => r.state = "OUTPOINT_SPENT"
    /\ m.state = "POSE_BAN" => Sentence(m, r)
    /\ NotRaised(m, r)

\* What an announcement makes of the entry m.
Outcome(m, r) ==
    /\ r \in EntryType
    /\ r.ping.sigTime >= m.ping.sigTime
    /\ m.state = "OUTPOINT_SPENT" => r.state = "OUTPOINT_SPENT"
    /\ m.state = "POSE_BAN" => Sentence(m, r)
    /\ NotRaised(m, r)
-----------------------------------------------------------------------------
\* StateOf never bans an entry nor marks it spent.
LEMMA StateOfLive ==
    ASSUME NEW m \in EntryType
    PROVE  StateOf(m) \in Live
BY DEF StateOf, Live, States

\* Releasing a banned entry takes one point off, except at the lower end.
LEMMA DecrementBelow ==
    ASSUME NEW m \in EntryType
    PROVE  LET d == DecrementPoSeBanScore(m)
           IN  /\ d \in EntryType /\ Lowered(m, d) /\ d.score <= m.score
               /\ d.sigTime = m.sigTime /\ d.ping = m.ping
               /\ d.state = m.state /\ d.banHeight = m.banHeight
BY MasternodeAssumptions DEF DecrementPoSeBanScore, EntryType, Lowered

\* The end of a check sets the state only.
LEMMA SetStateFacts ==
    ASSUME NEW m \in EntryType
    PROVE  LET r == SetState(m)
           IN  /\ r \in EntryType /\ r.state \in Live
               /\ r.sigTime = m.sigTime /\ r.ping = m.ping
               /\ r.score = m.score /\ r.banHeight = m.banHeight
<1>1. StateOf(m) \in Live
  BY StateOfLive
<1>2. Live \subseteq States
  BY DEF Live
<1> QED
  BY <1>1, <1>2 DEF SetState, EntryType

\* Checked keeps a spent entry and a ban that is not over, and raises no score.
LEMMA CheckedFollows ==
    ASSUME Around, NEW m \in EntryType
    PROVE  Follows(m, Checked(m)) /\ Checked(m).ping = m.ping
<1> DEFINE r == Checked(m)
<1>0. m.ping.sigTime \in Int /\ m.score \in Int
  BY MasternodeAssumptions DEF EntryType, PingType, Times
<1>1. CASE m.state = "OUTPOINT_SPENT"
  <2>1. r = m
    BY <1>1 DEF Checked
  <2> QED
    BY <2>1, <1>0, <1>1 DEF Follows, NotRaised
<1>2. CASE m.state # "OUTPOINT_SPENT" /\ ~unspent
  <2>1. r = [m EXCEPT !.state = "OUTPOINT_SPENT"]
    BY <1>2 DEF Checked
  <2>2. /\ r \in EntryType /\ r.state = "OUTPOINT_SPENT"
        /\ r.ping = m.ping /\ r.sigTime = m.sigTime /\ r.score = m.score
    BY <2>1 DEF EntryType, States
  <2> QED
    BY <2>2, <1>0, <1>2 DEF Follows, NotRaised, Sentence
<1>3. CASE m.state = "POSE_BAN" /\ unspent /\ height < m.banHeight
  <2>1. r = m
    BY <1>3 DEF Checked
  <2> QED
    BY <2>1, <1>0, <1>3 DEF Follows, NotRaised, Sentence
<1>4. CASE m.state = "POSE_BAN" /\ unspent /\ ~(height < m.banHeight)
  <2> DEFINE d == DecrementPoSeBanScore(m)
  <2>1. r = SetState(d)
    BY <1>4 DEF Checked
  <2>2. /\ d \in EntryType /\ Lowered(m, d) /\ d.score <= m.score
        /\ d.sigTime = m.sigTime /\ d.ping = m.ping
    BY DecrementBelow
  <2> HIDE DEF d
  <2>3. /\ r \in EntryType /\ r.state \in Live /\ r.sigTime = d.sigTime
        /\ r.ping = d.ping /\ r.score = d.score
    BY <2>1, <2>2, SetStateFacts
  <2>4. height >= m.banHeight
    BY <1>4, MasternodeAssumptions DEF Around, Heights, EntryType
  <2> QED
    BY <2>2, <2>3, <2>4, <1>0, <1>4 DEF Follows, NotRaised, Lowered, Sentence
<1>5. CASE /\ m.state \notin {"OUTPOINT_SPENT", "POSE_BAN"}
           /\ unspent /\ IsPoSeBannedByScore(m)
  <2>1. r = Ban(m)
    BY <1>5 DEF Checked
  <2>2. height + ListSize \in 0 .. MaxHeight + ListSize
    BY MasternodeAssumptions DEF Around, Heights
  <2>3. /\ r \in EntryType /\ r.state = "POSE_BAN"
        /\ r.ping = m.ping /\ r.sigTime = m.sigTime /\ r.score = m.score
    BY <2>1, <2>2 DEF Ban, EntryType, States
  <2> QED
    BY <2>3, <1>0, <1>5 DEF Follows, NotRaised
<1>6. CASE /\ m.state \notin {"OUTPOINT_SPENT", "POSE_BAN"}
           /\ unspent /\ ~IsPoSeBannedByScore(m)
  <2>1. r = SetState(m)
    BY <1>6 DEF Checked
  <2>2. /\ r \in EntryType /\ r.state \in Live /\ r.sigTime = m.sigTime
        /\ r.ping = m.ping /\ r.score = m.score
    BY <2>1, SetStateFacts
  <2> QED
    BY <2>2, <1>0, <1>6 DEF Follows, NotRaised, Live
<1> QED
  BY <1>1, <1>2, <1>3, <1>4, <1>5, <1>6 DEF Around

\* So does Check, which may be skipped.
LEMMA CheckFollows ==
    ASSUME Around, NEW m \in EntryType, NEW force \in BOOLEAN
    PROVE  Follows(m, Check(m, force)) /\ Check(m, force).ping = m.ping
<1> DEFINE c == [m EXCEPT !.lastChecked = now]
<1>0. m.ping.sigTime \in Int /\ m.score \in Int
  BY MasternodeAssumptions DEF EntryType, PingType, Times
<1>1. now \in Times
  BY MasternodeAssumptions DEF Around, Times
<1>2. /\ c \in EntryType /\ c.state = m.state /\ c.sigTime = m.sigTime
      /\ c.ping = m.ping /\ c.score = m.score /\ c.banHeight = m.banHeight
  BY <1>1 DEF EntryType
<1> HIDE DEF c
<1>3. CASE Check(m, force) = m
  BY <1>0, <1>3 DEF Follows, NotRaised, Lowered, Sentence
<1>4. CASE Check(m, force) = Checked(c)
  <2>1. Follows(c, Checked(c)) /\ Checked(c).ping = c.ping
    BY <1>2, CheckedFollows
  <2> QED
    BY <1>2, <1>4, <2>1 DEF Follows, NotRaised, Lowered, Sentence
<1> QED
  BY <1>3, <1>4 DEF Check, c

\* A ping is taken only when it is newer than the last one.
LEMMA PingFollows ==
    ASSUME Around, NEW m \in EntryType, NEW p \in PingType,
           NEW skip \in BOOLEAN, NEW signed \in BOOLEAN
    PROVE  Follows(m, SetLastPingAndCheck(m, p, skip, signed))
<1> DEFINE c == [m EXCEPT !.ping = p]
<1>0. m.ping.sigTime \in Int /\ p.sigTime \in Int /\ m.score \in Int
  BY MasternodeAssumptions DEF EntryType, PingType, Times
<1>1. /\ c \in EntryType /\ c.state = m.state /\ c.sigTime = m.sigTime
      /\ c.ping = p /\ c.score = m.score /\ c.banHeight = m.banHeight
  BY DEF EntryType
<1> HIDE DEF c
<1>2. CASE PingAccepted(m, p, skip, signed)
  <2>1. SetLastPingAndCheck(m, p, skip, signed) = Check(c, TRUE)
    BY <1>2 DEF SetLastPingAndCheck, c
  <2>2. Follows(c, Check(c, TRUE)) /\ Check(c, TRUE).ping = c.ping
    BY <1>1, CheckFollows
  <2>3. p.sigTime >= m.ping.sigTime
    BY <1>0, <1>2 DEF PingAccepted
  <2> QED
    BY <1>1, <2>1, <2>2, <2>3 DEF Follows, NotRaised, Lowered, Sentence
<1>3. CASE ~PingAccepted(m, p, skip, signed)
  <2>1. SetLastPingAndCheck(m, p, skip, signed) = m
    BY <1>3 DEF SetLastPingAndCheck
  <2> QED
    BY <1>0, <2>1 DEF Follows, NotRaised, Lowered, Sentence
<1> QED
  BY <1>2, <1>3

\* The values a fresh entry starts with are in range.
LEMMA ZeroInRange ==
    /\ 0 \in Times
    /\ 0 \in -POSEBanMaxScore .. POSEBanMaxScore + TipThreads
    /\ 0 \in 0 .. MaxHeight + ListSize
BY MasternodeAssumptions DEF Times

\* The entry that a newer announcement renews, before its ping is looked at.
LEMMA RenewedFacts ==
    ASSUME NEW m \in EntryType, NEW b \in BroadcastType
    PROVE  LET r == Renewed(m, b)
           IN  /\ r \in EntryType /\ r.state = m.state
               /\ r.sigTime = b.sigTime /\ r.ping = m.ping /\ r.score = 0
BY ZeroInRange DEF Renewed, EntryType, BroadcastType

\* The entry made from an announcement is well formed.
LEMMA NewEntryType ==
    ASSUME NEW b \in BroadcastType, NEW st \in States
    PROVE  NewEntry(b, st) \in EntryType
BY ZeroInRange DEF NewEntry, EntryType, BroadcastType

\* UpdateFromNewBroadcast: the entry stays spent if it was, and comes out with
\* a score below the limit.
LEMMA UpdateFromFacts ==
    ASSUME Around, NEW m \in EntryType, NEW b \in BroadcastType,
           NEW signed \in BOOLEAN
    PROVE  LET r == UpdateFromNewBroadcast(m, b, signed)
           IN  /\ r \in EntryType /\ r.sigTime = b.sigTime
               /\ r.ping.sigTime >= m.ping.sigTime
               /\ m.state = "OUTPOINT_SPENT" => r.state = "OUTPOINT_SPENT"
               /\ r.score < POSEBanMaxScore
<1> DEFINE u == Renewed(m, b)
           r == UpdateFromNewBroadcast(m, b, signed)
<1>1. /\ u \in EntryType /\ u.state = m.state
      /\ u.sigTime = b.sigTime /\ u.ping = m.ping /\ u.score = 0
  BY RenewedFacts
<1>2. r = SetLastPingAndCheck(u, b.ping, TRUE, signed)
  BY DEF UpdateFromNewBroadcast
<1>3. b.ping \in PingType
  BY DEF BroadcastType
<1> HIDE DEF u, r
<1>4. Follows(u, r)
  BY <1>1, <1>2, <1>3, PingFollows
<1>5. r.score < POSEBanMaxScore
  <2>1. r.score \in Int
    BY <1>4, MasternodeAssumptions DEF Follows, EntryType
  <2> QED
    BY <1>1, <1>4, <2>1, MasternodeAssumptions DEF Follows, NotRaised
<1> QED
  BY <1>1, <1>4, <1>5 DEF Follows, r

\* Update: a banned entry stays as it is, and a ping comes only from a newer
\* announcement or in recovery.
LEMMA UpdateOutcome ==
    ASSUME Around, NEW m \in EntryType, NEW b \in BroadcastType,
           NEW rec \in BOOLEAN, NEW signed \in BOOLEAN, NEW ps \in BOOLEAN
    PROVE  LET r == Update(m, b, rec, signed, ps)
           IN  /\ Outcome(m, r)
               /\ rec \/ r.sigTime > m.sigTime \/ r.ping = m.ping
<1> DEFINE c == Check(m, FALSE)
           u == UpdateFromNewBroadcast(c, b, ps)
           r == Update(m, b, rec, signed, ps)
<1>0. /\ m.ping.sigTime \in Int /\ m.sigTime \in Int /\ b.sigTime \in Int
      /\ m.score \in Int
  BY MasternodeAssumptions DEF EntryType, PingType, BroadcastType, Times
<1>1. Follows(m, c) /\ c.ping = m.ping
  BY CheckFollows
<1>2. c \in EntryType
  BY <1>1 DEF Follows
<1>3. /\ u \in EntryType /\ u.sigTime = b.sigTime
      /\ u.ping.sigTime >= c.ping.sigTime
      /\ c.state = "OUTPOINT_SPENT" => u.state = "OUTPOINT_SPENT"
      /\ u.score < POSEBanMaxScore
  BY <1>2, UpdateFromFacts
<1>4. CASE r = m
  BY <1>0, <1>4 DEF Outcome, Sentence, NotRaised
<1>5. CASE r = c
  BY <1>1, <1>5 DEF Outcome, Follows
<1>6. CASE TakesBroadcast(c, b, rec, signed) /\ r = Check(u, TRUE)
  <2> HIDE DEF c, u, r
  <2>1. Follows(u, r)
    BY Zenon, <1>3, <1>6, CheckFollows
  <2>2. c.state # "POSE_BAN" /\ (rec \/ b.sigTime > c.sigTime)
    BY <1>6 DEF TakesBroadcast, UpdatesFrom
  <2>3. r \in EntryType /\ r.sigTime = b.sigTime /\ r.score < POSEBanMaxScore
    <3>1. r \in EntryType /\ r.sigTime = b.sigTime
      BY <1>3, <2>1 DEF Follows
    <3>2. r.score \in Int /\ u.score \in Int /\ POSEBanMaxScore \in Int
      BY <3>1, <1>3, MasternodeAssumptions DEF EntryType
    <3> QED
      BY <1>3, <2>1, <3>1, <3>2 DEF Follows, NotRaised
  <2>4. r.ping.sigTime >= m.ping.sigTime
    <3>1. u.ping.sigTime \in Int /\ r.ping.sigTime \in Int
      BY <1>3, <2>3, MasternodeAssumptions DEF EntryType, PingType, Times
    <3> QED
      BY <1>0, <1>1, <1>3, <2>1, <3>1 DEF Follows
  <2>5. m.state = "OUTPOINT_SPENT" => r.state = "OUTPOINT_SPENT"
    BY <1>1, <1>3, <2>1 DEF Follows
  <2>6. m.state = "POSE_BAN" => Sentence(m, r)
    <3>1. SUFFICES ASSUME m.state = "POSE_BAN" PROVE Sentence(m, r)
      OBVIOUS
    <3>2. CASE c.state = "OUTPOINT_SPENT"
      BY <1>3, <2>1, <3>2 DEF Follows, Sentence
    <3>3. CASE height >= m.banHeight
      BY <2>3, <3>3 DEF Sentence, Lowered
    <3> QED
      BY <1>1, <2>2, <3>1, <3>2, <3>3 DEF Follows, Sentence
  <2>7. rec \/ r.sigTime > m.sigTime
    BY <1>1, <2>2, <2>3 DEF Follows
  <2> QED
    BY <2>3, <2>4, <2>5, <2>6, <2>7 DEF Outcome, NotRaised, r
<1> QED
  BY <1>4, <1>5, <1>6 DEF Update

\* The same for an announcement of a known masternode, with all its checks.
LEMMA AnnouncedOutcome ==
    ASSUME Around, NEW m \in EntryType, NEW b \in BroadcastType,
           NEW rec \in BOOLEAN, NEW signed \in BOOLEAN, NEW ps \in BOOLEAN
    PROVE  LET r == Announced(m, b, rec, signed, ps)
           IN  /\ Outcome(m, r)
               /\ rec \/ r.sigTime > m.sigTime \/ r.ping = m.ping
<1> DEFINE r == Announced(m, b, rec, signed, ps)
<1>0. m.ping.sigTime \in Int /\ m.score \in Int /\ m # NoEntry
  BY MasternodeAssumptions, NoEntryAssumption DEF EntryType, PingType, Times
<1>1. CASE r = m
  BY <1>0, <1>1 DEF Outcome, Sentence, NotRaised
<1>2. CASE r = Update(m, b, rec, signed, ps)
  BY <1>2, UpdateOutcome
<1> QED
  BY <1>0, <1>1, <1>2 DEF Announced

\* An announcement of an unknown masternode makes a well-formed entry with a
\* clean record.
LEMMA AnnouncedNew ==
    ASSUME Around, NEW b \in BroadcastType,
           NEW rec \in BOOLEAN, NEW signed \in BOOLEAN, NEW ps \in BOOLEAN
    PROVE  LET r == Announced(NoEntry, b, rec, signed, ps)
           IN  r = NoEntry \/ (r \in EntryType /\ r.score < POSEBanMaxScore)
<1> DEFINE e == NewEntry(b, "ENABLED")
           r == SetLastPingAndCheck(e, b.ping, TRUE, ps)
<1>1. e \in EntryType /\ e.score = 0
  BY NewEntryType DEF States, NewEntry
<1>2. b.ping \in PingType
  BY DEF BroadcastType
<1>3. Announced(NoEntry, b, rec, signed, ps) \in {NoEntry, r}
  BY DEF Announced
<1> HIDE DEF e
<1>4. Follows(e, r)
  BY <1>1, <1>2, PingFollows
<1> HIDE DEF r
<1>5. r \in EntryType /\ r.score < POSEBanMaxScore
  <2>1. r \in EntryType /\ r.score \in Int
    BY <1>4, MasternodeAssumptions DEF Follows, EntryType
  <2> QED
    BY <1>1, <1>4, <2>1, MasternodeAssumptions DEF Follows, NotRaised
<1> QED
  BY <1>3, <1>5

\* The entry that the first loop of CheckAndRemove keeps.
LEMMA KeptFacts ==
    ASSUME Around, NEW m \in EntryType
    PROVE  \/ Kept(m) = NoEntry
           \/ /\ Kept(m) \in EntryType /\ Follows(m, Kept(m))
              /\ Kept(m).state # "OUTPOINT_SPENT"
<1>1. Follows(m, Check(m, FALSE))
  BY CheckFollows
<1> QED
  BY <1>1 DEF Kept, Follows

\* The seen pings are signing times.
LEMMA SeenType ==
    ASSUME seenPings \subseteq Times, NEW m, NEW b \in BroadcastType,
           NEW rec, NEW signed, NEW ps
    PROVE  SeenAfterAnnounced(m, b, rec, signed, ps) \subseteq Times
<1>1. b.ping.sigTime \in Times
  BY DEF BroadcastType, PingType
<1>2. \A n : SeenAfterPing(n, b.ping, TRUE, ps) \subseteq Times
  BY <1>1 DEF SeenAfterPing
<1>3. SeenAfterUpdate(m, b, rec, signed, ps) \subseteq Times
  BY <1>2 DEF SeenAfterUpdate
<1> QED
  BY <1>2, <1>3 DEF SeenAfterAnnounced
-----------------------------------------------------------------------------
(***************************************************************************)
(* One step on a present entry.                                            *)
(***************************************************************************)
\* A step that removes the entry, or that respects the bound of the score,
\* bans, spent collaterals, the order of pings and the need of an announcement.
StepRule ==
    \/ Removed
    \/ /\ mn' \in EntryType
       /\ mn'.score + tested' <= POSEBanMaxScore + TipThreads
       /\ mn'.ping.sigTime >= mn.ping.sigTime
       /\ mn.state = "OUTPOINT_SPENT" => mn'.state = "OUTPOINT_SPENT"
       /\ mn.state = "POSE_BAN" => Sentence(mn, mn') \/ StartAlias \/ RelayFast
       /\ mn.state = "POSE_BAN" /\ mn'.state \in Live
            => mn'.score + tested' < POSEBanMaxScore + TipThreads
       /\ mn.state = "NEW_START_REQUIRED"
            => \/ IsBroadcastedWithin(mn, MasternodeExpirationSeconds)
               \/ mn'.sigTime > mn.sigTime \/ mn'.ping = mn.ping
               \/ CheckAndRemove

\* A step that leaves the callbacks alone and raises no score stays in bounds.
LEMMA ScoreInBounds ==
    ASSUME TypeOK, mn # NoEntry, mn' \in EntryType, UNCHANGED callbacks
    PROVE  /\ NotRaised(mn, mn')
                => mn'.score + tested' <= POSEBanMaxScore + TipThreads
           /\ Lowered(mn, mn')
                => mn'.score + tested' < POSEBanMaxScore + TipThreads
<1>1. mn.score \in Int /\ mn'.score \in Int
  BY MasternodeAssumptions DEF TypeOK, EntryType
<1>2. /\ tested' = tested /\ tested \in Nat /\ listed \in Nat
      /\ listed + tested <= TipThreads
      /\ mn.score + tested <= POSEBanMaxScore + TipThreads
  BY DEF TypeOK, callbacks
<1> QED
  BY <1>1, <1>2, MasternodeAssumptions DEF NotRaised, Lowered

\* An entry whose ban is served is within the bounds that a release demands.
LEMMA ServedInBounds ==
    ASSUME TypeOK, mn # NoEntry, mn' \in EntryType, UNCHANGED callbacks,
           mn.state = "POSE_BAN", Sentence(mn, mn'), mn'.state \in Live
    PROVE  mn'.score + tested' < POSEBanMaxScore + TipThreads
BY ScoreInBounds DEF Sentence, Live

LEMMA MessageStep ==
    ASSUME TypeOK, mn # NoEntry, MNAnnounce \/ MNPing
    PROVE  StepRule
<1> USE DEF Around
<1>0. mn \in EntryType /\ Around
  BY DEF TypeOK
<1>a. UNCHANGED callbacks
  BY DEF MNAnnounce, MNPing
<1>1. CASE MNAnnounce
  <2>1. PICK b \in Broadcasts, signed \in BOOLEAN, ps \in BOOLEAN :
            mn' = Announced(mn, b, FALSE, signed, ps)
    BY <1>1 DEF MNAnnounce
  <2>2. b \in BroadcastType
    BY MasternodeAssumptions
  <2>3. /\ Outcome(mn, mn')
        /\ mn'.sigTime > mn.sigTime \/ mn'.ping = mn.ping
    BY ZenonT(30), <1>0, <2>1, <2>2, AnnouncedOutcome
  <2> QED
    BY <1>a, <2>3, ScoreInBounds, ServedInBounds DEF StepRule, Outcome
<1>2. CASE MNPing
  <2>1. PICK p \in Pings, signed \in BOOLEAN : ExpiredPing(p) \/ NewPing(p, signed)
    BY <1>2 DEF MNPing
  <2>2. p \in PingType
    BY MasternodeAssumptions
  <2>3. mn.ping.sigTime \in Int /\ mn.score \in Int
    BY <1>0, MasternodeAssumptions DEF EntryType, PingType, Times
  <2>4. CASE mn' = mn
    BY <1>0, <1>a, <2>3, <2>4, ScoreInBounds
       DEF StepRule, Sentence, NotRaised, Live
  <2>5. CASE ~TooLateForPing(mn) /\ mn' = SetLastPingAndCheck(mn, p, FALSE, signed)
    <3>1. Follows(mn, mn')
      BY <1>0, <2>2, <2>5, PingFollows
    <3> QED
      BY <1>a, <3>1, <2>5, ScoreInBounds, ServedInBounds
         DEF StepRule, Follows, TooLateForPing
  <2> QED
    BY <2>1, <2>4, <2>5 DEF ExpiredPing, NewPing
<1> QED
  BY <1>1, <1>2

\* Scores raised and lowered under the lock.
LEMMA ScoreStep ==
    ASSUME TypeOK, mn # NoEntry,
           VerificationPassed \/ VerificationFailed
             \/ IncrementMasterNodePoSeBanScore \/ CheckAll
    PROVE  StepRule
<1>0. mn \in EntryType /\ Around
  BY DEF TypeOK, Around
<1>1. mn.ping.sigTime \in Int /\ mn.score \in Int
  BY <1>0, MasternodeAssumptions DEF EntryType, PingType, Times
<1>a. UNCHANGED callbacks
  BY DEF VerificationPassed, VerificationFailed,
         IncrementMasterNodePoSeBanScore, CheckAll
<1>b. /\ tested' = tested /\ tested \in Nat /\ tested <= TipThreads
      /\ mn.score + tested <= POSEBanMaxScore + TipThreads
  BY <1>a, MasternodeAssumptions DEF TypeOK, callbacks
<1> DEFINE i == IncrementPoSeBanScore(mn)
<1>2. /\ i \in EntryType /\ i.state = mn.state /\ i.banHeight = mn.banHeight
      /\ i.ping = mn.ping /\ i.sigTime = mn.sigTime
  BY <1>0, MasternodeAssumptions DEF IncrementPoSeBanScore, EntryType
<1>c. /\ i.score \in Int /\ i.score + tested <= POSEBanMaxScore + TipThreads
      /\ i.score = mn.score \/ i.score <= POSEBanMaxScore
  BY <1>0, <1>1, <1>b, MasternodeAssumptions DEF IncrementPoSeBanScore, EntryType
<1> HIDE DEF i
<1>3. CASE VerificationPassed
  <2>1. /\ mn' \in EntryType /\ mn'.state = mn.state
        /\ mn'.banHeight = mn.banHeight /\ mn'.ping = mn.ping
        /\ mn'.score <= mn.score
    BY <1>0, <1>3, DecrementBelow DEF VerificationPassed
  <2> QED
    BY <1>1, <1>a, <2>1, ScoreInBounds DEF StepRule, Sentence, NotRaised, Live
<1>4. CASE mn' = i
  BY <1>1, <1>2, <1>4, <1>b, <1>c DEF StepRule, Sentence, Live
<1>5. CASE mn' = Check(i, TRUE)
  <2>1. Follows(i, mn') /\ mn'.ping = i.ping
    BY <1>0, <1>2, <1>5, CheckFollows
  <2>2. mn'.score \in Int
    BY <2>1, MasternodeAssumptions DEF Follows, EntryType
  <2>3. mn'.score + tested' <= POSEBanMaxScore + TipThreads
    BY <1>b, <1>c, <2>1, <2>2, MasternodeAssumptions DEF Follows, NotRaised
  <2>4. ASSUME mn.state = "POSE_BAN"
        PROVE  /\ Sentence(mn, mn')
               /\ mn'.state \in Live
                    => mn'.score + tested' < POSEBanMaxScore + TipThreads
    <3>1. Sentence(i, mn')
      BY <1>2, <2>1, <2>4 DEF Follows
    <3>2. Lowered(i, mn') => Lowered(mn, mn')
      BY <1>1, <1>c, <2>2, MasternodeAssumptions DEF Lowered
    <3>3. Sentence(mn, mn')
      BY <1>2, <3>1, <3>2 DEF Sentence
    <3>4. ASSUME mn'.state \in Live
          PROVE  mn'.score + tested' < POSEBanMaxScore + TipThreads
      <4>1. Lowered(mn, mn')
        <5>1. CASE mn'.state = "POSE_BAN" \/ mn'.state = "OUTPOINT_SPENT"
          BY <3>4, <5>1 DEF Live
        <5> QED
          BY <3>3, <3>4, <5>1 DEF Sentence
      <4> QED
        BY <1>1, <1>b, <2>2, <4>1, MasternodeAssumptions DEF Lowered
    <3> QED
      BY <3>3, <3>4
  <2> QED
    BY <1>2, <2>1, <2>3, <2>4 DEF StepRule, Follows
<1>6. CASE CheckAll
  <2>1. Follows(mn, mn') /\ mn'.ping = mn.ping
    BY <1>0, <1>6, CheckFollows DEF CheckAll
  <2> QED
    BY <1>a, <2>1, ScoreInBounds, ServedInBounds DEF StepRule, Follows
<1> QED
  BY <1>3, <1>4, <1>5, <1>6
     DEF VerificationFailed, IncrementMasterNodePoSeBanScore, i

\* The tip callbacks: a test adds an increment to come, within the bound since
\* the score is below the limit; the increment moves it to the score.
LEMMA CallbackStep ==
    ASSUME TypeOK, mn # NoEntry, CheckSameAddr \/ TestBanScore \/ RaiseBanScore
    PROVE  StepRule
<1>0. mn \in EntryType
  BY DEF TypeOK
<1>1. mn.ping.sigTime \in Int /\ mn.score \in Int
  BY <1>0, MasternodeAssumptions DEF EntryType, PingType, Times
<1>2. /\ tested \in Nat /\ listed \in Nat /\ listed + tested <= TipThreads
      /\ mn.score + tested <= POSEBanMaxScore + TipThreads
  BY DEF TypeOK
<1>3. CASE CheckSameAddr \/ TestBanScore
  <2>1. mn' = mn /\ mn.score + tested' <= POSEBanMaxScore + TipThreads
    BY <1>1, <1>2, <1>3, MasternodeAssumptions DEF CheckSameAddr, TestBanScore
  <2> QED
    BY <1>0, <1>1, <2>1 DEF StepRule, Sentence, Live
<1>4. CASE RaiseBanScore
  <2>1. mn.score + 1 \in -POSEBanMaxScore .. POSEBanMaxScore + TipThreads
    BY <1>0, <1>1, <1>2, <1>4, MasternodeAssumptions DEF RaiseBanScore, EntryType
  <2>2. /\ mn' \in EntryType /\ mn'.state = mn.state
        /\ mn'.banHeight = mn.banHeight /\ mn'.ping = mn.ping
        /\ mn'.score = mn.score + 1
    BY <1>0, <1>4, <2>1 DEF RaiseBanScore, EntryType
  <2>3. mn'.score + tested' <= POSEBanMaxScore + TipThreads
    BY <1>1, <1>2, <1>4, <2>2, MasternodeAssumptions DEF RaiseBanScore
  <2> QED
    BY <1>1, <2>2, <2>3 DEF StepRule, Sentence, Live
<1> QED
  BY <1>3, <1>4

\* The announcement that the operator's start command builds is well formed.
LEMMA OwnAnnouncement ==
    ASSUME TypeOK
    PROVE  LET block == IF height >= MN_PING_HEIGHT_OFFSET
                          THEN height - MN_PING_HEIGHT_OFFSET ELSE NoBlock
           IN  [sigTime |-> now, version |-> MASTERNODE_VERSION,
                protocol |-> MaxProtocol,
                ping |-> [sigTime |-> now, block |-> block]] \in BroadcastType
<1> DEFINE block == IF height >= MN_PING_HEIGHT_OFFSET
                      THEN height - MN_PING_HEIGHT_OFFSET ELSE NoBlock
<1>1. now \in Times
  BY MasternodeAssumptions DEF TypeOK, Times
<1>2. block \in Heights \cup {NoBlock}
  BY MasternodeAssumptions DEF TypeOK, Heights
<1>3. MASTERNODE_VERSION \in Versions /\ MaxProtocol \in Protocols
  BY MasternodeAssumptions DEF Versions, Protocols
<1> HIDE DEF block
<1> QED
  BY <1>1, <1>2, <1>3 DEF BroadcastType, PingType, block

\* UpdateMasternodeList leaves the entry alone or renews it.
LEMMA OperatorStep ==
    ASSUME TypeOK, mn # NoEntry, StartAlias \/ RelayFast
    PROVE  StepRule
<1>0. mn \in EntryType /\ Around /\ Broadcasts \subseteq BroadcastType
  BY MasternodeAssumptions DEF TypeOK, Around
<1>1. mn.ping.sigTime \in Int /\ mn.score \in Int
  BY <1>0, MasternodeAssumptions DEF EntryType, PingType, Times
<1>a. UNCHANGED callbacks
  BY DEF StartAlias, RelayFast, UpdateMasternodeList
<1>2. CASE mn' = mn
  BY <1>0, <1>1, <1>2, <1>a, ScoreInBounds
     DEF StepRule, Sentence, NotRaised, Live
<1>3. CASE \E b \in BroadcastType, ps \in BOOLEAN :
              UpdatesFrom(mn, b, FALSE) /\ mn' = UpdateFromNewBroadcast(mn, b, ps)
  <2>1. PICK b \in BroadcastType, ps \in BOOLEAN :
              UpdatesFrom(mn, b, FALSE) /\ mn' = UpdateFromNewBroadcast(mn, b, ps)
    BY <1>3
  <2>2. /\ mn' \in EntryType /\ mn'.sigTime = b.sigTime
        /\ mn'.ping.sigTime >= mn.ping.sigTime
        /\ mn.state = "OUTPOINT_SPENT" => mn'.state = "OUTPOINT_SPENT"
        /\ mn'.score < POSEBanMaxScore
    BY <1>0, <2>1, UpdateFromFacts
  <2>3. mn'.sigTime > mn.sigTime
    BY <2>1, <2>2 DEF UpdatesFrom
  <2>4. NotRaised(mn, mn') /\ Lowered(mn, mn')
    BY <2>2 DEF NotRaised, Lowered
  <2> QED
    BY <1>a, <2>2, <2>3, <2>4, ScoreInBounds DEF StepRule
<1>4. CASE StartAlias
  BY <1>2, <1>3, <1>4, OwnAnnouncement DEF StartAlias, UpdateMasternodeList
<1>5. CASE RelayFast
  BY <1>0, <1>2, <1>3, <1>5 DEF RelayFast, UpdateMasternodeList
<1> QED
  BY <1>4, <1>5

LEMMA RemoveStep ==
    ASSUME TypeOK, mn # NoEntry, CheckAndRemove
    PROVE  StepRule
<1>0. mn \in EntryType /\ Around
  BY DEF TypeOK, Around
<1> DEFINE k == Kept(mn)
<1>1. CASE k = NoEntry
  BY <1>1 DEF StepRule, Removed
<1>2. CASE k # NoEntry
  <2>1. k \in EntryType /\ Follows(mn, k) /\ k.state # "OUTPOINT_SPENT"
    BY <1>0, <1>2, KeptFacts
  <2>a. UNCHANGED callbacks
    BY <1>2 DEF CheckAndRemove, Detached
  <2>2. CASE mn' = k
    BY <2>1, <2>2, <2>a, ScoreInBounds, ServedInBounds DEF StepRule, Follows
  <2>3. CASE \E b \in Broadcasts, signed, ps \in BOOLEAN :
                mn' = Announced(k, b, TRUE, signed, ps)
    <3>1. Outcome(k, mn')
      <4>1. Broadcasts \subseteq BroadcastType
        BY MasternodeAssumptions
      <4>2. PICK b \in BroadcastType, signed \in BOOLEAN, ps \in BOOLEAN :
                mn' = Announced(k, b, TRUE, signed, ps)
        BY Zenon, <2>3, <4>1
      <4> HIDE DEF k
      <4> QED
        BY <1>0, <2>1, <4>2, AnnouncedOutcome
    <3> HIDE DEF k
    <3>a. /\ mn.score \in Int /\ k.score \in Int /\ mn'.score \in Int
          /\ POSEBanMaxScore \in Int
      BY <1>0, <2>1, <3>1, MasternodeAssumptions DEF Outcome, EntryType
    <3>2. mn'.ping.sigTime >= mn.ping.sigTime
      <4>1. /\ mn.ping.sigTime \in Int /\ k.ping.sigTime \in Int
            /\ mn'.ping.sigTime \in Int
        BY <1>0, <2>1, <3>1, MasternodeAssumptions
           DEF Outcome, EntryType, PingType, Times
      <4> QED
        BY <2>1, <3>1, <4>1 DEF Follows, Outcome
    <3>3. mn.state # "OUTPOINT_SPENT"
      BY <2>1 DEF Follows
    <3>4. mn.state = "POSE_BAN" => Sentence(mn, mn')
      <4> SUFFICES ASSUME mn.state = "POSE_BAN" PROVE Sentence(mn, mn')
        OBVIOUS
      <4>1. CASE k.state = "POSE_BAN" /\ k.banHeight = mn.banHeight
        <5>1. Sentence(k, mn')
          BY <4>1, <3>1 DEF Outcome
        <5>2. k.score <= mn.score \/ k.score < POSEBanMaxScore
          BY <2>1 DEF Follows, NotRaised
        <5> QED
          BY <4>1, <5>1, <5>2, <3>a DEF Sentence, Lowered
      <4>2. CASE height >= mn.banHeight /\ k.state \in Live
        <5>1. Lowered(mn, k) \/ (k.state = "POSE_BAN" /\ k.banHeight = mn.banHeight)
          BY <2>1, <4>2 DEF Follows, Sentence
        <5>2. Lowered(mn, k)
          BY <5>1, <4>2 DEF Live
        <5>3. Lowered(mn, mn')
          BY <5>2, <3>1, <3>a DEF Outcome, NotRaised, Lowered
        <5> QED
          BY <4>2, <5>3 DEF Sentence
      <4>3. CASE height >= mn.banHeight /\ k.state = "POSE_BAN"
        <5>1. Sentence(k, mn')
          BY <4>3, <3>1 DEF Outcome
        <5>2. mn'.state \in Live => Lowered(mn, mn')
          <6>1. mn'.state \in Live => Lowered(k, mn')
            BY <5>1 DEF Sentence, Live
          <6>2. NotRaised(mn, k)
            BY <2>1 DEF Follows
          <6> QED
            BY <6>1, <6>2, <3>a DEF Lowered, NotRaised
        <5> QED
          BY <4>3, <5>2 DEF Sentence
      <4>4. k.state \in States
        BY <2>1 DEF EntryType
      <4> QED
        BY <2>1, <4>1, <4>2, <4>3, <4>4 DEF Follows, Sentence, Live
    <3>5. NotRaised(mn, mn')
      BY <2>1, <3>1, <3>a DEF Follows, Outcome, NotRaised
    <3> QED
      BY <2>a, <3>1, <3>2, <3>3, <3>4, <3>5, ScoreInBounds, ServedInBounds
         DEF StepRule, Outcome
  <2> QED
    BY <2>2, <2>3 DEF CheckAndRemove
<1> QED
  BY <1>1, <1>2

\* A step that does not touch the entry nor the callbacks.
LEMMA IdleStep ==
    ASSUME TypeOK, mn # NoEntry, UNCHANGED <<mn, callbacks>>
    PROVE  StepRule
<1>1. mn \in EntryType
  BY DEF TypeOK
<1>2. mn.ping.sigTime \in Int /\ mn.score \in Int
  BY <1>1, MasternodeAssumptions DEF EntryType, PingType, Times
<1> QED
  BY <1>1, <1>2, ScoreInBounds DEF StepRule, Sentence, NotRaised, Live

\* Every step on a present entry obeys the rule.
LEMMA EveryStep ==
    ASSUME TypeOK, Next, mn # NoEntry
    PROVE  StepRule
<1>1. CASE Tick \/ NewTip \/ ListSync
  BY <1>1, IdleStep DEF Tick, NewTip, ListSync
<1>2. CASE ClearCache
  <2>1. CASE mn' = NoEntry
    BY <1>2, <2>1 DEF StepRule, Removed
  <2>2. CASE mn' # NoEntry
    BY <1>2, <2>2, IdleStep DEF ClearCache, Detached
  <2> QED
    BY <2>1, <2>2
<1> QED
  BY <1>1, <1>2, MessageStep, ScoreStep, CallbackStep, OperatorStep, RemoveStep
     DEF Next
-----------------------------------------------------------------------------
\* A well-formed entry below the limit, or none.
Fresh(m) == m = NoEntry \/ (m \in EntryType /\ m.score < POSEBanMaxScore)

\* From a state without the entry a step adds a fresh one or none.
LEMMA FirstEntry ==
    ASSUME TypeOK, Next, mn = NoEntry
    PROVE  Fresh(mn') /\ listed' = 0 /\ tested' = 0
<1>0. Around /\ Broadcasts \subseteq BroadcastType
  BY MasternodeAssumptions DEF TypeOK, Around
<1>a. listed = 0 /\ tested = 0
  BY DEF TypeOK
<1>1. CASE MNAnnounce
  <2>1. Fresh(mn')
    BY ZenonT(30), <1>0, <1>1, AnnouncedNew DEF MNAnnounce, Fresh
  <2> QED
    BY <1>1, <1>a, <2>1 DEF MNAnnounce, callbacks
<1>2. CASE CheckAndRemove
  <2>1. Kept(mn) = NoEntry
    BY DEF Kept
  <2>2. Fresh(mn')
    BY ZenonT(30), <1>0, <1>2, <2>1, AnnouncedNew DEF CheckAndRemove, Fresh
  <2> QED
    BY <1>2, <2>1, <2>2 DEF CheckAndRemove, Detached
<1>3. CASE StartAlias \/ RelayFast
  <2>1. \E b \in BroadcastType, st \in {"ENABLED", "PRE_ENABLED"} :
            mn' = NewEntry(b, st)
    <3>1. CASE StartAlias
      BY <3>1, OwnAnnouncement DEF StartAlias, UpdateMasternodeList
    <3>2. CASE RelayFast
      BY <3>2, <1>0 DEF RelayFast, UpdateMasternodeList
    <3> QED
      BY <1>3, <3>1, <3>2
  <2>2. PICK b \in BroadcastType, st \in {"ENABLED", "PRE_ENABLED"} :
            mn' = NewEntry(b, st)
    BY <2>1
  <2>3. mn' \in EntryType /\ mn'.score = 0
    BY <2>2, NewEntryType DEF States, NewEntry
  <2> QED
    BY <1>3, <1>a, <2>3, MasternodeAssumptions
       DEF StartAlias, RelayFast, UpdateMasternodeList, callbacks, Fresh
<1>4. CASE MNPing
  BY <1>4, <1>a DEF MNPing, ExpiredPing, NewPing, callbacks, Fresh
<1>5. CASE ClearCache
  BY <1>5, <1>a DEF ClearCache, Detached, callbacks, Fresh
<1>6. CASE Tick \/ NewTip \/ ListSync
  BY <1>6, <1>a DEF Tick, NewTip, ListSync, callbacks, Fresh
<1> QED
  BY <1>a, <1>1, <1>2, <1>3, <1>4, <1>5, <1>6
     DEF Next, VerificationPassed, VerificationFailed, CheckSameAddr,
         TestBanScore, RaiseBanScore, IncrementMasterNodePoSeBanScore, CheckAll

\* An entry that is removed is gone, or back with a score below the limit, and
\* no callback holds it.
LEMMA RemovedEntry ==
    ASSUME TypeOK, Removed
    PROVE  Fresh(mn') /\ listed' = 0 /\ tested' = 0
<1>1. Around /\ Broadcasts \subseteq BroadcastType
  BY MasternodeAssumptions DEF TypeOK, Around
<1>2. CASE Kept(mn) = NoEntry /\ CheckAndRemove
  <2>1. listed' = 0 /\ tested' = 0
    BY <1>2 DEF CheckAndRemove, Detached
  <2>2. \/ mn' = NoEntry
        \/ \E b \in Broadcasts, signed, ps \in BOOLEAN :
              mn' = Announced(NoEntry, b, TRUE, signed, ps)
    BY <1>2 DEF CheckAndRemove
  <2>3. CASE mn' # NoEntry
    <3>1. PICK b \in BroadcastType, signed \in BOOLEAN, ps \in BOOLEAN :
              mn' = Announced(NoEntry, b, TRUE, signed, ps)
      BY <1>1, <2>2, <2>3
    <3> QED
      BY Zenon, <1>1, <2>1, <3>1, AnnouncedNew DEF Fresh
  <2> QED
    BY <2>1, <2>3 DEF Fresh
<1>3. CASE mn' = NoEntry /\ ClearCache
  BY <1>3 DEF ClearCache, Detached, Fresh
<1> QED
  BY <1>2, <1>3 DEF Removed

\* The entry stays well formed and within the bound, with the callbacks.
LEMMA EntryStaysTyped ==
    ASSUME TypeOK, Next
    PROVE  /\ mn' \in EntryType \cup {NoEntry}
           /\ listed' \in Nat /\ tested' \in Nat /\ listed' + tested' <= TipThreads
           /\ IF mn' = NoEntry THEN listed' + tested' = 0
              ELSE mn'.score + tested' <= POSEBanMaxScore + TipThreads
<1>1. CASE Fresh(mn') /\ listed' = 0 /\ tested' = 0
  <2>1. mn' # NoEntry => mn'.score \in Int
    BY <1>1, MasternodeAssumptions DEF Fresh, EntryType
  <2> QED
    BY <1>1, <2>1, MasternodeAssumptions DEF Fresh
<1>2. CASE mn # NoEntry /\ ~Removed
  <2>1. /\ mn' \in EntryType
        /\ mn'.score + tested' <= POSEBanMaxScore + TipThreads
    BY <1>2, EveryStep DEF StepRule
  <2>2. mn' # NoEntry
    BY <2>1, NoEntryAssumption
  <2>3. listed' \in Nat /\ tested' \in Nat /\ listed' + tested' <= TipThreads
    <3>1. listed \in Nat /\ tested \in Nat /\ listed + tested <= TipThreads
      BY DEF TypeOK
    <3>2. CASE UNCHANGED callbacks
      BY <3>1, <3>2 DEF callbacks
    <3>3. CASE CheckSameAddr \/ TestBanScore \/ RaiseBanScore
      BY <3>1, <3>3, MasternodeAssumptions
         DEF CheckSameAddr, TestBanScore, RaiseBanScore
    <3>4. CASE CheckAndRemove \/ ClearCache
      BY <1>2, <2>2, <3>2, <3>4 DEF Removed, CheckAndRemove, ClearCache, Detached
    <3> QED
      BY <3>2, <3>3, <3>4
         DEF Next, MNAnnounce, MNPing, VerificationPassed, VerificationFailed,
             StartAlias, RelayFast, UpdateMasternodeList,
             IncrementMasterNodePoSeBanScore, CheckAll, Tick, NewTip, ListSync
  <2> QED
    BY <2>1, <2>2, <2>3
<1> QED
  BY <1>1, <1>2, FirstEntry, RemovedEntry

\* The rest of the type invariant.
LEMMA RestStaysTyped ==
    ASSUME TypeOK, Next
    PROVE  /\ seenPings' \subseteq Times
           /\ now' \in 0 .. MaxTime /\ height' \in Heights
           /\ unspent' \in BOOLEAN /\ mnid' \in BOOLEAN
           /\ supported' \in Protocols /\ listSynced' \in BOOLEAN
<1>0. Broadcasts \subseteq BroadcastType /\ Pings \subseteq PingType
  BY MasternodeAssumptions
<1> USE DEF TypeOK
<1>1. CASE MNAnnounce
  BY ZenonT(30), <1>0, <1>1, SeenType DEF MNAnnounce, chain
<1>2. CASE MNPing
  <2>1. \A p \in Pings : p.sigTime \in Times
    BY <1>0 DEF PingType
  <2> QED
    BY <1>2, <2>1 DEF MNPing, ExpiredPing, NewPing, chain
<1>3. CASE StartAlias
  <2>1. now \in Times
    BY MasternodeAssumptions DEF Times
  <2> QED
    BY <1>3, <2>1 DEF StartAlias, UpdateMasternodeList, chain
<1>9. CASE RelayFast
  <2>1. \A b \in Broadcasts : b.ping.sigTime \in Times
    BY <1>0 DEF BroadcastType, PingType
  <2> QED
    BY <1>9, <2>1 DEF RelayFast, UpdateMasternodeList, chain
<1>10. CASE ClearCache
  BY <1>10 DEF ClearCache, chain
<1>4. CASE CheckAndRemove
  <2>1. seenPings' \subseteq Times
    BY <1>0, <1>4, SeenType DEF CheckAndRemove, NotExpired
  <2> QED
    BY <1>4, <2>1 DEF CheckAndRemove, chain
<1>5. CASE VerificationPassed \/ VerificationFailed
             \/ IncrementMasterNodePoSeBanScore \/ CheckAll
             \/ CheckSameAddr \/ TestBanScore \/ RaiseBanScore
  BY Zenon, <1>5 DEF VerificationPassed, VerificationFailed,
              IncrementMasterNodePoSeBanScore, CheckAll,
              CheckSameAddr, TestBanScore, RaiseBanScore, chain
<1>6. CASE Tick
  BY <1>6, MasternodeAssumptions DEF Tick, chain
<1>7. CASE ListSync
  BY <1>7, Zenon DEF ListSync, chain
<1>8. CASE NewTip
  <2>1. supported' \in Protocols
    BY <1>8, MasternodeAssumptions DEF NewTip, Protocols
  <2>2. height' \in Heights /\ unspent' \in BOOLEAN /\ mnid' \in BOOLEAN
    BY <1>8, Zenon DEF NewTip
  <2> QED
    BY <1>8, <2>1, <2>2 DEF NewTip
<1> QED
  BY <1>1, <1>2, <1>3, <1>4, <1>5, <1>6, <1>7, <1>8, <1>9, <1>10 DEF Next

\* TypeOK holds in every reachable state, so a PoSe score passes its limit by at
\* most one for each tip callback at work on the entry.
THEOREM TypeCorrect == Spec => []TypeOK
<1>1. ASSUME Init PROVE TypeOK
  <2>1. /\ now \in 0 .. MaxTime /\ height \in Heights
        /\ supported \in Protocols
    BY <1>1, MasternodeAssumptions DEF Init, Heights, Protocols
  <2>2. unspent \in BOOLEAN /\ mnid \in BOOLEAN /\ listSynced \in BOOLEAN
    BY <1>1 DEF Init
  <2> QED
    BY <1>1, <2>1, <2>2, MasternodeAssumptions DEF Init, TypeOK
<1>2. TypeOK /\ [Next]_vars => TypeOK'
  <2>1. ASSUME TypeOK, Next PROVE TypeOK'
    BY <2>1, EntryStaysTyped, RestStaysTyped DEF TypeOK
  <2>2. ASSUME TypeOK, UNCHANGED vars PROVE TypeOK'
    BY <2>2 DEF TypeOK, vars
  <2> QED
    BY <2>1, <2>2
<1> QED
  BY <1>1, <1>2, PTL DEF Spec

\* Every ban is served: only the chain's height, a spent collateral or an
\* operator's command ends it.
THEOREM BansAreServed == Spec => BanServed
<1> DEFINE A == Kind(mn, {"POSE_BAN"})
                  => \/ Kind(mn', {"POSE_BAN"}) /\ mn'.banHeight = mn.banHeight
                     \/ Kind(mn', {"OUTPOINT_SPENT"})
                     \/ height >= mn.banHeight
                     \/ StartAlias \/ RelayFast \/ Removed
<1>1. TypeOK /\ [Next]_vars => [A]_vars
  <2>1. ASSUME TypeOK, Next, Kind(mn, {"POSE_BAN"}) PROVE A
    <3>1. mn # NoEntry /\ mn.state = "POSE_BAN"
      BY <2>1 DEF Kind
    <3>2. CASE mn' \in EntryType
      <4>1. mn' # NoEntry
        BY <3>2, NoEntryAssumption
      <4> QED
        BY <2>1, <3>1, <4>1, EveryStep DEF StepRule, Sentence, Kind
    <3> QED
      BY <2>1, <3>1, <3>2, EveryStep DEF StepRule
  <2> QED
    BY <2>1
<1> QED
  BY <1>1, TypeCorrect, PTL DEF Spec, BanServed

\* An entry that leaves a ban alive is below the limit but for the overrun of
\* tip callbacks.
THEOREM ReleasesUseUpOverrun == Spec => ReleasedBelowOverrun
<1> DEFINE A == Kind(mn, {"POSE_BAN"})
                  /\ Kind(mn', States \ {"POSE_BAN", "OUTPOINT_SPENT"})
                    => mn'.score + tested' < POSEBanMaxScore + TipThreads
<1>1. TypeOK /\ [Next]_vars => [A]_vars
  <2>1. ASSUME TypeOK, Next, Kind(mn, {"POSE_BAN"}), Kind(mn', Live)
        PROVE  mn'.score + tested' < POSEBanMaxScore + TipThreads
    <3>1. mn # NoEntry /\ mn.state = "POSE_BAN" /\ mn' # NoEntry
          /\ mn'.state \in Live
      BY <2>1 DEF Kind
    <3>2. CASE Removed
      <4>1. mn' \in EntryType /\ mn'.score < POSEBanMaxScore /\ tested' = 0
        BY <2>1, <3>1, <3>2, RemovedEntry DEF Fresh
      <4>2. mn'.score \in Int
        BY <4>1, MasternodeAssumptions DEF EntryType
      <4> QED
        BY <4>1, <4>2, MasternodeAssumptions
    <3>3. CASE ~Removed
      BY <2>1, <3>1, <3>3, EveryStep DEF StepRule
    <3> QED
      BY <3>2, <3>3
  <2> QED
    BY <2>1 DEF Live
<1> QED
  BY <1>1, TypeCorrect, PTL DEF Spec, ReleasedBelowOverrun

\* Tip callbacks are all that can keep a released entry at the limit: without
\* them it comes out on probation, as the comment in Check says.
THEOREM ProbationWithoutCallbacks ==
    ASSUME TipThreads = 0
    PROVE  Spec => ReleasedOnProbation
<1> DEFINE A == Kind(mn, {"POSE_BAN"})
                  /\ Kind(mn', States \ {"POSE_BAN", "OUTPOINT_SPENT"})
                    => mn'.score + tested' < POSEBanMaxScore + TipThreads
           B == Kind(mn, {"POSE_BAN"})
                  /\ Kind(mn', States \ {"POSE_BAN", "OUTPOINT_SPENT"})
                    => ~IsPoSeBannedByScore(mn')
<1>1. TypeOK' /\ [A]_vars => [B]_vars
  <2>1. ASSUME TypeOK', A, mn' # NoEntry, Kind(mn, {"POSE_BAN"}),
               Kind(mn', States \ {"POSE_BAN", "OUTPOINT_SPENT"})
        PROVE  ~IsPoSeBannedByScore(mn')
    <3>1. mn'.score \in Int /\ tested' \in Nat
      BY <2>1, MasternodeAssumptions DEF TypeOK, EntryType
    <3> QED
      BY <2>1, <3>1, MasternodeAssumptions DEF IsPoSeBannedByScore
  <2> QED
    BY <2>1 DEF Kind
<1> QED
  BY <1>1, TypeCorrect, ReleasesUseUpOverrun, PTL
     DEF ReleasedBelowOverrun, ReleasedOnProbation

\* A spent collateral is final for the entry that stood on it.
THEOREM SpentStaysFinal == Spec => SpentIsFinal
<1> DEFINE A == Kind(mn, {"OUTPOINT_SPENT"})
                  => Kind(mn', {"OUTPOINT_SPENT"}) \/ Removed
<1>1. TypeOK /\ [Next]_vars => [A]_vars
  <2>1. ASSUME TypeOK, Next, Kind(mn, {"OUTPOINT_SPENT"}) PROVE A
    <3>1. StepRule
      BY <2>1, EveryStep DEF Kind
    <3> QED
      BY <2>1, <3>1, NoEntryAssumption DEF StepRule, Kind
  <2> QED
    BY <2>1
<1> QED
  BY <1>1, TypeCorrect, PTL DEF Spec, SpentIsFinal

\* The last ping of an entry is never replaced by an older one.
THEOREM PingsGoForward == Spec => PingsMoveForward
<1> DEFINE A == Kind(mn, States) /\ Kind(mn', States)
                  => mn'.ping.sigTime >= mn.ping.sigTime \/ Removed
<1>1. TypeOK /\ [Next]_vars => [A]_vars
  <2>1. ASSUME TypeOK, Next, mn # NoEntry
        PROVE  mn'.ping.sigTime >= mn.ping.sigTime \/ Removed
    BY <2>1, EveryStep DEF StepRule
  <2> QED
    BY <2>1 DEF Kind
<1> QED
  BY <1>1, TypeCorrect, PTL DEF Spec, PingsMoveForward

\* No ping alone revives an entry that needs a new start.
THEOREM LateEntryNeedsAnnouncement == Spec => LateNeedsAnnouncement
<1> DEFINE A == Kind(mn, {"NEW_START_REQUIRED"})
                    /\ Kind(mn', {"ENABLED", "PRE_ENABLED", "EXPIRED"})
                  => \/ IsBroadcastedWithin(mn, MasternodeExpirationSeconds)
                     \/ mn'.sigTime > mn.sigTime \/ mn'.ping = mn.ping
                     \/ CheckAndRemove
<1>1. TypeOK /\ [Next]_vars => [A]_vars
  <2>1. ASSUME TypeOK, Next, Kind(mn, {"NEW_START_REQUIRED"})
        PROVE  A
    BY <2>1, EveryStep DEF StepRule, Kind, Removed
  <2> QED
    BY <2>1
<1> QED
  BY <1>1, TypeCorrect, PTL DEF Spec, LateNeedsAnnouncement
=============================================================================
