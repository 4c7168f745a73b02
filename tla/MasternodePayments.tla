------------------------- MODULE MasternodePayments -------------------------
(***************************************************************************)
(* The votes for the masternode that the next blocks pay (class            *)
(* CMasternodePayments) in one node.                                       *)
(*                                                                         *)
(* The message-handler thread takes the votes that arrive, the thread that *)
(* connects a block casts the node's own vote, the maintenance thread      *)
(* removes old votes and saves the maps, and the miner fills in the payee  *)
(* of its block template.  A step runs from one point where its thread     *)
(* holds no lock to the next one.                                          *)
(*                                                                         *)
(* A vote is its hash: the masternode, the height and the payee.  A block  *)
(* height's list of payees, each with its list of vote hashes, is kept as  *)
(* the sequence of the votes in the order they were added, which           *)
(* determines both lists.  What the masternode list says of a voter (its   *)
(* presence, protocol, rank and key) is chosen at each step: the list      *)
(* changes all the time and is not part of this component.                 *)
(***************************************************************************)
EXTENDS Integers, Sequences, FiniteSets

CONSTANTS
    Masternodes,
    Self,               \* the masternode this node is
    Payees,
    NoPayee,            \* a coinbase without masternode payment
    MaxTip,             \* bound: the highest block
    Ballots,            \* the votes the masternodes may sign
    StorageLimit,       \* GetStorageLimit
    FutureWindow,       \* votes for so many blocks ahead are taken (20)
    WinnerDelta,        \* the node votes so many blocks ahead (10)
    VotersDelta,        \* -nMasternodePaymentsVotersIndexDelta (101)
    SignaturesRequired, \* MNPAYMENTS_SIGNATURES_REQUIRED
    FewVoteCheck,       \* bEnableFewVoteCheck
    NoVote, NoHeight,
    MaxDumps,           \* bound: times the maps are saved
    MaxRestarts         \* bound: restarts

Tips == 0 .. MaxTip
Heights == 0 .. MaxTip + FutureWindow
Votes == [mn : Masternodes, height : Heights, payee : Payees]
Stages == {"none", "blockchain", "list"}

ASSUME PaymentsAssumptions ==
    /\ Ballots \subseteq Votes
    /\ NoVote \notin Votes /\ NoHeight \notin Heights /\ NoPayee \notin Payees
    /\ MaxTip \in Nat /\ StorageLimit \in Nat /\ FutureWindow \in Nat
    /\ WinnerDelta \in 0 .. FutureWindow /\ VotersDelta \in Nat
    /\ SignaturesRequired \in Nat /\ FewVoteCheck \in BOOLEAN
    /\ MaxDumps \in Nat /\ MaxRestarts \in Nat

VARIABLES
    stored,     \* mapMasternodePaymentVotes: the hashes it holds
    verified,   \* those of them that keep their signature
    payees,     \* mapMasternodeBlockPayees: the votes added for each height
    lastVote,   \* mapMasternodesLastVote
    tip,        \* nCachedBlockHeight
    stage,      \* how far the node is synced
    msg,        \* the message-handler thread in a vote message
    own,        \* the thread that connected a block, in ProcessBlock
    relayed,    \* own votes the network has
    template,   \* the miner's block template
    saved,      \* mnpayments.dat
    dumps, restarts

maps == <<stored, verified, payees>>
vars == <<stored, verified, payees, lastVote, tip, stage, msg, own, relayed,
          template, saved, dumps, restarts>>

IdleThread == [pc |-> "idle", vote |-> NoVote]
NoTemplate == [height |-> NoHeight, payee |-> NoPayee, voted |-> FALSE]
EmptyFile == [stored |-> {}, verified |-> {}, payees |-> [h \in Heights |-> <<>>]]

Init ==
    /\ stored = {} /\ verified = {} /\ payees = [h \in Heights |-> <<>>]
    /\ lastVote = [mn \in Masternodes |-> NoHeight]
    /\ tip = 0 /\ stage = "none"
    /\ msg = IdleThread /\ own = IdleThread
    /\ relayed = {} /\ template = NoTemplate
    /\ saved = EmptyFile /\ dumps = 0 /\ restarts = 0

-----------------------------------------------------------------------------
(* Counting the votes of one height. *)

PayeesOf(s) == {s[i].payee : i \in DOMAIN s}

GetVoteCount(s, p) == Cardinality({i \in DOMAIN s : s[i].payee = p})

\* The position of a payee in vecPayees is that of its first vote.
FirstVote(s, p) == CHOOSE i \in DOMAIN s :
    s[i].payee = p /\ \A j \in DOMAIN s : s[j].payee = p => i <= j

\* The best payee, or nothing.  Of two payees with most votes the one that
\* was added later is the best.
GetBestPayee(s) == {p \in PayeesOf(s) : \A q \in PayeesOf(s) \ {p} :
    \/ GetVoteCount(s, p) > GetVoteCount(s, q)
    \/ /\ GetVoteCount(s, p) = GetVoteCount(s, q)
       /\ FirstVote(s, p) > FirstVote(s, q)}

IsTransactionValidBestOnly(s, p) == s = <<>> \/ p \in GetBestPayee(s)

\* A coinbase that pays p, for a block whose votes are s.
IsTransactionValid(s, p) ==
    \/ s = <<>>
    \/ /\ ~FewVoteCheck
       /\ \A q \in PayeesOf(s) : GetVoteCount(s, q) < SignaturesRequired
    \/ p \in PayeesOf(s)

-----------------------------------------------------------------------------
(* A vote message. *)

\* A vote whose hash is in the map is ignored, any other one is stored as not
\* verified.
ReceiveVote(v) ==
    /\ msg.pc = "idle" /\ stage = "list"
    /\ v \in Ballots /\ (v.mn = Self => v \in relayed)
    /\ v \notin stored
    /\ stored' = stored \cup {v}
    /\ msg' = [pc |-> "validate", vote |-> v]
    /\ UNCHANGED <<verified, payees, lastVote, tip, stage, own, relayed,
                   template, saved, dumps, restarts>>

InRange(h) == tip - StorageLimit <= h /\ h <= tip + FutureWindow

\* Out of range, or refused by IsValid: the voter is unknown, its protocol too
\* old or its rank not among the first MNPAYMENTS_SIGNATURES_TOTAL.
VoteInvalid ==
    /\ msg.pc = "validate"
    /\ msg' = IdleThread
    /\ UNCHANGED <<maps, lastVote, tip, stage, own, relayed, template, saved,
                   dumps, restarts>>

\* CanVote remembers the last height a masternode voted for.
VoteRepeated ==
    /\ msg.pc = "validate" /\ InRange(msg.vote.height)
    /\ lastVote[msg.vote.mn] = msg.vote.height
    /\ msg' = IdleThread
    /\ UNCHANGED <<maps, lastVote, tip, stage, own, relayed, template, saved,
                   dumps, restarts>>

CanVote ==
    /\ msg.pc = "validate" /\ InRange(msg.vote.height)
    /\ lastVote[msg.vote.mn] # msg.vote.height
    /\ lastVote' = [lastVote EXCEPT ![msg.vote.mn] = msg.vote.height]
    /\ msg' = [msg EXCEPT !.pc = "authenticate"]
    /\ UNCHANGED <<maps, tip, stage, own, relayed, template, saved, dumps,
                   restarts>>

\* The voter left the list, or the signature is not of the key in the list.
SignatureRefused ==
    /\ msg.pc = "authenticate"
    /\ msg' = IdleThread
    /\ UNCHANGED <<maps, lastVote, tip, stage, own, relayed, template, saved,
                   dumps, restarts>>

\* The block that ranks the voters of height h is in the chain (height -1
\* stands for the tip).
HasRankBlock(h) == h - VotersDelta >= -1

\* The checks of AddPaymentVote, which hold no lock that storing needs.
AddPaymentVoteChecks(v) == HasRankBlock(v.height) /\ v \notin verified

SignatureAccepted ==
    /\ msg.pc = "authenticate"
    /\ msg' = IF AddPaymentVoteChecks(msg.vote)
              THEN [msg EXCEPT !.pc = "store"] ELSE IdleThread
    /\ UNCHANGED <<maps, lastVote, tip, stage, own, relayed, template, saved,
                   dumps, restarts>>

StoreVoteFallsThrough(v) ==
    /\ stored' = stored \cup {v} /\ verified' = verified \cup {v}
    /\ payees' = [payees EXCEPT ![v.height] =
                    IF v.payee \in PayeesOf(@) THEN @ \o <<v, v>> ELSE Append(@, v)]

\* AddPaymentVote under both locks.
StoreVote(v) ==
    /\ stored' = stored \cup {v} /\ verified' = verified \cup {v}
    /\ payees' = [payees EXCEPT ![v.height] = Append(@, v)]

AddReceivedVote ==
    /\ msg.pc = "store"
    /\ StoreVote(msg.vote)
    /\ msg' = IdleThread
    /\ UNCHANGED <<lastVote, tip, stage, own, relayed, template, saved, dumps,
                   restarts>>

-----------------------------------------------------------------------------
(* A new tip, and the node's own vote. *)

UpdatedBlockTipNext(h) ==
    /\ own.pc = "idle"
    /\ tip' = h + 1 /\ template' = NoTemplate
    /\ UNCHANGED <<maps, lastVote, stage, msg, own, relayed, saved, dumps,
                   restarts>>

\* ProcessBlock does not vote, or AddPaymentVote refuses the vote.  The miner
\* drops a template that is not on the tip.
UpdatedBlockTip(h) ==
    /\ own.pc = "idle"
    /\ tip' = h /\ template' = NoTemplate
    /\ UNCHANGED <<maps, lastVote, stage, msg, own, relayed, saved, dumps,
                   restarts>>

\* The node signs a vote for the height WinnerDelta ahead.
ProcessBlock(h, v) ==
    /\ own.pc = "idle" /\ stage = "list"
    /\ v \in Ballots /\ v.mn = Self /\ v.height = h + WinnerDelta
    /\ AddPaymentVoteChecks(v)
    /\ tip' = h /\ template' = NoTemplate
    /\ own' = [pc |-> "store", vote |-> v]
    /\ UNCHANGED <<maps, lastVote, stage, msg, relayed, saved, dumps, restarts>>

AddOwnVote ==
    /\ own.pc = "store"
    /\ StoreVote(own.vote)
    /\ own' = IdleThread /\ relayed' = relayed \cup {own.vote}
    /\ UNCHANGED <<lastVote, tip, stage, msg, template, saved, dumps, restarts>>

-----------------------------------------------------------------------------
(* The maintenance thread, the miner, restarts. *)

Old == {v \in stored : tip - v.height > StorageLimit}

CheckAndRemoveVotesOnly ==
    /\ stage # "none"
    /\ stored' = stored \ Old /\ verified' = verified \ Old
    /\ UNCHANGED <<payees, lastVote, tip, stage, msg, own, relayed, template,
                   saved, dumps, restarts>>

CheckAndRemove ==
    /\ stage # "none"
    /\ stored' = stored \ Old /\ verified' = verified \ Old
    /\ payees' = [h \in Heights |->
                    IF \E v \in Old : v.height = h THEN <<>> ELSE payees[h]]
    /\ UNCHANGED <<lastVote, tip, stage, msg, own, relayed, template, saved,
                   dumps, restarts>>

\* Pays the best payee, or the winner the node computes, or nobody.
FillMasterNodePayment(p) ==
    LET s == payees[tip + 1] IN
    /\ tip < MaxTip
    /\ p \in IF s = <<>> THEN Payees \cup {NoPayee} ELSE GetBestPayee(s)
    /\ template' = [height |-> tip + 1, payee |-> p, voted |-> s # <<>>]
    /\ UNCHANGED <<maps, lastVote, tip, stage, msg, own, relayed, saved, dumps,
                   restarts>>

\* The state of the synchronisation moves on or is reset.
SyncStage(s) ==
    /\ stage' = s
    /\ UNCHANGED <<maps, lastVote, tip, msg, own, relayed, template, saved,
                   dumps, restarts>>

\* Nothing reads a file saved after the last restart of the bound.
DumpCacheFiles ==
    /\ dumps < MaxDumps /\ restarts < MaxRestarts
    /\ saved' = [stored |-> stored, verified |-> verified, payees |-> payees]
    /\ dumps' = dumps + 1
    /\ UNCHANGED <<maps, lastVote, tip, stage, msg, own, relayed, template,
                   restarts>>

\* The node stops at any point and starts from the last saved file, or from
\* none: Dump renames the old file before the new one takes its place, and
\* without a masternode cache the file is not read.  The tip is announced again.
Restart ==
    /\ restarts < MaxRestarts
    /\ restarts' = restarts + 1
    /\ \E file \in {saved, EmptyFile} :
          /\ stored' = file.stored /\ verified' = file.verified
          /\ payees' = file.payees
    /\ lastVote' = [mn \in Masternodes |-> NoHeight]
    /\ stage' = "none"
    /\ msg' = IdleThread /\ own' = IdleThread /\ template' = NoTemplate
    /\ UNCHANGED <<tip, relayed, saved, dumps>>

VoteMessage ==
    \/ \E v \in Ballots : ReceiveVote(v)
    \/ VoteInvalid \/ VoteRepeated \/ CanVote
    \/ SignatureRefused \/ SignatureAccepted \/ AddReceivedVote

NewTip ==
    \/ \E h \in Tips : UpdatedBlockTip(h) \/ \E v \in Ballots : ProcessBlock(h, v)
    \/ AddOwnVote

Next ==
    \/ VoteMessage \/ NewTip \/ CheckAndRemove
    \/ \E p \in Payees \cup {NoPayee} : FillMasterNodePayment(p)
    \/ \E s \in Stages : SyncStage(s)
    \/ DumpCacheFiles \/ Restart

Spec == Init /\ [][Next]_vars

-----------------------------------------------------------------------------
(* Properties. *)

Threads == [pc : {"idle", "validate", "authenticate", "store"},
            vote : Votes \cup {NoVote}]

\* The variables keep their types, and a thread has a vote while it works on
\* one.
TypeOK ==
    /\ stored \subseteq Votes /\ verified \subseteq Votes
    /\ payees \in [Heights -> Seq(Votes)]
    /\ lastVote \in [Masternodes -> Heights \cup {NoHeight}]
    /\ tip \in Tips /\ stage \in Stages
    /\ msg \in Threads /\ (msg.pc # "idle" => msg.vote \in Votes)
    /\ own \in Threads /\ (own.pc # "idle" => own.vote \in Votes)
    /\ relayed \subseteq Votes
    /\ template \in [height : Heights \cup {NoHeight},
                     payee : Payees \cup {NoPayee}, voted : BOOLEAN]
    /\ saved \in [stored : SUBSET Votes, verified : SUBSET Votes,
                  payees : [Heights -> Seq(Votes)]]
    /\ dumps \in 0 .. MaxDumps /\ restarts \in 0 .. MaxRestarts

\* Every vote that counts for a payee is in the map of votes with its
\* signature, so PushPaymentVotes and Sync can hand it on: AddPaymentVote,
\* the removal of old votes and the files keep the two maps together.
CountedVerified ==
    \A h \in Heights : \A i \in DOMAIN payees[h] :
        payees[h][i] \in verified \cap stored /\ payees[h][i].height = h

\* "Avoid processing same vote multiple times": the vote of another masternode
\* counts once, however often it arrives, is removed or loaded again.
CountedOnce ==
    \A h \in Heights : \A i, j \in DOMAIN payees[h] :
        payees[h][i] = payees[h][j] /\ payees[h][i].mn # Self => i = j

\* A template that pays a payee that was voted for stays valid, whatever
\* votes arrive or are removed before the block is found.
TemplateStaysValid ==
    template.voted => IsTransactionValid(payees[template.height], template.payee)
=============================================================================
